SPECIFICATION DialogsFairSpec
CONSTANTS
  Keyboard <- MCKeys
  MaxAhead = 2
  MaxLine = 2
  MaxDisks = 1
  Unprintable = {"Tab"}
  Valid = {"y"}
  Words <- MCWords
INVARIANTS NothingMistaken LineIsTyped AccountGiven
PROPERTY KeysAnswered
