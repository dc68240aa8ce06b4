CONSTANTS
  letter = letter
  up = up
  down = down
  forward = forward
  back = back
  bracket = bracket
  ignored = ignored
  Typed <- MCTyped
  Bracket <- bracket
  Up <- up
  Down <- down
  Forward <- forward
  Back <- back
  Ignored <- ignored
  MaxLen = 2
  MaxLines = 3
SPECIFICATION Spec
INVARIANTS TypeOK ShownIsCurrent TwoEntersAtMost
PROPERTIES ImplementsLineBuffer
