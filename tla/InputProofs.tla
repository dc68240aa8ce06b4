---------------------------- MODULE InputProofs ----------------------------
(***************************************************************************)
(* Proofs about the programs that read line by line or key by key, in four *)
(* parts: facts about sequences that the library does not have, the shell's*)
(* line editor, the dialogs of the TUI installer, and the table of         *)
(* "network scan".                                                         *)
(*                                                                         *)
(* The first part says what FlattenSeq, a recursive function, returns; it  *)
(* is proved by induction over the length, which the prover gets from the  *)
(* well-foundedness of < as a fact about one set of numbers.  Bytes sent   *)
(* and lines printed are such flattened sequences.                         *)
(***************************************************************************)
EXTENDS LineEditor, Dialogs, Scan, SequenceTheorems, WellFoundedInduction, TLAPS

-----------------------------------------------------------------------------
(* 1. Sequences: recursion from one element to the next, and what          *)
(* FlattenSeq returns.                                                     *)

\* Induction over a set of numbers, from the well-foundedness of <.
LEMMA SetInduction ==
  ASSUME NEW P, 0 \in P, \A n \in Nat : n \in P => n + 1 \in P
  PROVE  Nat \subseteq P
<1> DEFINE T == Nat \ P
<1> SUFFICES ASSUME T # {} PROVE FALSE
  OBVIOUS
<1>1. PICK n \in T : \A m \in T : <<m, n>> \notin OpToRel(<, Nat)
  BY WFMin, NatLessThanWellFounded
<1>2. n - 1 \in Nat /\ n - 1 < n
  BY SMT
<1>3. <<n - 1, n>> \in OpToRel(<, Nat)
  BY <1>2, Zenon DEF OpToRel
<1>4. n - 1 \in P
  BY <1>1, <1>2, <1>3
<1> QED
  BY <1>2, <1>4

\* A function on 0 .. N may be defined from one argument to the next.
LEMMA RecursionExists ==
  ASSUME NEW T, NEW b \in T, NEW N \in Nat, NEW F \in [1 .. N -> [T -> T]]
  PROVE  \E f \in [0 .. N -> T] : f[0] = b /\ \A i \in 1 .. N : f[i] = F[i][f[i - 1]]
<1> DEFINE Upto(n, f) == f[0] = b /\ \A i \in 1 .. n : f[i] = F[i][f[i - 1]]
           Exists(n) == \E f \in [0 .. n -> T] : Upto(n, f)
           P == {n \in Nat : n <= N => Exists(n)}
<1>1. Exists(0)
  <2> DEFINE f == [i \in 0 .. 0 |-> b]
  <2>1. f \in [0 .. 0 -> T] /\ f[0] = b
    OBVIOUS
  <2>2. ASSUME NEW i \in 1 .. 0 PROVE FALSE
    OBVIOUS
  <2> HIDE DEF f
  <2> QED
    BY <2>1, <2>2
<1>2. ASSUME NEW n \in Nat, n + 1 <= N, Exists(n) PROVE Exists(n + 1)
  <2>1. PICK f \in [0 .. n -> T] : Upto(n, f)
    BY <1>2
  <2> DEFINE last == F[n + 1][f[n]]
             g == [i \in 0 .. n + 1 |-> IF i = n + 1 THEN last ELSE f[i]]
  <2>2. last \in T
    <3>1. f[n] \in T /\ F[n + 1] \in [T -> T]
      BY <1>2
    <3> QED
      BY <3>1
  <2>3. g \in [0 .. n + 1 -> T] /\ g[0] = b
    BY <2>1, <2>2
  <2>4. ASSUME NEW i \in 1 .. n + 1 PROVE g[i] = F[i][g[i - 1]]
    <3>1. CASE i = n + 1
      <4>1. g[i] = last /\ g[i - 1] = f[n]
        BY <3>1
      <4> QED
        BY <3>1, <4>1
    <3>2. CASE i # n + 1
      <4>1. i \in 1 .. n /\ g[i] = f[i] /\ g[i - 1] = f[i - 1]
        BY <3>2
      <4> QED
        BY <4>1, <2>1
    <3> QED
      BY <3>1, <3>2
  <2> HIDE DEF g
  <2> QED
    BY <2>3, <2>4
<1> HIDE DEF Exists
<1>3. 0 \in P /\ \A n \in Nat : n \in P => n + 1 \in P
  BY <1>1, <1>2
<1> HIDE DEF P
<1>4. N \in P
  BY <1>3, SetInduction
<1>5. Exists(N)
  BY <1>4 DEF P
<1> QED
  BY <1>5 DEF Exists

\* Two functions on 0 .. N that begin and go on alike.
Alike(N, f, g) == f[0] = g[0] /\ \A i \in 1 .. N : f[i - 1] = g[i - 1] => f[i] = g[i]

\* What begins alike and goes on alike is the same throughout.
LEMMA RecursionUnique ==
  ASSUME NEW N \in Nat, NEW f, NEW g, Alike(N, f, g)
  PROVE  \A i \in 0 .. N : f[i] = g[i]
<1>0. f[0] = g[0] /\ \A i \in 1 .. N : f[i - 1] = g[i - 1] => f[i] = g[i]
  BY DEF Alike
<1> DEFINE P == {n \in Nat : n <= N => f[n] = g[n]}
<1>1. ASSUME NEW n \in Nat, n + 1 <= N, f[n] = g[n] PROVE f[n + 1] = g[n + 1]
  <2>1. n + 1 \in 1 .. N /\ (n + 1) - 1 = n
    BY <1>1
  <2> QED
    BY <1>0, <1>1, <2>1
<1>2. 0 \in P /\ \A n \in Nat : n \in P => n + 1 \in P
  BY <1>0, <1>1
<1> HIDE DEF P
<1>3. Nat \subseteq P
  BY <1>2, SetInduction
<1> QED
  BY <1>3 DEF P

\* \o, for steps that need not know what it is.
Cat(s, t) == s \o t

Lists(S, ss) == ss \in Seq(Seq(S))

\* What is concatenated so far.
Flat(ss, f) == /\ f[0] = <<>>
               /\ \A i \in 1 .. Len(ss) : f[i] = Cat(f[i - 1], ss[i])

\* The members of a sequence of sequences.
LEMMA ListsType ==
  ASSUME NEW S, NEW ss, Lists(S, ss)
  PROVE  Len(ss) \in Nat /\ \A i \in 1 .. Len(ss) : ss[i] \in Seq(S)
BY ElementOfSeq, LenProperties DEF Lists

\* What concatenating does to the type, with nothing, and twice.
LEMMA CatType ==
  ASSUME NEW S, NEW s \in Seq(S), NEW t \in Seq(S), NEW u \in Seq(S)
  PROVE  /\ Cat(s, t) \in Seq(S)
         /\ Cat(Cat(s, t), u) = Cat(s, Cat(t, u))
         /\ Cat(<<>>, s) = s /\ Cat(s, <<>>) = s
BY ConcatProperties, ConcatEmptySeq, ConcatAssociative DEF Cat

\* There is a function that concatenates ss from the left.
LEMMA FlatExists ==
  ASSUME NEW S, NEW ss, Lists(S, ss)
  PROVE  \E f \in [0 .. Len(ss) -> Seq(S)] : Flat(ss, f)
<1> DEFINE N == Len(ss)
           T == Seq(S)
           e == <<>>
           F == [i \in 1 .. N |-> [x \in T |-> Cat(x, ss[i])]]
<1>1. N \in Nat /\ \A i \in 1 .. N : ss[i] \in T
  BY ListsType
<1>2. e \in T
  OBVIOUS
<1>3. ASSUME NEW s \in T, NEW t \in T PROVE Cat(s, t) \in T
  BY CatType
<1> HIDE DEF N, T, e
<1>4. F \in [1 .. N -> [T -> T]]
  BY <1>1, <1>3
<1> HIDE DEF F
<1>4a. N \in Nat
  BY <1>1
<1>5. PICK f \in [0 .. N -> T] : f[0] = e /\ \A i \in 1 .. N : f[i] = F[i][f[i - 1]]
  BY <1>4a, <1>2, <1>4, RecursionExists
<1>6. ASSUME NEW i \in 1 .. N PROVE f[i] = Cat(f[i - 1], ss[i])
  <2>1. f[i - 1] \in T
    BY <1>1
  <2> QED
    BY <1>5, <2>1 DEF F
<1> QED
  BY <1>5, <1>6 DEF Flat, N, T, e

\* It is what FlattenSeq returns.
LEMMA FlattenIsFlat ==
  ASSUME NEW S, NEW ss, Lists(S, ss),
         NEW f \in [0 .. Len(ss) -> Seq(S)], Flat(ss, f)
  PROVE  FlattenSeq(ss) = f[Len(ss)]
<1> DEFINE N == Len(ss)
           e == <<>>
           Fits(g) == g = [i \in 1 .. N |-> IF i = 1 THEN ss[i] ELSE Cat(g[i - 1], ss[i])]
           F == CHOOSE g : Fits(g)
<1>1. N \in Nat
  BY ListsType
<1>2. f[0] = e /\ \A i \in 1 .. N : f[i] = Cat(f[i - 1], ss[i])
  BY DEF Flat
<1>3. N # 0 => ss[1] \in Seq(S) /\ Cat(e, ss[1]) = ss[1]
  BY <1>1, ListsType, CatType
<1>4. IF N = 0 THEN FlattenSeq(ss) = e ELSE FlattenSeq(ss) = F[N]
  <2>1. CASE N = 0
    BY <2>1, ListsType DEF FlattenSeq, Lists
  <2>2. CASE N # 0
    BY <2>2 DEF FlattenSeq, Cat
  <2> QED
    BY <2>1, <2>2
<1> HIDE DEF N, e
<1>5. N # 0 => f[1] = ss[1]
  <2>1. N # 0 => f[1] = Cat(f[0], ss[1])
    BY <1>1, <1>2
  <2> QED
    BY <1>2, <1>3, <2>1
<1>6. Fits([i \in 1 .. N |-> f[i]])
  <2> DEFINE g == [i \in 1 .. N |-> f[i]]
  <2>1. ASSUME NEW i \in 1 .. N PROVE g[i] = IF i = 1 THEN ss[i] ELSE Cat(g[i - 1], ss[i])
    <3>1. CASE i = 1
      BY <1>1, <1>5, <3>1
    <3>2. CASE i # 1
      <4>1. i - 1 \in 1 .. N /\ f[i] = Cat(f[i - 1], ss[i])
        BY <1>1, <1>2, <3>2
      <4> QED
        BY <3>2, <4>1
    <3> QED
      BY <3>1, <3>2
  <2> QED
    BY <2>1
<1>7. Fits(F)
  BY <1>6
<1> HIDE DEF F
<1>8. ASSUME NEW i \in 1 .. N PROVE F[i] = IF i = 1 THEN ss[i] ELSE Cat(F[i - 1], ss[i])
  BY <1>7
<1> DEFINE G == [i \in 0 .. N |-> IF i = 0 THEN e ELSE F[i]]
<1>9. \A i \in 1 .. N : f[i - 1] = G[i - 1] => f[i] = G[i]
 <2> SUFFICES ASSUME NEW i \in 1 .. N, f[i - 1] = G[i - 1] PROVE f[i] = G[i]
   OBVIOUS
  <2>1. CASE i = 1
    BY <1>1, <1>5, <1>8, <2>1
  <2>2. CASE i # 1
    <3>1. i - 1 \in 1 .. N /\ f[i] = Cat(f[i - 1], ss[i]) /\ F[i] = Cat(F[i - 1], ss[i])
      BY <1>1, <1>2, <1>8, <2>2
    <3>2. G[i - 1] = F[i - 1] /\ G[i] = F[i]
      BY <1>1, <3>1
    <3> QED
      BY <3>1, <3>2
  <2> QED
    BY <2>1, <2>2
<1>10. f[0] = G[0]
  BY <1>1, <1>2
<1>11. N = 0 => G[N] = e
  BY <1>1
<1>12. N # 0 => G[N] = F[N]
  BY <1>1
<1> HIDE DEF G
<1> HIDE DEF Fits
<1>12a. \A i \in 0 .. N : f[i] = G[i]
  <2>1. Alike(N, f, G)
    BY <1>9, <1>10 DEF Alike
  <2> QED
    BY <1>1, <2>1, RecursionUnique
<1>13. f[N] = G[N]
  BY <1>1, <1>12a
<1> QED
  BY <1>4, <1>11, <1>12, <1>13 DEF N

\* FlattenSeq: its type, nothing, one more behind, one less in front.
LEMMA FlattenProperties ==
  ASSUME NEW S, NEW ss \in Seq(Seq(S))
  PROVE  /\ FlattenSeq(ss) \in Seq(S)
         /\ ss = <<>> => FlattenSeq(ss) = <<>>
         /\ \A e \in Seq(S) : FlattenSeq(Append(ss, e)) = FlattenSeq(ss) \o e
         /\ ss # <<>> => FlattenSeq(ss) = Head(ss) \o FlattenSeq(Tail(ss))
<1>0. Lists(S, ss) /\ Len(ss) \in Nat
  BY DEF Lists
<1>1. PICK f \in [0 .. Len(ss) -> Seq(S)] : Flat(ss, f)
  BY <1>0, FlatExists
<1>2. FlattenSeq(ss) = f[Len(ss)]
  BY <1>0, <1>1, FlattenIsFlat
<1>3. FlattenSeq(ss) \in Seq(S)
  BY <1>0, <1>2
<1>4. ss = <<>> => FlattenSeq(ss) = <<>>
  BY DEF FlattenSeq
<1>5. ASSUME NEW e \in Seq(S) PROVE FlattenSeq(Append(ss, e)) = Cat(FlattenSeq(ss), e)
  <2> DEFINE tt == Append(ss, e)
             N == Len(ss)
             g0(g) == [i \in 0 .. N |-> g[i]]
  <2>1. Lists(S, tt) /\ Len(tt) = N + 1 /\ tt[N + 1] = e
        /\ \A i \in 1 .. N : tt[i] = ss[i]
    BY <1>0 DEF Lists
  <2> HIDE DEF tt
  <2>2. PICK g \in [0 .. Len(tt) -> Seq(S)] : Flat(tt, g)
    BY <2>1, FlatExists
  <2>3. FlattenSeq(tt) = g[Len(tt)]
    BY <2>1, <2>2, FlattenIsFlat
  <2>4. /\ g[0] = <<>>
        /\ \A i \in 1 .. N + 1 : g[i] = Cat(g[i - 1], tt[i])
    BY <2>1, <2>2 DEF Flat
  <2> DEFINE k == [i \in 0 .. N |-> g[i]]
  <2>5. k \in [0 .. N -> Seq(S)] /\ \A i \in 0 .. N : k[i] = g[i]
    BY <1>0, <2>1
  <2>6. N + 1 \in 1 .. N + 1 /\ N \in 0 .. N /\ 0 \in 0 .. N
        /\ \A i \in 1 .. N : i \in 1 .. N + 1 /\ i \in 0 .. N /\ i - 1 \in 0 .. N
    BY <1>0
  <2> HIDE DEF k, N
  <2>7. k[0] = <<>> /\ \A i \in 1 .. N : k[i] = Cat(k[i - 1], ss[i])
    BY <2>1, <2>4, <2>5, <2>6
  <2>8. Flat(ss, k)
    BY <2>7 DEF Flat, N
  <2>9. FlattenSeq(ss) = k[N]
    BY <1>0, <2>5, <2>8, FlattenIsFlat DEF N
  <2>10. g[N + 1] = Cat(g[N], e)
    <3>1. (N + 1) - 1 = N
      BY <1>0 DEF N
    <3>2. g[N + 1] = Cat(g[(N + 1) - 1], tt[N + 1])
      BY <2>4, <2>6
    <3> QED
      BY <2>1, <3>1, <3>2
  <2> QED
    BY <2>1, <2>3, <2>5, <2>6, <2>9, <2>10 DEF tt
<1>6. ASSUME ss # <<>> PROVE FlattenSeq(ss) = Cat(Head(ss), FlattenSeq(Tail(ss)))
  <2> DEFINE tt == Tail(ss)
             h == Head(ss)
             N == Len(ss)
             M == Len(tt)
  <2>1. /\ tt \in Seq(Seq(S)) /\ h \in Seq(S) /\ h = ss[1] /\ M = N - 1 /\ N \in Nat \ {0}
        /\ \A i \in 1 .. N - 1 : tt[i] = ss[i + 1]
    BY <1>6, HeadTailProperties, EmptySeq
  <2>2. Lists(S, tt) /\ Lists(S, ss)
    BY <2>1 DEF Lists
  <2> HIDE DEF tt, h
  <2>3. PICK g \in [0 .. M -> Seq(S)] : Flat(tt, g)
    BY <2>2, FlatExists
  <2>4. FlattenSeq(tt) = g[M]
    BY <2>2, <2>3, FlattenIsFlat
  <2>5. g[0] = <<>> /\ \A i \in 1 .. M : g[i] = Cat(g[i - 1], tt[i])
    BY <2>3 DEF Flat
  <2>6. \A i \in 1 .. N : ss[i] \in Seq(S)
    BY <2>2, ListsType
  <2> DEFINE k == [i \in 0 .. N |-> IF i = 0 THEN <<>> ELSE Cat(h, g[i - 1])]
  <2> HIDE DEF M, N
  <2>7. \A i \in 0 .. M : g[i] \in Seq(S)
    OBVIOUS
  <2>8. k \in [0 .. N -> Seq(S)] /\ k[0] = <<>> /\ \A i \in 1 .. N : k[i] = Cat(h, g[i - 1])
    <3>1. ASSUME NEW i \in 1 .. N PROVE g[i - 1] \in Seq(S)
      BY <2>1, <2>7
    <3>2. <<>> \in Seq(S)
      OBVIOUS
    <3>3. \A i \in 1 .. N : Cat(h, g[i - 1]) \in Seq(S)
      BY <2>1, <3>1, CatType
    <3> HIDE DEF Cat
    <3>4. N \in Nat
      BY <2>1
    <3>5. k \in [0 .. N -> Seq(S)]
      BY <3>2, <3>3, <3>4 DEF k
    <3>6. k[0] = <<>> /\ \A i \in 1 .. N : k[i] = Cat(h, g[i - 1])
      BY <3>4 DEF k
    <3> QED
      BY <3>5, <3>6
  <2> HIDE DEF k
  <2>9. ASSUME NEW i \in 1 .. N PROVE k[i] = Cat(k[i - 1], ss[i])
    <3>1. CASE i = 1
      <4>1. k[1] = Cat(h, g[0]) /\ k[0] = <<>>
        BY <2>1, <2>8
      <4>2. Cat(h, <<>>) = h /\ Cat(<<>>, h) = h
        BY <2>1, CatType
      <4> QED
        BY <2>1, <2>5, <3>1, <4>1, <4>2
    <3>2. CASE i # 1
      <4>1. i - 1 \in 1 .. M /\ i - 1 \in 1 .. N /\ i - 2 \in 0 .. M /\ tt[i - 1] = ss[i]
        BY <2>1, <3>2
      <4>2. g[i - 1] = Cat(g[i - 2], ss[i])
        BY <2>1, <2>5, <4>1
      <4>3. Cat(h, Cat(g[i - 2], ss[i])) = Cat(Cat(h, g[i - 2]), ss[i])
        <5>1. h \in Seq(S) /\ g[i - 2] \in Seq(S) /\ ss[i] \in Seq(S)
          BY <2>1, <2>6, <2>7, <4>1
        <5> HIDE DEF Cat
        <5>2. ASSUME NEW u \in Seq(S) PROVE Cat(Cat(h, g[i - 2]), u) = Cat(h, Cat(g[i - 2], u))
          BY <5>1, CatType
        <5> QED
          BY <5>1, <5>2
      <4>4a. k[i] = Cat(h, g[i - 1])
        BY <2>8
      <4>4b. k[i - 1] = Cat(h, g[(i - 1) - 1])
        BY <2>8, <4>1
      <4>4c. (i - 1) - 1 = i - 2
        BY <2>1
      <4>4. k[i] = Cat(h, g[i - 1]) /\ k[i - 1] = Cat(h, g[i - 2])
        BY <4>4a, <4>4b, <4>4c
      <4> QED
        BY <4>2, <4>3, <4>4
    <3> QED
      BY <3>1, <3>2
  <2>10. Flat(ss, k)
    BY <2>8, <2>9 DEF Flat, N
  <2>11. FlattenSeq(ss) = k[N]
    BY <2>2, <2>8, <2>10, FlattenIsFlat DEF N
  <2>12. k[N] = Cat(h, g[M])
    BY <2>1, <2>8
  <2> QED
    BY <2>4, <2>11, <2>12 DEF h, tt
<1> QED
  BY <1>3, <1>4, <1>5, <1>6 DEF Cat

\* What f makes of each of them, one after the other.
Each(f, s) == [i \in 1 .. Len(s) |-> f[s[i]]]
Joined(f, s) == FlattenSeq(Each(f, s))

Maps(f, A, B) == f \in [A -> Seq(B)]

\* Each member is what f makes of the member of s in its place.
LEMMA EachType ==
  ASSUME NEW A, NEW B, NEW f, Maps(f, A, B), NEW s \in Seq(A)
  PROVE  Each(f, s) \in Seq(Seq(B)) /\ Len(Each(f, s)) = Len(s) /\ Len(s) \in Nat
         /\ \A i \in 1 .. Len(s) : Each(f, s)[i] = f[s[i]]
<1> DEFINE N == Len(s)
           T == Seq(B)
<1>1. N \in Nat /\ \A i \in 1 .. N : s[i] \in A
  BY LenProperties, ElementOfSeq
<1>2. \A i \in 1 .. N : f[s[i]] \in T
  BY <1>1 DEF Maps
<1> HIDE DEF N, T
<1>3. N \in Nat
  BY <1>1
<1>4. [i \in 1 .. N |-> f[s[i]]] \in Seq(T)
  BY <1>2, <1>3
<1>5. Len([i \in 1 .. N |-> f[s[i]]]) = N
  BY <1>3
<1> QED
  BY <1>3, <1>4, <1>5 DEF Each, N, T

\* Nothing joined is nothing.
LEMMA JoinedNothing ==
  ASSUME NEW f
  PROVE  Joined(f, <<>>) = <<>>
<1> DEFINE E == <<>>
           p == Each(f, E)
<1>1. E \in Seq(Seq({})) /\ Len(E) = 0
  OBVIOUS
<1>2. p = E
  BY DEF Each
<1>3. FlattenSeq(E) = E
  <2>1. E = <<>>
    OBVIOUS
  <2> HIDE DEF E
  <2> QED
    BY <1>1, <2>1, FlattenProperties
<1> HIDE DEF p
<1> QED
  BY <1>2, <1>3 DEF p, Joined

\* The same for what f makes of each member: one more behind, one less in front.
LEMMA JoinedProperties ==
  ASSUME NEW A, NEW B, NEW f, Maps(f, A, B), NEW s \in Seq(A)
  PROVE  /\ Joined(f, s) \in Seq(B)
         /\ s # <<>> => Joined(f, s) = f[Head(s)] \o Joined(f, Tail(s))
         /\ \A e \in A : Joined(f, Append(s, e)) = Joined(f, s) \o f[e]
<1> DEFINE T == Seq(B)
<1>1. /\ Each(f, s) \in Seq(T) /\ Len(Each(f, s)) = Len(s) /\ Len(s) \in Nat
      /\ \A i \in 1 .. Len(s) : Each(f, s)[i] = f[s[i]]
  BY EachType
<1>2. Joined(f, s) \in T
  BY <1>1, FlattenProperties DEF Joined
<1>4. ASSUME s # <<>> PROVE Joined(f, s) = f[Head(s)] \o Joined(f, Tail(s))
  <2> DEFINE p == Each(f, s)
             t == Tail(s)
             q == Each(f, t)
  <2>1. /\ t \in Seq(A) /\ Len(t) = Len(s) - 1 /\ Len(s) > 0
        /\ \A i \in 1 .. Len(t) : t[i] = s[i + 1]
        /\ Head(s) = s[1]
    BY <1>4, HeadTailProperties, EmptySeq
  <2> HIDE DEF t
  <2>2. /\ q \in Seq(T) /\ Len(q) = Len(s) - 1
        /\ \A i \in 1 .. Len(s) - 1 : q[i] = f[t[i]]
    BY <2>1, EachType
  <2>3. p # <<>>
    BY <1>1, <2>1
  <2>4. Tail(p) \in Seq(T) /\ Len(Tail(p)) = Len(s) - 1 /\ Head(p) = p[1]
        /\ \A i \in 1 .. Len(s) - 1 : Tail(p)[i] = p[i + 1]
    <3> HIDE DEF T, p
    <3> QED
      BY <1>1, <2>3, HeadTailProperties DEF p
  <2>5. \A i \in 1 .. Len(s) - 1 : Tail(p)[i] = q[i]
    <3> HIDE DEF p, q, T
    <3> TAKE i \in 1 .. Len(s) - 1
    <3>1. i + 1 \in 1 .. Len(s)
      BY <1>1
    <3>2. p[i + 1] = f[s[i + 1]]
      BY <1>1, <3>1 DEF p
    <3>3. q[i] = f[s[i + 1]]
      BY <2>1, <2>2
    <3> QED
      BY <2>4, <3>2, <3>3
  <2>6. Head(p) = f[Head(s)]
    <3>1. 1 \in 1 .. Len(s)
      BY <1>1, <2>1
    <3> QED
      BY <1>1, <2>1, <2>4, <3>1
  <2> HIDE DEF p, q, T
  <2>7. Tail(p) = q
    BY <2>2, <2>4, <2>5, SeqEqual
  <2>8. FlattenSeq(p) = Head(p) \o FlattenSeq(Tail(p))
    BY <1>1, <2>3, FlattenProperties DEF p, T
  <2> QED
    BY <2>6, <2>7, <2>8 DEF p, q, t, Joined
<1>5. ASSUME NEW e \in A PROVE Joined(f, Append(s, e)) = Joined(f, s) \o f[e]
  <2> DEFINE p == Each(f, s)
             t == Append(s, e)
             q == Each(f, t)
             b == f[e]
  <2>1. /\ t \in Seq(A) /\ Len(t) = Len(s) + 1 /\ t[Len(s) + 1] = e
        /\ \A i \in 1 .. Len(s) : t[i] = s[i]
    BY AppendProperties
  <2> HIDE DEF t
  <2>2. /\ q \in Seq(T) /\ Len(q) = Len(s) + 1
        /\ \A i \in 1 .. Len(s) + 1 : q[i] = f[t[i]]
    BY <2>1, EachType
  <2>3. b \in T
    BY DEF Maps
  <2> HIDE DEF p, q, T, b
  <2>4. /\ Append(p, b) \in Seq(T) /\ Len(Append(p, b)) = Len(s) + 1
        /\ \A i \in 1 .. Len(s) : Append(p, b)[i] = p[i]
        /\ Append(p, b)[Len(s) + 1] = b
    BY <1>1, <2>3, AppendProperties DEF p
  <2>5. ASSUME NEW i \in 1 .. Len(s) + 1 PROVE Append(p, b)[i] = q[i]
    <3>1. CASE i = Len(s) + 1
      BY <2>1, <2>2, <2>4, <3>1 DEF b
    <3>2. CASE i # Len(s) + 1
      <4>1. i \in 1 .. Len(s)
        BY <1>1, <3>2
      <4> QED
        BY <1>1, <2>1, <2>2, <2>4, <4>1 DEF p
    <3> QED
      BY <3>1, <3>2
  <2>6. Append(p, b) = q
    BY <2>2, <2>4, <2>5, SeqEqual
  <2>7. FlattenSeq(Append(p, b)) = FlattenSeq(p) \o b
    BY <1>1, <2>3, FlattenProperties DEF p, T
  <2> QED
    BY <2>6, <2>7 DEF p, q, t, b, Joined
<1> QED
  BY <1>2, <1>4, <1>5

\* A sequence is its head and its tail.
LEMMA HeadFirst ==
  ASSUME NEW S, NEW s \in Seq(S), s # <<>>
  PROVE  /\ Head(s) \in S /\ Tail(s) \in Seq(S) /\ s = <<Head(s)>> \o Tail(s)
         /\ Len(Tail(s)) = Len(s) - 1 /\ Len(s) \in Nat \ {0} /\ Head(s) = s[1]
<1>1. /\ Head(s) \in S /\ Tail(s) \in Seq(S)
      /\ Len(Tail(s)) = Len(s) - 1 /\ Len(s) \in Nat \ {0} /\ Head(s) = s[1]
  BY HeadTailProperties, EmptySeq
<1>2. SubSeq(s, 1, Len(s)) = <<s[1]>> \o SubSeq(s, 1 + 1, Len(s))
  <2>1. 1 \in 1 .. Len(s) /\ Len(s) \in 1 .. Len(s)
    BY <1>1
  <2> QED
    BY <2>1, SubSeqRecursiveFirst
<1>3. SubSeq(s, 1, Len(s)) = s
  BY SubSeqFull
<1>4. Tail(s) = SubSeq(s, 2, Len(s))
  BY TailIsSubSeq
<1> QED
  BY <1>1, <1>2, <1>3, <1>4

\* What is left of two equal concatenations without equal beginnings.
LEMMA Cancel ==
  ASSUME NEW S, NEW s \in Seq(S), NEW t \in Seq(S), NEW u \in Seq(S), NEW v \in Seq(S),
         s \o t = u \o v, Len(s) = Len(u)
  PROVE  s = u /\ t = v
<1>1. /\ Len(s) \in Nat /\ Len(t) \in Nat /\ Len(v) \in Nat
      /\ Len(s \o t) = Len(s) + Len(t) /\ Len(u \o v) = Len(u) + Len(v)
      /\ \A i \in 1 .. Len(s) + Len(t) : (s \o t)[i] = IF i <= Len(s) THEN s[i] ELSE t[i - Len(s)]
      /\ \A i \in 1 .. Len(u) + Len(v) : (u \o v)[i] = IF i <= Len(u) THEN u[i] ELSE v[i - Len(u)]
  BY ConcatProperties, LenProperties
<1>2. ASSUME NEW i \in 1 .. Len(s) PROVE s[i] = u[i]
  BY <1>1
<1>3. s = u
  BY <1>2, SeqEqual
<1>4. ASSUME NEW i \in 1 .. Len(t) PROVE t[i] = v[i]
  <2>1. /\ Len(s) + i \in 1 .. Len(s) + Len(t) /\ Len(s) + i \in 1 .. Len(u) + Len(v)
        /\ ~(Len(s) + i <= Len(s)) /\ Len(s) + i - Len(s) = i
    BY <1>1
  <2> DEFINE j == Len(s) + i
             w == s \o t
  <2>2. w[j] = IF j <= Len(s) THEN s[j] ELSE t[j - Len(s)]
    BY <2>1, ConcatProperties
  <2>3. w[j] = IF j <= Len(u) THEN u[j] ELSE v[j - Len(u)]
    BY <2>1, ConcatProperties
  <2> HIDE DEF w
  <2> QED
    BY <2>1, <2>2, <2>3
<1>5. Len(t) = Len(v)
  BY <1>1
<1>6. t = v
  BY <1>4, <1>5, SeqEqual
<1> QED
  BY <1>3, <1>6

\* The first of a concatenation.
LEMMA HeadOfConcat ==
  ASSUME NEW S, NEW r \in Seq(S), NEW t \in Seq(S), r # <<>>
  PROVE  r \o t # <<>> /\ Head(r \o t) = Head(r) /\ Tail(r \o t) = Tail(r) \o t
<1> DEFINE h == Head(r)
           q == Tail(r)
           l == <<h>>
           w == r \o t
           k == <<Head(w)>>
<1>1. h \in S /\ q \in Seq(S) /\ r = l \o q
  BY HeadFirst
<1>2. l \in Seq(S)
  BY <1>1
<1>3. w \in Seq(S) /\ w # <<>>
  BY ConcatProperties, ConcatEqualIffEmpty
<1>4. Head(w) \in S /\ Tail(w) \in Seq(S) /\ w = k \o Tail(w)
  BY <1>3, HeadFirst
<1>5. k \in Seq(S)
  BY <1>4
<1>6. Len(l) = Len(k)
  OBVIOUS
<1>7. q \o t \in Seq(S)
  BY <1>1, ConcatProperties
<1> HIDE DEF h, q, l, k
<1>8. (l \o q) \o t = l \o (q \o t)
  <2>1. l \in Seq(S) /\ q \in Seq(S) /\ t \in Seq(S)
    BY <1>1, <1>2
  <2> QED
    BY <2>1, ConcatAssociative
<1>9. w = l \o (q \o t)
  BY <1>1, <1>8
<1> HIDE DEF w
<1>10. l = k /\ q \o t = Tail(w)
  <2>1. l \o (q \o t) = k \o Tail(w)
    BY <1>4, <1>9
  <2> QED
    BY <1>2, <1>4, <1>5, <1>6, <1>7, <2>1, Cancel
<1>11. h = Head(w)
  BY <1>10 DEF l, k
<1> QED
  BY <1>3, <1>10, <1>11 DEF w, h, q

\* What is joined to nothing is nothing.
LEMMA NothingJoined ==
  ASSUME NEW S, NEW p \in Seq(S), NEW q \in Seq(S), p \o q = <<>>
  PROVE  p = <<>>
<1>1. Len(p) \in Nat /\ Len(q) \in Nat /\ Len(p \o q) = Len(p) + Len(q)
  BY LenProperties, ConcatProperties
<1>2. Len(p \o q) = 0
  <2>1. Len(<<>>) = 0
    OBVIOUS
  <2> QED
    BY <2>1
<1>3. Len(p) = 0
  BY <1>1, <1>2
<1> QED
  BY <1>3, EmptySeq

-----------------------------------------------------------------------------
(* 2. The line editor, for any bytes and bounds.  That no index is ever    *)
(* out of the line or the history is an invariant by itself; how many      *)
(* Enters are swallowed depends on where in an escape sequence the reader  *)
(* is.  The refinement of LineBuffer cuts line and history at cursor and   *)
(* index, so that it rests on what cutting, inserting and removing do.     *)

\* What is left for the escape sequence to swallow.
EntersInv == /\ pc \in {"run", "esc", "csi"} => enters = 0
             /\ pc = "other" => enters <= 1
             /\ pc = "key" => enters <= 2

IInv == TypeOK /\ ShownIsCurrent /\ EntersInv

-----------------------------------------------------------------------------
(* A sequence with a gap after its first k elements.                       *)

\* Both parts are sequences of the same elements, and make up the whole.
LEMMA Parts ==
  ASSUME NEW S, NEW s \in Seq(S), NEW k \in 0 .. Len(s)
  PROVE  /\ SubSeq(s, 1, k) \in Seq(S) /\ SubSeq(s, k + 1, Len(s)) \in Seq(S)
         /\ Len(SubSeq(s, 1, k)) = k
         /\ Len(SubSeq(s, k + 1, Len(s))) = Len(s) - k
         /\ \A i \in 1 .. k : SubSeq(s, 1, k)[i] = s[i]
         /\ \A i \in 1 .. Len(s) - k : SubSeq(s, k + 1, Len(s))[i] = s[k + i]
         /\ SubSeq(s, 1, k) \o SubSeq(s, k + 1, Len(s)) = s
<1>1. Len(s) \in Nat /\ \A i \in 1 .. Len(s) : s[i] \in S
  BY LenProperties, ElementOfSeq
<1>2. /\ SubSeq(s, 1, k) \in Seq(S)
      /\ Len(SubSeq(s, 1, k)) = IF 1 <= k THEN k - 1 + 1 ELSE 0
      /\ \A i \in 1 .. k - 1 + 1 : SubSeq(s, 1, k)[i] = s[1 + i - 1]
  BY <1>1, SubSeqProperties
<1>3. /\ SubSeq(s, k + 1, Len(s)) \in Seq(S)
      /\ Len(SubSeq(s, k + 1, Len(s)))
           = IF k + 1 <= Len(s) THEN Len(s) - (k + 1) + 1 ELSE 0
      /\ \A i \in 1 .. Len(s) - (k + 1) + 1 :
           SubSeq(s, k + 1, Len(s))[i] = s[(k + 1) + i - 1]
  BY <1>1, SubSeqProperties
<1>4. SubSeq(s, 1, k) \o SubSeq(s, k + 1, Len(s)) = SubSeq(s, 1, Len(s))
  <2>1. /\ 1 \in 1 .. Len(s) + 1 /\ k \in 1 - 1 .. Len(s)
        /\ Len(s) \in k .. Len(s)
    BY <1>1
  <2> QED BY <2>1, ConcatAdjacentSubSeq
<1>5. /\ Len(SubSeq(s, 1, k)) = k
      /\ Len(SubSeq(s, k + 1, Len(s))) = Len(s) - k
  BY <1>1, <1>2, <1>3
<1>6. \A i \in 1 .. k : SubSeq(s, 1, k)[i] = s[i]
  BY <1>1, <1>2
<1>7. \A i \in 1 .. Len(s) - k : SubSeq(s, k + 1, Len(s))[i] = s[k + i]
  <2> TAKE i \in 1 .. Len(s) - k
  <2>1. i \in 1 .. Len(s) - (k + 1) + 1 /\ (k + 1) + i - 1 = k + i
    BY <1>1
  <2> QED BY <1>3, <2>1
<1> QED BY <1>2, <1>3, <1>4, <1>5, <1>6, <1>7, SubSeqFull

\* The gap of a concatenation.
LEMMA Gap ==
  ASSUME NEW S, NEW a \in Seq(S), NEW b \in Seq(S)
  PROVE  /\ SubSeq(a \o b, 1, Len(a)) = a
         /\ SubSeq(a \o b, Len(a) + 1, Len(a \o b)) = b
<1>1. /\ a \o b \in Seq(S) /\ Len(a) \in Nat /\ Len(b) \in Nat
      /\ Len(a \o b) = Len(a) + Len(b)
      /\ \A i \in 1 .. Len(a) + Len(b) :
           (a \o b)[i] = IF i <= Len(a) THEN a[i] ELSE b[i - Len(a)]
  BY ConcatProperties, LenProperties
<1>2. Len(a) \in 0 .. Len(a \o b)
  BY <1>1
<1> DEFINE l == SubSeq(a \o b, 1, Len(a))
           r == SubSeq(a \o b, Len(a) + 1, Len(a \o b))
<1>3. /\ l \in Seq(S) /\ r \in Seq(S)
      /\ Len(l) = Len(a) /\ Len(r) = Len(a \o b) - Len(a)
      /\ \A i \in 1 .. Len(a) : l[i] = (a \o b)[i]
      /\ \A i \in 1 .. Len(a \o b) - Len(a) : r[i] = (a \o b)[Len(a) + i]
  BY <1>1, <1>2, Parts
<1> HIDE DEF l, r
<1>4. l = a
  <2>1. \A i \in 1 .. Len(l) : l[i] = a[i]
    BY <1>1, <1>3
  <2> QED BY <1>3, <2>1, SeqEqual
<1>5. r = b
  <2>1. \A i \in 1 .. Len(r) : r[i] = b[i]
    BY <1>1, <1>3
  <2> QED BY <1>1, <1>3, <2>1, SeqEqual
<1> QED BY <1>4, <1>5 DEF l, r

\* The gap moves back over one element.
LEMMA GapBack ==
  ASSUME NEW S, NEW s \in Seq(S), NEW k \in 1 .. Len(s)
  PROVE  /\ SubSeq(s, 1, k) # <<>>
         /\ Front(SubSeq(s, 1, k)) = SubSeq(s, 1, k - 1)
         /\ Last(SubSeq(s, 1, k)) = s[k]
         /\ SubSeq(s, k, Len(s)) = <<s[k]>> \o SubSeq(s, k + 1, Len(s))
<1>1. Len(s) \in Nat /\ k \in 0 .. Len(s) /\ Len(s) \in k .. Len(s)
  BY LenProperties
<1>2. SubSeq(s, 1, k) \in Seq(S) /\ Len(SubSeq(s, 1, k)) = k
      /\ \A i \in 1 .. k : SubSeq(s, 1, k)[i] = s[i]
  BY <1>1, Parts
<1>3. SubSeq(SubSeq(s, 1, k), 1, k - 1) = SubSeq(s, 1, k - 1)
  <2>1. CASE k = 1
    BY <2>1, SubSeqEmpty
  <2>2. CASE k > 1
    BY <1>1, <2>2, SubSeqOfSubSeq, 1 + 1 - 1 = 1, 1 + (k - 1) - 1 = k - 1
  <2> QED BY <1>1, <2>1, <2>2
<1>4. SubSeq(s, 1, k) # <<>>
  BY <1>1, <1>2, EmptySeq
<1>5. SubSeq(s, k, Len(s)) = <<s[k]>> \o SubSeq(s, k + 1, Len(s))
  BY <1>1, SubSeqRecursiveFirst
<1>6. Front(SubSeq(s, 1, k)) = SubSeq(s, 1, k - 1)
  BY <1>2, <1>3 DEF Front
<1>7. Last(SubSeq(s, 1, k)) = s[k]
  BY <1>1, <1>2 DEF Last
<1> QED BY <1>4, <1>5, <1>6, <1>7

\* The gap moves on over one element.
LEMMA GapOn ==
  ASSUME NEW S, NEW s \in Seq(S), NEW k \in 0 .. Len(s) - 1
  PROVE  /\ SubSeq(s, k + 1, Len(s)) # <<>>
         /\ Head(SubSeq(s, k + 1, Len(s))) = s[k + 1]
         /\ Append(SubSeq(s, 1, k), s[k + 1]) = SubSeq(s, 1, k + 1)
         /\ Tail(SubSeq(s, k + 1, Len(s))) = SubSeq(s, (k + 1) + 1, Len(s))
<1>1. /\ Len(s) \in Nat /\ k \in 0 .. Len(s) /\ k + 1 \in 1 .. Len(s)
      /\ Len(s) \in k + 1 .. Len(s) /\ 1 \in 1 .. Len(s) /\ k + 1 \in 1 .. Len(s)
      /\ (k + 1) - 1 = k
  BY LenProperties
<1>2. /\ SubSeq(s, 1, k) \in Seq(S) /\ s[k + 1] \in S
      /\ SubSeq(s, k + 1, Len(s)) \in Seq(S)
      /\ Len(SubSeq(s, k + 1, Len(s))) # 0
  BY <1>1, Parts, ElementOfSeq
<1>3. SubSeq(s, k + 1, Len(s)) # <<>>
  <2>1. Len(<<>>) = 0
    BY EmptySeq
  <2> QED BY <1>2, <2>1
<1>4. SubSeq(s, 1, k + 1) = SubSeq(s, 1, (k + 1) - 1) \o <<s[k + 1]>>
  BY <1>1, SubSeqRecursiveSecond
<1>5. Append(SubSeq(s, 1, k), s[k + 1]) = SubSeq(s, 1, k + 1)
  BY <1>1, <1>2, <1>4, AppendIsConcat
<1> QED BY <1>1, <1>3, <1>5, HeadTailOfSubSeq

\* InsertAt puts c between the two parts.
LEMMA InsertIsConcat ==
  ASSUME NEW S, NEW s \in Seq(S), NEW k \in 0 .. Len(s), NEW c \in S
  PROVE  /\ InsertAt(s, k + 1, c)
              = Append(SubSeq(s, 1, k), c) \o SubSeq(s, k + 1, Len(s))
         /\ Append(SubSeq(s, 1, k), c) \in Seq(S)
         /\ Len(Append(SubSeq(s, 1, k), c)) = k + 1
<1> DEFINE l == SubSeq(s, 1, k)
           r == SubSeq(s, k + 1, Len(s))
<1>1. l \in Seq(S) /\ r \in Seq(S) /\ Len(l) = k
  BY Parts
<1>2. InsertAt(s, k + 1, c) = (l \o <<c>>) \o r
  <2>1. (k + 1) - 1 = k
    OBVIOUS
  <2> QED BY <2>1 DEF InsertAt
<1> HIDE DEF l, r
<1>3. /\ l \o <<c>> = Append(l, c) /\ Append(l, c) \in Seq(S)
      /\ Len(Append(l, c)) = k + 1
  BY <1>1, AppendIsConcat, AppendProperties
<1> QED BY <1>2, <1>3 DEF l, r

\* It makes a line one longer.
LEMMA InsertLength ==
  ASSUME NEW S, NEW s \in Seq(S), NEW k \in 0 .. Len(s), NEW c \in S
  PROVE  /\ InsertAt(s, k + 1, c) \in Seq(S)
         /\ Len(InsertAt(s, k + 1, c)) = Len(s) + 1
<1> DEFINE l == Append(SubSeq(s, 1, k), c)
           r == SubSeq(s, k + 1, Len(s))
<1>1. r \in Seq(S) /\ Len(s) \in Nat /\ Len(r) = Len(s) - k
  BY Parts, LenProperties
<1>2. InsertAt(s, k + 1, c) = l \o r /\ l \in Seq(S) /\ Len(l) = k + 1
  BY InsertIsConcat
<1> HIDE DEF l, r
<1>3. l \o r \in Seq(S) /\ Len(l \o r) = Len(l) + Len(r)
  BY <1>1, <1>2, ConcatProperties
<1>4. Len(l) + Len(r) = Len(s) + 1
  BY <1>1, <1>2
<1> QED BY <1>2, <1>3, <1>4

\* It lengthens the part before the gap only.
LEMMA InsertParts ==
  ASSUME NEW S, NEW s \in Seq(S), NEW k \in 0 .. Len(s), NEW c \in S,
         NEW t, t = InsertAt(s, k + 1, c)
  PROVE  /\ SubSeq(t, 1, k + 1) = Append(SubSeq(s, 1, k), c)
         /\ SubSeq(t, (k + 1) + 1, Len(t)) = SubSeq(s, k + 1, Len(s))
<1> DEFINE l == Append(SubSeq(s, 1, k), c)
           r == SubSeq(s, k + 1, Len(s))
<1>1. r \in Seq(S)
  BY Parts
<1>2. t = l \o r /\ l \in Seq(S) /\ Len(l) = k + 1
  BY InsertIsConcat
<1> HIDE DEF l, r
<1>3. SubSeq(l \o r, 1, k + 1) = l /\ SubSeq(l \o r, (k + 1) + 1, Len(l \o r)) = r
  BY <1>1, <1>2, Gap
<1> QED BY <1>2, <1>3 DEF l, r

\* RemoveAt makes a line one shorter.
LEMMA RemoveLength ==
  ASSUME NEW S, NEW s \in Seq(S), NEW k \in 1 .. Len(s)
  PROVE  /\ RemoveAt(s, k) \in Seq(S)
         /\ Len(RemoveAt(s, k)) = Len(s) - 1
<1> DEFINE l == SubSeq(s, 1, k - 1)
           r == SubSeq(s, k + 1, Len(s))
<1>0. k \in 0 .. Len(s) /\ k - 1 \in 0 .. Len(s) /\ Len(s) \in Nat
  BY LenProperties
<1>1. l \in Seq(S) /\ r \in Seq(S) /\ Len(l) = k - 1 /\ Len(r) = Len(s) - k
  BY <1>0, Parts
<1>2. RemoveAt(s, k) = l \o r
  BY DEF RemoveAt
<1> HIDE DEF l, r
<1>3. l \o r \in Seq(S) /\ Len(l \o r) = Len(l) + Len(r)
  BY <1>1, ConcatProperties
<1> QED BY <1>0, <1>1, <1>2, <1>3

\* It takes the element before the gap and leaves the part after it.
LEMMA RemoveParts ==
  ASSUME NEW S, NEW s \in Seq(S), NEW k \in 1 .. Len(s),
         NEW t, t = RemoveAt(s, k)
  PROVE  /\ SubSeq(t, 1, k - 1) = SubSeq(s, 1, k - 1)
         /\ SubSeq(t, (k - 1) + 1, Len(t)) = SubSeq(s, k + 1, Len(s))
<1> DEFINE l == SubSeq(s, 1, k - 1)
           r == SubSeq(s, k + 1, Len(s))
<1>0. k \in 0 .. Len(s) /\ k - 1 \in 0 .. Len(s)
  BY LenProperties
<1>1. l \in Seq(S) /\ r \in Seq(S) /\ Len(l) = k - 1
  BY <1>0, Parts
<1>2. t = l \o r
  BY DEF RemoveAt
<1> HIDE DEF l, r
<1>3. /\ SubSeq(l \o r, 1, k - 1) = l
      /\ SubSeq(l \o r, (k - 1) + 1, Len(l \o r)) = r
  BY <1>1, Gap
<1> QED BY <1>2, <1>3 DEF l, r

-----------------------------------------------------------------------------
(* The invariant.                                                          *)

\* The prompt starts as it should.
LEMMA InitIInv == Init => IInv
BY EmptySeq DEF Init, IInv, TypeOK, ShownIsCurrent, EntersInv, Modes, Lines

\* Starting, blinking and giving up on a sequence.
LEMMA WaitIInv == IInv /\ (BeginLine \/ Blink \/ ReadFails) => IInv'
<1> USE DEF IInv, TypeOK, ShownIsCurrent, EntersInv, Modes, redraw_line
<1> SUFFICES ASSUME IInv, BeginLine \/ Blink \/ ReadFails PROVE IInv'
  OBVIOUS
<1>1. CASE BeginLine
  <2>1. Len(history) \in Nat
    BY LenProperties
  <2>2. <<>> \in Lines /\ Len(<<>>) = 0
    BY EmptySeq DEF Lines
  <2> QED BY <1>1, <2>1, <2>2 DEF BeginLine
<1>2. CASE Blink
  BY <1>2 DEF Blink, edited
<1>3. CASE ReadFails
  BY <1>3 DEF ReadFails, edited
<1> QED BY <1>1, <1>2, <1>3

\* A byte outside an escape sequence.
LEMMA KeyIInv ==
  IInv /\ (Enter \/ Erase \/ Escape \/ IgnoredByte \/ \E c \in Typed : Type(c))
    => IInv'
<1> USE DEF IInv, TypeOK, ShownIsCurrent, EntersInv, Modes, redraw_line, Other
<1> SUFFICES ASSUME IInv,
             Enter \/ Erase \/ Escape \/ IgnoredByte \/ \E c \in Typed : Type(c)
    PROVE IInv'
  OBVIOUS
<1>0. Len(line) \in Nat /\ Len(history) \in Nat
  BY LenProperties DEF Lines
<1>1. CASE Enter
  <2>1. history' \in Seq(Lines) /\ Len(history') >= Len(history)
        /\ Len(history') \in Nat
    <3>1. CASE line = <<>>
      BY <1>0, <1>1, <3>1 DEF Enter
    <3>2. CASE line # <<>>
      BY <1>0, <1>1, <3>2, AppendProperties DEF Enter
    <3> QED BY <3>1, <3>2
  <2> QED BY <1>0, <1>1, <2>1 DEF Enter
<1>2. CASE Erase
  <2>1. CASE cursor > 0
    <3>1. /\ RemoveAt(line, cursor) \in Lines
          /\ Len(RemoveAt(line, cursor)) = Len(line) - 1
      BY <1>0, <2>1, RemoveLength DEF Lines
    <3> QED BY <1>0, <1>2, <2>1, <3>1 DEF Erase, Edit
  <2>2. CASE ~(cursor > 0)
    BY <1>2, <2>2 DEF Erase
  <2> QED BY <2>1, <2>2
<1>3. CASE Escape
  BY <1>3 DEF Escape, edited
<1>4. CASE IgnoredByte
  BY <1>4 DEF IgnoredByte, edited
<1>5. ASSUME NEW c \in Typed, Type(c) PROVE IInv'
  <2>1. /\ InsertAt(line, cursor + 1, c) \in Lines
        /\ Len(InsertAt(line, cursor + 1, c)) = Len(line) + 1
    BY InsertLength DEF Lines
  <2> QED BY <1>0, <1>5, <2>1 DEF Type, Edit
<1> QED BY <1>1, <1>2, <1>3, <1>4, <1>5

\* A byte inside one.
LEMMA SequenceIInv ==
  IInv /\ (\/ ArrowUp \/ ArrowDown \/ ArrowForward \/ ArrowBack
           \/ \E b \in Bytes \cup Keys : Second(b) \/ Third(b))
    => IInv'
<1> USE DEF IInv, TypeOK, ShownIsCurrent, EntersInv, Modes, redraw_line, Edit
<1> SUFFICES ASSUME IInv,
                    \/ ArrowUp \/ ArrowDown \/ ArrowForward \/ ArrowBack
                    \/ \E b \in Bytes \cup Keys : Second(b) \/ Third(b)
    PROVE IInv'
  OBVIOUS
<1>0. Len(line) \in Nat /\ Len(history) \in Nat
  BY LenProperties DEF Lines
<1>1. \A i \in 1 .. Len(history) :
        history[i] \in Lines /\ Len(history[i]) \in 0 .. Len(history[i])
  <2> TAKE i \in 1 .. Len(history)
  <2>1. history[i] \in Lines
    BY ElementOfSeq
  <2>2. Len(history[i]) \in Nat
    BY <2>1, LenProperties DEF Lines
  <2> QED BY <2>1, <2>2
<1>2. CASE ArrowUp
  <2>1. CASE history # <<>> /\ history_index > 0
    BY <1>0, <1>1, <1>2, <2>1 DEF ArrowUp, Other
  <2>2. CASE ~(history # <<>> /\ history_index > 0)
    BY <1>2, <2>2 DEF ArrowUp, Other
  <2> QED BY <2>1, <2>2
<1>3. CASE ArrowDown
  <2>1. CASE history_index + 1 < Len(history)
    BY <1>0, <1>1, <1>3, <2>1 DEF ArrowDown, Other
  <2>2. CASE ~(history_index + 1 < Len(history))
    <3>1. <<>> \in Lines /\ Len(<<>>) = 0
      BY EmptySeq DEF Lines
    <3> QED BY <1>0, <1>3, <2>2, <3>1 DEF ArrowDown, Other
  <2> QED BY <2>1, <2>2
<1>4. CASE ArrowForward
  BY <1>0, <1>4 DEF ArrowForward, Other
<1>5. CASE ArrowBack
  BY <1>0, <1>5 DEF ArrowBack, Other
<1>6. ASSUME NEW b \in Bytes \cup Keys, Second(b) PROVE IInv'
  <2>1. Bracket # "enter"
    BY BytesAssumption DEF Bytes, Keys
  <2> QED BY <1>6, <2>1 DEF Second, Swallow, edited
<1>7. ASSUME NEW b \in Bytes \cup Keys, Third(b) PROVE IInv'
  BY <1>7 DEF Third, Swallow, edited
<1> QED BY <1>2, <1>3, <1>4, <1>5, <1>6, <1>7

\* Every step keeps the invariant.
LEMMA NextIInv == IInv /\ [Next]_vars => IInv'
<1> SUFFICES ASSUME IInv, [Next]_vars PROVE IInv'
  OBVIOUS
<1>1. CASE Next
  BY <1>1, WaitIInv, KeyIInv, SequenceIInv DEF Next
<1>2. CASE UNCHANGED vars
  BY <1>2 DEF vars, edited, IInv, TypeOK, ShownIsCurrent, EntersInv
<1> QED BY <1>1, <1>2

\* The invariant holds always.
LEMMA IInvAlways == Spec => []IInv
BY InitIInv, NextIInv, PTL DEF Spec

-----------------------------------------------------------------------------
(* What it is for.                                                         *)

\* read_line's cursor and history index never leave the line and the history,
\* which it indexes with them unchecked.
THEOREM TypeCorrect == Spec => []TypeOK
<1>1. IInv => TypeOK
  BY DEF IInv
<1> QED BY <1>1, IInvAlways, PTL

\* Whenever read_line waits for a byte, the screen shows the line as it is.
THEOREM ScreenIsCurrent == Spec => []ShownIsCurrent
<1>1. IInv => ShownIsCurrent
  BY DEF IInv
<1> QED BY <1>1, IInvAlways, PTL

\* However often ESC is hit, the third Enter in a row returns the line.
THEOREM ThirdEnterReturns == Spec => []TwoEntersAtMost
<1>1. IInv => TwoEntersAtMost
  BY DEF IInv, TypeOK, EntersInv, TwoEntersAtMost, Modes
<1> QED BY <1>1, IInvAlways, PTL

-----------------------------------------------------------------------------
(* The refinement: the sequences LineBuffer speaks of are the line and the *)
(* history cut at the cursor and at the history index.                     *)

left == SubSeq(line, 1, cursor)
right == SubSeq(line, cursor + 1, Len(line))
older == SubSeq(history, 1, history_index)
newer == SubSeq(history, history_index + 1, Len(history))

\* The empty prompt.
LEMMA InitBuffer == Init => Buffer!Init
BY SubSeqEmpty DEF Init, Buffer!Init

\* The gap of the history goes behind its newest line.
LEMMA AllOlder ==
  ASSUME TypeOK, UNCHANGED history, history_index' = Len(history)
  PROVE  older' = older \o newer /\ newer' = <<>>
<1>1. Len(history) \in Nat /\ history \in Seq(Lines)
  BY LenProperties DEF TypeOK
<1>2. older \o newer = history
  BY <1>1, Parts DEF TypeOK, older, newer
<1>3. older' = SubSeq(history, 1, Len(history))
      /\ newer' = SubSeq(history, Len(history) + 1, Len(history))
  BY DEF older, newer
<1>4. older' = history
  BY <1>1, <1>3, SubSeqFull
<1>5. newer' = <<>>
  BY <1>1, <1>3, SubSeqEmpty
<1> QED BY <1>2, <1>4, <1>5

\* Enter and the start of the next line.
LEMMA PromptBuffer ==
  ASSUME IInv, BeginLine \/ Enter PROVE Buffer!Next
<1> USE DEF IInv, TypeOK
<1>0. Len(history) \in Nat
  BY LenProperties
<1>1. CASE BeginLine
  <2>1. left' = <<>> /\ right' = <<>>
    BY <1>1, SubSeqEmpty, EmptySeq DEF BeginLine, left, right
  <2>2. older' = older \o newer /\ newer' = <<>>
    BY <1>1, AllOlder DEF BeginLine
  <2>4. Buffer!Begin
    BY <1>1, <2>1, <2>2
       DEF BeginLine, Buffer!Begin, left, right, older, newer
  <2> QED BY <2>4 DEF Buffer!Next
<1>2. CASE Enter
  <2>1. UNCHANGED <<left, right>>
    BY <1>2 DEF Enter, left, right
  <2>2. left \o right = line
    BY Parts DEF left, right, Lines
  <2>3. /\ older \in Seq(Lines) /\ newer \in Seq(Lines)
        /\ Len(older) = history_index /\ older \o newer = history
    BY Parts DEF older, newer
  <2>4. /\ UNCHANGED older
        /\ newer' = IF left \o right = <<>> THEN newer
                    ELSE Append(newer, left \o right)
    <3>1. CASE line = <<>>
      BY <1>2, <2>2, <3>1 DEF Enter, older, newer
    <3>2. CASE line # <<>>
      <4>1. /\ Append(newer, line) \in Seq(Lines) /\ <<line>> \in Seq(Lines)
            /\ Append(newer, line) = newer \o <<line>>
        BY <2>3, AppendProperties, AppendIsConcat
      <4>2. history' = older \o Append(newer, line)
        <5>1. history' = Append(history, line) /\ line \in Lines
          BY <1>2, <3>2 DEF Enter
        <5>2. history' = history \o <<line>>
          BY <5>1, AppendIsConcat
        <5>3. (older \o newer) \o <<line>> = older \o (newer \o <<line>>)
          <6> HIDE DEF IInv, TypeOK
          <6> QED BY <2>3, <4>1, ConcatAssociative
        <5> QED BY <2>3, <4>1, <5>2, <5>3
      <4>3. /\ older' = older
            /\ newer' = Append(newer, line)
        <5>1. UNCHANGED history_index
          BY <1>2 DEF Enter
        <5> HIDE DEF IInv, TypeOK
        <5>2. /\ SubSeq(older \o Append(newer, line), 1, Len(older)) = older
              /\ SubSeq(older \o Append(newer, line), Len(older) + 1,
                        Len(older \o Append(newer, line)))
                   = Append(newer, line)
          BY <2>3, <4>1, Gap
        <5>3. older' = SubSeq(history', 1, history_index)
              /\ newer' = SubSeq(history', history_index + 1, Len(history'))
          BY <5>1 DEF older, newer
        <5> QED BY <2>3, <4>2, <5>2, <5>3
      <4> QED BY <2>2, <3>2, <4>3
    <3> QED BY <3>1, <3>2
  <2>5. Buffer!Accept
    BY <1>2, <2>1, <2>4 DEF Enter, Buffer!Accept, left, right, older, newer
  <2> QED BY <1>2, <2>5 DEF Enter, Buffer!Next
<1> QED BY <1>1, <1>2

\* Typing and erasing.
LEMMA LineBufferSteps ==
  ASSUME IInv, Erase \/ \E c \in Typed : Type(c)
  PROVE  [Buffer!Next]_Buffer!vars
<1> USE DEF IInv, TypeOK
<1>0. line \in Seq(Typed) /\ cursor \in 0 .. Len(line)
  BY DEF Lines
<1>1. CASE Erase
  <2>1. CASE cursor > 0
    <3>1. cursor \in 1 .. Len(line)
      BY <2>1
    <3>2. line' = RemoveAt(line, cursor) /\ cursor' = cursor - 1
      BY <1>1, <2>1 DEF Erase, Edit
    <3>3. left # <<>> /\ Front(left) = SubSeq(line, 1, cursor - 1)
      BY <1>0, <3>1, GapBack DEF left
    <3>4. left' = Front(left) /\ right' = right
      <4>1. /\ SubSeq(line', 1, cursor - 1) = SubSeq(line, 1, cursor - 1)
            /\ SubSeq(line', (cursor - 1) + 1, Len(line')) = right
        BY <1>0, <3>1, <3>2, RemoveParts DEF right
      <4> QED BY <3>2, <3>3, <4>1 DEF left, right
    <3>5. Buffer!Erase
      BY <1>1, <3>3, <3>4 DEF Erase, Buffer!Erase, left, right,
           Front, Last, Buffer!Front, Buffer!Last
    <3> QED BY <1>1, <3>5 DEF Erase, Buffer!Next
  <2>2. CASE ~(cursor > 0)
    BY <1>1, <2>2 DEF Erase, Buffer!vars
  <2> QED BY <2>1, <2>2
<1>2. ASSUME NEW c \in Typed, Type(c) PROVE Buffer!Next
  <2>1. line' = InsertAt(line, cursor + 1, c) /\ cursor' = cursor + 1
    BY <1>2 DEF Type, Edit
  <2>2. left' = Append(left, c) /\ right' = right
    <3>1. /\ SubSeq(line', 1, cursor + 1) = Append(left, c)
          /\ SubSeq(line', (cursor + 1) + 1, Len(line')) = right
      BY <1>0, <2>1, InsertParts DEF left, right
    <3> QED BY <2>1, <3>1 DEF left, right
  <2>3. Buffer!Insert(c)
    BY <1>2, <2>2 DEF Type, Buffer!Insert, left, right
  <2> QED BY <1>2, <2>3 DEF Type, Buffer!Next
<1> QED BY <1>1, <1>2

\* The arrows to the sides.
LEMMA SideBuffer ==
  ASSUME IInv, ArrowForward \/ ArrowBack
  PROVE  [Buffer!Next]_Buffer!vars
<1> USE DEF IInv, TypeOK
<1>0. line \in Seq(Typed) /\ Len(line) \in Nat
  BY LenProperties DEF Lines
<1>1. CASE ArrowForward
  <2>1. CASE cursor < Len(line)
    <3>1. cursor \in 0 .. Len(line) - 1
      BY <1>0, <2>1
    <3>2. UNCHANGED line /\ cursor' = cursor + 1
      BY <1>1, <2>1 DEF ArrowForward, Edit
    <3>3. /\ right # <<>>
          /\ left' = Append(left, Head(right))
          /\ right' = Tail(right)
      BY <1>0, <3>1, <3>2, GapOn DEF left, right
    <3>4. Buffer!Right
      BY <1>1, <3>3 DEF ArrowForward, Buffer!Right, left, right
    <3> QED BY <1>1, <3>4 DEF ArrowForward, Buffer!Next
  <2>2. CASE ~(cursor < Len(line))
    BY <1>1, <2>2 DEF ArrowForward, Buffer!vars
  <2> QED BY <2>1, <2>2
<1>2. CASE ArrowBack
  <2>1. CASE cursor > 0
    <3>1. cursor \in 1 .. Len(line) /\ (cursor - 1) + 1 = cursor
      BY <1>0, <2>1
    <3>2. UNCHANGED line /\ cursor' = cursor - 1
      BY <1>2, <2>1 DEF ArrowBack, Edit
    <3>3. /\ left # <<>>
          /\ left' = Front(left)
          /\ right' = <<Last(left)>> \o right
      BY <1>0, <3>1, <3>2, GapBack DEF left, right
    <3>4. Buffer!Left
      BY <1>2, <3>3 DEF ArrowBack, Buffer!Left, left, right,
           Front, Last, Buffer!Front, Buffer!Last
    <3> QED BY <1>2, <3>4 DEF ArrowBack, Buffer!Next
  <2>2. CASE ~(cursor > 0)
    BY <1>2, <2>2 DEF ArrowBack, Buffer!vars
  <2> QED BY <2>1, <2>2
<1> QED BY <1>1, <1>2

\* The arrows through the history.
LEMMA HistoryBuffer ==
  ASSUME IInv, ArrowUp \/ ArrowDown
  PROVE  [Buffer!Next]_Buffer!vars
<1> USE DEF IInv, TypeOK
<1>0. /\ Len(history) \in Nat
      /\ \A i \in 1 .. Len(history) : history[i] \in Seq(Typed)
  BY LenProperties, ElementOfSeq DEF Lines
\* A recalled line is all before the gap.
<1> DEFINE Recalled(l) == line' = l /\ cursor' = Len(l)
<1>1. ASSUME NEW l \in Seq(Typed), Recalled(l)
      PROVE  left' = l /\ right' = <<>>
  <2>1. Len(l) \in Nat
    BY LenProperties
  <2> QED BY <1>1, <2>1, SubSeqFull, SubSeqEmpty DEF left, right
<1> HIDE DEF Recalled
<1>2. CASE ArrowUp
  <2>1. CASE history # <<>> /\ history_index > 0
    <3>1. history_index \in 1 .. Len(history)
          /\ (history_index - 1) + 1 = history_index
      BY <1>0, <2>1
    <3>2. /\ UNCHANGED history /\ history_index' = history_index - 1
          /\ Recalled(history[history_index])
      BY <1>2, <2>1 DEF ArrowUp, Edit, Recalled
    <3>3. /\ older # <<>> /\ Last(older) = history[history_index]
          /\ older' = Front(older)
          /\ newer' = <<Last(older)>> \o newer
      BY <3>1, <3>2, GapBack DEF older, newer
    <3>4. left' = Last(older) /\ right' = <<>>
      BY <1>0, <1>1, <3>1, <3>2, <3>3
    <3>5. Buffer!Older
      BY <1>2, <3>3, <3>4 DEF ArrowUp, Buffer!Older, left, right, older, newer,
           Front, Last, Buffer!Front, Buffer!Last
    <3> QED BY <1>2, <3>5 DEF ArrowUp, Buffer!Next
  <2>2. CASE ~(history # <<>> /\ history_index > 0)
    BY <1>2, <2>2 DEF ArrowUp, Buffer!vars
  <2> QED BY <2>1, <2>2
<1>3. CASE ArrowDown
  <2>0. /\ Len(newer) = Len(history) - history_index
        /\ older \o newer = history
        /\ \A i \in 1 .. Len(history) - history_index :
             newer[i] = history[history_index + i]
    BY Parts DEF older, newer
  <2>1. CASE history_index + 1 < Len(history)
    <3>1. /\ history_index \in 0 .. Len(history) - 1
          /\ history_index + 2 \in 1 .. Len(history)
          /\ 2 \in 1 .. Len(history) - history_index
          /\ Len(history) - history_index > 1
      BY <1>0, <2>1
    <3>2. /\ UNCHANGED history /\ history_index' = history_index + 1
          /\ Recalled(history[history_index + 2])
      BY <1>3, <2>1 DEF ArrowDown, Edit, Recalled
    <3>3. /\ older' = Append(older, Head(newer))
          /\ newer' = Tail(newer)
      BY <3>1, <3>2, GapOn DEF older, newer
    <3>4. Len(newer) > 1 /\ left' = newer[2] /\ right' = <<>>
      BY <1>0, <1>1, <2>0, <3>1, <3>2
    <3>5. Buffer!Newer
      BY <1>3, <3>3, <3>4 DEF ArrowDown, Buffer!Newer, left, right, older, newer
    <3> QED BY <1>3, <3>5 DEF ArrowDown, Buffer!Next
  <2>2. CASE ~(history_index + 1 < Len(history))
    <3>1. /\ UNCHANGED history /\ history_index' = Len(history)
          /\ Recalled(<<>>)
      BY <1>3, <2>2, EmptySeq DEF ArrowDown, Edit, Recalled
    <3>2. left' = <<>> /\ right' = <<>>
      BY <1>1, <3>1, EmptySeq
    <3>3. older' = older \o newer /\ newer' = <<>>
      BY <3>1, AllOlder
    <3>4. Len(newer) <= 1
      BY <1>0, <2>0, <2>2
    <3>5. Buffer!Newer
      BY <1>3, <3>2, <3>3, <3>4
         DEF ArrowDown, Buffer!Newer, left, right, older, newer
    <3> QED BY <1>3, <3>5 DEF ArrowDown, Buffer!Next
  <2> QED BY <2>1, <2>2
<1> QED BY <1>2, <1>3

\* Every step of the editor is one of the buffer, or none.
LEMMA NextBuffer == IInv /\ [Next]_vars => [Buffer!Next]_Buffer!vars
<1> SUFFICES ASSUME IInv, [Next]_vars PROVE [Buffer!Next]_Buffer!vars
  OBVIOUS
<1>1. CASE Blink \/ ReadFails \/ Escape \/ IgnoredByte
           \/ \E b \in Bytes \cup Keys : Second(b) \/ Third(b)
  <2>1. UNCHANGED edited
    BY <1>1 DEF Blink, ReadFails, Escape, IgnoredByte, Second, Third
  <2>2. UNCHANGED (pc # "run")
    BY <1>1 DEF Blink, ReadFails, Escape, IgnoredByte, Second, Third
  <2> QED BY <2>1, <2>2 DEF edited, Buffer!vars
<1>2. CASE UNCHANGED vars
  BY <1>2 DEF vars, edited, Buffer!vars
<1> QED BY <1>1, <1>2, PromptBuffer, LineBufferSteps, SideBuffer, HistoryBuffer
        DEF Next

\* Cursor, history index and the inserts and removals in the middle do what
\* LineBuffer says a prompt does, however long lines and history are.
THEOREM EditorImplementsBuffer == Spec => ImplementsLineBuffer
BY InitBuffer, NextBuffer, IInvAlways, PTL
   DEF Spec, ImplementsLineBuffer, Buffer!Spec

-----------------------------------------------------------------------------
(* 3. The dialogs: the line that keys make.                                *)

\* Bytes a terminal may send, keys read_key may make of them, those of them that
\* may edit a line, and those that may be in one.
AnyByte == {"ESC", "[", "A", "B", "C", "D", "3", "~"} \cup (Keyboard \ (ArrowKeys \cup Unknown))
KeysRead == (AnyByte \ {"ESC"}) \cup ArrowKeys \cup {"Esc"}
LineKeys == KeysRead \ {"Enter", "Esc"}
Letters == LineKeys \ ({"Backspace"} \cup ArrowKeys \cup Unprintable)

\* The line that keys make, as it grows.
LEMMA EditedType ==
  ASSUME NEW text \in Seq(Letters), NEW k \in LineKeys
  PROVE  Edited(text, k) \in Seq(Letters)
<1>1. CASE k = "Backspace"
  <2>1. CASE text = <<>>
    BY <1>1, <2>1 DEF Edited
  <2>2. CASE text # <<>>
    <3>1. Len(text) \in Nat /\ \A i \in 1 .. Len(text) : text[i] \in Letters
      BY LenProperties, ElementOfSeq
    <3>2. SubSeq(text, 1, Len(text) - 1) \in Seq(Letters)
      BY <3>1, SubSeqProperties
    <3> QED
      BY <1>1, <2>2, <3>2 DEF Edited, Front
  <2> QED
    BY <2>1, <2>2
<1>2. CASE k # "Backspace" /\ k \in ArrowKeys \cup Unprintable
  BY <1>2 DEF Edited
<1>3. CASE k \notin {"Backspace"} \cup ArrowKeys \cup Unprintable
  <2>1. k \in Letters
    BY <1>3 DEF Letters
  <2>2. Edited(text, k) = Append(text, k)
    BY <1>3 DEF Edited
  <2> QED
    BY <2>1, <2>2, AppendProperties
<1> QED
  BY <1>1, <1>2, <1>3

-----------------------------------------------------------------------------
(* The dialogs: screens, lines and the account.                            *)

\* The screens and the sizes their menus may have.
Screens == Menus \cup Prompts \cup {"install", "left"}
Sizes == 1 .. 4 \cup 1 .. MaxDisks + 1

\* The marked entry is one of the menu, and the line is of keys that may be in one.
ScreenInv ==
  /\ dialog \in Screens
  /\ items \in Sizes
  /\ dialog = "pick" => items \in 1 .. MaxDisks + 1
  /\ idx \in 0 .. items - 1
  /\ buf \in Seq(Letters)

\* What has been accepted by the time a screen is shown: each prompt adds a part
\* of what AccountGiven demands of the last ones.
AccountInv ==
  /\ disk \in 0 .. MaxDisks
  /\ dialog \in {"password", "again", "mismatch", "confirm", "install"} =>
       user # <<>> /\ Range(user) \subseteq Valid
  /\ dialog \in {"again", "confirm", "install"} => password # <<>>
  /\ dialog \in {"confirm", "install"} => password = again

\* A screen that is shown anew begins with its first entry and an empty line.
LEMMA ShowKeepsScreens ==
  ASSUME NEW p \in Screens, NEW n \in Sizes, p = "pick" => n \in 1 .. MaxDisks + 1, Show(p, n)
  PROVE  ScreenInv'
<1>1. dialog' = p /\ items' = n /\ idx' = 0 /\ n >= 1
  BY NumbersAssumption DEF Show, Sizes
<1>2. buf' = <<>>
  BY DEF Show
<1>4. idx' \in 0 .. items' - 1
  BY <1>1 DEF Sizes
<1>5. buf' \in Seq(Letters)
  BY <1>2
<1> QED
  BY <1>1, <1>4, <1>5 DEF ScreenInv

\* The same for a screen of a fixed size.
LEMMA GotoKeepsScreens ==
  ASSUME NEW p \in Screens \ {"pick"}, Goto(p)
  PROVE  ScreenInv'
<1>1. Size(p) \in Sizes
  BY NumbersAssumption DEF Size, Sizes
<1> QED
  BY <1>1, ShowKeepsScreens DEF Goto

\* The list of disks, which has an entry more than there are disks.
LEMMA PickKeepsScreens ==
  ASSUME PickDisk
  PROVE  ScreenInv' /\ dialog' \in {"nodisks", "pick"}
<1>1. CASE Goto("nodisks")
  BY <1>1, GotoKeepsScreens DEF Screens, Menus, Goto, Show
<1>2. CASE \E n \in 1 .. MaxDisks : Show("pick", n + 1)
  <2>1. PICK n \in 1 .. MaxDisks : Show("pick", n + 1)
    BY <1>2
  <2>2. n + 1 \in Sizes /\ n + 1 \in 1 .. MaxDisks + 1 /\ "pick" \in Screens
    BY NumbersAssumption DEF Sizes, Screens, Menus
  <2>3. ScreenInv'
    BY <2>1, <2>2, ShowKeepsScreens
  <2> QED
    BY <2>1, <2>3 DEF Show
<1> QED
  BY <1>1, <1>2 DEF PickDisk

\* Up and Down go round the menu and never leave it.
LEMMA MarkedInMenu ==
  ASSUME items \in Sizes, idx \in 0 .. items - 1, NEW k
  PROVE  Marked(k) \in 0 .. items - 1
<1>1. items \in Nat /\ items >= 1 /\ idx \in Nat /\ idx < items
  BY NumbersAssumption DEF Sizes
<1>2. (idx - 1 + items) % items \in 0 .. items - 1
  BY <1>1
<1>3. (idx + 1) % items \in 0 .. items - 1
  BY <1>1
<1> QED
  BY <1>1, <1>2, <1>3 DEF Marked

\* A key that is read in a menu.
LEMMA MenuKeeps ==
  ASSUME ScreenInv, AccountInv, NEW k, menu(k)
  PROVE  ScreenInv' /\ AccountInv'
<1>1. CASE k = "Enter" \/ k = "Esc"
  <2>1. Choose(idx, k = "Esc")
    BY <1>1 DEF menu
  <2> DEFINE esc == k = "Esc"
  <2> HIDE DEF esc
  <2>2. CASE dialog = "welcome"
    <3>1. UNCHANGED cfg /\ (PickDisk \/ Goto("left") \/ Goto("welcome"))
      BY <2>1, <2>2 DEF Choose
    <3>2. ScreenInv' /\ dialog' \in {"nodisks", "pick", "left", "welcome"}
      BY <3>1, PickKeepsScreens, GotoKeepsScreens DEF Goto, Show, Screens, Menus
    <3> QED
      BY <3>1, <3>2 DEF AccountInv, cfg
  <2>3. CASE dialog = "nodisks"
    <3>1. UNCHANGED cfg /\ Goto("welcome")
      BY <2>1, <2>3 DEF Choose
    <3>2. ScreenInv' /\ dialog' = "welcome"
      BY <3>1, GotoKeepsScreens DEF Goto, Show, Screens, Menus
    <3> QED
      BY <3>1, <3>2 DEF AccountInv, cfg
  <2>4. CASE dialog = "pick"
    <3>1. /\ UNCHANGED <<user, password, again>>
          /\ (Goto("welcome") /\ UNCHANGED disk) \/ (Goto("hostname") /\ disk' = idx)
      BY <2>1, <2>4 DEF Choose
    <3>2. ScreenInv' /\ dialog' \in {"welcome", "hostname"}
      BY <3>1, GotoKeepsScreens DEF Goto, Show, Screens, Menus, Prompts
    <3>3. idx \in 0 .. MaxDisks
      BY <2>4, NumbersAssumption DEF ScreenInv, Sizes
    <3> QED
      BY <3>1, <3>2, <3>3 DEF AccountInv
  <2>5. CASE dialog = "mismatch"
    <3>1. UNCHANGED cfg /\ Goto("password")
      BY <2>1, <2>5 DEF Choose
    <3>2. ScreenInv' /\ dialog' = "password"
      BY <3>1, GotoKeepsScreens DEF Goto, Show, Screens, Prompts
    <3> QED
      BY <2>5, <3>1, <3>2 DEF AccountInv, cfg
  <2>6. CASE dialog \in {"done", "failed"}
    <3>1. UNCHANGED cfg /\ Goto("left")
      BY <2>1, <2>6 DEF Choose
    <3>2. ScreenInv' /\ dialog' = "left"
      BY <3>1, GotoKeepsScreens DEF Goto, Show, Screens
    <3> QED
      BY <3>1, <3>2 DEF AccountInv, cfg
  <2> QED
    BY <2>1, <2>2, <2>3, <2>4, <2>5, <2>6 DEF Choose
<1>2. CASE ~(k = "Enter" \/ k = "Esc")
  <2>1. idx' = Marked(k) /\ UNCHANGED <<dialog, items, buf, keyed, cfg>>
    BY <1>2 DEF menu
  <2>2. idx' \in 0 .. items' - 1
    BY <2>1, MarkedInMenu DEF ScreenInv
  <2> QED
    BY <2>1, <2>2 DEF ScreenInv, AccountInv, cfg
<1> QED
  BY <1>1, <1>2

\* Enter in a prompt: each goes on only with a line the account may have.
LEMMA AcceptKeeps ==
  ASSUME ScreenInv, AccountInv, dialog \in Prompts, Accept
  PROVE  ScreenInv' /\ AccountInv'
<1>1. CASE dialog = "hostname"
  <2>1. UNCHANGED cfg /\ (Goto("hostname") \/ Goto("username"))
    BY <1>1 DEF Accept
  <2>2. ScreenInv' /\ dialog' \in {"hostname", "username"}
    BY <2>1, GotoKeepsScreens DEF Goto, Show, Screens, Prompts
  <2> QED
    BY <2>1, <2>2 DEF AccountInv, cfg
<1>2. CASE dialog = "username"
  <2>1. /\ user' = buf /\ UNCHANGED <<password, disk, again>>
        /\ \/ Goto("username")
           \/ Goto("password") /\ buf # <<>> /\ Range(buf) \subseteq Valid
    BY <1>2 DEF Accept
  <2>2. ScreenInv' /\ dialog' \in {"password", "username"}
    BY <2>1, GotoKeepsScreens DEF Goto, Show, Screens, Prompts
  <2>3. dialog' = "password" => buf # <<>> /\ Range(buf) \subseteq Valid
    BY <2>1 DEF Goto, Show
  <2> QED
    BY <2>1, <2>2, <2>3 DEF AccountInv
<1>3. CASE dialog = "password"
  <2>1. /\ password' = buf /\ UNCHANGED <<user, disk, again>>
        /\ Goto("password") \/ (Goto("again") /\ buf # <<>>)
    BY <1>3 DEF Accept
  <2>2. ScreenInv' /\ dialog' \in {"password", "again"}
    BY <2>1, GotoKeepsScreens DEF Goto, Show, Screens, Prompts
  <2>3. dialog' = "again" => buf # <<>>
    BY <2>1 DEF Goto, Show
  <2> QED
    BY <1>3, <2>1, <2>2, <2>3 DEF AccountInv
<1>4. CASE dialog = "again"
  <2>1. /\ again' = buf /\ UNCHANGED <<user, password, disk>>
        /\ Goto("mismatch") \/ (Goto("confirm") /\ buf = password)
    BY <1>4 DEF Accept, Agrees
  <2>2. ScreenInv' /\ dialog' \in {"mismatch", "confirm"}
    BY <2>1, GotoKeepsScreens DEF Goto, Show, Screens, Menus, Prompts
  <2>3. dialog' = "confirm" => buf = password
    BY <2>1 DEF Goto, Show
  <2> QED
    BY <1>4, <2>1, <2>2, <2>3 DEF AccountInv
<1>5. CASE dialog = "confirm"
  <2>1. UNCHANGED cfg /\ (Goto("confirm") \/ Goto("install"))
    BY <1>5 DEF Accept
  <2>2. ScreenInv' /\ dialog' \in {"confirm", "install"}
    BY <2>1, GotoKeepsScreens DEF Goto, Show, Screens, Prompts
  <2> QED
    BY <1>5, <2>1, <2>2 DEF AccountInv, cfg
<1> QED
  BY <1>1, <1>2, <1>3, <1>4, <1>5 DEF Prompts

\* Any key in a prompt.
LEMMA PromptKeeps ==
  ASSUME ScreenInv, AccountInv, NEW k \in KeysRead, prompt(k)
  PROVE  ScreenInv' /\ AccountInv'
<1>0. dialog \in Prompts
  BY DEF prompt
<1>1. CASE k = "Enter"
  BY <1>0, <1>1, AcceptKeeps DEF prompt
<1>2. CASE k = "Esc"
  <2>1. PickDisk /\ UNCHANGED disk
    BY <1>2 DEF prompt
  <2> QED
    BY <2>1, PickKeepsScreens DEF AccountInv
<1>3. CASE k \notin {"Enter", "Esc"}
  <2>1. buf' = Edited(buf, k) /\ UNCHANGED <<dialog, items, idx, cfg>>
    BY <1>3 DEF prompt
  <2>2. buf' \in Seq(Letters)
    <3>1. k \in LineKeys
      BY <1>3 DEF LineKeys
    <3> QED
      BY <2>1, <3>1, EditedType DEF ScreenInv
  <2> QED
    BY <2>1, <2>2 DEF ScreenInv, AccountInv, cfg
<1> QED
  BY <1>1, <1>2, <1>3

-----------------------------------------------------------------------------
(* The dialogs: bytes and keys.                                            *)

\* What an escape sequence, the terminal and the wire hold are bytes of the keys
\* pressed, and no key has been answered for another.
InputInv ==
  /\ pressed \in Seq(Keyboard)
  /\ seq \in Seq(AnyByte) /\ typed \in Seq(AnyByte) /\ wire \in Seq(AnyByte)
  /\ Len(seq) <= 2
  /\ seq # <<>> => Head(seq) = "ESC"
  /\ mistaken = FALSE
  /\ Astray \/ seq \o typed \o wire = Sent(pressed)

\* A key sends at least a byte.  Of a key read_key knows it is the key itself, or
\* three bytes after an escape of which it makes the key again.
LEMMA BytesOfKey ==
  ASSUME NEW k \in Keyboard
  PROVE  /\ BytesOf(k) \in Seq(AnyByte)
         /\ Len(BytesOf(k)) \in Nat \ {0}
         /\ k \in ArrowKeys => /\ Len(BytesOf(k)) = 3 /\ Head(BytesOf(k)) = "ESC"
                            /\ Decode(BytesOf(k)) = k
         /\ k \notin ArrowKeys \cup Unknown => BytesOf(k) = <<k>>
<1>1. CASE k = "Up"
  <2> DEFINE b == <<"ESC", "[", "A">>
  <2>1. BytesOf(k) = b
    BY <1>1 DEF BytesOf
  <2>2. b \in Seq(AnyByte)
    BY DEF AnyByte
  <2>3. Len(b) = 3 /\ Head(b) = "ESC"
    OBVIOUS
  <2>4. Decode(b) = "Up"
    BY DEF Decode
  <2> HIDE DEF b
  <2> QED
    BY <1>1, <2>1, <2>2, <2>3, <2>4 DEF ArrowKeys, Unknown
<1>2. CASE k = "Down"
  <2> DEFINE b == <<"ESC", "[", "B">>
  <2>1. BytesOf(k) = b
    BY <1>2 DEF BytesOf
  <2>2. b \in Seq(AnyByte)
    BY DEF AnyByte
  <2>3. Len(b) = 3 /\ Head(b) = "ESC"
    OBVIOUS
  <2>4. Decode(b) = "Down"
    BY DEF Decode
  <2> HIDE DEF b
  <2> QED
    BY <1>2, <2>1, <2>2, <2>3, <2>4 DEF ArrowKeys, Unknown
<1>3. CASE k = "Right"
  <2> DEFINE b == <<"ESC", "[", "C">>
  <2>1. BytesOf(k) = b
    BY <1>3 DEF BytesOf
  <2>2. b \in Seq(AnyByte)
    BY DEF AnyByte
  <2>3. Len(b) = 3 /\ Head(b) = "ESC"
    OBVIOUS
  <2>4. Decode(b) = "Right"
    BY DEF Decode
  <2> HIDE DEF b
  <2> QED
    BY <1>3, <2>1, <2>2, <2>3, <2>4 DEF ArrowKeys, Unknown
<1>4. CASE k = "Left"
  <2> DEFINE b == <<"ESC", "[", "D">>
  <2>1. BytesOf(k) = b
    BY <1>4 DEF BytesOf
  <2>2. b \in Seq(AnyByte)
    BY DEF AnyByte
  <2>3. Len(b) = 3 /\ Head(b) = "ESC"
    OBVIOUS
  <2>4. Decode(b) = "Left"
    BY DEF Decode
  <2> HIDE DEF b
  <2> QED
    BY <1>4, <2>1, <2>2, <2>3, <2>4 DEF ArrowKeys, Unknown
<1>5. CASE k = "Delete"
  <2> DEFINE b == <<"ESC", "[", "3", "~">>
  <2>1. BytesOf(k) = b
    BY <1>5 DEF BytesOf
  <2>2. b \in Seq(AnyByte)
    BY DEF AnyByte
  <2>3. Len(b) = 4 /\ Head(b) = "ESC"
    OBVIOUS
  <2> HIDE DEF b
  <2> QED
    BY <1>5, <2>1, <2>2, <2>3 DEF ArrowKeys, Unknown
<1>6. CASE k = "Esc"
  <2> DEFINE b == <<"ESC">>
  <2>1. BytesOf(k) = b
    BY <1>6 DEF BytesOf
  <2>2. b \in Seq(AnyByte)
    BY DEF AnyByte
  <2>3. Len(b) = 1 /\ Head(b) = "ESC"
    OBVIOUS
  <2> HIDE DEF b
  <2> QED
    BY <1>6, <2>1, <2>2, <2>3 DEF ArrowKeys, Unknown
<1>7. CASE k \notin ArrowKeys \cup Unknown
  <2>1. BytesOf(k) = <<k>>
    BY <1>7 DEF BytesOf, ArrowKeys, Unknown
  <2>2. <<k>> \in Seq(AnyByte)
    <3>1. k \in AnyByte
      BY <1>7 DEF AnyByte
    <3> QED
      BY <3>1
  <2>3. Len(<<k>>) = 1
    OBVIOUS
  <2> QED
    BY <1>7, <2>1, <2>2, <2>3
<1> QED
  BY <1>1, <1>2, <1>3, <1>4, <1>5, <1>6, <1>7 DEF ArrowKeys, Unknown

\* Sent is BytesOf joined: one key more behind, one less in front.
LEMMA SentProperties ==
  ASSUME NEW keys \in Seq(Keyboard)
  PROVE  /\ Sent(keys) \in Seq(AnyByte)
         /\ keys = <<>> => Sent(keys) = <<>>
         /\ keys # <<>> => Sent(keys) = BytesOf(Head(keys)) \o Sent(Tail(keys))
         /\ \A k \in Keyboard : Sent(Append(keys, k)) = Sent(keys) \o BytesOf(k)
<1> DEFINE f == [k \in Keyboard |-> BytesOf(k)]
<1>1. Maps(f, Keyboard, AnyByte) /\ \A k \in Keyboard : f[k] = BytesOf(k)
  BY BytesOfKey DEF Maps
<1>2. ASSUME NEW ks \in Seq(Keyboard) PROVE Sent(ks) = Joined(f, ks)
  <2>1. \A i \in 1 .. Len(ks) : ks[i] \in Keyboard
    BY ElementOfSeq
  <2>2. Each(f, ks) = [i \in 1 .. Len(ks) |-> BytesOf(ks[i])]
    BY <2>1 DEF Each
  <2> QED
    BY <2>2 DEF Sent, Joined
<1> HIDE DEF f
<1>3. Sent(keys) \in Seq(AnyByte)
  BY <1>1, <1>2, JoinedProperties
<1>4. Sent(<<>>) = <<>>
  <2> DEFINE E == <<>>
  <2>1. E \in Seq(Keyboard)
    OBVIOUS
  <2>2. Joined(f, E) = E
    BY JoinedNothing
  <2> HIDE DEF E
  <2>3. Sent(E) = E
    BY <1>2, <2>1, <2>2
  <2> QED
    BY <2>3 DEF E
<1>5. ASSUME keys # <<>> PROVE Sent(keys) = BytesOf(Head(keys)) \o Sent(Tail(keys))
  <2>1. Head(keys) \in Keyboard /\ Tail(keys) \in Seq(Keyboard)
    BY <1>5, HeadTailProperties
  <2>2. Joined(f, keys) = f[Head(keys)] \o Joined(f, Tail(keys))
    BY <1>1, <1>5, JoinedProperties
  <2> QED
    BY <1>1, <1>2, <2>1, <2>2
<1>6. ASSUME NEW k \in Keyboard PROVE Sent(Append(keys, k)) = Sent(keys) \o BytesOf(k)
  <2>1. Append(keys, k) \in Seq(Keyboard)
    BY AppendProperties
  <2>2. Joined(f, Append(keys, k)) = Joined(f, keys) \o f[k]
    BY <1>1, JoinedProperties
  <2> QED
    BY <1>1, <1>2, <2>1, <2>2
<1> QED
  BY <1>3, <1>4, <1>5, <1>6

\* The bytes read_key has consumed, three after an escape and one otherwise, are
\* exactly those of the first key pressed: what is left is what the others sent.
LEMMA FirstKeyRead ==
  ASSUME InputInv, ~Astray, NEW a \in Seq(AnyByte), NEW b \in Seq(AnyByte), a # <<>>,
         seq \o typed \o wire = a \o b, Len(a) = IF a[1] = "ESC" THEN 3 ELSE 1
  PROVE  /\ pressed # <<>> /\ Sent(Tail(pressed)) = b
         /\ Head(pressed) = IF a[1] = "ESC" THEN Decode(a) ELSE a[1]
<1> DEFINE p == Head(pressed)
           c == BytesOf(p)
           r == Sent(Tail(pressed))
<1>1. Sent(pressed) = a \o b /\ pressed \in Seq(Keyboard)
  BY DEF InputInv
<1>2. pressed # <<>>
  <2>1. a \o b # <<>>
    BY ConcatEqualIffEmpty
  <2> QED
    BY <1>1, <2>1, SentProperties
<1>3. p \in Keyboard /\ Tail(pressed) \in Seq(Keyboard) /\ p \notin Unknown
  <2>1. p \in Keyboard /\ Tail(pressed) \in Seq(Keyboard)
    BY <1>1, <1>2, HeadFirst
  <2> QED
    BY <1>2, <2>1 DEF Astray
<1>4. r \in Seq(AnyByte) /\ a \o b = c \o r
  BY <1>1, <1>2, <1>3, SentProperties
<1>5. /\ c \in Seq(AnyByte) /\ Len(c) \in Nat \ {0}
      /\ p \in ArrowKeys => Len(c) = 3 /\ Head(c) = "ESC" /\ Decode(c) = p
      /\ p \notin ArrowKeys => c = <<p>>
  BY <1>3, BytesOfKey
<1>6. c # <<>>
  BY <1>5
<1>7. c[1] = a[1] /\ Head(c) = c[1]
  <2> DEFINE w == a \o b
  <2>1. Len(a) \in Nat \ {0} /\ Len(b) \in Nat /\ Len(r) \in Nat /\ Head(c) = c[1]
    BY <1>4, <1>5, <1>6, HeadFirst, LenProperties, EmptySeq
  <2>2. 1 \in 1 .. Len(a) + Len(b) /\ 1 \in 1 .. Len(c) + Len(r)
    BY <1>5, <2>1
  <2> HIDE DEF c, r
  <2>3. w[1] = IF 1 <= Len(a) THEN a[1] ELSE b[1 - Len(a)]
    BY <2>2, ConcatProperties
  <2>4. w[1] = IF 1 <= Len(c) THEN c[1] ELSE r[1 - Len(c)]
    BY <1>4, <1>5, <2>2, ConcatProperties
  <2> HIDE DEF w
  <2> QED
    BY <1>5, <2>1, <2>3, <2>4
<1>8. CASE p \in ArrowKeys
  <2>1. a[1] = "ESC" /\ Len(c) = 3 /\ Decode(c) = p
    BY <1>5, <1>7, <1>8
  <2> HIDE DEF c, r
  <2>2. Len(a) = Len(c)
    BY <2>1
  <2>3. a = c /\ b = r
    BY <1>4, <1>5, <2>2, Cancel
  <2> HIDE DEF p
  <2>4. p = IF a[1] = "ESC" THEN Decode(a) ELSE a[1]
    BY <2>1, <2>3
  <2> QED
    BY <1>2, <2>3, <2>4 DEF r, p
<1>9. CASE p \notin ArrowKeys
  <2>1. c = <<p>>
    BY <1>5, <1>9
  <2>2. Len(<<p>>) = 1 /\ <<p>>[1] = p /\ p # "ESC"
    BY <1>3, KeyboardAssumption
  <2> HIDE DEF c, r, p
  <2>3. a[1] = p
    BY <1>7, <2>1, <2>2
  <2>4. Len(a) = Len(c)
    BY <2>1, <2>2, <2>3
  <2>5. b = r
    BY <1>4, <1>5, <2>4, Cancel
  <2>6. p = IF a[1] = "ESC" THEN Decode(a) ELSE a[1]
    BY <2>2, <2>3
  <2> QED
    BY <1>2, <2>5, <2>6 DEF r, p
<1> QED
  BY <1>8, <1>9

\* A key is answered, the one pressed first: it is forgotten, and so are its bytes.
\* After a key read_key does not know, what is left is forgotten when all is read.
LEMMA AnswerKeepsInput ==
  ASSUME InputInv, NEW k, NEW rest \in Seq(AnyByte),
         ~Astray => pressed # <<>> /\ Head(pressed) = k /\ Sent(Tail(pressed)) = rest \o wire,
         Answer(k, rest)
  PROVE  InputInv'
<1> DEFINE E == <<>>
<1>0. pressed \in Seq(Keyboard) /\ wire \in Seq(AnyByte) /\ mistaken = FALSE
  BY DEF InputInv
<1>1. seq' = E /\ mistaken' = FALSE
  BY <1>0 DEF Answer
<1>2. E \in Seq(AnyByte) /\ E \in Seq(Keyboard) /\ Sent(E) = E /\ Len(E) = 0
  <2>1. E \in Seq(Keyboard)
    OBVIOUS
  <2> QED
    BY <2>1, SentProperties
<1>3. E \o rest \o wire = rest \o wire
  BY ConcatEmptySeq
<1>9. E \o E \o E = E
  OBVIOUS
<1>4. Len(seq') <= 2 /\ (seq' # <<>> => Head(seq') = "ESC")
  BY <1>1
<1>5. CASE Flushes(k)
  <2>1. typed' = E /\ wire' = E /\ pressed' = E
    BY <1>5 DEF Answer
  <2> HIDE DEF E
  <2> QED
    BY <1>1, <1>2, <1>4, <1>9, <2>1 DEF InputInv
<1>6. CASE ~Flushes(k) /\ ~Astray
  <2>1. typed' = rest /\ wire' = wire /\ pressed' = SubSeq(pressed, 2, Len(pressed))
    BY <1>6 DEF Answer
  <2>2. pressed' = Tail(pressed) /\ Tail(pressed) \in Seq(Keyboard)
    BY <1>0, <1>6, <2>1, TailIsSubSeq, HeadFirst
  <2> HIDE DEF E
  <2>3. seq' \o typed' \o wire' = Sent(pressed')
    BY <1>1, <1>3, <1>6, <2>1, <2>2
  <2> QED
    BY <1>0, <1>1, <1>2, <1>4, <2>1, <2>2, <2>3 DEF InputInv
<1>7. CASE ~Flushes(k) /\ Astray /\ rest \o wire = E
  <2>1. typed' = rest /\ wire' = wire /\ pressed' = E
    BY <1>7 DEF Answer
  <2> HIDE DEF E
  <2>2. seq' \o typed' \o wire' = Sent(pressed')
    BY <1>1, <1>2, <1>3, <1>7, <2>1
  <2> QED
    BY <1>0, <1>1, <1>2, <1>4, <2>1, <2>2 DEF InputInv
<1>8. CASE ~Flushes(k) /\ Astray /\ rest \o wire # E
  <2>1. typed' = rest /\ wire' = wire /\ pressed' = pressed
    BY <1>8 DEF Answer
  <2>2. Astray'
    BY <1>8, <2>1 DEF Astray
  <2> HIDE DEF E
  <2> QED
    BY <1>0, <1>1, <1>2, <1>4, <2>1, <2>2 DEF InputInv
<1> QED
  BY <1>5, <1>6, <1>7, <1>8

\* read_key has read an escape, or the byte behind it, and waits for more.
LEMMA WaitKeepsInput ==
  ASSUME InputInv, typed # <<>>, seq' = Append(seq, Head(typed)), typed' = Tail(typed),
         Len(seq) <= 1, Head(seq') = "ESC", UNCHANGED <<wire, pressed, mistaken>>
  PROVE  InputInv'
<1> DEFINE h == Head(typed)
           rest == Tail(typed)
           l == <<h>>
<1>1. /\ seq \in Seq(AnyByte) /\ typed \in Seq(AnyByte) /\ wire \in Seq(AnyByte)
      /\ pressed \in Seq(Keyboard)
  BY DEF InputInv
<1>2. /\ h \in AnyByte /\ rest \in Seq(AnyByte) /\ typed = l \o rest
      /\ Len(rest) = Len(typed) - 1 /\ Len(typed) \in Nat
  BY <1>1, HeadFirst
<1>3. seq' \in Seq(AnyByte) /\ Len(seq') = Len(seq) + 1 /\ seq' = seq \o l
  BY <1>1, <1>2, AppendProperties, AppendIsConcat
<1>4. l \in Seq(AnyByte)
  BY <1>2
<1>5. Len(seq) \in Nat
  BY <1>1, LenProperties
<1> HIDE DEF l, h, rest
<1>6. (seq \o l) \o rest = seq \o typed
  <2>1. seq \in Seq(AnyByte) /\ l \in Seq(AnyByte) /\ rest \in Seq(AnyByte)
    BY <1>1, <1>2, <1>4
  <2>2. (seq \o l) \o rest = seq \o (l \o rest)
    BY <2>1, ConcatAssociative
  <2> QED
    BY <1>2, <2>2
<1>7. Astray' \/ seq' \o typed' \o wire' = Sent(pressed')
  <2>1. seq' \o typed' = seq \o typed
    BY <1>3, <1>6 DEF rest
  <2> QED
    BY <2>1 DEF InputInv, Astray
<1>8. mistaken' = FALSE
  BY DEF InputInv
<1> QED
  BY <1>1, <1>2, <1>3, <1>5, <1>7, <1>8 DEF InputInv, rest

\* One read, whether it completes a key or not.
LEMMA ReadKeeps ==
  ASSUME InputInv, ScreenInv, AccountInv, ReadByte
  PROVE  InputInv' /\ ScreenInv' /\ AccountInv'
<1> DEFINE h == Head(typed)
           rest == Tail(typed)
           s == Append(seq, h)
<1>1. /\ seq \in Seq(AnyByte) /\ typed \in Seq(AnyByte) /\ wire \in Seq(AnyByte)
      /\ Len(seq) <= 2 /\ (seq # <<>> => Head(seq) = "ESC") /\ typed # <<>>
  BY DEF InputInv, ReadByte
<1>2. /\ h \in AnyByte /\ rest \in Seq(AnyByte) /\ typed = <<h>> \o rest
      /\ Len(rest) = Len(typed) - 1 /\ Len(typed) \in Nat
  BY <1>1, HeadFirst
<1>3. /\ s \in Seq(AnyByte) /\ Len(s) = Len(seq) + 1 /\ s = seq \o <<h>> /\ s # <<>>
      /\ Head(s) = IF seq = <<>> THEN h ELSE Head(seq)
  BY <1>1, <1>2, AppendProperties, AppendIsConcat, HeadTailAppend
<1>4. /\ rest \o wire \in Seq(AnyByte)
      /\ seq \o typed \o wire = s \o (rest \o wire)
  <2> DEFINE l == <<h>>
  <2>1. l \in Seq(AnyByte)
    BY <1>2
  <2> HIDE DEF l, s, h, rest
  <2>0. /\ seq \in Seq(AnyByte) /\ l \in Seq(AnyByte) /\ rest \in Seq(AnyByte)
        /\ s \in Seq(AnyByte) /\ wire \in Seq(AnyByte)
    BY <1>1, <1>2, <1>3, <2>1
  <2>2. (seq \o l) \o rest = seq \o (l \o rest)
    <3>1. seq \in Seq(AnyByte) /\ l \in Seq(AnyByte) /\ rest \in Seq(AnyByte)
      BY <2>0
    <3> QED
      BY <3>1, ConcatAssociative
  <2>3. (s \o rest) \o wire = s \o (rest \o wire)
    BY <2>0, ConcatAssociative
  <2>4. rest \o wire \in Seq(AnyByte)
    BY <1>1, <1>2, ConcatProperties
  <2> QED
    BY <1>2, <1>3, <2>2, <2>3, <2>4 DEF l
<1>5. Len(seq) \in Nat /\ s[1] = Head(s)
  BY <1>1, <1>3, LenProperties, HeadFirst
<1>6. ASSUME NEW k \in KeysRead, Answer(k, rest), Len(s) = IF s[1] = "ESC" THEN 3 ELSE 1,
             k = IF s[1] = "ESC" THEN Decode(s) ELSE s[1]
      PROVE  InputInv' /\ ScreenInv' /\ AccountInv'
  <2>1. ~Astray => pressed # <<>> /\ Head(pressed) = k /\ Sent(Tail(pressed)) = rest \o wire
    <3> HIDE DEF s, rest, h
    <3> QED
      BY <1>3, <1>4, <1>6, FirstKeyRead
  <2>2. InputInv'
    <3> HIDE DEF s, rest, h
    <3> QED
      BY <1>2, <1>6, <2>1, AnswerKeepsInput
  <2>3. menu(k) \/ prompt(k)
    BY <1>6 DEF Answer
  <2> QED
    BY <2>2, <2>3, MenuKeeps, PromptKeeps
<1>7. CASE Head(s) # "ESC"
  <2>1. Answer(Head(s), rest)
    BY <1>7 DEF ReadByte
  <2>2. seq = <<>> /\ Len(s) = 1 /\ Head(s) \in KeysRead
    BY <1>1, <1>2, <1>3, <1>7 DEF KeysRead
  <2> QED
    BY <1>5, <1>6, <1>7, <2>1, <2>2
<1>8. CASE Head(s) = "ESC" /\ Len(s) = 3
  <2>1. Answer(Decode(s), rest)
    BY <1>8 DEF ReadByte
  <2>2. Decode(s) \in KeysRead
    BY DEF Decode, KeysRead, ArrowKeys
  <2> QED
    BY <1>5, <1>6, <1>8, <2>1, <2>2
<1>9. CASE Head(s) = "ESC" /\ Len(s) # 3
  <2>1. seq' = s /\ typed' = rest /\ UNCHANGED <<screen, wire, pressed, mistaken>>
    BY <1>9 DEF ReadByte
  <2>2. InputInv'
    BY <1>1, <1>3, <1>5, <1>9, <2>1, WaitKeepsInput
  <2>3. ScreenInv' /\ AccountInv'
    BY <2>1 DEF screen, ScreenInv, AccountInv
  <2> QED
    BY <2>2, <2>3
<1> QED
  BY <1>7, <1>8, <1>9

\* A key more is pressed.
LEMMA PressKeepsInput ==
  ASSUME InputInv, NEW k \in Keyboard, Press(k)
  PROVE  InputInv'
<1> DEFINE b == BytesOf(k)
           E == <<>>
<1>1. /\ wire = E /\ wire' = b /\ pressed' = Append(pressed, k)
      /\ seq' = seq /\ typed' = typed /\ mistaken' = mistaken
  BY DEF Press
<1>2. /\ pressed \in Seq(Keyboard) /\ seq \in Seq(AnyByte) /\ typed \in Seq(AnyByte)
      /\ mistaken = FALSE /\ (Astray \/ seq \o typed \o wire = Sent(pressed))
  BY DEF InputInv
<1>3. b \in Seq(AnyByte)
  BY BytesOfKey
<1>4. /\ pressed' \in Seq(Keyboard)
      /\ pressed # <<>> => pressed' # <<>> /\ Head(pressed') = Head(pressed)
  <2>1. Append(pressed, k) \in Seq(Keyboard)
    BY <1>2, AppendProperties
  <2>2. Append(pressed, k) # <<>> /\ (pressed # <<>> => Head(Append(pressed, k)) = Head(pressed))
    BY <1>2, AppendProperties, HeadTailAppend
  <2> QED
    BY <1>1, <2>1, <2>2
<1>5. Sent(pressed') = Sent(pressed) \o b
  BY <1>1, <1>2, SentProperties
<1>8. seq \o typed \in Seq(AnyByte) /\ (seq \o typed) \o E = seq \o typed
  BY <1>2, ConcatProperties, ConcatEmptySeq
<1> HIDE DEF b, E
<1>9. CASE Astray
  <2>1. Astray'
    BY <1>4, <1>9 DEF Astray
  <2> QED
    BY <1>1, <1>2, <1>3, <1>4, <2>1 DEF InputInv
<1>10. CASE seq \o typed \o wire = Sent(pressed)
  <2>1. seq \o typed = Sent(pressed)
    BY <1>1, <1>8, <1>10
  <2>2. seq' \o typed' \o wire' = Sent(pressed')
    BY <1>1, <1>5, <2>1
  <2> QED
    BY <1>1, <1>2, <1>3, <1>4, <2>2 DEF InputInv
<1> QED
  BY <1>2, <1>9, <1>10

\* A byte gets from the wire to the terminal.
LEMMA ArriveKeepsInput ==
  ASSUME InputInv, Arrive
  PROVE  InputInv'
<1> DEFINE h == Head(wire)
           rest == Tail(wire)
           l == <<h>>
<1>1. /\ seq \in Seq(AnyByte) /\ typed \in Seq(AnyByte) /\ wire \in Seq(AnyByte)
      /\ pressed \in Seq(Keyboard)
  BY DEF InputInv
<1>2. wire # <<>> /\ typed' = Append(typed, h) /\ wire' = rest /\ UNCHANGED <<seq, pressed, mistaken>>
  BY DEF Arrive
<1>3. /\ h \in AnyByte /\ rest \in Seq(AnyByte) /\ wire = l \o rest
      /\ Len(rest) = Len(wire) - 1 /\ Len(wire) \in Nat
  BY <1>1, <1>2, HeadFirst
<1>4. typed' \in Seq(AnyByte) /\ Len(typed') = Len(typed) + 1 /\ typed' = typed \o l
  BY <1>1, <1>2, <1>3, AppendProperties, AppendIsConcat
<1>5. l \in Seq(AnyByte)
  BY <1>3
<1> HIDE DEF l, h, rest
<1>7. (seq \o typed') \o wire' = (seq \o typed) \o wire
  <2> DEFINE st == seq \o typed
  <2>1. st \in Seq(AnyByte)
    BY <1>1, ConcatProperties
  <2>2. seq \o (typed \o l) = st \o l
    <3>1. seq \in Seq(AnyByte) /\ typed \in Seq(AnyByte) /\ l \in Seq(AnyByte)
      BY <1>1, <1>5
    <3> QED
      BY <3>1, ConcatAssociative
  <2> HIDE DEF st
  <2>3. (st \o l) \o rest = st \o (l \o rest)
    BY <1>3, <1>5, <2>1, ConcatAssociative
  <2> QED
    BY <1>2, <1>3, <1>4, <2>2, <2>3 DEF st
<1>8. Astray' \/ seq' \o typed' \o wire' = Sent(pressed')
  BY <1>2, <1>7 DEF InputInv, Astray
<1>9. mistaken' = FALSE
  BY <1>2 DEF InputInv
<1> QED
  BY <1>1, <1>2, <1>3, <1>4, <1>8, <1>9 DEF InputInv

\* The inductive invariant of the dialogs.
DialogsInv == InputInv /\ ScreenInv /\ AccountInv

\* Nothing pressed and nothing on its way, as when the installer starts.
NoInput == seq = <<>> /\ typed = <<>> /\ wire = <<>> /\ pressed = <<>> /\ mistaken = FALSE

\* Then the input is as it should be.
LEMMA EmptyInput == NoInput => InputInv
<1> SUFFICES ASSUME NoInput PROVE InputInv
  OBVIOUS
<1> DEFINE E == <<>>
<1>1. E \in Seq(AnyByte) /\ E \in Seq(Keyboard)
  OBVIOUS
<1>2. Sent(E) = E
  BY <1>1, SentProperties
<1>3. seq = E /\ typed = E /\ wire = E /\ pressed = E /\ mistaken = FALSE
  BY DEF NoInput
<1>4. Len(E) = 0 /\ E \o E \o E = E
  OBVIOUS
<1>5. seq # <<>> => Head(seq) = "ESC"
  BY <1>3
<1> HIDE DEF E
<1>6. seq \o typed \o wire = Sent(pressed) /\ Len(seq) <= 2
  BY <1>2, <1>3, <1>4
<1> QED
  BY <1>1, <1>3, <1>5, <1>6 DEF InputInv

\* The first screen satisfies the invariant.
LEMMA DialogsInvInitially == DialogsInit => DialogsInv
<1> SUFFICES ASSUME DialogsInit PROVE DialogsInv
  OBVIOUS
<1>1. InputInv
  BY EmptyInput DEF DialogsInit, NoInput
<1>2. ScreenInv
  <2>1. buf \in Seq(Letters)
    BY DEF DialogsInit
  <2> QED
    BY <2>1 DEF DialogsInit, ScreenInv, Screens, Menus, Sizes
<1>3. AccountInv
  BY NumbersAssumption DEF DialogsInit, AccountInv
<1> QED
  BY <1>1, <1>2, <1>3 DEF DialogsInv

\* Every step of user, terminal and installer preserves it.
LEMMA DialogsInvKept == DialogsInv /\ [DialogsNext]_dialogsVars => DialogsInv'
<1> SUFFICES ASSUME DialogsInv, [DialogsNext]_dialogsVars PROVE DialogsInv'
  OBVIOUS
<1>0. UNCHANGED screen => ScreenInv' /\ AccountInv'
  BY DEF DialogsInv, screen, ScreenInv, AccountInv
<1>1. UNCHANGED input => InputInv'
  BY DEF DialogsInv, input, InputInv, Astray
<1>2. CASE \E k \in Keyboard : Press(k)
  <2>1. UNCHANGED screen
    BY <1>2 DEF Press
  <2> QED
    BY <1>0, <1>2, <2>1, PressKeepsInput DEF DialogsInv
<1>3. CASE Arrive
  <2>1. UNCHANGED screen
    BY <1>3 DEF Arrive
  <2> QED
    BY <1>0, <1>3, <2>1, ArriveKeepsInput DEF DialogsInv
<1>4. CASE read_key
  BY <1>4, ReadKeeps DEF read_key, DialogsInv
<1>5. CASE InstallEnds
  <2>1. UNCHANGED cfg /\ UNCHANGED input /\ (Goto("done") \/ Goto("failed"))
    BY <1>5 DEF InstallEnds
  <2>2. ScreenInv' /\ dialog' \in {"done", "failed"}
    BY <2>1, GotoKeepsScreens DEF Goto, Show, Screens, Menus
  <2>3. AccountInv'
    BY <2>1, <2>2 DEF DialogsInv, AccountInv, cfg
  <2> QED
    BY <1>1, <2>1, <2>2, <2>3 DEF DialogsInv
<1>6. CASE RunAgain
  <2>1. /\ Goto("welcome") /\ disk' = 0
        /\ seq' = <<>> /\ typed' = <<>> /\ wire' = <<>> /\ pressed' = <<>>
        /\ mistaken' = FALSE
    BY <1>6 DEF RunAgain, DialogsInv, InputInv
  <2>2. ScreenInv' /\ dialog' = "welcome"
    BY <2>1, GotoKeepsScreens DEF Goto, Show, Screens, Menus
  <2>3. AccountInv'
    BY <2>1, <2>2, NumbersAssumption DEF AccountInv
  <2>4. InputInv'
    <3>1. NoInput'
      BY <2>1 DEF NoInput
    <3> QED
      BY <3>1, EmptyInput, PTL
  <2> QED
    BY <2>2, <2>3, <2>4 DEF DialogsInv
<1>7. CASE UNCHANGED dialogsVars
  BY <1>0, <1>1, <1>7 DEF dialogsVars, DialogsInv
<1> QED
  BY <1>2, <1>3, <1>4, <1>5, <1>6, <1>7 DEF DialogsNext

\* Whatever is pressed, however the bytes arrive: the marked entry is one of the
\* menu shown, no line contains a control byte, and of an escape sequence no more
\* than two bytes are kept.
THEOREM DialogsTypeCorrect == DialogsSpec => []DialogsTypeOK
<1>1. DialogsInv => DialogsTypeOK
  <2> SUFFICES ASSUME DialogsInv PROVE DialogsTypeOK
    OBVIOUS
  <2>1. Range(buf) \cap (Named \cup Unprintable \cup {"ESC"}) = {}
    <3>1. \A i \in DOMAIN buf : buf[i] \in Letters
      BY ElementOfSeq DEF DialogsInv, ScreenInv
    <3>2. Letters \cap (Named \cup Unprintable \cup {"ESC"}) = {}
      BY DEF Letters, LineKeys, KeysRead, AnyByte, Named, Unknown
    <3> QED
      BY <3>1, <3>2 DEF Range
  <2>2. Len(seq) \in 0 .. 2
    <3>1. seq \in Seq(AnyByte) /\ Len(seq) <= 2
      BY DEF DialogsInv, InputInv
    <3>2. Len(seq) \in Nat
      BY <3>1, LenProperties
    <3>3. Len(seq) <= 2
      BY <3>1
    <3> DEFINE n == Len(seq)
    <3> HIDE DEF n
    <3>4. n \in 0 .. 2
      <4>1. n \in Nat /\ n <= 2
        BY <3>2, <3>3 DEF n
      <4> QED
        BY <4>1
    <3> QED
      BY <3>4 DEF n
  <2> QED
    BY <2>1, <2>2 DEF DialogsInv, InputInv, ScreenInv, AccountInv, DialogsTypeOK, Screens, Sizes
<1> QED
  BY <1>1, DialogsInvInitially, DialogsInvKept, PTL DEF DialogsSpec

\* read_key, for any keys pressed, in any number, and any delays between the bytes
\* of one key: the key that is answered is the one that was pressed first of those
\* not answered yet, and the bytes left are those of the others.  From a key it
\* does not know until all that was typed has been read, nothing is claimed.
THEOREM NoKeyMistaken == DialogsSpec => []NothingMistaken
<1>1. DialogsInv => NothingMistaken
  BY DEF DialogsInv, InputInv, NothingMistaken
<1> QED
  BY <1>1, DialogsInvInitially, DialogsInvKept, PTL DEF DialogsSpec

\* The screens lead to INSTALL only past a user name the system accepts and a
\* password given twice, whichever way the user goes back and forth.
THEOREM AccountsGiven == DialogsSpec => []AccountGiven
<1>1. DialogsInv => AccountGiven
  BY DEF DialogsInv, AccountInv, AccountGiven
<1> QED
  BY <1>1, DialogsInvInitially, DialogsInvKept, PTL DEF DialogsSpec

-----------------------------------------------------------------------------
(* 4. The table of "network scan": what iw prints.                         *)

\* The lines iw prints, as far as scan_wifi tells them apart.
AnyLine == {[key |-> "BSS"]}
           \cup {[key |-> "capability", privacy |-> p] : p \in BOOLEAN}
           \cup {[key |-> "signal", value |-> b.signal] : b \in Bsses}
           \cup {[key |-> "SSID", value |-> b.ssid] : b \in Bsses}
           \cup {[key |-> e] : e \in Elements}

\* What iw prints for one network: four lines, and one for each element.
LEMMA TextProperties ==
  ASSUME NEW b \in Bsses
  PROVE  /\ Text(b) \in Seq(AnyLine)
         /\ Len(b.elements) \in Nat /\ Len(Text(b)) = 4 + Len(b.elements)
         /\ Text(b)[1] = [key |-> "BSS"]
         /\ Text(b)[2] = [key |-> "capability", privacy |-> b.privacy]
         /\ Text(b)[3] = [key |-> "signal", value |-> b.signal]
         /\ Text(b)[4] = [key |-> "SSID", value |-> b.ssid]
         /\ \A m \in 1 .. Len(b.elements) : /\ b.elements[m] \in Elements
                                            /\ Text(b)[4 + m] = [key |-> b.elements[m]]
<1> DEFINE M == Len(b.elements)
           l1 == [key |-> "BSS"]
           l2 == [key |-> "capability", privacy |-> b.privacy]
           l3 == [key |-> "signal", value |-> b.signal]
           l4 == [key |-> "SSID", value |-> b.ssid]
           h == <<l1, l2, l3, l4>>
           t == [i \in 1 .. M |-> [key |-> b.elements[i]]]
<1>1. b.elements \in Seq(Elements) /\ b.privacy \in BOOLEAN
  BY BssesAssumption
<1>2. M \in Nat /\ \A m \in 1 .. M : b.elements[m] \in Elements
  BY <1>1, LenProperties, ElementOfSeq
<1>3. l1 \in AnyLine /\ l2 \in AnyLine /\ l3 \in AnyLine /\ l4 \in AnyLine
  BY <1>1 DEF AnyLine
<1>4. \A m \in 1 .. M : [key |-> b.elements[m]] \in AnyLine
  BY <1>2 DEF AnyLine
<1>5. Text(b) = h \o t
  BY DEF Text
<1> HIDE DEF l1, l2, l3, l4, M
<1>6. h \in Seq(AnyLine) /\ Len(h) = 4 /\ h[1] = l1 /\ h[2] = l2 /\ h[3] = l3 /\ h[4] = l4
  BY <1>3
<1>7. t \in Seq(AnyLine) /\ Len(t) = M
  <2>1. M \in Nat
    BY <1>2
  <2> QED
    BY <1>4, <2>1
<1>8. \A m \in 1 .. M : t[m] = [key |-> b.elements[m]]
  OBVIOUS
<1> HIDE DEF h, t
<1>9. /\ Text(b) \in Seq(AnyLine) /\ Len(Text(b)) = 4 + M
      /\ \A i \in 1 .. 4 + M : Text(b)[i] = IF i <= 4 THEN h[i] ELSE t[i - 4]
  <2>1. h \in Seq(AnyLine) /\ t \in Seq(AnyLine)
    BY <1>6, <1>7
  <2>2. /\ h \o t \in Seq(AnyLine) /\ Len(h \o t) = Len(h) + Len(t)
        /\ \A i \in 1 .. Len(h) + Len(t) : (h \o t)[i] = IF i <= Len(h) THEN h[i] ELSE t[i - Len(h)]
    BY <2>1, ConcatProperties
  <2>3. Len(h) = 4 /\ Len(t) = M
    BY <1>6, <1>7
  <2> QED
    BY <1>5, <2>2, <2>3
<1>10. ASSUME NEW m \in 1 .. M PROVE Text(b)[4 + m] = [key |-> b.elements[m]]
  <2>1. 4 + m \in 1 .. 4 + M /\ ~(4 + m <= 4) /\ 4 + m - 4 = m
    BY <1>2
  <2> QED
    BY <1>8, <1>9, <2>1
<1>11. Text(b)[1] = l1 /\ Text(b)[2] = l2 /\ Text(b)[3] = l3 /\ Text(b)[4] = l4
  <2>1. 1 \in 1 .. 4 + M /\ 2 \in 1 .. 4 + M /\ 3 \in 1 .. 4 + M /\ 4 \in 1 .. 4 + M
    BY <1>2
  <2> QED
    BY <1>6, <1>9, <2>1
<1> QED
  BY <1>2, <1>9, <1>10, <1>11 DEF l1, l2, l3, l4, M

\* All that iw prints.
Texts(bs) == FlattenSeq([i \in 1 .. Len(bs) |-> Text(bs[i])])

\* It is joined from what it prints for each.
LEMMA TextsProperties ==
  ASSUME NEW bs \in Seq(Bsses)
  PROVE  /\ Texts(bs) \in Seq(AnyLine) /\ Texts(<<>>) = <<>>
         /\ bs # <<>> => Texts(bs) = Text(Head(bs)) \o Texts(Tail(bs))
<1> DEFINE f == [b \in Bsses |-> Text(b)]
<1>1. Maps(f, Bsses, AnyLine) /\ \A b \in Bsses : f[b] = Text(b)
  BY TextProperties DEF Maps
<1>2. ASSUME NEW s \in Seq(Bsses) PROVE Texts(s) = Joined(f, s)
  <2>1. \A i \in 1 .. Len(s) : s[i] \in Bsses
    BY ElementOfSeq
  <2>2. Each(f, s) = [i \in 1 .. Len(s) |-> Text(s[i])]
    BY <2>1 DEF Each
  <2> QED
    BY <2>2 DEF Texts, Joined
<1> HIDE DEF f
<1>3. Texts(bs) \in Seq(AnyLine)
  BY <1>1, <1>2, JoinedProperties
<1>4. ASSUME bs # <<>> PROVE Texts(bs) = Text(Head(bs)) \o Texts(Tail(bs))
  <2>1. Head(bs) \in Bsses /\ Tail(bs) \in Seq(Bsses)
    BY <1>4, HeadTailProperties
  <2>2. Joined(f, bs) = f[Head(bs)] \o Joined(f, Tail(bs))
    BY <1>1, <1>4, JoinedProperties
  <2> QED
    BY <1>1, <1>2, <2>1, <2>2
<1>5. Texts(<<>>) = <<>>
  <2> DEFINE E == <<>>
  <2>1. E \in Seq(Bsses)
    OBVIOUS
  <2>2. Joined(f, E) = E
    BY JoinedNothing
  <2> HIDE DEF E
  <2>3. Texts(E) = E
    BY <1>2, <2>1, <2>2
  <2> QED
    BY <2>3 DEF E
<1> QED
  BY <1>3, <1>4, <1>5

\* VisibleOf keeps those with a name, in their order.
LEMMA VisibleProperties ==
  ASSUME NEW bs \in Seq(Bsses)
  PROVE  /\ VisibleOf(bs) \in Seq(Bsses) /\ VisibleOf(<<>>) = <<>>
         /\ \A i \in 1 .. Len(VisibleOf(bs)) : VisibleOf(bs)[i].ssid # Hidden
         /\ \A b \in Bsses : VisibleOf(Append(bs, b))
              = IF b.ssid # Hidden THEN Append(VisibleOf(bs), b) ELSE VisibleOf(bs)
<1> DEFINE B == {b \in Bsses : b.ssid # Hidden}
           f == [b \in Bsses |-> IF b.ssid # Hidden THEN <<b>> ELSE <<>>]
<1>1. Maps(f, Bsses, B)
  <2>1. ASSUME NEW b \in Bsses PROVE (IF b.ssid # Hidden THEN <<b>> ELSE <<>>) \in Seq(B)
    <3>1. CASE b.ssid # Hidden
      <4>1. b \in B
        BY <3>1
      <4> HIDE DEF B
      <4> QED
        BY <3>1, <4>1
    <3>2. CASE b.ssid = Hidden
      BY <3>2
    <3> QED
      BY <3>1, <3>2
  <2> HIDE DEF B
  <2> QED
    BY <2>1 DEF Maps
<1>2. ASSUME NEW s \in Seq(Bsses) PROVE VisibleOf(s) = Joined(f, s)
  <2>1. \A i \in 1 .. Len(s) : s[i] \in Bsses
    BY ElementOfSeq
  <2>2. Each(f, s) = [i \in 1 .. Len(s) |-> IF s[i].ssid # Hidden THEN <<s[i]>> ELSE <<>>]
    BY <2>1 DEF Each
  <2> QED
    BY <2>2 DEF VisibleOf, Joined
<1>3. \A b \in Bsses : f[b] = IF b.ssid # Hidden THEN <<b>> ELSE <<>>
  OBVIOUS
<1> HIDE DEF f
<1>4. VisibleOf(bs) \in Seq(B)
  <2> HIDE DEF B
  <2> QED
    BY <1>1, <1>2, JoinedProperties
<1>5. VisibleOf(bs) \in Seq(Bsses)
  BY <1>4, SeqMonotonic
<1>6. \A i \in 1 .. Len(VisibleOf(bs)) : VisibleOf(bs)[i].ssid # Hidden
  <2>1. \A i \in 1 .. Len(VisibleOf(bs)) : VisibleOf(bs)[i] \in B
    <3> HIDE DEF B
    <3> QED
      BY <1>4, ElementOfSeq
  <2> QED
    BY <2>1
<1>7. ASSUME NEW b \in Bsses
      PROVE  VisibleOf(Append(bs, b))
               = IF b.ssid # Hidden THEN Append(VisibleOf(bs), b) ELSE VisibleOf(bs)
  <2> DEFINE v == VisibleOf(bs)
             t == Append(bs, b)
  <2>1. t \in Seq(Bsses)
    BY AppendProperties
  <2>2. Joined(f, t) = Joined(f, bs) \o f[b]
    <3> HIDE DEF B
    <3> QED
      BY <1>1, JoinedProperties
  <2> HIDE DEF t
  <2>3. VisibleOf(t) = v \o f[b]
    BY <1>2, <2>1, <2>2
  <2> HIDE DEF v
  <2>4. v \in Seq(Bsses)
    BY <1>5 DEF v
  <2>5. CASE b.ssid # Hidden
    <3>1. Append(v, b) = v \o <<b>>
      BY <2>4, AppendIsConcat
    <3>2. f[b] = <<b>>
      BY <1>3, <2>5
    <3> QED
      BY <2>3, <2>5, <3>1, <3>2 DEF t, v
  <2>6. CASE b.ssid = Hidden
    <3>1. v \o <<>> = v
      BY <2>4, ConcatEmptySeq
    <3>2. f[b] = <<>>
      BY <1>3, <2>6
    <3> QED
      BY <2>3, <2>6, <3>1, <3>2 DEF t, v
  <2> QED
    BY <2>5, <2>6
<1>8. VisibleOf(<<>>) = <<>>
  <2> DEFINE E == <<>>
  <2>1. E \in Seq(Bsses)
    OBVIOUS
  <2>2. Joined(f, E) = E
    BY JoinedNothing
  <2> HIDE DEF E
  <2>3. VisibleOf(E) = E
    BY <1>2, <2>1, <2>2
  <2> QED
    BY <2>3 DEF E
<1> QED
  BY <1>5, <1>6, <1>7, <1>8

-----------------------------------------------------------------------------
(* The table: what has been read of it.                                    *)

\* What the capability alone tells of a network, whether one of its first m
\* elements is "BSS Load:", and what the first m tell if none of them is.
Base(b) == IF b.privacy THEN "protected" ELSE "open"
Loaded(b, m) == \E i \in 1 .. m : b.elements[i] = "BSS Load"
Secured(b, m) == IF m = 0 THEN Base(b)
                 ELSE IF b.elements[m] = "RSN" THEN "WPA2/RSN" ELSE "WPA"

\* The table with the network that is being read, which flush_current puts there
\* if it has a name.
Kept == IF current.ssid # Hidden THEN Append(networks, current) ELSE networks

\* A row tells what is to be told of a network, and the table of all of them.
Right(r, b) ==
  /\ r.ssid = b.ssid
  /\ r.signal = b.signal
  /\ IF "BSS Load" \in Range(b.elements)
     THEN r.security = "open" => ~b.privacy
     ELSE r.security = Protection(b)

\* The table is that of the networks bs.
RowsRight(rows, bs) ==
  Len(rows) = Len(VisibleOf(bs)) /\ \A i \in 1 .. Len(rows) : Right(rows[i], VisibleOf(bs)[i])

\* What the first n lines tell.
Partial(b, n) ==
  [ssid |-> IF n >= 4 THEN b.ssid ELSE Hidden,
   signal |-> IF n >= 3 THEN b.signal ELSE NoSignal,
   security |-> IF n = 1 THEN "open" ELSE IF n < 4 THEN Base(b) ELSE Secured(b, n - 4)]

\* All of bs and n lines of b have been read.  From "BSS Load:" on the row of b is
\* in the table already, and what follows is read into a network without a name.
Reading(bs, b, n) ==
  IF n >= 4 /\ Loaded(b, n - 4)
  THEN current.ssid = Hidden /\ RowsRight(networks, Append(bs, b))
  ELSE current = Partial(b, n) /\ RowsRight(networks, bs)

\* The networks done have been read, and the next line begins one of todo.
Between(done, todo) == lines = Texts(todo) /\ RowsRight(Kept, done)

\* The networks bs have been read and n lines of b, of which r is left.
Within(bs, b, n, r, todo) ==
  /\ lines = r \o Texts(todo)
  /\ n >= 1
  /\ Len(r) = Len(Text(b)) - n
  /\ \A i \in 1 .. Len(r) : r[i] = Text(b)[n + i]
  /\ Reading(bs, b, n)

\* Reading is at one of these two.
Somewhere(done, todo) ==
  \/ Between(done, todo)
  \/ \E bs \in Seq(Bsses), b \in Bsses, n \in Nat, r \in Seq(AnyLine) :
       done = Append(bs, b) /\ Within(bs, b, n, r, todo)

\* What has been read and what has not make up what iw has seen.
ReadInv == \E done \in Seq(Bsses), todo \in Seq(Bsses) :
             seen = done \o todo /\ Somewhere(done, todo)

\* The inductive invariant of the scan.
ScanInv ==
  /\ ScanTypeOK
  /\ padding[1] <= 34 /\ padding[2] <= 14
  /\ stage \in {"link", "scan"} => networks = <<>> /\ row = 0
  /\ stage = "read" => ReadInv /\ row = 0
  /\ stage = "print" => RowsRight(networks, seen)

\* The fields of a network that iw sees.
LEMMA NetworkType ==
  ASSUME NEW b \in Bsses
  PROVE  /\ b.ssid \in Ssids /\ b.signal \in Signals /\ b.privacy \in BOOLEAN
         /\ b.elements \in Seq(Elements)
BY BssesAssumption DEF Ssids, Signals

\* The network flush_current begins with.
LEMMA NewNetworkType == NewNetwork \in Network
BY DEF NewNetwork, Network, Signals

\* A row more for a network with a name.
LEMMA RowMore ==
  ASSUME NEW rows \in Seq(Network), NEW bs \in Seq(Bsses), RowsRight(rows, bs),
         NEW r \in Network, NEW b \in Bsses, b.ssid # Hidden, Right(r, b)
  PROVE  RowsRight(Append(rows, r), Append(bs, b))
<1> DEFINE v == VisibleOf(bs)
           w == VisibleOf(Append(bs, b))
           q == Append(rows, r)
<1>1. v \in Seq(Bsses) /\ w = Append(v, b)
  BY VisibleProperties
<1>2. Len(rows) = Len(v) /\ \A i \in 1 .. Len(rows) : Right(rows[i], v[i])
  BY DEF RowsRight
<1> HIDE DEF v, w
<1>3. /\ Len(w) = Len(v) + 1 /\ w[Len(v) + 1] = b
      /\ \A i \in 1 .. Len(v) : w[i] = v[i]
  BY <1>1, AppendProperties
<1>4. /\ Len(q) = Len(rows) + 1 /\ q[Len(rows) + 1] = r
      /\ \A i \in 1 .. Len(rows) : q[i] = rows[i]
  BY AppendProperties
<1>5. Len(rows) \in Nat
  BY LenProperties
<1> HIDE DEF q
<1>6. ASSUME NEW i \in 1 .. Len(q) PROVE Right(q[i], w[i])
  <2>1. CASE i = Len(rows) + 1
    BY <1>2, <1>3, <1>4, <2>1
  <2>2. CASE i # Len(rows) + 1
    <3>1. i \in 1 .. Len(rows)
      BY <1>4, <1>5, <2>2
    <3> QED
      BY <1>2, <1>3, <1>4, <3>1
  <2> QED
    BY <2>1, <2>2
<1> QED
  BY <1>2, <1>3, <1>4, <1>6 DEF RowsRight, w, q

\* And none for a network without.
LEMMA RowSame ==
  ASSUME NEW rows, NEW bs \in Seq(Bsses), RowsRight(rows, bs), NEW b \in Bsses, b.ssid = Hidden
  PROVE  RowsRight(rows, Append(bs, b))
<1>1. VisibleOf(Append(bs, b)) = VisibleOf(bs)
  BY VisibleProperties
<1> QED
  BY <1>1 DEF RowsRight

\* The last of the numbers up to N.
LEMMA LastOfAll ==
  ASSUME NEW N \in Nat
  PROVE  /\ N = 0 <=> 1 .. N = {}
         /\ N # 0 => (CHOOSE i \in 1 .. N : \A j \in 1 .. N : j <= i) = N
<1>1. N = 0 => 1 .. N = {}
  OBVIOUS
<1>2. N # 0 => N \in 1 .. N
  OBVIOUS
<1>3. ASSUME N # 0 PROVE (CHOOSE i \in 1 .. N : \A j \in 1 .. N : j <= i) = N
  <2> DEFINE last == CHOOSE i \in 1 .. N : \A j \in 1 .. N : j <= i
  <2>1. N \in 1 .. N /\ \A j \in 1 .. N : j <= N
    BY <1>2, <1>3
  <2>2. last \in 1 .. N /\ \A j \in 1 .. N : j <= last
    BY <2>1
  <2> HIDE DEF last
  <2>3. last = N
    BY <2>1, <2>2
  <2> QED
    BY <2>3 DEF last
<1> QED
  BY <1>1, <1>2, <1>3

\* Without "BSS Load:" the last element decides how a network is protected.
LEMMA ProtectionLast ==
  ASSUME NEW b \in Bsses, "BSS Load" \notin Range(b.elements)
  PROVE  Protection(b) = Secured(b, Len(b.elements))
<1> DEFINE M == Len(b.elements)
           ways == {i \in DOMAIN b.elements : b.elements[i] # "BSS Load"}
           last == CHOOSE i \in ways : \A j \in ways : j <= i
<1>1. M \in Nat /\ DOMAIN b.elements = 1 .. M
  BY NetworkType, LenProperties
<1>2. ways = 1 .. M
  BY <1>1 DEF Range
<1>3. Protection(b) = IF ways # {} THEN IF b.elements[last] = "RSN" THEN "WPA2/RSN" ELSE "WPA"
                      ELSE Base(b)
  BY DEF Protection, Base
<1> HIDE DEF ways, M
<1>4. (ways = {} <=> M = 0) /\ (M # 0 => last = M)
  <2>1. M \in Nat
    BY <1>1
  <2>2. /\ M = 0 <=> 1 .. M = {}
        /\ M # 0 => (CHOOSE i \in 1 .. M : \A j \in 1 .. M : j <= i) = M
    BY <2>1, LastOfAll
  <2>3. last = CHOOSE i \in 1 .. M : \A j \in 1 .. M : j <= i
    BY <1>2, Zenon
  <2> HIDE DEF last
  <2> QED
    BY <1>2, <2>2, <2>3, Zenon
<1> HIDE DEF last
<1>5. Protection(b) = Secured(b, M)
  BY <1>3, <1>4 DEF Secured
<1> QED
  BY <1>5 DEF M

\* A row that "BSS Load:" put into the table too early is right but for its
\* security, which never turns out as "open" by that.
LEMMA RightEarly ==
  ASSUME NEW b \in Bsses, NEW m \in 0 .. Len(b.elements), "BSS Load" \in Range(b.elements)
  PROVE  Right([ssid |-> b.ssid, signal |-> b.signal, security |-> Secured(b, m)], b)
<1>1. Secured(b, m) = "open" => ~b.privacy
  BY DEF Secured, Base
<1> QED
  BY <1>1 DEF Right

\* A row that is kept in time is right.
LEMMA RightAtEnd ==
  ASSUME NEW b \in Bsses, "BSS Load" \notin Range(b.elements)
  PROVE  Right([ssid |-> b.ssid, signal |-> b.signal,
                security |-> Secured(b, Len(b.elements))], b)
BY ProtectionLast DEF Right

\* All of a network has been read.
LEMMA TextEnds ==
  ASSUME current \in Network, networks \in Seq(Network),
         NEW bs \in Seq(Bsses), NEW b \in Bsses, Reading(bs, b, Len(Text(b)))
  PROVE  RowsRight(Kept, Append(bs, b))
<1> DEFINE M == Len(b.elements)
<1>1. M \in Nat /\ Len(Text(b)) = 4 + M
  BY TextProperties
<1>2. 4 + M >= 4 /\ (4 + M) - 4 = M /\ 4 + M # 1 /\ ~(4 + M < 4) /\ 4 + M >= 3
  BY <1>1
<1>3. CASE Loaded(b, M)
  <2>1. current.ssid = Hidden /\ RowsRight(networks, Append(bs, b))
    BY <1>1, <1>2, <1>3 DEF Reading
  <2> QED
    BY <2>1 DEF Kept
<1>4. CASE ~Loaded(b, M)
  <2>1. current = Partial(b, 4 + M) /\ RowsRight(networks, bs)
    BY <1>1, <1>2, <1>4 DEF Reading
  <2>2. current = [ssid |-> b.ssid, signal |-> b.signal, security |-> Secured(b, M)]
    BY <1>2, <2>1 DEF Partial
  <2>3. "BSS Load" \notin Range(b.elements)
    <3>1. DOMAIN b.elements = 1 .. M
      BY NetworkType, LenProperties
    <3> QED
      BY <1>4, <3>1 DEF Loaded, Range
  <2>4. Right(current, b)
    BY <2>2, <2>3, RightAtEnd
  <2>5. current.ssid = b.ssid
    BY <2>2
  <2>6. CASE b.ssid # Hidden
    BY <2>1, <2>4, <2>5, <2>6, RowMore DEF Kept
  <2>7. CASE b.ssid = Hidden
    BY <2>1, <2>5, <2>7, RowSame DEF Kept
  <2> QED
    BY <2>6, <2>7
<1> QED
  BY <1>3, <1>4

\* What the lines do, by their first word.
LEMMA ReadLineDoes ==
  ASSUME ReadLine, NEW l, l = Head(lines)
  PROVE  /\ lines # <<>> /\ lines' = Tail(lines) /\ stage = "read"
         /\ UNCHANGED <<stage, seen, row, padding>>
         /\ l.key \in {"BSS", "BSS Load"} => networks' = Kept /\ current' = NewNetwork
         /\ l.key = "SSID" => /\ current' = [current EXCEPT !.ssid = l.value]
                              /\ networks' = networks
         /\ l.key = "signal" => /\ current' = [current EXCEPT !.signal = l.value]
                                /\ networks' = networks
         /\ l.key \in {"RSN", "WPA", "capability"} =>
              /\ current' = [current EXCEPT !.security = Security(l, @)]
              /\ networks' = networks
BY DEF ReadLine, flush_current, Kept

\* One more line of the network that is being read: the four that always come,
\* and the elements before, at and after "BSS Load:".
LEMMA LineRead ==
  ASSUME current \in Network, networks \in Seq(Network), ReadLine,
         NEW bs \in Seq(Bsses), NEW b \in Bsses, NEW n \in Nat, n >= 1, n < Len(Text(b)),
         Head(lines) = Text(b)[n + 1], Reading(bs, b, n)
  PROVE  Reading(bs, b, n + 1)' /\ current' \in Network /\ networks' \in Seq(Network)
<1> DEFINE M == Len(b.elements)
           l == Head(lines)
<1>1. M \in Nat /\ Len(Text(b)) = 4 + M
  BY TextProperties
<1>0. /\ Text(b)[2] = [key |-> "capability", privacy |-> b.privacy]
      /\ Text(b)[3] = [key |-> "signal", value |-> b.signal]
      /\ Text(b)[4] = [key |-> "SSID", value |-> b.ssid]
      /\ \A j \in 1 .. M : b.elements[j] \in Elements /\ Text(b)[4 + j] = [key |-> b.elements[j]]
  BY TextProperties
<1>2. /\ b.ssid \in Ssids /\ b.signal \in Signals /\ b.privacy \in BOOLEAN
      /\ b.elements \in Seq(Elements)
  BY NetworkType
<1>3. CASE n = 1
  <2>1. l = [key |-> "capability", privacy |-> b.privacy]
    <3>1. n + 1 = 2
      BY <1>3
    <3> QED
      BY <1>0, <3>1
  <2>2. l.key = "capability" /\ l.privacy = b.privacy
    BY <2>1
  <2>3. current' = [current EXCEPT !.security = Security(l, @)] /\ networks' = networks
    BY <2>2, ReadLineDoes
  <2>4. current = Partial(b, 1) /\ RowsRight(networks, bs)
    BY <1>3 DEF Reading
  <2>5. current = [ssid |-> Hidden, signal |-> NoSignal, security |-> "open"]
    BY <2>4 DEF Partial
  <2>6. Security(l, "open") = Base(b)
    BY <1>2, <2>2 DEF Security, Base
  <2>7. current' = [ssid |-> Hidden, signal |-> NoSignal, security |-> Base(b)]
    BY <2>3, <2>5, <2>6
  <2>8. current' = Partial(b, 2)
    BY <2>7 DEF Partial
  <2>9. current' \in Network
    BY <2>7 DEF Network, Base, Signals
  <2>10. Reading(bs, b, 2)'
    BY <2>3, <2>4, <2>8 DEF Reading
  <2> QED
    BY <1>3, <2>3, <2>9, <2>10
<1>4. CASE n = 2
  <2>1. l = [key |-> "signal", value |-> b.signal]
    <3>1. n + 1 = 3
      BY <1>4
    <3> QED
      BY <1>0, <3>1
  <2>2. l.key = "signal" /\ l.value = b.signal
    BY <2>1
  <2>3. current' = [current EXCEPT !.signal = b.signal] /\ networks' = networks
    BY <2>2, ReadLineDoes
  <2>4. current = Partial(b, 2) /\ RowsRight(networks, bs)
    BY <1>4 DEF Reading
  <2>5. current = [ssid |-> Hidden, signal |-> NoSignal, security |-> Base(b)]
    BY <2>4 DEF Partial
  <2>6. current' = [ssid |-> Hidden, signal |-> b.signal, security |-> Base(b)]
    BY <2>3, <2>5
  <2>7. current' = Partial(b, 3)
    BY <2>6 DEF Partial
  <2>8. current' \in Network
    BY <1>2, <2>6 DEF Network, Base
  <2>9. Reading(bs, b, 3)'
    BY <2>3, <2>4, <2>7 DEF Reading
  <2> QED
    BY <1>4, <2>3, <2>8, <2>9
<1>5. CASE n = 3
  <2>1. l = [key |-> "SSID", value |-> b.ssid]
    <3>1. n + 1 = 4
      BY <1>5
    <3> QED
      BY <1>0, <3>1
  <2>2. l.key = "SSID" /\ l.value = b.ssid
    BY <2>1
  <2>3. current' = [current EXCEPT !.ssid = b.ssid] /\ networks' = networks
    BY <2>2, ReadLineDoes
  <2>4. current = Partial(b, 3) /\ RowsRight(networks, bs)
    BY <1>5 DEF Reading
  <2>5. current = [ssid |-> Hidden, signal |-> b.signal, security |-> Base(b)]
    BY <2>4 DEF Partial
  <2>6. current' = [ssid |-> b.ssid, signal |-> b.signal, security |-> Base(b)]
    BY <2>3, <2>5
  <2>7. current' = Partial(b, 4)
    BY <2>6 DEF Partial, Secured
  <2>8. current' \in Network
    BY <1>2, <2>6 DEF Network, Base
  <2>9. ~Loaded(b, 0)
    BY DEF Loaded
  <2>10. Reading(bs, b, 4)'
    BY <2>3, <2>4, <2>7, <2>9 DEF Reading
  <2> QED
    BY <1>5, <2>3, <2>8, <2>10
<1>6. CASE n >= 4
  <2> DEFINE m == n - 4
             e == b.elements[m + 1]
  <2>1. m + 1 \in 1 .. M /\ 4 + (m + 1) = n + 1 /\ (n + 1) - 4 = m + 1 /\ m \in Nat
    BY <1>1, <1>6
  <2>2. l = [key |-> e] /\ e \in Elements
    <3>1. Text(b)[4 + (m + 1)] = [key |-> e] /\ e \in Elements
      BY <1>0, <2>1
    <3>2. l = Text(b)[4 + (m + 1)]
      BY <2>1
    <3> QED
      BY <3>1, <3>2
  <2>3. l.key = e
    BY <2>2
  <2>4. n >= 4 /\ n + 1 >= 4 /\ n + 1 # 1 /\ n # 1 /\ ~(n + 1 < 4) /\ ~(n < 4) /\ n + 1 >= 3 /\ n >= 3
    BY <1>6
  <2>5. Loaded(b, m + 1) <=> Loaded(b, m) \/ e = "BSS Load"
    <3>1. \A i : i \in 1 .. m + 1 <=> i \in 1 .. m \/ i = m + 1
      BY <2>1
    <3> HIDE DEF m
    <3> QED
      BY <3>1 DEF Loaded, e
  <2> HIDE DEF l, e
  <2>6. CASE Loaded(b, m)
    <3>1. current.ssid = Hidden /\ RowsRight(networks, Append(bs, b))
      BY <2>4, <2>6 DEF Reading
    <3>2. CASE e = "BSS Load"
      <4>1. networks' = networks /\ current' = NewNetwork
        BY <2>3, <3>1, <3>2, ReadLineDoes DEF Kept, l
      <4>2. current'.ssid = Hidden /\ current' \in Network
        BY <4>1, NewNetworkType DEF NewNetwork
      <4>3. Reading(bs, b, n + 1)'
        BY <2>1, <2>4, <2>5, <3>1, <3>2, <4>1, <4>2 DEF Reading
      <4> QED
        BY <4>1, <4>2, <4>3
    <3>3. CASE e # "BSS Load"
      <4>1. e \in {"RSN", "WPA"}
        BY <2>2, <3>3 DEF Elements
      <4>2. networks' = networks /\ current' = [current EXCEPT !.security = Security(l, @)]
        BY <2>3, <4>1, ReadLineDoes DEF l
      <4>3. Security(l, current.security) \in {"WPA2/RSN", "WPA"}
        BY <2>3, <4>1 DEF Security
      <4>4. current'.ssid = Hidden /\ current' \in Network
        BY <3>1, <4>2, <4>3 DEF Network
      <4>5. Reading(bs, b, n + 1)'
        BY <2>1, <2>4, <2>5, <2>6, <3>1, <4>2, <4>4 DEF Reading
      <4> QED
        BY <4>2, <4>4, <4>5
    <3> QED
      BY <3>2, <3>3
  <2>7. CASE ~Loaded(b, m)
    <3>1. current = Partial(b, n) /\ RowsRight(networks, bs)
      BY <2>4, <2>7 DEF Reading
    <3>2. current = [ssid |-> b.ssid, signal |-> b.signal, security |-> Secured(b, m)]
      BY <2>4, <3>1 DEF Partial
    <3>3. CASE e = "BSS Load"
      <4>1. networks' = Kept /\ current' = NewNetwork
        BY <2>3, <3>3, ReadLineDoes DEF l
      <4>2. current'.ssid = Hidden /\ current' \in Network
        BY <4>1, NewNetworkType DEF NewNetwork
      <4>3. "BSS Load" \in Range(b.elements)
        <5>1. DOMAIN b.elements = 1 .. M
          BY <1>2, LenProperties
        <5> QED
          BY <2>1, <3>3, <5>1 DEF Range, e
      <4>4. Right(current, b)
        <5>1. m \in 0 .. Len(b.elements)
          BY <1>1, <2>1
        <5> HIDE DEF m
        <5>2. Right([ssid |-> b.ssid, signal |-> b.signal, security |-> Secured(b, m)], b)
          BY <4>3, <5>1, RightEarly
        <5> QED
          BY <3>2, <5>2
      <4>5. current.ssid = b.ssid
        BY <3>2
      <4>6. RowsRight(networks', Append(bs, b)) /\ networks' \in Seq(Network)
        <5>1. CASE b.ssid # Hidden
          BY <3>1, <4>1, <4>4, <4>5, <5>1, RowMore, AppendProperties DEF Kept
        <5>2. CASE b.ssid = Hidden
          BY <3>1, <4>1, <4>5, <5>2, RowSame DEF Kept
        <5> QED
          BY <5>1, <5>2
      <4>7. Reading(bs, b, n + 1)'
        BY <2>1, <2>4, <2>5, <3>3, <4>2, <4>6 DEF Reading
      <4> QED
        BY <4>2, <4>6, <4>7
    <3>4. CASE e # "BSS Load"
      <4>1. e \in {"RSN", "WPA"}
        BY <2>2, <3>4 DEF Elements
      <4>2. networks' = networks /\ current' = [current EXCEPT !.security = Security(l, @)]
        BY <2>3, <4>1, ReadLineDoes DEF l
      <4>3. Security(l, current.security) = Secured(b, m + 1)
        BY <2>1, <2>3, <4>1 DEF Security, Secured, e
      <4>4. current' = [ssid |-> b.ssid, signal |-> b.signal, security |-> Secured(b, m + 1)]
        BY <3>2, <4>2, <4>3
      <4>5. current' = Partial(b, n + 1)
        BY <2>1, <2>4, <4>4 DEF Partial
      <4>6. current' \in Network
        BY <1>2, <2>1, <4>4 DEF Network, Secured
      <4>7. ~Loaded(b, m + 1)
        BY <2>5, <2>7, <3>4
      <4>8. Reading(bs, b, n + 1)'
        BY <2>1, <2>4, <3>1, <4>2, <4>5, <4>7 DEF Reading
      <4> QED
        BY <4>2, <4>6, <4>8
    <3> QED
      BY <3>3, <3>4
  <2> QED
    BY <2>6, <2>7
<1> QED
  BY <1>3, <1>4, <1>5, <1>6

\* Where one network is read to its end, the next may begin.
LEMMA EndIsBetween ==
  ASSUME current \in Network, networks \in Seq(Network),
         NEW bs \in Seq(Bsses), NEW b \in Bsses, NEW n \in Nat, NEW r \in Seq(AnyLine),
         NEW todo \in Seq(Bsses), Within(bs, b, n, r, todo), r = <<>>
  PROVE  Between(Append(bs, b), todo)
<1>1. Texts(todo) \in Seq(AnyLine)
  BY TextsProperties
<1>2. lines = Texts(todo)
  <2>1. <<>> \o Texts(todo) = Texts(todo)
    BY <1>1, ConcatEmptySeq
  <2> QED
    BY <2>1 DEF Within
<1>3. n = Len(Text(b))
  <2>1. Len(r) = 0 /\ Len(r) = Len(Text(b)) - n
    BY DEF Within
  <2>2. Len(Text(b)) \in Nat
    BY TextProperties
  <2> QED
    BY <2>1, <2>2
<1>4. Reading(bs, b, Len(Text(b)))
  BY <1>3 DEF Within
<1>5. RowsRight(Kept, Append(bs, b))
  BY <1>4, TextEnds
<1> QED
  BY <1>2, <1>5 DEF Between

\* The line that begins a network.
LEMMA BssLineRead ==
  ASSUME current \in Network, networks \in Seq(Network), ReadLine,
         NEW done \in Seq(Bsses), NEW todo \in Seq(Bsses), Between(done, todo)
  PROVE  /\ \E b \in Bsses, rest \in Seq(Bsses), r \in Seq(AnyLine) :
              /\ done \o todo = Append(done, b) \o rest
              /\ Within(done, b, 1, r, rest)'
         /\ current' \in Network /\ networks' \in Seq(Network)
<1> DEFINE b == Head(todo)
           rest == Tail(todo)
           x == Text(b)
           r == Tail(x)
<1>1. lines # <<>> /\ lines' = Tail(lines) /\ lines = Texts(todo)
  BY ReadLineDoes DEF Between
<1>2. todo # <<>>
  BY <1>1, TextsProperties
<1>3. b \in Bsses /\ rest \in Seq(Bsses) /\ todo = <<b>> \o rest
  BY <1>2, HeadFirst
<1>4. /\ x \in Seq(AnyLine) /\ Len(x) \in Nat /\ Len(x) >= 4 /\ x[1] = [key |-> "BSS"]
  <2>1. /\ x \in Seq(AnyLine) /\ Len(b.elements) \in Nat /\ Len(x) = 4 + Len(b.elements)
        /\ x[1] = [key |-> "BSS"]
    BY <1>3, TextProperties
  <2> HIDE DEF x, b
  <2> QED
    BY <2>1
<1>5. Texts(rest) \in Seq(AnyLine) /\ lines = x \o Texts(rest)
  BY <1>1, <1>2, <1>3, TextsProperties
<1> HIDE DEF b, rest, x
<1>6. x # <<>>
  BY <1>4
<1>7. /\ r \in Seq(AnyLine) /\ Len(r) = Len(x) - 1 /\ Head(x) = x[1]
      /\ \A i \in 1 .. Len(r) : r[i] = x[i + 1]
  BY <1>4, <1>6, HeadTailProperties
<1>8. Head(lines) = Head(x) /\ Tail(lines) = r \o Texts(rest)
  BY <1>4, <1>5, <1>6, HeadOfConcat
<1> HIDE DEF r
<1>9. networks' = Kept /\ current' = NewNetwork
  <2> DEFINE l == Head(lines)
  <2>1. l = [key |-> "BSS"]
    BY <1>4, <1>7, <1>8
  <2>2. l.key = "BSS"
    BY <2>1
  <2> HIDE DEF l
  <2> QED
    BY <2>2, ReadLineDoes DEF l
<1>10. Reading(done, b, 1)'
  <2>1. Partial(b, 1) = NewNetwork
    BY DEF Partial, NewNetwork
  <2>2. RowsRight(Kept, done)
    BY DEF Between
  <2> QED
    BY <1>9, <2>1, <2>2 DEF Reading
<1>11. Within(done, b, 1, r, rest)'
  <2>1. \A i \in 1 .. Len(r) : r[i] = x[1 + i]
    <3>1. \A i \in 1 .. Len(r) : i + 1 = 1 + i
      OBVIOUS
    <3> QED
      BY <1>7, <3>1
  <2>2. lines' = r \o Texts(rest)
    BY <1>1, <1>8
  <2> QED
    BY <1>7, <1>10, <2>1, <2>2 DEF Within, x
<1>12. done \o todo = Append(done, b) \o rest
  <2> DEFINE k == <<b>>
  <2>1. k \in Seq(Bsses) /\ Append(done, b) = done \o k /\ todo = k \o rest
    BY <1>3, AppendIsConcat
  <2> HIDE DEF k
  <2>2. (done \o k) \o rest = done \o (k \o rest)
    BY <1>3, <2>1, ConcatAssociative
  <2> QED
    BY <2>1, <2>2
<1>13. current' \in Network /\ networks' \in Seq(Network)
  BY <1>9, NewNetworkType, AppendProperties DEF Kept
<1> QED
  BY <1>3, <1>7, <1>11, <1>12, <1>13

\* Any other line.
LEMMA OtherLineRead ==
  ASSUME current \in Network, networks \in Seq(Network), ReadLine,
         NEW bs \in Seq(Bsses), NEW b \in Bsses, NEW n \in Nat, NEW r \in Seq(AnyLine),
         NEW todo \in Seq(Bsses), Within(bs, b, n, r, todo), r # <<>>
  PROVE  /\ \E q \in Seq(AnyLine) : Within(bs, b, n + 1, q, todo)'
         /\ current' \in Network /\ networks' \in Seq(Network)
<1> DEFINE x == Text(b)
           q == Tail(r)
<1>1. /\ lines = r \o Texts(todo) /\ n >= 1 /\ Len(r) = Len(x) - n /\ Reading(bs, b, n)
      /\ \A i \in 1 .. Len(r) : r[i] = x[n + i]
  BY DEF Within
<1>2. Texts(todo) \in Seq(AnyLine)
  BY TextsProperties
<1>3. Len(x) \in Nat
  BY TextProperties, LenProperties
<1>4. /\ q \in Seq(AnyLine) /\ Len(q) = Len(r) - 1 /\ Head(r) = r[1] /\ Len(r) \in Nat \ {0}
      /\ \A i \in 1 .. Len(q) : q[i] = r[i + 1]
  BY HeadTailProperties, EmptySeq
<1>5. Head(lines) = Head(r) /\ Tail(lines) = q \o Texts(todo)
  BY <1>1, <1>2, HeadOfConcat
<1> HIDE DEF x, q
<1>6. n < Len(x) /\ 1 \in 1 .. Len(r)
  BY <1>1, <1>3, <1>4
<1>7. Head(lines) = x[n + 1]
  BY <1>1, <1>4, <1>5, <1>6
<1>8. Reading(bs, b, n + 1)' /\ current' \in Network /\ networks' \in Seq(Network)
  BY <1>1, <1>6, <1>7, LineRead DEF x
<1>9. lines' = q \o Texts(todo)
  BY <1>5, ReadLineDoes
<1>10. Len(q) = Len(x) - (n + 1) /\ n + 1 >= 1
  BY <1>1, <1>3, <1>4
<1>11. ASSUME NEW i \in 1 .. Len(q) PROVE q[i] = x[(n + 1) + i]
  <2>1. i + 1 \in 1 .. Len(r) /\ n + (i + 1) = (n + 1) + i
    BY <1>4
  <2>2. r[i + 1] = x[n + (i + 1)]
    BY <1>1, <2>1
  <2> QED
    BY <1>4, <2>1, <2>2
<1>12. Within(bs, b, n + 1, q, todo)'
  BY <1>8, <1>9, <1>10, <1>11 DEF Within, x
<1> QED
  BY <1>4, <1>8, <1>12

\* One line, whichever it is.
LEMMA ReadLineKeeps ==
  ASSUME current \in Network, networks \in Seq(Network), ReadLine, ReadInv
  PROVE  ReadInv' /\ current' \in Network /\ networks' \in Seq(Network)
<1>1. PICK done \in Seq(Bsses), todo \in Seq(Bsses) : seen = done \o todo /\ Somewhere(done, todo)
  BY DEF ReadInv
<1>2. seen' = seen
  BY ReadLineDoes
<1>3. CASE Between(done, todo)
  <2>1. /\ current' \in Network /\ networks' \in Seq(Network)
        /\ \E b \in Bsses, rest \in Seq(Bsses), r \in Seq(AnyLine) :
             /\ done \o todo = Append(done, b) \o rest
             /\ Within(done, b, 1, r, rest)'
    BY <1>3, BssLineRead
  <2>2. PICK b \in Bsses, rest \in Seq(Bsses), r \in Seq(AnyLine) :
             /\ done \o todo = Append(done, b) \o rest
             /\ Within(done, b, 1, r, rest)'
    BY <2>1
  <2>3. Append(done, b) \in Seq(Bsses)
    BY AppendProperties
  <2>4. Somewhere(Append(done, b), rest)'
    BY <2>2 DEF Somewhere
  <2> QED
    BY <1>1, <1>2, <2>1, <2>2, <2>3, <2>4 DEF ReadInv
<1>4. ASSUME NEW bs \in Seq(Bsses), NEW b \in Bsses, NEW n \in Nat, NEW r \in Seq(AnyLine),
             done = Append(bs, b), Within(bs, b, n, r, todo)
      PROVE  ReadInv' /\ current' \in Network /\ networks' \in Seq(Network)
  <2>1. CASE r = <<>>
    <3>1. Between(Append(bs, b), todo)
      BY <1>4, <2>1, EndIsBetween
    <3> QED
      BY <1>3, <1>4, <3>1
  <2>2. CASE r # <<>>
    <3>1. /\ current' \in Network /\ networks' \in Seq(Network)
          /\ \E q \in Seq(AnyLine) : Within(bs, b, n + 1, q, todo)'
      BY <1>4, <2>2, OtherLineRead
    <3>2. n + 1 \in Nat
      OBVIOUS
    <3>3. Somewhere(done, todo)'
      BY <1>4, <3>1, <3>2 DEF Somewhere
    <3> QED
      BY <1>1, <1>2, <3>1, <3>3 DEF ReadInv
  <2> QED
    BY <2>1, <2>2
<1> QED
  BY <1>1, <1>3, <1>4 DEF Somewhere

\* The end of the output keeps the network that was read last.
LEMMA LastLineKeeps ==
  ASSUME current \in Network, networks \in Seq(Network), LastLine, ReadInv
  PROVE  RowsRight(networks, seen)' /\ current' \in Network /\ networks' \in Seq(Network)
<1>0. /\ lines = <<>> /\ networks' = Kept /\ current' = NewNetwork /\ seen' = seen
  BY DEF LastLine, flush_current, Kept
<1>1. PICK done \in Seq(Bsses), todo \in Seq(Bsses) : seen = done \o todo /\ Somewhere(done, todo)
  BY DEF ReadInv
<1>2. ASSUME NEW t \in Seq(Bsses), t # <<>> PROVE Texts(t) # <<>>
  <2> DEFINE x == Text(Head(t))
             u == Texts(Tail(t))
  <2>1. Head(t) \in Bsses /\ Tail(t) \in Seq(Bsses)
    BY <1>2, HeadTailProperties
  <2>2. x \in Seq(AnyLine) /\ x # <<>>
    <3>1. x \in Seq(AnyLine) /\ Len(Head(t).elements) \in Nat /\ Len(x) = 4 + Len(Head(t).elements)
      BY <2>1, TextProperties
    <3>2. Len(x) # 0
      BY <3>1
    <3> HIDE DEF x
    <3> QED
      BY <3>1, <3>2
  <2>3. u \in Seq(AnyLine) /\ Texts(t) = x \o u
    BY <1>2, <2>1, TextsProperties
  <2> HIDE DEF x, u
  <2> QED
    BY <2>2, <2>3, ConcatEqualIffEmpty
<1>3. ASSUME Between(done, todo) PROVE RowsRight(networks, seen)'
  <2>1. todo = <<>>
    BY <1>0, <1>2, <1>3 DEF Between
  <2>2. done \o <<>> = done
    BY ConcatEmptySeq
  <2>3. seen = done
    BY <1>1, <2>1, <2>2
  <2>4. RowsRight(Kept, seen)
    BY <1>3, <2>3 DEF Between
  <2> QED
    BY <1>0, <2>4
<1>4. ASSUME NEW bs \in Seq(Bsses), NEW b \in Bsses, NEW n \in Nat, NEW r \in Seq(AnyLine),
             done = Append(bs, b), Within(bs, b, n, r, todo)
      PROVE  RowsRight(networks, seen)'
  <2>1. Texts(todo) \in Seq(AnyLine) /\ lines = r \o Texts(todo)
    BY <1>4, TextsProperties DEF Within
  <2>2. r = <<>>
    <3> DEFINE u == Texts(todo)
    <3>1. u \in Seq(AnyLine)
      BY <2>1
    <3>2. r \in Seq(AnyLine)
      BY <1>4
    <3>3. lines = r \o u
      BY <2>1
    <3> HIDE DEF u
    <3>4. r \o u = <<>>
      BY <1>0, <3>3
    <3> QED
      BY <3>1, <3>2, <3>4, NothingJoined
  <2>3. Between(Append(bs, b), todo)
    BY <1>4, <2>2, EndIsBetween
  <2> QED
    BY <1>3, <1>4, <2>3
<1>5. RowsRight(networks, seen)'
  BY <1>1, <1>3, <1>4 DEF Somewhere
<1>6. current' \in Network /\ networks' \in Seq(Network)
  BY <1>0, NewNetworkType, AppendProperties DEF Kept
<1> QED
  BY <1>5, <1>6

\* An empty table is that of no network.
LEMMA NoRows == RowsRight(<<>>, <<>>)
<1> DEFINE E == <<>>
<1>1. E \in Seq(Bsses) /\ Len(E) = 0
  OBVIOUS
<1>2. VisibleOf(E) = E
  BY <1>1, VisibleProperties
<1> HIDE DEF E
<1>3. RowsRight(E, E)
  BY <1>1, <1>2 DEF RowsRight
<1> QED
  BY <1>3 DEF E

\* iw has printed: all is still to be read.
LEMMA IwKeeps ==
  ASSUME Iw, networks = <<>>
  PROVE  ReadInv' /\ seen' \in Seq(Bsses) /\ current' \in Network
<1>1. seen' \in Seq(Bsses)
  <2>1. PICK n \in 0 .. MaxSeen : seen' \in [1 .. n -> Bsses]
    BY DEF Iw
  <2>2. n \in Nat
    BY MaxSeenAssumption
  <2> QED
    BY <2>1, <2>2
<1>2. lines' = Texts(seen')
  <2>1. DOMAIN seen' = 1 .. Len(seen')
    BY <1>1, LenProperties
  <2>2. lines' = FlattenSeq([i \in DOMAIN seen' |-> Text(seen'[i])])
    BY DEF Iw
  <2> QED
    BY <2>1, <2>2 DEF Texts
<1>3. current' = NewNetwork /\ networks' = <<>>
  BY DEF Iw
<1>4. Kept' = <<>>
  BY <1>3 DEF Kept, NewNetwork
<1>5. ASSUME NEW E, E = <<>>, NEW t \in Seq(Bsses), t = seen'
      PROVE  ReadInv'
  <2>1. Between(E, t)'
    <3>1. Kept' = E
      BY <1>4, <1>5
    <3>2. RowsRight(E, E)
      BY <1>5, NoRows
    <3>3. lines' = Texts(t)
      BY <1>2, <1>5
    <3> QED
      BY <3>1, <3>2, <3>3 DEF Between
  <2>2. E \in Seq(Bsses)
    BY <1>5
  <2>3. seen' = E \o t
    BY <1>5, ConcatEmptySeq
  <2>4. Somewhere(E, t)'
    BY <2>1 DEF Somewhere
  <2> QED
    BY <1>5, <2>2, <2>3, <2>4 DEF ReadInv
<1>7. ReadInv'
  BY <1>1, <1>5
<1> QED
  BY <1>1, <1>3, <1>7, NewNetworkType

\* A cell that was cut leaves room for its padding: size_t does not wrap.
LEMMA PadFits ==
  ASSUME NEW n \in Nat
  PROVE  Pad(Cut(n, 32), 34) <= 34 /\ Pad(Cut(n, 12), 14) <= 14
BY DEF Pad, Cut

\* A row is printed in its columns.
LEMMA PrintRowKeeps ==
  ASSUME ScanTypeOK, RowsRight(networks, seen), PrintRow
  PROVE  /\ padding'[1] <= 34 /\ padding'[2] <= 14 /\ Len(padding') = 2
         /\ row' \in 0 .. Len(networks)
<1> DEFINE v == VisibleOf(seen)
           r == networks[row']
           c == v[row']
<1>1. networks \in Seq(Network) /\ seen \in Seq(Bsses) /\ row \in 0 .. Len(networks)
  BY DEF ScanTypeOK
<1>2. Len(networks) \in Nat
  BY <1>1, LenProperties
<1>3. row' = row + 1 /\ row < Len(networks)
  BY DEF PrintRow
<1>4. row' \in 1 .. Len(networks)
  BY <1>1, <1>2, <1>3
<1>5. Len(networks) = Len(v) /\ Right(r, c)
  BY <1>4 DEF RowsRight
<1>6. v \in Seq(Bsses) /\ \A i \in 1 .. Len(v) : v[i].ssid # Hidden
  BY <1>1, VisibleProperties
<1> HIDE DEF v
<1>7. c \in Bsses /\ c.ssid # Hidden
  BY <1>4, <1>5, <1>6, ElementOfSeq
<1>8. Length[r.ssid] \in Nat /\ Length[r.signal] \in Nat
  BY <1>5, <1>7, LengthAssumption DEF Right
<1>9. padding' = <<Pad(Cut(Length[r.ssid], 32), 34), Pad(Cut(Length[r.signal], 12), 14)>>
  BY DEF PrintRow
<1>10. padding'[1] <= 34 /\ padding'[2] <= 14
  BY <1>8, <1>9, PadFits
<1> QED
  BY <1>2, <1>4, <1>9, <1>10

\* What is read stays so as long as no line is.
LEMMA NothingRead ==
  ASSUME ReadInv, UNCHANGED <<lines, current, networks, seen>>
  PROVE  ReadInv'
<1>1. PICK done \in Seq(Bsses), todo \in Seq(Bsses) : seen = done \o todo /\ Somewhere(done, todo)
  BY DEF ReadInv
<1>2. Between(done, todo) => Between(done, todo)'
  BY DEF Between, Kept
<1>3. ASSUME NEW bs \in Seq(Bsses), NEW b \in Bsses, NEW n \in Nat, NEW r \in Seq(AnyLine),
             Within(bs, b, n, r, todo)
      PROVE  Within(bs, b, n, r, todo)'
  BY <1>3 DEF Within, Reading
<1>4. Somewhere(done, todo)'
  <2>1. CASE Between(done, todo)
    BY <1>2, <2>1 DEF Somewhere
  <2>2. CASE ~Between(done, todo)
    <3>1. PICK bs \in Seq(Bsses), b \in Bsses, n \in Nat, r \in Seq(AnyLine) :
            done = Append(bs, b) /\ Within(bs, b, n, r, todo)
      BY <1>1, <2>2 DEF Somewhere
    <3>2. Within(bs, b, n, r, todo)'
      BY <1>3, <3>1
    <3> QED
      BY <3>1, <3>2 DEF Somewhere
  <2> QED
    BY <2>1, <2>2
<1>5. seen' = done \o todo
  BY <1>1
<1> QED
  BY <1>4, <1>5 DEF ReadInv

\* No scan has been made.
LEMMA ScanInvInitially == ScanInit => ScanInv
BY NewNetworkType DEF ScanInit, ScanInv, ScanTypeOK

\* Every step of the command preserves the invariant.
LEMMA ScanInvKept == ScanInv /\ [ScanNext]_scanVars => ScanInv'
<1> SUFFICES ASSUME ScanInv, [ScanNext]_scanVars PROVE ScanInv'
  OBVIOUS
<1>0. /\ ScanTypeOK /\ padding[1] <= 34 /\ padding[2] <= 14
      /\ stage \in {"link", "scan"} => networks = <<>> /\ row = 0
      /\ stage = "read" => ReadInv /\ row = 0
      /\ stage = "print" => RowsRight(networks, seen)
  BY DEF ScanInv
<1>1. CASE StartScan
  <2>1. Len(<<0, 0>>) = 2 /\ Len(<<>>) = 0
    OBVIOUS
  <2> QED
    BY <1>0, <1>1, <2>1 DEF StartScan, ScanInv, ScanTypeOK
<1>2. CASE LinkUp
  BY <1>0, <1>2 DEF LinkUp, ScanInv, ScanTypeOK
<1>3. CASE ScanFails
  BY <1>0, <1>3 DEF ScanFails, ScanInv, ScanTypeOK
<1>4. CASE Iw
  <2>1. networks = <<>> /\ stage' = "read" /\ UNCHANGED <<networks, row, padding>>
    BY <1>0, <1>4 DEF Iw
  <2>2. ReadInv' /\ seen' \in Seq(Bsses) /\ current' \in Network
    BY <1>4, <2>1, IwKeeps
  <2> QED
    BY <1>0, <2>1, <2>2 DEF ScanInv, ScanTypeOK
<1>5. CASE ReadLine
  <2>1. stage = "read" /\ UNCHANGED <<stage, seen, row, padding>>
    BY <1>5, ReadLineDoes
  <2>2. ReadInv' /\ current' \in Network /\ networks' \in Seq(Network)
    BY <1>0, <1>5, <2>1, ReadLineKeeps DEF ScanTypeOK
  <2>3. row = 0 /\ Len(networks') \in Nat
    BY <1>0, <2>1, <2>2, LenProperties
  <2> QED
    BY <1>0, <2>1, <2>2, <2>3 DEF ScanInv, ScanTypeOK
<1>6. CASE LastLine
  <2>1. stage = "read" /\ stage' = "print" /\ UNCHANGED <<seen, row, padding>>
    BY <1>6 DEF LastLine
  <2>2. RowsRight(networks, seen)' /\ current' \in Network /\ networks' \in Seq(Network)
    BY <1>0, <1>6, <2>1, LastLineKeeps DEF ScanTypeOK
  <2>3. row = 0 /\ Len(networks') \in Nat
    BY <1>0, <2>1, <2>2, LenProperties
  <2> QED
    BY <1>0, <2>1, <2>2, <2>3 DEF ScanInv, ScanTypeOK
<1>7. CASE PrintRow
  <2>1. stage = "print" /\ UNCHANGED <<stage, seen, lines, current, networks>>
    BY <1>7 DEF PrintRow
  <2>2. /\ padding'[1] <= 34 /\ padding'[2] <= 14 /\ Len(padding') = 2
        /\ row' \in 0 .. Len(networks)
    BY <1>0, <1>7, <2>1, PrintRowKeeps
  <2> QED
    BY <1>0, <2>1, <2>2 DEF ScanInv, ScanTypeOK
<1>8. CASE Printed
  BY <1>0, <1>8 DEF Printed, ScanInv, ScanTypeOK
<1>9. CASE UNCHANGED scanVars
  <2>1. ReadInv => ReadInv'
    BY <1>9, NothingRead DEF scanVars
  <2> QED
    BY <1>0, <1>9, <2>1 DEF scanVars, ScanInv, ScanTypeOK
<1> QED
  BY <1>1, <1>2, <1>3, <1>4, <1>5, <1>6, <1>7, <1>8, <1>9 DEF ScanNext

\* However many networks iw finds and whatever their elements, the row being
\* printed is one of the table, and the table one of networks.
THEOREM ScanTypeCorrect == ScanSpec => []ScanTypeOK
<1>1. ScanInv => ScanTypeOK
  BY DEF ScanInv
<1> QED
  BY <1>1, ScanInvInitially, ScanInvKept, PTL DEF ScanSpec

\* The table of "network scan" has a row for every network with a name, in order,
\* each with its own signal and security, but for the security of those whose
\* output contains "BSS Load:", of which only "open" can be relied upon.
THEOREM TableIsRight == ScanSpec => []TableRight
<1>1. ScanInv => TableRight
  <2> SUFFICES ASSUME ScanInv, stage = "print" PROVE
         /\ Len(networks) = Len(Visible)
         /\ \A i \in DOMAIN networks : Right(networks[i], Visible[i])
    BY DEF TableRight, Right
  <2>1. DOMAIN networks = 1 .. Len(networks)
    BY LenProperties DEF ScanInv, ScanTypeOK
  <2> QED
    BY <2>1 DEF ScanInv, RowsRight, Visible
<1> QED
  BY <1>1, ScanInvInitially, ScanInvKept, PTL DEF ScanSpec

\* PID 1 never asks for more than 34 and 14 spaces, however long a name or a
\* signal is: 34 - size() does not wrap around.
THEOREM PaddingAlwaysFits == ScanSpec => []PaddingFits
<1>1. ScanInv => PaddingFits
  BY DEF ScanInv, PaddingFits
<1> QED
  BY <1>1, ScanInvInitially, ScanInvKept, PTL DEF ScanSpec
=============================================================================
