--------------------------- MODULE MarshalProofs ---------------------------
(***************************************************************************)
(* Proofs about Marshal: whatever the number and the types of the          *)
(* arguments, long long excepted, the loops of create_job deliver them and *)
(* touch nothing else, and do_cleanup stores the result and no byte more.  *)
(* The loops are followed by induction, stated with sets.                  *)
(***************************************************************************)
EXTENDS Marshal, WellFoundedInduction, TLAPS

USE MarshalAssumption

-----------------------------------------------------------------------------
(* Induction *)

\* A set with 0 and the successors of its elements has every natural number.
LEMMA SetInduction ==
  ASSUME NEW S, 0 \in S, \A k \in Nat : k \in S => k + 1 \in S
  PROVE  \A k \in Nat : k \in S
<1> DEFINE T == Nat \ S
<1>1. IsWellFoundedOn(OpToRel(<, Nat), Nat)
  BY NatLessThanWellFounded
<1>2. SUFFICES ASSUME T # {} PROVE FALSE
  OBVIOUS
<1>3. PICK m \in T : \A k \in T : <<k, m>> \notin OpToRel(<, Nat)
  <2>1. T \subseteq Nat
    OBVIOUS
  <2> HIDE DEF T
  <2> QED BY <1>1, <1>2, <2>1, WFMin
<1>4. \A k \in T : ~ (k < m)
  BY <1>3 DEF OpToRel
<1>5. m # 0 /\ m - 1 \in Nat /\ m - 1 + 1 = m
  OBVIOUS
<1>6. m - 1 \in S
  BY <1>4, <1>5
<1> QED BY <1>5, <1>6

\* o[i] is the number of words in the first i of n pieces, which have g[i] words each.
IsOffsets(o, n, g) == /\ o \in [0..n -> Nat] /\ o[0] = 0
                      /\ \A i \in 1..n : o[i] = o[i - 1] + g[i]

\* Lengths have running sums.
LEMMA OffsetsExist ==
  ASSUME NEW n \in Nat, NEW g \in [1..n -> Nat] PROVE \E o : IsOffsets(o, n, g)
<1> DEFINE S == {m \in Nat : m <= n => \E o : IsOffsets(o, m, g)}
<1>1. 0 \in S
  <2>1. IsOffsets([i \in 0..0 |-> 0], 0, g)
    BY DEF IsOffsets
  <2> QED BY <2>1
<1>2. ASSUME NEW m \in Nat, m \in S PROVE m + 1 \in S
  <2>1. SUFFICES ASSUME m + 1 <= n PROVE \E o : IsOffsets(o, m + 1, g)
    OBVIOUS
  <2>2. PICK o : IsOffsets(o, m, g)
    BY <1>2, <2>1
  <2> DEFINE p == [i \in 0..m + 1 |-> IF i <= m THEN o[i] ELSE o[m] + g[m + 1]]
  <2>3. p \in [0..m + 1 -> Nat] /\ p[0] = 0
    BY <2>1, <2>2 DEF IsOffsets
  <2>4. ASSUME NEW i \in 1..m + 1 PROVE p[i] = p[i - 1] + g[i]
    <3>1. CASE i <= m
      BY <2>2, <3>1 DEF IsOffsets
    <3>2. CASE i = m + 1
      BY <3>2
    <3> QED BY <3>1, <3>2
  <2>5. IsOffsets(p, m + 1, g)
    BY <2>3, <2>4 DEF IsOffsets
  <2> QED BY <2>5
<1>3. \A m \in Nat : m \in S
  <2> HIDE DEF S
  <2> QED BY <1>1, <1>2, SetInduction
<1> QED BY <1>3

-----------------------------------------------------------------------------
(* FlattenSeq *)

\* One sequence behind the other, with what is to be known of it.
Cat(s, t) == s \o t

\* Two sequences put together: the first, then the second, moved by its length.
LEMMA CatFacts ==
  ASSUME NEW X, NEW s \in Seq(X), NEW t \in Seq(X)
  PROVE  /\ Cat(s, t) \in Seq(X) /\ Len(Cat(s, t)) = Len(s) + Len(t)
         /\ \A i \in 1..Len(s) : Cat(s, t)[i] = s[i]
         /\ \A i \in 1..Len(t) : Cat(s, t)[Len(s) + i] = t[i]
  BY DEF Cat

\* One round of FlattenSeq.
Flatten(f, seqs, n) == [i \in 1..n |-> IF i = 1 THEN seqs[i] ELSE Cat(f[i - 1], seqs[i])]

\* The fold that FlattenSeq is made of is a function.
LEMMA FlattenExists == ASSUME NEW seqs, NEW n \in Nat PROVE \E f : f = Flatten(f, seqs, n)
<1> DEFINE S == {m \in Nat : \E f : f = Flatten(f, seqs, m)}
<1>1. 0 \in S
  <2> DEFINE f == [i \in 1..0 |-> 0]
  <2>1. f = Flatten(f, seqs, 0)
    BY DEF Flatten
  <2> QED BY <2>1
<1>2. ASSUME NEW m \in Nat, m \in S PROVE m + 1 \in S
  <2>1. PICK f : f = Flatten(f, seqs, m)
    BY <1>2
  <2> DEFINE last == IF m = 0 THEN seqs[1] ELSE Cat(f[m], seqs[m + 1])
             g == [i \in 1..m + 1 |-> IF i <= m THEN f[i] ELSE last]
  <2>2. ASSUME NEW i \in 1..m + 1 PROVE g[i] = Flatten(g, seqs, m + 1)[i]
    <3> DEFINE other == Cat(g[i - 1], seqs[i])
    <3>1. Flatten(g, seqs, m + 1)[i] = IF i = 1 THEN seqs[i] ELSE other
      BY DEF Flatten
    <3>2. CASE i <= m
      <4>1. f[i] = IF i = 1 THEN seqs[i] ELSE Cat(f[i - 1], seqs[i])
        <5>1. f[i] = Flatten(f, seqs, m)[i]
          BY <2>1
        <5> QED BY <3>2, <5>1 DEF Flatten
      <4>2. i # 1 => g[i - 1] = f[i - 1]
        BY <3>2
      <4> QED BY <3>1, <3>2, <4>1, <4>2
    <3>3. CASE i = m + 1
      <4>1. m # 0 => g[i - 1] = f[m]
        BY <3>3
      <4>2. g[i] = last
        BY <3>3
      <4> QED BY <3>1, <3>3, <4>1, <4>2
    <3> QED BY <3>2, <3>3
  <2>3. g = Flatten(g, seqs, m + 1)
    <3>1. g = [i \in 1..m + 1 |-> g[i]]
      OBVIOUS
    <3>2. Flatten(g, seqs, m + 1) = [i \in 1..m + 1 |-> Flatten(g, seqs, m + 1)[i]]
      BY DEF Flatten
    <3> HIDE DEF g
    <3> QED BY <2>2, <3>1, <3>2
  <2> QED BY <2>3
<1>3. \A m \in Nat : m \in S
  <2> HIDE DEF S
  <2> QED BY <1>1, <1>2, SetInduction
<1> QED BY <1>3

Lengths(seqs, n) == [i \in 1..n |-> Len(seqs[i])]

\* flat is the pieces, one behind the other.
LaidOut(flat, seqs, n, o) ==
  /\ Len(flat) = o[n] /\ DOMAIN flat = 1..o[n]
  /\ \A h \in 1..n : \A j \in 1..Len(seqs[h]) :
       o[h - 1] + j \in 1..o[n] /\ flat[o[h - 1] + j] = seqs[h][j]

\* Where FlattenSeq puts the j-th element of the h-th sequence.
LEMMA FlattenIs ==
  ASSUME NEW X, NEW n \in Nat, NEW seqs \in [1..n -> Seq(X)],
         NEW o, IsOffsets(o, n, Lengths(seqs, n))
  PROVE  LaidOut(FlattenSeq(seqs), seqs, n, o)
<1> DEFINE f == CHOOSE g : g = Flatten(g, seqs, n)
           At(k) == /\ f[k] \in Seq(X) /\ Len(f[k]) = o[k]
                    /\ \A h \in 1..k : \A j \in 1..Len(seqs[h]) :
                         o[h - 1] + j \in 1..o[k] /\ f[k][o[h - 1] + j] = seqs[h][j]
           S == {k \in Nat : k + 1 <= n => At(k + 1)}
<1>1. seqs \in Seq(Seq(X)) /\ Len(seqs) = n
  OBVIOUS
<1>2. f = Flatten(f, seqs, n)
  BY FlattenExists
<1>3. ASSUME NEW i \in 1..n PROVE f[i] = IF i = 1 THEN seqs[i] ELSE Cat(f[i - 1], seqs[i])
  <2>1. f[i] = Flatten(f, seqs, n)[i]
    BY <1>2
  <2> HIDE DEF f
  <2> QED BY <2>1 DEF Flatten
<1>4. /\ o \in [0..n -> Nat] /\ o[0] = 0
      /\ \A i \in 1..n : o[i] = o[i - 1] + Len(seqs[i])
  BY DEF IsOffsets, Lengths
<1> HIDE DEF f
<1>5. 0 \in S
  <2>1. SUFFICES ASSUME 1 <= n PROVE At(1)
    OBVIOUS
  <2>2. f[1] = seqs[1] /\ o[1] = Len(seqs[1]) /\ seqs[1] \in Seq(X)
    BY <1>3, <1>4, <2>1
  <2>3. \A h \in 1..1 : \A j \in 1..Len(seqs[h]) :
          o[h - 1] + j \in 1..o[1] /\ f[1][o[h - 1] + j] = seqs[h][j]
    BY <1>4, <2>2
  <2> QED BY <2>2, <2>3
<1>6. ASSUME NEW k \in Nat, k + 1 + 1 <= n, At(k + 1) PROVE At(k + 1 + 1)
  <2> DEFINE i == k + 1
             a == f[i]
             b == seqs[i + 1]
  <2>1. i \in 1..n /\ i + 1 \in 1..n /\ i + 1 # 1 /\ i + 1 - 1 = i
    BY <1>6
  <2>2. a \in Seq(X) /\ b \in Seq(X) /\ Len(a) = o[i]
    BY <1>6, <2>1
  <2>3. f[i + 1] = Cat(a, b)
    <3>1. f[i + 1] = IF i + 1 = 1 THEN seqs[i + 1] ELSE Cat(f[i + 1 - 1], seqs[i + 1])
      <4> HIDE DEF i
      <4> QED BY <1>3, <2>1
    <3> QED BY <2>1, <3>1
  <2>4. o[i + 1] = o[i] + Len(b) /\ o[i] \in Nat /\ Len(b) \in Nat
    <3> HIDE DEF i
    <3> QED BY <1>4, <2>1, <2>2
  <2>5a. Cat(a, b) \in Seq(X) /\ Len(Cat(a, b)) = Len(a) + Len(b)
    <3> HIDE DEF a, b
    <3> QED BY <2>2, CatFacts
  <2>5b. \A p \in 1..Len(a) : Cat(a, b)[p] = a[p]
    <3> HIDE DEF a, b
    <3> QED BY <2>2, CatFacts
  <2>5c. \A p \in 1..Len(b) : Cat(a, b)[Len(a) + p] = b[p]
    <3>1. a \in Seq(X) /\ b \in Seq(X)
      BY <2>2
    <3> HIDE DEF a, b
    <3> QED BY ONLY <3>1, CatFacts
  <2>6. ASSUME NEW h \in 1..i + 1, NEW j \in 1..Len(seqs[h])
        PROVE  o[h - 1] + j \in 1..o[i + 1] /\ f[i + 1][o[h - 1] + j] = seqs[h][j]
    <3>1. CASE h \in 1..i
      <4> DEFINE q == o[h - 1] + j
      <4>1. q \in 1..o[i] /\ a[q] = seqs[h][j]
        BY <1>6, <3>1
      <4>2. f[i + 1][q] = Cat(a, b)[q]
        BY <2>3
      <4>3. Cat(a, b)[q] = a[q]
        <5> HIDE DEF a, b, i, q
        <5> QED BY <2>2, <2>5b, <4>1
      <4>4. q \in 1..o[i + 1]
        <5> HIDE DEF a, b, i, q
        <5> QED BY <2>4, <4>1
      <4> QED BY <4>1, <4>2, <4>3, <4>4
    <3>2. CASE h = i + 1
      <4>1. h - 1 = i /\ j \in 1..Len(b) /\ seqs[h] = b
        BY <3>2
      <4>2. f[i + 1][o[i] + j] = Cat(a, b)[o[i] + j]
        BY <2>3
      <4>3. Cat(a, b)[o[i] + j] = b[j]
        <5> HIDE DEF a, b, i
        <5> QED BY <2>2, <2>5c, <4>1
      <4>4. o[i] + j \in 1..o[i + 1]
        <5> HIDE DEF a, b, i
        <5> QED BY <2>4, <4>1
      <4> QED BY <4>1, <4>2, <4>3, <4>4
    <3> QED BY <2>1, <3>1, <3>2
  <2>7. f[i + 1] \in Seq(X) /\ Len(f[i + 1]) = o[i + 1]
    <3> HIDE DEF a, b, i
    <3> QED BY <2>2, <2>3, <2>4, <2>5a
  <2> QED BY <2>6, <2>7
<1>7. n # 0 => At(n)
  <2> HIDE DEF At
  <2>1. 0 \in S /\ \A k \in Nat : k \in S => k + 1 \in S
    BY <1>5, <1>6
  <2>2. \A k \in Nat : k \in S
    <3> HIDE DEF S
    <3> QED BY <2>1, SetInduction
  <2>3. SUFFICES ASSUME n # 0 PROVE At(n)
    OBVIOUS
  <2>4. n - 1 \in Nat /\ n - 1 + 1 = n
    BY <2>3
  <2>5. n - 1 + 1 <= n => At(n - 1 + 1)
    BY <2>2, <2>4
  <2> QED BY <2>4, <2>5
<1>8. FlattenSeq(seqs) = IF n = 0 THEN seqs ELSE f[n]
  BY <1>1 DEF FlattenSeq, Flatten, Cat, f
<1>9. CASE n = 0
  BY <1>1, <1>4, <1>8, <1>9 DEF LaidOut
<1>10. CASE n # 0
  <2>1. FlattenSeq(seqs) = f[n]
    BY <1>8, <1>10
  <2> QED BY <1>7, <1>10, <2>1 DEF LaidOut
<1> QED BY <1>9, <1>10

-----------------------------------------------------------------------------
(* The loops of create_job *)

\* The arguments of a job: a sequence of types the code can copy.
Given == /\ ArgTypes \cap LongLongs = {}
         /\ Len(types) \in 0..MaxArgs
         /\ types \in [1..Len(types) -> ArgTypes]

num_arg == Len(types)
Pieces == [i \in 1..num_arg |-> Formal(i)]
PushedPieces == [i \in 1..num_arg |-> [k \in 1..Pushed(types[i]) |-> <<i, k>>]]
Formals == FlattenSeq([i \in DOMAIN types |-> Formal(i)])
Values == Nat \X (Nat \cup {"float"})

\* o and c are where the arguments begin, in the job's stack and in the caller's.
Begins(o, c) == /\ IsOffsets(o, num_arg, Lengths(Pieces, num_arg))
                /\ IsOffsets(c, num_arg, Lengths(PushedPieces, num_arg))

\* What is copied of one argument is as long as the first pass has it.
LEMMA PieceFacts ==
  ASSUME Given, NEW i \in 1..num_arg
  PROVE  /\ types[i] \in Types \ LongLongs
         /\ Pieces[i] \in Seq(Values) /\ PushedPieces[i] \in Seq(Values)
         /\ Len(Pieces[i]) = size(types[i]) /\ size(types[i]) \in 0..3
         /\ Len(PushedPieces[i]) = Pushed(types[i]) /\ Pushed(types[i]) \in 0..3
<1>1. types[i] \in Types \ LongLongs
  BY DEF Given, num_arg
<1>2. /\ size(types[i]) \in 0..3 /\ Pushed(types[i]) \in 0..3
      /\ types[i] = "FLOAT" => size(types[i]) = 1
      /\ types[i] # "FLOAT" => size(types[i]) = Pushed(types[i])
  BY <1>1 DEF size, Pushed, LongLongs
<1>3. PushedPieces[i] = [k \in 1..Pushed(types[i]) |-> <<i, k>>]
  BY DEF PushedPieces
<1>4. PushedPieces[i] \in Seq(Values) /\ Len(PushedPieces[i]) = Pushed(types[i])
  BY <1>2, <1>3 DEF Values, num_arg, Given
<1>5. CASE types[i] = "FLOAT"
  <2>1. Pieces[i] = <<<<i, "float">>>>
    BY <1>5 DEF Pieces, Formal
  <2>2. <<i, "float">> \in Values
    BY DEF Values, num_arg, Given
  <2>3. Pieces[i] \in Seq(Values) /\ Len(Pieces[i]) = 1
    BY <2>1, <2>2
  <2> QED BY <1>1, <1>2, <1>4, <1>5, <2>3
<1>6. CASE types[i] # "FLOAT"
  <2>1. Pieces[i] = PushedPieces[i]
    BY <1>3, <1>6 DEF Pieces, Formal
  <2> QED BY <1>1, <1>2, <1>4, <1>6, <2>1
<1> QED BY <1>5, <1>6

\* The arguments given have offsets, among the words pushed and among those copied.
LEMMA BeginsExist == Given => \E o, c : Begins(o, c)
<1> SUFFICES ASSUME Given PROVE \E o, c : Begins(o, c)
  OBVIOUS
<1>1. num_arg \in Nat
  BY DEF Given, num_arg
<1>2. Lengths(Pieces, num_arg) \in [1..num_arg -> Nat]
  BY PieceFacts DEF Lengths
<1>3. Lengths(PushedPieces, num_arg) \in [1..num_arg -> Nat]
  BY PieceFacts DEF Lengths
<1>4. \E o : IsOffsets(o, num_arg, Lengths(Pieces, num_arg))
  BY <1>1, <1>2, OffsetsExist
<1>5. \E c : IsOffsets(c, num_arg, Lengths(PushedPieces, num_arg))
  BY <1>1, <1>3, OffsetsExist
<1> QED BY <1>4, <1>5 DEF Begins

\* Where the arguments are in what the caller pushed and in what the routine expects.
LEMMA FormalsAre ==
  ASSUME Given, NEW o, NEW c, Begins(o, c)
  PROVE  /\ Len(Formals) = o[num_arg] /\ DOMAIN Formals = 1..o[num_arg]
         /\ \A i \in 1..num_arg : \A j \in 1..Len(Pieces[i]) :
              o[i - 1] + j \in 1..o[num_arg] /\ Formals[o[i - 1] + j] = Pieces[i][j]
<1>1. Formals = FlattenSeq(Pieces) /\ num_arg \in Nat
  BY DEF Formals, Pieces, num_arg, Given
<1>2. Pieces \in [1..num_arg -> Seq(Values)]
  <2>1. Pieces = [i \in 1..num_arg |-> Pieces[i]]
    BY DEF Pieces
  <2> QED BY <2>1, PieceFacts
<1>3. IsOffsets(o, num_arg, Lengths(Pieces, num_arg))
  BY DEF Begins
<1>4. LaidOut(Formals, Pieces, num_arg, o)
  BY <1>1, <1>2, <1>3, FlattenIs
<1> QED BY <1>4 DEF LaidOut

\* Word j of argument i is found where the words of the arguments before it end.
LEMMA CallerIs ==
  ASSUME Given, NEW o, NEW c, Begins(o, c), NEW i \in 1..num_arg, NEW j \in 1..Pushed(types[i])
  PROVE  /\ Caller(c[i - 1] + j) = <<i, j>>
         /\ c[i - 1] + j \in 1..Len(caller) /\ caller[c[i - 1] + j] = <<i, j>>
<1>1. caller = FlattenSeq(PushedPieces) /\ num_arg \in Nat
  BY DEF caller, PushedPieces, num_arg, Given
<1>2. PushedPieces \in [1..num_arg -> Seq(Values)]
  <2>1. PushedPieces = [k \in 1..num_arg |-> PushedPieces[k]]
    BY DEF PushedPieces
  <2> QED BY <2>1, PieceFacts
<1>3. IsOffsets(c, num_arg, Lengths(PushedPieces, num_arg))
  BY DEF Begins
<1>4. j \in 1..Len(PushedPieces[i]) /\ PushedPieces[i][j] = <<i, j>>
  <2>1. PushedPieces[i] = [k \in 1..Pushed(types[i]) |-> <<i, k>>]
    BY DEF PushedPieces
  <2> QED BY <2>1, PieceFacts
<1>5. LaidOut(caller, PushedPieces, num_arg, c)
  BY <1>1, <1>2, <1>3, FlattenIs
<1>6. c[num_arg] \in Nat
  BY <1>1 DEF Begins, IsOffsets
<1> QED BY <1>4, <1>5, <1>6 DEF Caller, LaidOut

\* The loops, as functions of what they have done so far.
Sums(f) == [i \in 0..Len(types) |-> IF i = 0 THEN 0 ELSE f[i - 1] + size(types[i])]

Copies(f, block, top) ==
  [i \in 0..Len(types) |-> IF i = 0 THEN [mem |-> block, dst |-> top, src |-> 1]
                           ELSE copy(f[i - 1], types[i])]

\* The first pass finds the space the arguments take.
LEMMA SumIs == ASSUME Given, NEW o, NEW c, Begins(o, c) PROVE sum = o[num_arg]
<1> DEFINE f == CHOOSE g : g = Sums(g)
           S == {i \in Nat : i <= num_arg => f[i] = o[i]}
<1>1. o \in [0..num_arg -> Nat] /\ o[0] = 0 /\ num_arg \in Nat
  BY DEF Begins, IsOffsets, Given, num_arg
<1>2. ASSUME NEW i \in 1..num_arg PROVE o[i] = o[i - 1] + size(types[i])
  BY PieceFacts DEF Begins, IsOffsets, Lengths
<1>3. o = Sums(o)
  <2>1. Sums(o) = [i \in 0..num_arg |-> IF i = 0 THEN 0 ELSE o[i - 1] + size(types[i])]
    BY DEF Sums, num_arg
  <2>2. \A i \in 0..num_arg : o[i] = IF i = 0 THEN 0 ELSE o[i - 1] + size(types[i])
    BY <1>1, <1>2
  <2> QED BY <1>1, <2>1, <2>2
<1>4. f = Sums(f)
  BY <1>3
<1> HIDE DEF f
<1>5. ASSUME NEW i \in 0..num_arg
      PROVE  f[i] = IF i = 0 THEN 0 ELSE f[i - 1] + size(types[i])
  <2>1. f[i] = Sums(f)[i]
    BY <1>4
  <2> QED BY <2>1 DEF Sums, num_arg
<1>6. 0 \in S
  BY <1>1, <1>5
<1>7. ASSUME NEW i \in Nat, i \in S PROVE i + 1 \in S
  <2>1. SUFFICES ASSUME i + 1 <= num_arg PROVE f[i + 1] = o[i + 1]
    OBVIOUS
  <2>2. i + 1 \in 1..num_arg /\ i + 1 - 1 = i /\ i + 1 # 0
    BY <2>1
  <2>3. f[i] = o[i]
    BY <1>1, <1>7, <2>1
  <2> QED BY <1>2, <1>5, <2>2, <2>3
<1>8. \A i \in Nat : i \in S
  <2> HIDE DEF S
  <2> QED BY <1>6, <1>7, SetInduction
<1>9. f[num_arg] = o[num_arg]
  BY <1>1, <1>8
<1>10. sum = f[num_arg]
  BY DEF sum, Sums, f, num_arg
<1> QED BY <1>9, <1>10

\* The space is bounded.
LEMMA SumBounded == ASSUME Given, NEW o, NEW c, Begins(o, c) PROVE o[num_arg] \in 0..3 * MaxArgs
<1> DEFINE S == {i \in Nat : i <= num_arg => o[i] \in 0..3 * i}
<1>1. o \in [0..num_arg -> Nat] /\ o[0] = 0 /\ num_arg \in 0..MaxArgs
  BY DEF Begins, IsOffsets, Given, num_arg
<1>2. ASSUME NEW i \in 1..num_arg PROVE \E k \in 0..3 : o[i] = o[i - 1] + k
  BY PieceFacts DEF Begins, IsOffsets, Lengths
<1>3. 0 \in S
  BY <1>1
<1>4. ASSUME NEW i \in Nat, i \in S PROVE i + 1 \in S
  <2>1. SUFFICES ASSUME i + 1 <= num_arg PROVE o[i + 1] \in 0..3 * (i + 1)
    OBVIOUS
  <2>2. o[i] \in 0..3 * i /\ i + 1 \in 1..num_arg /\ i + 1 - 1 = i
    BY <1>1, <1>4, <2>1
  <2>3. PICK k \in 0..3 : o[i + 1] = o[i] + k
    BY <1>2, <2>2
  <2> QED BY <2>2, <2>3
<1>5. \A i \in Nat : i \in S
  <2> HIDE DEF S
  <2> QED BY <1>3, <1>4, SetInduction
<1>6. o[num_arg] \in 0..3 * num_arg
  BY <1>1, <1>5
<1> QED BY <1>1, <1>6

\* What the second pass has done after i arguments.
After(i, o, c, block, top) ==
  [mem |-> [a \in Addresses |-> IF a \in top..top + o[i] - 1 THEN Formals[a - top + 1]
                                ELSE block[a]],
   dst |-> top + o[i],
   src |-> 1 + c[i]]

\* An argument of m words that are those the routine expects.
LEMMA CopyIs ==
  ASSUME NEW o, NEW c, NEW block, NEW top \in Int, NEW i, NEW k, NEW m \in Nat,
         o[k] \in Nat, c[k] \in Nat, o[i] = o[k] + m, c[i] = c[k] + m,
         \A j \in 1..m : Caller(c[k] + j) = Formals[o[k] + j]
  PROVE  Copy(After(k, o, c, block, top), m) = After(i, o, c, block, top)
<1> DEFINE x == After(k, o, c, block, top)
           y == After(i, o, c, block, top)
<1>1. x.dst = top + o[k] /\ x.src = 1 + c[k] /\ y.dst = top + o[i] /\ y.src = 1 + c[i]
  BY DEF After
<1>2. ASSUME NEW a \in Addresses
      PROVE  y.mem[a] = IF a - x.dst \in 0..m - 1 THEN Caller(x.src + a - x.dst) ELSE x.mem[a]
  <2>0. a \in Int
    BY DEF Addresses
  <2>1. /\ x.mem[a] = IF a \in top..top + o[k] - 1 THEN Formals[a - top + 1] ELSE block[a]
        /\ y.mem[a] = IF a \in top..top + o[i] - 1 THEN Formals[a - top + 1] ELSE block[a]
    BY DEF After
  <2>2. CASE a - x.dst \in 0..m - 1
    <3> DEFINE j == a - x.dst + 1
    <3>1. j \in 1..m /\ o[k] + j = a - top + 1 /\ c[k] + j = x.src + a - x.dst
      BY <1>1, <2>0, <2>2
    <3>2. a \in top..top + o[i] - 1
      BY <1>1, <2>0, <2>2
    <3>3. Caller(c[k] + j) = Formals[o[k] + j]
      BY <3>1
    <3> QED BY <2>1, <2>2, <3>1, <3>2, <3>3
  <2>3. CASE a - x.dst \notin 0..m - 1
    <3>1. a \in top..top + o[i] - 1 <=> a \in top..top + o[k] - 1
      BY <1>1, <2>0, <2>3
    <3> QED BY <2>1, <2>3, <3>1
  <2> QED BY <2>2, <2>3
<1>3. y.mem = [a \in Addresses |-> y.mem[a]]
  BY DEF After
<1>4. y = [mem |-> y.mem, dst |-> y.dst, src |-> y.src]
  BY DEF After
<1>5. y.dst = x.dst + m /\ y.src = x.src + m
  BY <1>1
<1>6. y.mem = [a \in Addresses |-> IF a - x.dst \in 0..m - 1
                                   THEN Caller(x.src + a - x.dst) ELSE x.mem[a]]
  <2> HIDE DEF x, y
  <2> QED BY <1>2, <1>3
<1> HIDE DEF x, y
<1> QED BY <1>4, <1>5, <1>6 DEF Copy, x, y

\* The copy of one argument.
LEMMA CopyStep ==
  ASSUME Given, NEW o, NEW c, Begins(o, c), NEW block, NEW top \in Int, NEW i \in 1..num_arg
  PROVE  copy(After(i - 1, o, c, block, top), types[i]) = After(i, o, c, block, top)
<1> DEFINE t == types[i]
           x == After(i - 1, o, c, block, top)
<1>1. /\ o[i - 1] \in Nat /\ c[i - 1] \in Nat
      /\ o[i] = o[i - 1] + size(t) /\ c[i] = c[i - 1] + Pushed(t)
      /\ t \in Types \ LongLongs
  <2>1. num_arg \in Nat
    BY DEF Given, num_arg
  <2> QED BY <2>1, PieceFacts DEF Begins, IsOffsets, Lengths
<1>2. ASSUME t # "FLOAT", NEW j \in 1..Pushed(t)
      PROVE  Caller(c[i - 1] + j) = Formals[o[i - 1] + j]
  <2>1. Pieces[i] = [k \in 1..Pushed(t) |-> <<i, k>>]
    BY <1>2 DEF Pieces, Formal
  <2>2. Len(Pieces[i]) = Pushed(t) /\ Pieces[i][j] = <<i, j>>
    BY <1>2, <2>1, PieceFacts
  <2>3. Caller(c[i - 1] + j) = <<i, j>>
    BY CallerIs
  <2>4. Formals[o[i - 1] + j] = Pieces[i][j]
    <3>1. j \in 1..Len(Pieces[i])
      BY <2>2
    <3> QED BY <3>1, FormalsAre
  <2> QED BY <2>2, <2>3, <2>4
<1>3. CASE t = "VOID"
  <2>1. size(t) = 0 /\ Pushed(t) = 0 /\ copy(x, t) = x
    BY <1>3 DEF size, Pushed, copy, LongLongs
  <2>2. o[i] = o[i - 1] /\ c[i] = c[i - 1]
    BY <1>1, <2>1
  <2> QED BY <2>1, <2>2 DEF After
<1>4. CASE t = "FLOAT"
  <2>1. /\ size(t) = 1 /\ Pushed(t) = 2
        /\ copy(x, t) = [mem |-> [x.mem EXCEPT ![x.dst] = Narrow(x.src)],
                         dst |-> x.dst + 1, src |-> x.src + 2]
    BY <1>4 DEF size, Pushed, copy, LongLongs
  <2>2. /\ c[i - 1] + 1 \in 1..Len(caller) /\ caller[c[i - 1] + 1] = <<i, 1>>
        /\ c[i - 1] + 2 \in 1..Len(caller)
    BY <2>1, CallerIs
  <2>3. Narrow(1 + c[i - 1]) = <<i, "float">>
    <3>1. 1 + c[i - 1] = c[i - 1] + 1 /\ c[i - 1] + 1 < Len(caller)
      BY <1>1, <2>2
    <3> QED BY <1>4, <2>2, <3>1 DEF Narrow
  <2>4. Formals[o[i - 1] + 1] = <<i, "float">>
    <3>1. Pieces[i] = <<<<i, "float">>>>
      BY <1>4 DEF Pieces, Formal
    <3>2. 1 \in 1..Len(Pieces[i]) /\ Pieces[i][1] = <<i, "float">>
      BY <3>1
    <3> QED BY <3>2, FormalsAre
  <2> DEFINE y == After(i, o, c, block, top)
  <2>5. x.dst = top + o[i - 1] /\ x.src = 1 + c[i - 1] /\ DOMAIN x.mem = Addresses
    BY DEF After
  <2>6. ASSUME NEW a \in Addresses
        PROVE  y.mem[a] = IF a = x.dst THEN Narrow(x.src) ELSE x.mem[a]
    <3>0. a \in Int
      BY DEF Addresses
    <3>1. /\ x.mem[a] = IF a \in top..top + o[i - 1] - 1 THEN Formals[a - top + 1] ELSE block[a]
          /\ y.mem[a] = IF a \in top..top + o[i] - 1 THEN Formals[a - top + 1] ELSE block[a]
      BY DEF After
    <3>2. CASE a = x.dst
      <4>1. a - top + 1 = o[i - 1] + 1 /\ a \in top..top + o[i] - 1
        BY <1>1, <2>1, <2>5, <3>0, <3>2
      <4> QED BY <2>3, <2>4, <2>5, <3>1, <3>2, <4>1
    <3>3. CASE a # x.dst
      <4>1. a \in top..top + o[i] - 1 <=> a \in top..top + o[i - 1] - 1
        BY <1>1, <2>1, <2>5, <3>0, <3>3
      <4> QED BY <3>1, <3>3, <4>1
    <3> QED BY <3>2, <3>3
  <2>7. y = [mem |-> y.mem, dst |-> x.dst + 1, src |-> x.src + 2]
    <3>1. y = [mem |-> y.mem, dst |-> top + o[i], src |-> 1 + c[i]]
      BY DEF After
    <3>2. top + o[i] = x.dst + 1 /\ 1 + c[i] = x.src + 2
      BY <1>1, <2>1, <2>5
    <3> HIDE DEF x, y
    <3> QED BY <3>1, <3>2
  <2>8. y.mem = [x.mem EXCEPT ![x.dst] = Narrow(x.src)]
    <3>1. y.mem = [a \in Addresses |-> y.mem[a]]
      BY DEF After
    <3> HIDE DEF x, y
    <3> QED BY <2>5, <2>6, <3>1
  <2> HIDE DEF x, y
  <2> QED BY <2>1, <2>7, <2>8 DEF x, y
<1>5. CASE t \notin {"VOID", "FLOAT"}
  <2>1. size(t) = Pushed(t) /\ size(t) \in Nat /\ copy(x, t) = Copy(x, size(t))
    <3>1. CASE t = "DOUBLE"
      BY <3>1 DEF size, Pushed, copy, LongLongs
    <3>2. CASE t = "LONG_DOUBLE"
      BY <3>2 DEF size, Pushed, copy, LongLongs
    <3>3. CASE t \notin {"DOUBLE", "LONG_DOUBLE"}
      BY <1>1, <1>5, <3>3 DEF size, Pushed, copy
    <3> QED BY <3>1, <3>2, <3>3
  <2> DEFINE m == size(t)
  <2>2. m \in Nat /\ o[i] = o[i - 1] + m /\ c[i] = c[i - 1] + m
    BY <1>1, <2>1
  <2>3. \A j \in 1..m : Caller(c[i - 1] + j) = Formals[o[i - 1] + j]
    BY <1>2, <1>5, <2>1
  <2>4. Copy(After(i - 1, o, c, block, top), m) = After(i, o, c, block, top)
    <3> HIDE DEF m, t
    <3> QED BY <1>1, <2>2, <2>3, CopyIs
  <2> QED BY <2>1, <2>4
<1> QED BY <1>3, <1>4, <1>5

\* The second pass as a whole.
LEMMA CopiesAre ==
  ASSUME Given, NEW o, NEW c, Begins(o, c), NEW top \in Int,
         NEW block, block = [a \in Addresses |-> block[a]]
  PROVE  copied(block, top) = After(num_arg, o, c, block, top).mem
<1> DEFINE A(i) == After(i, o, c, block, top)
           g == [i \in 0..num_arg |-> A(i)]
           f == CHOOSE h : h = Copies(h, block, top)
           S == {i \in Nat : i <= num_arg => f[i] = A(i)}
<1>0. num_arg \in Nat /\ o[0] = 0 /\ c[0] = 0
  BY DEF Given, num_arg, Begins, IsOffsets
<1>1. A(0) = [mem |-> block, dst |-> top, src |-> 1]
  <2>1. \A a \in Addresses : a \notin top..top + 0 - 1
    BY DEF Addresses
  <2>2. A(0).mem = block
    BY <1>0, <2>1 DEF After
  <2>3. A(0) = [mem |-> A(0).mem, dst |-> top + 0, src |-> 1 + 0]
    BY <1>0 DEF After
  <2> QED BY <2>2, <2>3
<1>2. \A i \in 1..num_arg : copy(A(i - 1), types[i]) = A(i)
  BY CopyStep
<1> HIDE DEF A
<1>3. g = Copies(g, block, top)
  <2>1. Copies(g, block, top) =
          [i \in 0..num_arg |-> IF i = 0 THEN [mem |-> block, dst |-> top, src |-> 1]
                                ELSE copy(g[i - 1], types[i])]
    BY DEF Copies, num_arg
  <2>2. ASSUME NEW i \in 0..num_arg
        PROVE  A(i) = IF i = 0 THEN [mem |-> block, dst |-> top, src |-> 1]
                      ELSE copy(g[i - 1], types[i])
    <3>1. CASE i = 0
      BY <1>1, <3>1
    <3>2. CASE i # 0
      <4>1. i \in 1..num_arg /\ i - 1 \in 0..num_arg
        BY <1>0, <3>2
      <4>2. g[i - 1] = A(i - 1)
        BY <4>1
      <4> QED BY <1>2, <3>2, <4>1, <4>2
    <3> QED BY <3>1, <3>2
  <2> QED BY <2>1, <2>2
<1>4. f = Copies(f, block, top)
  BY <1>3
<1> HIDE DEF f, g
<1>5. ASSUME NEW i \in 0..num_arg
      PROVE  f[i] = IF i = 0 THEN [mem |-> block, dst |-> top, src |-> 1]
                    ELSE copy(f[i - 1], types[i])
  <2>1. f[i] = Copies(f, block, top)[i]
    BY <1>4
  <2> QED BY <2>1 DEF Copies, num_arg
<1>6. 0 \in S
  BY <1>0, <1>1, <1>5
<1>7. ASSUME NEW i \in Nat, i \in S PROVE i + 1 \in S
  <2>1. SUFFICES ASSUME i + 1 <= num_arg PROVE f[i + 1] = A(i + 1)
    OBVIOUS
  <2>2. i + 1 \in 1..num_arg /\ i + 1 - 1 = i /\ i + 1 # 0
    BY <2>1
  <2>3. f[i] = A(i)
    BY <1>0, <1>7, <2>1
  <2>4. f[i + 1] = copy(f[i + 1 - 1], types[i + 1])
    <3>1. i + 1 \in 0..num_arg
      BY <2>2
    <3> DEFINE k == i + 1
    <3>2. k \in 0..num_arg /\ k # 0
      BY <2>2, <3>1
    <3> HIDE DEF k
    <3>3. f[k] = copy(f[k - 1], types[k])
      BY <1>5, <3>2
    <3> QED BY <3>3 DEF k
  <2>5. copy(A(i + 1 - 1), types[i + 1]) = A(i + 1)
    BY <1>2, <2>2
  <2> QED BY <2>2, <2>3, <2>4, <2>5
<1>8. \A i \in Nat : i \in S
  <2> HIDE DEF S
  <2> QED BY <1>6, <1>7, SetInduction
<1>9. f[num_arg] = A(num_arg)
  BY <1>0, <1>8
<1>10. copied(block, top) = f[num_arg].mem
  BY DEF copied, Copies, f, num_arg
<1> QED BY <1>9, <1>10 DEF A

-----------------------------------------------------------------------------
(* The invariant of the arguments *)

\* The stack that create_job has built is what the routine will find.
Built == /\ \A a \in 0..9 : mem[a] = jcb(mem[1])[a + 1]
         /\ \A k \in 1..Len(Formals) : mem[mem[1] + 1 + k] = Formals[k]

ArgsInv == /\ Given
           /\ stage # "spawn" => Built
           /\ stage = "routine" => sp = mem[1] + 1

\* Before the spawn the arguments are given and hold no long long.
LEMMA ArgsInit == ArgTypes \cap LongLongs = {} /\ Init => ArgsInv
<1> SUFFICES ASSUME ArgTypes \cap LongLongs = {}, Init PROVE ArgsInv
  OBVIOUS
<1>1. PICK k \in 0..MaxArgs : types \in [1..k -> ArgTypes]
  BY DEF Init
<1>2. Len(types) = k
  BY <1>1
<1>3. Given
  BY <1>1, <1>2 DEF Given
<1> QED BY <1>3 DEF ArgsInv, Init

\* The words of a jcb but the second do not depend on esp.
LEMMA JcbFacts ==
  ASSUME NEW e, NEW d, NEW a \in 0..9
  PROVE  jcb(e)[a + 1] = IF a = 1 THEN e ELSE jcb(d)[a + 1]
<1>1. a = 0 \/ a = 1 \/ a = 2 \/ a = 3 \/ a = 4 \/ a = 5 \/ a = 6 \/ a = 7 \/ a = 8 \/ a = 9
  OBVIOUS
<1> QED BY <1>1 DEF jcb

\* create_job lays the arguments out as the routine will read them, and above the jcb.
LEMMA CreateBuilds == ASSUME Given, create_job PROVE Built'
<1> DEFINE top == -1 - sum
           block == [a \in Addresses |-> IF a >= 0 THEN jcb("old esp")[a + 1] ELSE "junk"]
           after == copied(block, top)
<1>1. PICK o, c : Begins(o, c)
  BY BeginsExist
<1>2. sum = o[num_arg] /\ sum \in 0..3 * MaxArgs /\ Len(Formals) = sum
  BY <1>1, SumIs, SumBounded, FormalsAre
<1>3. after = [a \in Addresses |-> IF a \in top..top + sum - 1 THEN Formals[a - top + 1]
                                   ELSE block[a]]
  <2>1. top \in Int
    BY <1>2
  <2>2. block = [a \in Addresses |-> block[a]]
    OBVIOUS
  <2> HIDE DEF top, block
  <2>3. after = After(num_arg, o, c, block, top).mem
    BY <1>1, <2>1, <2>2, CopiesAre
  <2> QED BY <1>2, <2>3 DEF After
<1>4. mem' = [after EXCEPT ![top - 1] = "cleanup", ![top - 2] = "routine", ![1] = top - 2]
  BY DEF create_job
<1>5. /\ top \in Int /\ top < 0 /\ top + sum - 1 = -2
      /\ \A a \in top - 2..9 : a \in Addresses
  BY <1>2 DEF Addresses
<1> HIDE DEF top, block, after
<1>6. ASSUME NEW a \in top - 2..9
      PROVE  mem'[a] = IF a = 1 THEN top - 2
                       ELSE IF a = top - 2 THEN "routine"
                       ELSE IF a = top - 1 THEN "cleanup"
                       ELSE IF a \in top..top + sum - 1 THEN Formals[a - top + 1] ELSE block[a]
  <2>1. a \in Addresses /\ 1 \in Addresses /\ top - 1 \in Addresses /\ top - 2 \in Addresses
    BY <1>5
  <2> QED BY <1>3, <1>4, <1>5, <2>1
<1>7. mem'[1] = top - 2
  BY <1>5, <1>6
<1>8. ASSUME NEW a \in 0..9 PROVE mem'[a] = jcb(mem'[1])[a + 1]
  <2>1. a \in Addresses /\ block[a] = jcb("old esp")[a + 1]
    <3>1. a \in Addresses
      BY <1>5
    <3>2. block[a] = IF a >= 0 THEN jcb("old esp")[a + 1] ELSE "junk"
      BY <3>1 DEF block
    <3>3. a >= 0
      OBVIOUS
    <3> QED BY <3>1, <3>2, <3>3
  <2>2. a # 1 => mem'[a] = block[a]
    BY <1>5, <1>6
  <2>3. jcb(mem'[1])[a + 1] = IF a = 1 THEN mem'[1] ELSE jcb("old esp")[a + 1]
    BY JcbFacts
  <2> QED BY <2>1, <2>2, <2>3
<1>9. ASSUME NEW k \in 1..Len(Formals) PROVE mem'[mem'[1] + 1 + k] = Formals[k]
  <2>1. mem'[1] + 1 + k = top + k - 1 /\ top + k - 1 - top + 1 = k
    BY <1>2, <1>5, <1>7
  <2>2. top + k - 1 \in top..top + sum - 1 /\ top + k - 1 \in top - 2..9
    BY <1>2, <1>5
  <2>3. mem'[top + k - 1] = Formals[top + k - 1 - top + 1]
    BY <1>5, <1>6, <2>2
  <2> QED BY <2>1, <2>3
<1>10. Formals' = Formals
  BY DEF create_job, Formals, Formal
<1> QED BY <1>8, <1>9, <1>10 DEF Built

\* Every step keeps the arguments given, and, once copied, built.
LEMMA ArgsStep == ArgsInv /\ [Next]_vars => ArgsInv'
<1> SUFFICES ASSUME ArgsInv, [Next]_vars PROVE ArgsInv'
  OBVIOUS
<1>1. types' = types
  BY DEF Next, vars, create_job, switch_context_to_new, routine_returns, do_cleanup
<1>2. Given' /\ Formals' = Formals
  BY <1>1 DEF ArgsInv, Given, Formals, Formal
<1>3. CASE create_job
  BY <1>2, <1>3, CreateBuilds DEF ArgsInv, create_job
<1>4. CASE ~create_job
  <2>1. stage' # "spawn" => stage # "spawn"
    BY <1>4 DEF Next, vars, switch_context_to_new, routine_returns, do_cleanup
  <2>2. mem' = mem
    BY <1>4 DEF Next, vars, switch_context_to_new, routine_returns, do_cleanup
  <2>3. stage' = "routine" => sp' = mem'[1] + 1
    BY <1>4 DEF Next, vars, switch_context_to_new, routine_returns, do_cleanup, ArgsInv
  <2>4. Built => Built'
    BY <1>2, <2>2 DEF Built
  <2> QED BY <1>2, <2>1, <2>3, <2>4 DEF ArgsInv
<1> QED BY <1>3, <1>4

\* So they are given, and built, throughout.
LEMMA ArgsInvariance ==
  ASSUME ArgTypes \cap LongLongs = {} PROVE Spec => []ArgsInv
<1>1. Init => ArgsInv
  BY ArgsInit
<1> QED BY <1>1, ArgsStep, PTL DEF Spec

-----------------------------------------------------------------------------
(* The invariant of the result *)

\* Byte b of the value returned.
Byte(b) == IF b <= Bytes(ret_type) THEN <<"result", b>> ELSE "junk"

IsFloat == ret_type \in Floats

Returned == /\ eax = [b \in 1..4 |-> IF IsFloat THEN "junk" ELSE Byte(b)]
            /\ edx = [b \in 1..4 |-> IF IsFloat THEN "junk" ELSE Byte(b + 4)]
            /\ st0 = IF IsFloat THEN "result" ELSE "empty"

ResultInv == /\ ret_type \in Types
             /\ stage = "cleanup" => Returned
             /\ stage # "done" => result = [b \in 1..12 |-> "other"]
             /\ ResultDelivered

\* What do_cleanup stores is as long as the type and has the bytes returned.
LEMMA StoredIs ==
  ASSUME ret_type \in Types, Returned
  PROVE  /\ Len(stored) = Bytes(ret_type) /\ Bytes(ret_type) \in 0..10
         /\ \A b \in 1..Len(stored) : stored[b] = Value(b)
<1>0. \E R : eax \in Seq(R) /\ Len(eax) = 4
  <2>1. eax = [b \in 1..4 |-> eax[b]]
    BY DEF Returned
  <2> DEFINE R == {eax[b] : b \in 1..4}
  <2>2. eax \in Seq(R) /\ Len(eax) = 4
    BY <2>1
  <2> HIDE DEF R
  <2> QED BY <2>2
<1>1. CASE ret_type = "VOID"
  <2>1. stored = <<>> /\ Bytes(ret_type) = 0
    BY <1>1 DEF stored, Bytes, Chars, Shorts, Words, LongLongs
  <2> QED BY <2>1
<1>2. CASE ret_type \in Chars
  <2>1. ret_type # "VOID" /\ ret_type \notin Shorts \cup Words \cup LongLongs /\ ~IsFloat
    BY <1>2 DEF Chars, Shorts, Words, LongLongs, IsFloat, Floats
  <2>2. stored = SubSeq(eax, 1, 1) /\ Bytes(ret_type) = 1
    BY <1>2, <2>1 DEF stored, Bytes, IsFloat, Floats
  <2>3. eax[1] = <<"result", 1>> /\ Len(eax) = 4
    BY <2>1, <2>2 DEF Returned, Byte
  <2>4. Len(stored) = 1 /\ stored[1] = eax[1]
    <3>1. PICK R : eax \in Seq(R) /\ Len(eax) = 4
      BY <1>0
    <3> QED BY <2>2, <3>1
  <2> QED BY <2>1, <2>2, <2>3, <2>4 DEF Value, IsFloat
<1>3. CASE ret_type \in Shorts
  <2>1. ret_type # "VOID" /\ ret_type \notin Chars \cup Words \cup LongLongs /\ ~IsFloat
    BY <1>3 DEF Chars, Shorts, Words, LongLongs, IsFloat, Floats
  <2>2. stored = SubSeq(eax, 1, 2) /\ Bytes(ret_type) = 2
    BY <1>3, <2>1 DEF stored, Bytes, IsFloat, Floats
  <2>3. eax[1] = <<"result", 1>> /\ eax[2] = <<"result", 2>> /\ Len(eax) = 4
    BY <2>1, <2>2 DEF Returned, Byte
  <2>4. Len(stored) = 2 /\ stored[1] = eax[1] /\ stored[2] = eax[2]
    <3>1. PICK R : eax \in Seq(R) /\ Len(eax) = 4
      BY <1>0
    <3> QED BY <2>2, <3>1
  <2> QED BY <2>1, <2>2, <2>3, <2>4 DEF Value, IsFloat
<1>4. CASE ret_type \in Words
  <2>1. ret_type # "VOID" /\ ret_type \notin Chars \cup Shorts \cup LongLongs /\ ~IsFloat
    BY <1>4 DEF Chars, Shorts, Words, LongLongs, IsFloat, Floats
  <2>2. stored = eax /\ Bytes(ret_type) = 4
    BY <1>4, <2>1 DEF stored, Bytes, IsFloat, Floats
  <2>3. Len(eax) = 4 /\ \A b \in 1..4 : eax[b] = <<"result", b>>
    BY <2>1, <2>2 DEF Returned, Byte
  <2> QED BY <2>1, <2>2, <2>3 DEF Value, IsFloat
<1>5. CASE ret_type \in LongLongs
  <2>1. ret_type # "VOID" /\ ret_type \notin Chars \cup Shorts \cup Words /\ ~IsFloat
    BY <1>5 DEF Chars, Shorts, Words, LongLongs, IsFloat, Floats
  <2>2. stored = eax \o edx /\ Bytes(ret_type) = 8
    BY <1>5, <2>1 DEF stored, Bytes, IsFloat, Floats
  <2>3. /\ Len(eax) = 4 /\ Len(edx) = 4
        /\ \A b \in 1..4 : eax[b] = <<"result", b>> /\ edx[b] = <<"result", b + 4>>
    BY <2>1, <2>2 DEF Returned, Byte
  <2>4. eax \o edx = [b \in 1..8 |-> IF b <= 4 THEN eax[b] ELSE edx[b - 4]]
    BY <2>3 DEF Returned
  <2>5. Len(stored) = 8
    BY <2>2, <2>4
  <2>6. ASSUME NEW b \in 1..8 PROVE stored[b] = <<"result", b>>
    <3>1. CASE b <= 4
      BY <2>2, <2>3, <2>4, <3>1
    <3>2. CASE b > 4
      <4>1. b - 4 \in 1..4 /\ b - 4 + 4 = b
        BY <3>2
      <4>2. stored[b] = edx[b - 4]
        BY <2>2, <2>4, <3>2
      <4> QED BY <2>3, <4>1, <4>2
    <3> QED BY <3>1, <3>2
  <2>7. \A b : Value(b) = <<"result", b>>
    BY <2>1 DEF Value, IsFloat
  <2>8. \A b \in 1..8 : stored[b] = Value(b)
    BY <2>6, <2>7
  <2>9. Bytes(ret_type) = 8
    BY <2>2
  <2> QED BY <2>5, <2>8, <2>9
<1>6. CASE IsFloat
  <2>1. ret_type # "VOID" /\ ret_type \notin Chars \cup Shorts \cup Words \cup LongLongs
    BY <1>6 DEF Chars, Shorts, Words, LongLongs, IsFloat, Floats
  <2>2. st0 = "result"
    BY <1>6 DEF Returned
  <2>3. \A n \in {4, 8, 10} : Len(fstp(n)) = n /\ \A b \in 1..n : fstp(n)[b] = <<"x87", n, b>>
    BY <2>2 DEF fstp
  <2>4. Bytes(ret_type) \in {4, 8, 10} /\ stored = fstp(Bytes(ret_type))
    BY <1>6, <2>1 DEF IsFloat, Floats, Bytes, stored
  <2>5. \A b : Value(b) = <<"x87", Bytes(ret_type), b>>
    BY <1>6 DEF Value, IsFloat
  <2>6. Len(stored) = Bytes(ret_type)
    BY <2>3, <2>4
  <2>7. \A b \in 1..Bytes(ret_type) : stored[b] = Value(b)
    BY <2>3, <2>4, <2>5
  <2> QED BY <2>4, <2>6, <2>7
<1> QED BY <1>1, <1>2, <1>3, <1>4, <1>5, <1>6 DEF Types, IsFloat, Floats

\* No result is claimed before the routine returns.
LEMMA ResultInit == Init => ResultInv
  BY DEF Init, ResultInv, ResultDelivered

\* Every step keeps a stored result the one returned.
LEMMA ResultStep == ResultInv /\ [Next]_vars => ResultInv'
<1> SUFFICES ASSUME ResultInv, [Next]_vars PROVE ResultInv'
  OBVIOUS
<1>0. ret_type' = ret_type /\ ret_ptr' = ret_ptr
  BY DEF Next, vars, create_job, switch_context_to_new, routine_returns, do_cleanup
<1>1. CASE create_job \/ switch_context_to_new
  BY <1>0, <1>1 DEF create_job, switch_context_to_new, ResultInv, ResultDelivered
<1>2. CASE routine_returns
  <2>1. Returned'
    BY <1>0, <1>2 DEF routine_returns, Returned, IsFloat, Floats, Byte
  <2> QED BY <1>0, <1>2, <2>1 DEF routine_returns, ResultInv, ResultDelivered
<1>3. CASE do_cleanup
  <2>1. result = [b \in 1..12 |-> "other"] /\ Returned /\ ret_type \in Types
    BY <1>3 DEF do_cleanup, ResultInv
  <2>2. stage' = "done"
    BY <1>3 DEF do_cleanup
  <2>3. CASE ret_ptr = "NULL"
    <3>1. result' = result
      BY <1>3, <2>3 DEF do_cleanup
    <3> QED BY <1>0, <2>1, <2>2, <2>3, <3>1 DEF ResultInv, ResultDelivered
  <2>4. CASE ret_ptr # "NULL"
    <3>1. result' = [b \in 1..12 |-> IF b <= Len(stored) THEN stored[b] ELSE "other"]
      BY <1>3, <2>1, <2>4 DEF do_cleanup
    <3>2. \A b \in 1..12 : result'[b] = IF b <= Bytes(ret_type) THEN Value(b) ELSE "other"
      BY <2>1, <3>1, StoredIs
    <3>3. DOMAIN result' = 1..12
      BY <3>1
    <3>4. ResultDelivered'
      BY <1>0, <2>4, <3>2, <3>3 DEF ResultDelivered, Bytes, Value
    <3> QED BY <1>0, <2>1, <2>2, <3>4 DEF ResultInv
  <2> QED BY <2>3, <2>4
<1>4. CASE UNCHANGED vars
  <2>1. UNCHANGED <<stage, ret_ptr, result, eax, edx, st0>>
    BY <1>4 DEF vars
  <2>2. Returned => Returned'
    BY <1>0, <2>1 DEF Returned, IsFloat, Floats, Byte, Bytes
  <2>3. ResultDelivered'
    BY <1>0, <2>1 DEF ResultInv, ResultDelivered, Bytes, Value
  <2> QED BY <1>0, <2>1, <2>2, <2>3 DEF ResultInv
<1> QED BY <1>1, <1>2, <1>3, <1>4 DEF Next

-----------------------------------------------------------------------------
(* Theorems *)

\* The two loops of create_job (gregor.c) put every argument where the routine expects
\* it, for any number of arguments of any types but long long (for which it is false).
THEOREM ArgsDeliveredCorrect ==
  ASSUME ArgTypes \cap LongLongs = {} PROVE Spec => []ArgsDelivered
<1>1. ArgsInv => ArgsDelivered
  <2> SUFFICES ASSUME ArgsInv, stage = "routine", NEW k \in 1..Len(Formals)
               PROVE  mem[sp + k] = Formals[k]
    <3>1. ASSUME Given PROVE DOMAIN Formals = 1..Len(Formals)
      <4>1. PICK o, c : Begins(o, c)
        BY <3>1, BeginsExist
      <4> QED BY <3>1, <4>1, FormalsAre
    <3> QED BY <3>1 DEF ArgsDelivered, Formals, ArgsInv
  <2> QED BY DEF ArgsInv, Built
<1> QED BY <1>1, ArgsInvariance, PTL

\* They never write beyond the stack, where the jcb is, its join_counter first.
THEOREM JcbIntactCorrect ==
  ASSUME ArgTypes \cap LongLongs = {} PROVE Spec => []JcbIntact
<1>1. ArgsInv => JcbIntact
  BY DEF ArgsInv, Built, JcbIntact
<1> QED BY <1>1, ArgsInvariance, PTL

\* do_cleanup (thread.c) writes the value returned, of any type, and not one byte more.
THEOREM ResultDeliveredCorrect == Spec => []ResultDelivered
<1>1. ResultInv => ResultDelivered
  BY DEF ResultInv
<1> QED BY ResultInit, ResultStep, <1>1, PTL DEF Spec
=============================================================================
