---------------------------- MODULE MemoryProofs ----------------------------
(***************************************************************************)
(* Proofs about Memory.  What List computes is characterised first: it is  *)
(* the one sequence whose elements are linked in order and number          *)
(* availNum.  With that, every step of the code is a step on sequences.    *)
(***************************************************************************)
EXTENDS Memory, FiniteSetTheorems, WellFoundedInduction, TLAPS

USE MemoryAssumption

-----------------------------------------------------------------------------
(* Lists that run through memory *)

\* s is what is found from the head h on, following next nx n times.
Linked(s, h, n, nx) ==
  /\ s \in Seq(Blocks) /\ Len(s) = n
  /\ h = IF n = 0 THEN NULL ELSE s[1]
  /\ \A i \in 1..n : nx[s[i]] = IF i = n THEN NULL ELSE s[i + 1]

\* One round of List.
Follow(g, n, h, nx) ==
  [k \in 0..n |-> IF k = 0 THEN <<<<>>, h>>
                  ELSE LET l == g[k - 1]
                       IN IF l[2] = NULL THEN l ELSE <<Append(l[1], l[2]), nx[l[2]]>>]

\* A set of natural numbers that is not empty has a least element.
LEMMA LeastElement == ASSUME NEW T, T \subseteq Nat, T # {}
                      PROVE  \E m \in T : \A k \in T : m <= k
<1>1. IsWellFoundedOn(OpToRel(<, Nat), Nat)
  BY NatLessThanWellFounded
<1>2. PICK m \in T : \A k \in T : <<k, m>> \notin OpToRel(<, Nat)
  BY <1>1, WFMin
<1>3. ASSUME NEW k \in T PROVE m <= k
  <2>1. ~ (k < m)
    BY <1>2 DEF OpToRel
  <2> QED BY <2>1
<1> QED BY <1>3

\* The equation of List has at most one solution.
LEMMA FollowUnique ==
  ASSUME NEW n \in Nat, NEW h, NEW nx, NEW f, NEW g,
         f = Follow(f, n, h, nx), g = Follow(g, n, h, nx)
  PROVE  f = g
<1> DEFINE T == {k \in 0..n : f[k] # g[k]}
<1>1. ASSUME T # {} PROVE FALSE
  <2>1. PICK m \in T : \A k \in T : m <= k
    <3>1. T \subseteq Nat
      OBVIOUS
    <3> HIDE DEF T
    <3> QED BY <1>1, <3>1, LeastElement
  <2>2. CASE m = 0
    BY <2>2 DEF Follow
  <2>3. CASE m # 0
    <3>1. m - 1 \in 0..n /\ m \in 0..n /\ m - 1 \notin T
      BY <2>1, <2>3
    <3>2. f[m - 1] = g[m - 1]
      BY <3>1
    <3>3. f[m] = Follow(f, n, h, nx)[m] /\ g[m] = Follow(g, n, h, nx)[m]
      OBVIOUS
    <3>4. f[m] = g[m]
      BY <2>3, <3>1, <3>2, <3>3 DEF Follow
    <3> QED BY <3>4
  <2> QED BY <2>2, <2>3
<1>2. \A k \in 0..n : f[k] = g[k]
  BY <1>1
<1>3. f = [k \in 0..n |-> f[k]] /\ g = [k \in 0..n |-> g[k]]
  BY DEF Follow
<1> QED BY <1>2, <1>3

\* What List computes, as a function of the memory.
Walk(h, n, nx) ==
  LET f[k \in 0..n] ==
        IF k = 0 THEN <<<<>>, h>>
        ELSE LET l == f[k - 1] IN IF l[2] = NULL THEN l ELSE <<Append(l[1], l[2]), nx[l[2]]>>
  IN f[n]

\* It is the sequence that is linked.
LEMMA WalkIs ==
  ASSUME NEW n \in Nat, NEW h, NEW nx, NEW s, Linked(s, h, n, nx)
  PROVE  Walk(h, n, nx) = <<s, NULL>>
<1> DEFINE G == [k \in 0..n |-> <<SubSeq(s, 1, k), IF k = n THEN NULL ELSE s[k + 1]>>]
           f == CHOOSE g : g = Follow(g, n, h, nx)
<1>1. G = Follow(G, n, h, nx)
  <2>1. ASSUME NEW k \in 0..n PROVE G[k] = Follow(G, n, h, nx)[k]
    <3>1. CASE k = 0
      <4>1. SubSeq(s, 1, 0) = <<>>
        OBVIOUS
      <4> QED BY <3>1, <4>1 DEF Follow, Linked
    <3>2. CASE k # 0
      <4>1. k - 1 \in 0..n /\ k - 1 # n /\ k \in 1..n
        BY <3>2
      <4>2. G[k - 1] = <<SubSeq(s, 1, k - 1), s[k]>>
        BY <4>1
      <4>3. s[k] # NULL
        BY <4>1 DEF Linked, Blocks
      <4>4. Append(SubSeq(s, 1, k - 1), s[k]) = SubSeq(s, 1, k)
        BY <4>1 DEF Linked
      <4>5. nx[s[k]] = IF k = n THEN NULL ELSE s[k + 1]
        BY <4>1 DEF Linked
      <4>6. Follow(G, n, h, nx)[k] = <<Append(SubSeq(s, 1, k - 1), s[k]), nx[s[k]]>>
        <5>1. Follow(G, n, h, nx)[k] =
                LET l == G[k - 1]
                IN IF l[2] = NULL THEN l ELSE <<Append(l[1], l[2]), nx[l[2]]>>
          BY <3>2 DEF Follow
        <5> HIDE DEF G
        <5> QED BY <4>2, <4>3, <5>1
      <4> QED BY <4>4, <4>5, <4>6
    <3> QED BY <3>1, <3>2
  <2> QED BY <2>1 DEF Follow
<1>2. f = Follow(f, n, h, nx)
  BY <1>1
<1>3. f = G
  <2> HIDE DEF f, G
  <2> QED BY <1>1, <1>2, FollowUnique
<1>4. Walk(h, n, nx) = f[n]
  BY DEF Walk, Follow
<1>5. SubSeq(s, 1, n) = s
  BY DEF Linked
<1>6. G[n] = <<s, NULL>>
  <2>1. n \in 0..n
    OBVIOUS
  <2>2. G[n] = <<SubSeq(s, 1, n), NULL>>
    BY <2>1
  <2> QED BY <1>5, <2>2
<1> HIDE DEF f, G
<1> QED BY <1>3, <1>4, <1>6

-----------------------------------------------------------------------------
(* The invariant *)

mm == [w \in Workers |-> List(w)[1]]

TypeOK == /\ availNum \in [Workers -> Nat]
          /\ head \in [Workers -> Blocks \cup {NULL}]
          /\ next \in [Blocks -> Blocks \cup {NULL}]
          /\ mapped \in 0..MaxBlocks
          /\ holders \in [Blocks -> {0, 1}]

\* The managers are lists.
Threaded == \A w \in Workers : Linked(mm[w], head[w], availNum[w], next)

\* What is in a list is mapped and not in use.
FreeInv == \A w \in Workers : \A i \in 1..Len(mm[w]) :
             mm[w][i] <= mapped /\ holders[mm[w][i]] = 0

\* Nothing is in two lists or twice in one.
OnceInv == \A v, w \in Workers : \A i \in 1..Len(mm[v]), j \in 1..Len(mm[w]) :
             mm[v][i] = mm[w][j] => v = w /\ i = j

\* Every mapped block is in use or in a list, and only mapped ones are.
AllInv == \A b \in Blocks :
            IF b <= mapped
              THEN holders[b] = 1 \/ \E w \in Workers : \E i \in 1..Len(mm[w]) : mm[w][i] = b
              ELSE holders[b] = 0

IInv == TypeOK /\ Threaded /\ FreeInv /\ OnceInv /\ AllInv

-----------------------------------------------------------------------------
(* Steps on memory as steps on sequences *)

\* The lists that are linked are the lists.
LEMMA ListsAre ==
  ASSUME TypeOK, NEW S \in [Workers -> Seq(Blocks)],
         \A w \in Workers : Linked(S[w], head[w], availNum[w], next)
  PROVE  mm = S /\ \A w \in Workers : List(w) = <<S[w], NULL>>
<1>1. ASSUME NEW w \in Workers PROVE List(w) = <<S[w], NULL>>
  <2>1. List(w) = Walk(head[w], availNum[w], next)
    BY DEF List, Walk
  <2>2. availNum[w] \in Nat
    BY DEF TypeOK
  <2> QED BY <2>1, <2>2, WalkIs
<1>2. mm = [w \in Workers |-> S[w]]
  BY <1>1 DEF mm
<1> QED BY <1>1, <1>2

\* The same of the next state, where the lists are those the links of that state make.
LEMMA ListsAreNext ==
  ASSUME TypeOK', NEW S \in [Workers -> Seq(Blocks)],
         \A w \in Workers : Linked(S[w], head'[w], availNum'[w], next')
  PROVE  mm' = S /\ Threaded'
<1>1. ASSUME NEW w \in Workers PROVE List(w)' = <<S[w], NULL>>
  <2>1. List(w)' = Walk(head'[w], availNum'[w], next')
    BY DEF List, Walk
  <2>2. availNum'[w] \in Nat
    BY DEF TypeOK
  <2> QED BY <2>1, <2>2, WalkIs
<1>2. mm' = [w \in Workers |-> S[w]]
  BY <1>1 DEF mm
<1>3. mm' = S
  BY <1>2
<1> QED BY <1>3 DEF Threaded

\* Lists that follow the links hold blocks.
LEMMA ListsType == Threaded => mm \in [Workers -> Seq(Blocks)]
  BY DEF Threaded, Linked, mm

\* Initially there is nothing.
LEMMA InitInv == Init => IInv
<1> SUFFICES ASSUME Init PROVE IInv
  OBVIOUS
<1>1. TypeOK
  BY DEF Init, TypeOK, Blocks
<1> DEFINE S == [w \in Workers |-> <<>>]
<1>2. \A w \in Workers : Linked(S[w], head[w], availNum[w], next)
  BY DEF Init, Linked
<1>3. mm = S
  <2>1. S \in [Workers -> Seq(Blocks)]
    OBVIOUS
  <2> HIDE DEF S
  <2> QED BY <1>1, <1>2, <2>1, ListsAre
<1>4. \A w \in Workers : mm[w] = <<>>
  BY <1>3
<1>5. Threaded /\ FreeInv /\ OnceInv /\ AllInv
  BY <1>2, <1>4 DEF Threaded, FreeInv, OnceInv, AllInv, Init, Blocks
<1> QED BY <1>1, <1>5 DEF IInv

\* AllocMemory with an empty list: the segments of a new page but the first.
Fill(w) == /\ availNum[w] = 0
           /\ mapped + SEGMENT <= MaxBlocks
           /\ next' = linked
           /\ head' = [head EXCEPT ![w] = linked[mapped + 1]]
           /\ availNum' = [availNum EXCEPT ![w] = @ + SEGMENT - 1]
           /\ mapped' = mapped + SEGMENT
           /\ holders' = [holders EXCEPT ![mapped + 1] = @ + 1]

\* AllocMemory with a list that is not empty: its first block.
Pop(w) == /\ availNum[w] # 0
          /\ head[w] # NULL
          /\ head' = [head EXCEPT ![w] = next[head[w]]]
          /\ availNum' = [availNum EXCEPT ![w] = @ - 1]
          /\ holders' = [holders EXCEPT ![head[w]] = @ + 1]
          /\ UNCHANGED <<next, mapped>>

\* gregor_alloc_memory either maps a new segment or pops the head.
LEMMA AllocIsFillOrPop == ASSUME NEW w \in Workers, AllocMemory(w) PROVE Fill(w) \/ Pop(w)
  BY DEF AllocMemory, Fill, Pop

\* Filling an empty list keeps the types.
LEMMA FillType == ASSUME IInv, NEW w \in Workers, Fill(w) PROVE TypeOK'
<1> USE DEF IInv, TypeOK
<1>1. NewPage \subseteq Blocks /\ mapped + 1 \in NewPage
  BY DEF Fill, NewPage, Blocks
<1>2. linked \in [Blocks -> Blocks \cup {NULL}]
  BY <1>1 DEF linked, NewPage, Blocks
<1>3. next' \in [Blocks -> Blocks \cup {NULL}] /\ head' \in [Workers -> Blocks \cup {NULL}]
  BY <1>1, <1>2 DEF Fill
<1>4. availNum' \in [Workers -> Nat]
  BY DEF Fill
<1>5. mapped' \in 0..MaxBlocks
  BY DEF Fill
<1>6. holders[mapped + 1] = 0
  BY <1>1 DEF AllInv
<1>7. holders' \in [Blocks -> {0, 1}]
  BY <1>1, <1>6 DEF Fill
<1> QED BY <1>3, <1>4, <1>5, <1>7

\* The blocks of a new segment but the one handed out become the list.
LEMMA FillLists ==
  ASSUME IInv, NEW w \in Workers, Fill(w)
  PROVE  /\ mm[w] = <<>>
         /\ mm' = [mm EXCEPT ![w] = [i \in 1..SEGMENT - 1 |-> mapped + 1 + i]]
         /\ Threaded'
<1> DEFINE new == [i \in 1..SEGMENT - 1 |-> mapped + 1 + i]
           S == [mm EXCEPT ![w] = new]
<1>1. TypeOK' /\ mm \in [Workers -> Seq(Blocks)]
  BY FillType, ListsType DEF IInv
<1>2. Len(mm[w]) = 0 /\ mm[w] \in Seq(Blocks)
  BY <1>1 DEF IInv, Threaded, Linked, Fill
<1>3. mm[w] = <<>>
  BY <1>2
<1>4. new \in Seq(Blocks) /\ Len(new) = SEGMENT - 1
  BY DEF Fill, IInv, TypeOK, Blocks
<1>5. S \in [Workers -> Seq(Blocks)]
  BY <1>1, <1>4
<1>6. Linked(new, head'[w], availNum'[w], next')
  <2>1. availNum'[w] = SEGMENT - 1
    BY DEF Fill, IInv, TypeOK
  <2>2. mapped \in Nat /\ mapped + SEGMENT <= MaxBlocks
    BY DEF Fill, IInv, TypeOK
  <2>3. head'[w] = IF SEGMENT = 1 THEN NULL ELSE mapped + 2
    BY <2>2 DEF Fill, IInv, TypeOK, linked, NewPage, Blocks
  <2>4. \A i \in 1..SEGMENT - 1 :
          next'[mapped + 1 + i] = IF i = SEGMENT - 1 THEN NULL ELSE mapped + 1 + i + 1
    BY <2>2 DEF Fill, linked, NewPage, Blocks
  <2>5. \A i \in 1..SEGMENT - 1 :
          next'[new[i]] = IF i = SEGMENT - 1 THEN NULL ELSE new[i + 1]
    <3> TAKE i \in 1..SEGMENT - 1
    <3>1. new[i] = mapped + 1 + i
      OBVIOUS
    <3>2. CASE i = SEGMENT - 1
      BY <2>4, <3>1, <3>2
    <3>3. CASE i # SEGMENT - 1
      <4>1. i + 1 \in 1..SEGMENT - 1 /\ i \in Nat
        BY <3>3
      <4>2. new[i + 1] = mapped + 1 + (i + 1)
        BY <4>1
      <4>3. mapped + 1 + (i + 1) = mapped + 1 + i + 1
        BY <2>2, <4>1
      <4> QED BY <2>4, <3>1, <3>3, <4>2, <4>3
    <3> QED BY <3>2, <3>3
  <2>6. SEGMENT # 1 => new[1] = mapped + 2
    BY <2>2
  <2> HIDE DEF new
  <2> QED BY <1>4, <2>1, <2>3, <2>5, <2>6 DEF Linked
<1>7. ASSUME NEW v \in Workers, v # w PROVE Linked(S[v], head'[v], availNum'[v], next')
  <2>1. S[v] = mm[v] /\ head'[v] = head[v] /\ availNum'[v] = availNum[v]
    BY <1>1, <1>7 DEF Fill, IInv, TypeOK
  <2>2. Linked(mm[v], head[v], availNum[v], next)
    BY DEF IInv, Threaded
  <2>3. \A i \in 1..Len(mm[v]) : next'[mm[v][i]] = next[mm[v][i]]
    <3> TAKE i \in 1..Len(mm[v])
    <3>1. mm[v][i] \in Blocks /\ mm[v][i] <= mapped
      BY <1>1 DEF IInv, FreeInv
    <3> QED BY <3>1 DEF Fill, IInv, TypeOK, linked, NewPage, Blocks
  <2> QED BY <2>1, <2>2, <2>3 DEF Linked
<1>8. S[w] = new
  BY <1>1
<1>9. \A v \in Workers : Linked(S[v], head'[v], availNum'[v], next')
  BY <1>6, <1>7, <1>8
<1>10. mm' = S /\ Threaded'
  <2> HIDE DEF S
  <2> QED BY <1>1, <1>5, <1>9, ListsAreNext
<1> QED BY <1>3, <1>10

\* What is left of a list behind its first block.
LEMMA TailLinked ==
  ASSUME NEW s, NEW h, NEW n \in Nat, n # 0, NEW nx, Linked(s, h, n, nx)
  PROVE  /\ h = s[1] /\ h \in Blocks
         /\ Len(Tail(s)) = n - 1 /\ \A i \in 1..n - 1 : Tail(s)[i] = s[i + 1]
         /\ Linked(Tail(s), nx[h], n - 1, nx)
<1>1. h = s[1] /\ h \in Blocks
  BY DEF Linked
<1>2. s # <<>> /\ s \in Seq(Blocks) /\ Len(s) = n
  BY DEF Linked
<1>3. Tail(s) \in Seq(Blocks) /\ Len(Tail(s)) = n - 1 /\ \A i \in 1..n - 1 : Tail(s)[i] = s[i + 1]
  BY <1>2
<1>4. nx[h] = IF n - 1 = 0 THEN NULL ELSE Tail(s)[1]
  <2>1. nx[s[1]] = IF 1 = n THEN NULL ELSE s[2]
    BY DEF Linked
  <2>2. n # 1 => Tail(s)[1] = s[2]
    BY <1>3
  <2>3. CASE n = 1
    BY <1>1, <2>1, <2>3
  <2>4. CASE n # 1
    <3>1. n - 1 # 0
      BY <2>4
    <3> QED BY <1>1, <2>1, <2>2, <2>4, <3>1
  <2> QED BY <2>3, <2>4
<1>5. ASSUME NEW i \in 1..n - 1
      PROVE  nx[Tail(s)[i]] = IF i = n - 1 THEN NULL ELSE Tail(s)[i + 1]
  <2>1. i + 1 \in 1..n /\ (i + 1 = n <=> i = n - 1)
    OBVIOUS
  <2>2. nx[s[i + 1]] = IF i + 1 = n THEN NULL ELSE s[i + 1 + 1]
    BY <2>1 DEF Linked
  <2>3. i # n - 1 => Tail(s)[i + 1] = s[i + 1 + 1]
    BY <1>3
  <2> QED BY <1>3, <2>1, <2>2, <2>3
<1> QED BY <1>1, <1>3, <1>4, <1>5 DEF Linked

Onto(b, s) == <<b>> \o s

\* A block put in front of a list moves the others by one.
LEMMA OntoFacts ==
  ASSUME NEW s \in Seq(Blocks), NEW b \in Blocks
  PROVE  /\ Onto(b, s) \in Seq(Blocks) /\ Len(Onto(b, s)) = Len(s) + 1 /\ Onto(b, s)[1] = b
         /\ \A i \in 1..Len(s) : Onto(b, s)[i + 1] = s[i]
  BY DEF Onto

\* A block put in front of a list.
LEMMA ConsLinked ==
  ASSUME NEW s, NEW h, NEW n \in Nat, NEW nx, Linked(s, h, n, nx),
         NEW b \in Blocks, NEW ny, ny[b] = h, \A i \in 1..n : ny[s[i]] = nx[s[i]]
  PROVE  Linked(Onto(b, s), b, n + 1, ny)
<1> DEFINE q == Onto(b, s)
<1>1. s \in Seq(Blocks) /\ Len(s) = n
  BY DEF Linked
<1>2. /\ q \in Seq(Blocks) /\ Len(q) = n + 1 /\ q[1] = b
      /\ \A i \in 1..n : q[i + 1] = s[i]
  BY <1>1, OntoFacts
<1>3. ASSUME NEW i \in 1..n + 1
      PROVE  ny[q[i]] = IF i = n + 1 THEN NULL ELSE q[i + 1]
  <2>1. CASE i = 1
    <3>1. n # 0 => q[2] = s[1]
      BY <1>2
    <3> HIDE DEF q
    <3> QED BY <1>2, <2>1, <3>1 DEF Linked
  <2>2. CASE i # 1
    <3>1. i - 1 \in 1..n /\ i - 1 + 1 = i /\ (i - 1 = n <=> i = n + 1)
      BY <2>2
    <3>2. q[i] = s[i - 1]
      BY <1>2, <3>1
    <3>3. nx[s[i - 1]] = IF i - 1 = n THEN NULL ELSE s[i]
      BY <3>1 DEF Linked
    <3>4. i # n + 1 => q[i + 1] = s[i]
      BY <1>2, <3>1
    <3> HIDE DEF q
    <3> QED BY <3>1, <3>2, <3>3, <3>4
  <2> QED BY <2>1, <2>2
<1> QED BY <1>2, <1>3 DEF Linked

\* Popping a block keeps the types.
LEMMA PopType == ASSUME IInv, NEW w \in Workers, Pop(w) PROVE TypeOK'
<1> USE DEF IInv, TypeOK
<1>1. Linked(mm[w], head[w], availNum[w], next) /\ availNum[w] \in Nat \ {0}
  BY DEF Pop, Threaded
<1>2. head[w] = mm[w][1] /\ head[w] \in Blocks /\ Len(mm[w]) = availNum[w]
  BY <1>1, TailLinked DEF Linked
<1>3. holders[head[w]] = 0
  BY <1>1, <1>2 DEF FreeInv
<1>4. holders' \in [Blocks -> {0, 1}]
  BY <1>2, <1>3 DEF Pop
<1>5. head' \in [Workers -> Blocks \cup {NULL}]
  BY <1>2 DEF Pop
<1>6. availNum' \in [Workers -> Nat]
  BY DEF Pop
<1> QED BY <1>4, <1>5, <1>6 DEF Pop

\* Popping a block takes the head of its worker's list and of no other.
LEMMA PopLists ==
  ASSUME IInv, NEW w \in Workers, Pop(w)
  PROVE  /\ Len(mm[w]) # 0 /\ head[w] = mm[w][1] /\ head[w] \in Blocks
         /\ mm' = [mm EXCEPT ![w] = Tail(@)]
         /\ Threaded'
<1> DEFINE S == [mm EXCEPT ![w] = Tail(@)]
<1>1. TypeOK' /\ mm \in [Workers -> Seq(Blocks)]
  BY PopType, ListsType DEF IInv
<1>2. \A v \in Workers : Linked(mm[v], head[v], availNum[v], next)
  BY DEF IInv, Threaded
<1>3. availNum[w] \in Nat /\ availNum[w] # 0 /\ Len(mm[w]) = availNum[w]
  BY <1>2 DEF IInv, TypeOK, Pop, Linked
<1>4. /\ head[w] = mm[w][1] /\ head[w] \in Blocks
      /\ Linked(Tail(mm[w]), next[head[w]], availNum[w] - 1, next)
  BY <1>2, <1>3, TailLinked
<1>5. Tail(mm[w]) \in Seq(Blocks)
  BY <1>4 DEF Linked
<1>6. S \in [Workers -> Seq(Blocks)]
  BY <1>1, <1>5
<1>7. ASSUME NEW v \in Workers PROVE Linked(S[v], head'[v], availNum'[v], next')
  <2>1. CASE v = w
    BY <1>1, <1>4, <2>1 DEF Pop, IInv, TypeOK
  <2>2. CASE v # w
    BY <1>1, <1>2, <2>2 DEF Pop, IInv, TypeOK
  <2> QED BY <2>1, <2>2
<1>8. mm' = S /\ Threaded'
  <2> HIDE DEF S
  <2> QED BY <1>1, <1>6, <1>7, ListsAreNext
<1> QED BY <1>3, <1>4, <1>8

\* Freeing a block keeps the types.
LEMMA PushType ==
  ASSUME IInv, NEW w \in Workers, NEW b \in Blocks, FreeMemory(w, b) PROVE TypeOK'
<1> USE DEF IInv, TypeOK, FreeMemory
<1>1. holders' \in [Blocks -> {0, 1}]
  OBVIOUS
<1>2. next' \in [Blocks -> Blocks \cup {NULL}] /\ head' \in [Workers -> Blocks \cup {NULL}]
  OBVIOUS
<1>3. availNum' \in [Workers -> Nat]
  OBVIOUS
<1> QED BY <1>1, <1>2, <1>3

\* What is in use is in no list.
LEMMA InUseIsOut ==
  ASSUME IInv, NEW b \in Blocks, holders[b] > 0
  PROVE  b <= mapped /\ \A v \in Workers : \A i \in 1..Len(mm[v]) : mm[v][i] # b
<1>1. holders[b] = 1
  BY DEF IInv, TypeOK
<1> QED BY <1>1 DEF IInv, FreeInv, AllInv

\* A freed block comes in front of the list of the worker that frees it.
LEMMA PushLists ==
  ASSUME IInv, NEW w \in Workers, NEW b \in Blocks, FreeMemory(w, b)
  PROVE  mm' = [mm EXCEPT ![w] = Onto(b, @)] /\ Threaded'
<1> DEFINE S == [mm EXCEPT ![w] = Onto(b, @)]
<1>1. TypeOK' /\ mm \in [Workers -> Seq(Blocks)]
  BY PushType, ListsType DEF IInv
<1>2. \A v \in Workers : /\ Linked(mm[v], head[v], availNum[v], next)
                         /\ availNum[v] \in Nat /\ Len(mm[v]) = availNum[v]
  BY DEF IInv, Threaded, TypeOK, Linked
<1>3. \A v \in Workers : \A i \in 1..Len(mm[v]) : mm[v][i] # b /\ mm[v][i] \in Blocks
  BY <1>1, InUseIsOut DEF FreeMemory
<1>4. \A v \in Workers : \A i \in 1..availNum[v] : next'[mm[v][i]] = next[mm[v][i]]
  BY <1>2, <1>3 DEF FreeMemory, IInv, TypeOK
<1>5. next'[b] = head[w]
  BY DEF FreeMemory, IInv, TypeOK
<1>6. Linked(Onto(b, mm[w]), b, availNum[w] + 1, next')
  <2> DEFINE s == mm[w]
             n == availNum[w]
             h == head[w]
             ny == next'
  <2>1. n \in Nat /\ Linked(s, h, n, next)
    BY <1>2
  <2>2. (\A i \in 1..n : ny[s[i]] = next[s[i]]) /\ ny[b] = h
    BY <1>4, <1>5
  <2>3. Linked(Onto(b, s), b, n + 1, ny)
    <3> HIDE DEF s, n, h, ny, S
    <3> QED BY ONLY b \in Blocks, <2>1, <2>2, ConsLinked
  <2> QED BY <2>3
<1>7. S \in [Workers -> Seq(Blocks)]
  BY <1>1, OntoFacts
<1>8. ASSUME NEW v \in Workers PROVE Linked(S[v], head'[v], availNum'[v], next')
  <2>1. CASE v = w
    BY <1>1, <1>6, <2>1 DEF FreeMemory, IInv, TypeOK
  <2>2. CASE v # w
    <3>1. S[v] = mm[v] /\ head'[v] = head[v] /\ availNum'[v] = availNum[v]
      BY <1>1, <2>2 DEF FreeMemory, IInv, TypeOK
    <3>2. Linked(mm[v], head[v], availNum[v], next')
      BY <1>2, <1>4 DEF Linked
    <3> QED BY <3>1, <3>2
  <2> QED BY <2>1, <2>2
<1>9. mm' = S /\ Threaded'
  <2> HIDE DEF S
  <2> QED BY <1>1, <1>7, <1>8, ListsAreNext
<1> QED BY <1>9

\* A stack that is written to is in no list.
LEMMA UseLists ==
  ASSUME IInv, NEW b \in Blocks, Use(b)
  PROVE  TypeOK' /\ mm' = mm /\ Threaded'
<1>1. PICK x \in Blocks \cup {NULL} : next' = [next EXCEPT ![b] = x]
  BY DEF Use
<1>2. TypeOK'
  BY <1>1 DEF Use, IInv, TypeOK
<1>3. mm \in [Workers -> Seq(Blocks)]
  BY ListsType DEF IInv
<1>4. ASSUME NEW v \in Workers PROVE Linked(mm[v], head'[v], availNum'[v], next')
  <2>1. Linked(mm[v], head[v], availNum[v], next) /\ Len(mm[v]) = availNum[v]
    BY DEF IInv, Threaded, Linked
  <2>2. \A i \in 1..Len(mm[v]) : mm[v][i] # b /\ mm[v][i] \in Blocks
    BY <1>3, InUseIsOut DEF Use
  <2>3. \A i \in 1..availNum[v] : next'[mm[v][i]] = next[mm[v][i]]
    BY <1>1, <2>1, <2>2 DEF IInv, TypeOK
  <2>4. Linked(mm[v], head[v], availNum[v], next')
    BY <2>1, <2>3 DEF Linked
  <2> QED BY <2>4 DEF Use
<1>5. mm' = mm /\ Threaded'
  BY <1>2, <1>3, <1>4, ListsAreNext
<1> QED BY <1>2, <1>5

-----------------------------------------------------------------------------
(* Steps of the invariant *)

\* Filling keeps free blocks out of use, each on one list once, and none lost.
LEMMA FillInv ==
  ASSUME IInv, NEW w \in Workers, Fill(w) PROVE FreeInv' /\ OnceInv' /\ AllInv'
<1> DEFINE new == [i \in 1..SEGMENT - 1 |-> mapped + 1 + i]
<1>1. mm \in [Workers -> Seq(Blocks)]
  BY ListsType DEF IInv
<1>2. mm' = [mm EXCEPT ![w] = new] /\ mm[w] = <<>>
  BY FillLists
<1>3. Len(new) = SEGMENT - 1 /\ \A i \in 1..SEGMENT - 1 : new[i] = mapped + 1 + i
  OBVIOUS
<1>4. mapped \in Nat /\ mapped + SEGMENT <= MaxBlocks /\ mapped' = mapped + SEGMENT
  BY DEF Fill, IInv, TypeOK
<1>5. mm'[w] = new /\ \A v \in Workers \ {w} : mm'[v] = mm[v]
  BY <1>1, <1>2
<1>6. \A b \in Blocks : holders'[b] = IF b = mapped + 1 THEN 1 ELSE holders[b]
  <2>1. mapped + 1 \in Blocks
    BY <1>4 DEF Blocks
  <2>2. holders[mapped + 1] = 0
    BY <1>4, <2>1 DEF IInv, AllInv
  <2> QED BY <2>1, <2>2 DEF Fill, IInv, TypeOK
<1>7. \A v \in Workers \ {w} : \A i \in 1..Len(mm[v]) :
        mm[v][i] \in Blocks /\ mm[v][i] <= mapped /\ holders[mm[v][i]] = 0
  BY <1>1 DEF IInv, FreeInv
<1>8. \A i \in 1..SEGMENT - 1 :
        new[i] \in Blocks /\ mapped + 1 < new[i] /\ new[i] <= mapped + SEGMENT
  BY <1>3, <1>4 DEF Blocks
<1> HIDE DEF new
<1>9. FreeInv'
  <2> SUFFICES ASSUME NEW v \in Workers, NEW i \in 1..Len(mm'[v])
               PROVE  mm'[v][i] <= mapped' /\ holders'[mm'[v][i]] = 0
    BY DEF FreeInv
  <2>1. CASE v = w
    <3>1. i \in 1..SEGMENT - 1 /\ mm'[v][i] = new[i]
      BY <1>3, <1>5, <2>1
    <3>2. holders[new[i]] = 0
      BY <1>4, <1>8, <3>1 DEF IInv, AllInv, Blocks
    <3> QED BY <1>4, <1>6, <1>8, <3>1, <3>2 DEF Blocks
  <2>2. CASE v # w
    <3>1. mm'[v] = mm[v]
      BY <1>5, <2>2
    <3> QED BY <1>4, <1>6, <1>7, <2>2, <3>1 DEF Blocks
  <2> QED BY <2>1, <2>2
<1>10. OnceInv'
  <2> SUFFICES ASSUME NEW u \in Workers, NEW v \in Workers,
                      NEW i \in 1..Len(mm'[u]), NEW j \in 1..Len(mm'[v]),
                      mm'[u][i] = mm'[v][j]
               PROVE  u = v /\ i = j
    BY DEF OnceInv
  <2>1. CASE u = w /\ v = w
    <3>1. i \in 1..SEGMENT - 1 /\ j \in 1..SEGMENT - 1 /\ new[i] = new[j]
      BY <1>3, <1>5, <2>1
    <3> QED BY <1>3, <1>4, <2>1, <3>1
  <2>2. CASE u # w /\ v # w
    <3>1. mm'[u] = mm[u] /\ mm'[v] = mm[v]
      BY <1>5, <2>2
    <3> QED BY <3>1 DEF IInv, OnceInv
  <2>3. CASE u = w /\ v # w
    <3>1. i \in 1..SEGMENT - 1 /\ mm'[u][i] = new[i] /\ mm'[v] = mm[v]
      BY <1>3, <1>5, <2>3
    <3> QED BY <1>4, <1>7, <1>8, <2>3, <3>1 DEF Blocks
  <2>4. CASE u # w /\ v = w
    <3>1. j \in 1..SEGMENT - 1 /\ mm'[v][j] = new[j] /\ mm'[u] = mm[u]
      BY <1>3, <1>5, <2>4
    <3> QED BY <1>4, <1>7, <1>8, <2>4, <3>1 DEF Blocks
  <2> QED BY <2>1, <2>2, <2>3, <2>4
<1>11. AllInv'
  <2> SUFFICES ASSUME NEW b \in Blocks
               PROVE  IF b <= mapped'
                        THEN \/ holders'[b] = 1
                             \/ \E v \in Workers : \E i \in 1..Len(mm'[v]) : mm'[v][i] = b
                        ELSE holders'[b] = 0
    BY DEF AllInv
  <2>1. CASE b <= mapped
    <3>1. \/ holders[b] = 1
          \/ \E v \in Workers : \E i \in 1..Len(mm[v]) : mm[v][i] = b
      BY <2>1 DEF IInv, AllInv
    <3>2. CASE holders[b] = 1
      BY <1>4, <1>6, <2>1, <3>2 DEF Blocks
    <3>3. CASE \E v \in Workers : \E i \in 1..Len(mm[v]) : mm[v][i] = b
      <4>1. PICK v \in Workers : \E i \in 1..Len(mm[v]) : mm[v][i] = b
        BY <3>3
      <4>2. v # w
        BY <1>2, <4>1
      <4>3. mm'[v] = mm[v]
        BY <1>5, <4>2
      <4> QED BY <1>4, <2>1, <4>1, <4>3 DEF Blocks
    <3> QED BY <3>1, <3>2, <3>3
  <2>2. CASE b = mapped + 1
    BY <1>4, <1>6, <2>2
  <2>3. CASE b > mapped + 1 /\ b <= mapped + SEGMENT
    <3>1. b - mapped - 1 \in 1..SEGMENT - 1
      BY <1>4, <2>3 DEF Blocks
    <3>2. new[b - mapped - 1] = b
      BY <1>3, <1>4, <3>1 DEF Blocks
    <3>3. b - mapped - 1 \in 1..Len(mm'[w]) /\ mm'[w][b - mapped - 1] = b
      BY <1>3, <1>5, <3>1, <3>2
    <3> QED BY <1>4, <2>3, <3>3
  <2>4. CASE b > mapped + SEGMENT
    <3>1. ~(b <= mapped) /\ ~(b <= mapped') /\ b # mapped + 1
      BY <1>4, <2>4 DEF Blocks
    <3> QED BY <1>6, <3>1 DEF IInv, AllInv
  <2> QED BY <1>4, <2>1, <2>2, <2>3, <2>4 DEF Blocks
<1> QED BY <1>9, <1>10, <1>11

\* Popping keeps free blocks out of use, each on one list once, and none lost.
LEMMA PopInv ==
  ASSUME IInv, NEW w \in Workers, Pop(w) PROVE FreeInv' /\ OnceInv' /\ AllInv'
<1>1. mm \in [Workers -> Seq(Blocks)]
  BY ListsType DEF IInv
<1>2. /\ Len(mm[w]) # 0 /\ head[w] = mm[w][1] /\ head[w] \in Blocks
      /\ mm' = [mm EXCEPT ![w] = Tail(@)]
  BY PopLists
<1>3. \A v \in Workers \ {w} : mm'[v] = mm[v]
  BY <1>1, <1>2
<1>4. /\ Len(mm'[w]) = Len(mm[w]) - 1 /\ Len(mm[w]) \in Nat \ {0}
      /\ \A i \in 1..Len(mm[w]) - 1 : mm'[w][i] = mm[w][i + 1]
  <2>1. mm'[w] = Tail(mm[w]) /\ mm[w] \in Seq(Blocks) /\ mm[w] # <<>>
    BY <1>1, <1>2
  <2> QED BY <2>1
<1>5. \A b \in Blocks : holders'[b] = IF b = head[w] THEN 1 ELSE holders[b]
  <2>1. holders[head[w]] = 0
    BY <1>2, <1>4 DEF IInv, FreeInv
  <2> QED BY <1>2, <2>1 DEF Pop, IInv, TypeOK
\* Where a block of a list was before.
<1>6. ASSUME NEW v \in Workers, NEW i \in 1..Len(mm'[v])
      PROVE  \E k \in 1..Len(mm[v]) : /\ mm'[v][i] = mm[v][k]
                                      /\ IF v = w THEN k = i + 1 ELSE k = i
  <2>1. CASE v = w
    <3>1. i + 1 \in 1..Len(mm[v]) /\ mm'[v][i] = mm[v][i + 1]
      BY <1>4, <2>1
    <3> QED BY <2>1, <3>1
  <2>2. CASE v # w
    BY <1>3, <2>2
  <2> QED BY <2>1, <2>2
<1>7. FreeInv'
  <2> SUFFICES ASSUME NEW v \in Workers, NEW i \in 1..Len(mm'[v])
               PROVE  mm'[v][i] <= mapped' /\ holders'[mm'[v][i]] = 0
    BY DEF FreeInv
  <2>1. PICK k \in 1..Len(mm[v]) : /\ mm'[v][i] = mm[v][k]
                                   /\ IF v = w THEN k = i + 1 ELSE k = i
    BY <1>6
  <2>2. mm[v][k] # head[w]
    <3>1. CASE v = w
      <4>1. k # 1 /\ 1 \in 1..Len(mm[w])
        BY <1>4, <2>1, <3>1
      <4> QED BY <1>2, <2>1, <3>1, <4>1 DEF IInv, OnceInv
    <3>2. CASE v # w
      BY <1>2, <1>4, <3>2 DEF IInv, OnceInv
    <3> QED BY <3>1, <3>2
  <2>3. mm[v][k] \in Blocks
    BY <1>1
  <2> QED BY <1>5, <2>1, <2>2, <2>3 DEF IInv, FreeInv, Pop
<1>8. OnceInv'
  <2> SUFFICES ASSUME NEW u \in Workers, NEW v \in Workers,
                      NEW i \in 1..Len(mm'[u]), NEW j \in 1..Len(mm'[v]),
                      mm'[u][i] = mm'[v][j]
               PROVE  u = v /\ i = j
    BY DEF OnceInv
  <2>1. PICK k \in 1..Len(mm[u]) : /\ mm'[u][i] = mm[u][k]
                                   /\ IF u = w THEN k = i + 1 ELSE k = i
    BY <1>6
  <2>2. PICK l \in 1..Len(mm[v]) : /\ mm'[v][j] = mm[v][l]
                                   /\ IF v = w THEN l = j + 1 ELSE l = j
    BY <1>6
  <2>3. u = v /\ k = l
    <3>1. mm[u][k] = mm[v][l]
      BY <2>1, <2>2
    <3>2. OnceInv
      BY DEF IInv
    <3> QED BY <3>1, <3>2 DEF OnceInv
  <2> QED BY <2>1, <2>2, <2>3
<1>9. AllInv'
  <2> SUFFICES ASSUME NEW b \in Blocks
               PROVE  IF b <= mapped'
                        THEN \/ holders'[b] = 1
                             \/ \E v \in Workers : \E i \in 1..Len(mm'[v]) : mm'[v][i] = b
                        ELSE holders'[b] = 0
    BY DEF AllInv
  <2>0. mapped' = mapped
    BY DEF Pop
  <2>1. CASE b = head[w]
    BY <1>2, <1>4, <1>5, <2>0, <2>1 DEF IInv, FreeInv
  <2>2. CASE b # head[w] /\ b <= mapped /\ holders[b] # 1
    <3>1. PICK v \in Workers : \E i \in 1..Len(mm[v]) : mm[v][i] = b
      BY <2>2 DEF IInv, AllInv
    <3>2. PICK i \in 1..Len(mm[v]) : mm[v][i] = b
      BY <3>1
    <3>3. CASE v = w
      <4>1. i # 1
        BY <1>2, <2>2, <3>2, <3>3
      <4>2. i - 1 \in 1..Len(mm'[v]) /\ mm'[v][i - 1] = b
        BY <1>4, <3>2, <3>3, <4>1
      <4> QED BY <2>0, <2>2, <4>2
    <3>4. CASE v # w
      BY <1>3, <2>0, <2>2, <3>2, <3>4
    <3> QED BY <3>3, <3>4
  <2>3. CASE b # head[w] /\ ~(b <= mapped /\ holders[b] # 1)
    BY <1>5, <2>0, <2>3 DEF IInv, AllInv
  <2> QED BY <2>1, <2>2, <2>3
<1> QED BY <1>7, <1>8, <1>9

\* Freeing keeps free blocks out of use, each on one list once, and none lost.
LEMMA PushInv ==
  ASSUME IInv, NEW w \in Workers, NEW b \in Blocks, FreeMemory(w, b)
  PROVE  FreeInv' /\ OnceInv' /\ AllInv'
<1>1. mm \in [Workers -> Seq(Blocks)] /\ OnceInv
  BY ListsType DEF IInv
<1>2. mm' = [mm EXCEPT ![w] = Onto(b, @)]
  BY PushLists
<1>3. b <= mapped /\ \A v \in Workers : \A i \in 1..Len(mm[v]) : mm[v][i] # b
  BY InUseIsOut DEF FreeMemory
<1>4. \A c \in Blocks : holders'[c] = IF c = b THEN 0 ELSE holders[c]
  BY DEF FreeMemory, IInv, TypeOK
<1>5. \A v \in Workers \ {w} : mm'[v] = mm[v]
  BY <1>1, <1>2
<1>6. /\ Len(mm'[w]) = Len(mm[w]) + 1 /\ Len(mm[w]) \in Nat /\ mm'[w][1] = b
      /\ \A i \in 1..Len(mm[w]) : mm'[w][i + 1] = mm[w][i]
  <2>1. mm'[w] = Onto(b, mm[w])
    BY <1>1, <1>2
  <2>2. mm[w] \in Seq(Blocks) /\ Len(mm[w]) \in Nat
    BY <1>1
  <2>3. /\ Len(Onto(b, mm[w])) = Len(mm[w]) + 1 /\ Onto(b, mm[w])[1] = b
        /\ \A i \in 1..Len(mm[w]) : Onto(b, mm[w])[i + 1] = mm[w][i]
    BY <2>2, OntoFacts
  <2> QED BY <2>1, <2>2, <2>3
<1>7. mapped' = mapped
  BY DEF FreeMemory
\* Where a block of a list was before, if it is not b.
<1>8. ASSUME NEW v \in Workers, NEW i \in 1..Len(mm'[v])
      PROVE  \/ v = w /\ i = 1 /\ mm'[v][i] = b
             \/ \E k \in 1..Len(mm[v]) : /\ mm'[v][i] = mm[v][k]
                                         /\ IF v = w THEN i = k + 1 ELSE i = k
  <2>1. CASE v = w /\ i = 1
    BY <1>6, <2>1
  <2>2. CASE v = w /\ i # 1
    <3>1. i - 1 \in 1..Len(mm[v]) /\ i = (i - 1) + 1
      BY <1>6, <2>2
    <3>2. mm'[v][i] = mm[v][i - 1]
      BY <1>6, <2>2, <3>1
    <3> QED BY <2>2, <3>1, <3>2
  <2>3. CASE v # w
    BY <1>5, <2>3
  <2> QED BY <2>1, <2>2, <2>3
<1>9. FreeInv'
  <2> SUFFICES ASSUME NEW v \in Workers, NEW i \in 1..Len(mm'[v])
               PROVE  mm'[v][i] <= mapped' /\ holders'[mm'[v][i]] = 0
    BY DEF FreeInv
  <2>1. CASE mm'[v][i] = b
    BY <1>3, <1>4, <1>7, <2>1
  <2>2. CASE mm'[v][i] # b
    <3>1. PICK k \in 1..Len(mm[v]) : mm'[v][i] = mm[v][k]
      BY <1>8, <2>2
    <3>2. mm[v][k] \in Blocks /\ mm[v][k] <= mapped /\ holders[mm[v][k]] = 0
      BY <1>1 DEF IInv, FreeInv
    <3> QED BY <1>4, <1>7, <3>1, <3>2
  <2> QED BY <2>1, <2>2
<1>10. OnceInv'
  <2> SUFFICES ASSUME NEW u \in Workers, NEW v \in Workers,
                      NEW i \in 1..Len(mm'[u]), NEW j \in 1..Len(mm'[v]),
                      mm'[u][i] = mm'[v][j]
               PROVE  u = v /\ i = j
    BY DEF OnceInv
  <2>1. CASE mm'[u][i] = b
    <3>1. u = w /\ i = 1
      BY <1>3, <1>8, <2>1
    <3>2. v = w /\ j = 1
      <4>1. mm'[v][j] = b
        BY <2>1
      <4> QED BY <1>3, <1>8, <4>1
    <3> QED BY <3>1, <3>2
  <2>2. CASE mm'[u][i] # b
    <3>1. PICK k \in 1..Len(mm[u]) : /\ mm'[u][i] = mm[u][k]
                                     /\ IF u = w THEN i = k + 1 ELSE i = k
      BY <1>8, <2>2
    <3>2. PICK l \in 1..Len(mm[v]) : /\ mm'[v][j] = mm[v][l]
                                     /\ IF v = w THEN j = l + 1 ELSE j = l
      BY <1>8, <2>2
    <3>3. mm[u][k] = mm[v][l]
      BY <3>1, <3>2
    <3>4. u = v /\ k = l
      BY <1>1, <3>3 DEF OnceInv
    <3> QED BY <3>1, <3>2, <3>4
  <2> QED BY <2>1, <2>2
<1>11. AllInv'
  <2> SUFFICES ASSUME NEW c \in Blocks
               PROVE  IF c <= mapped'
                        THEN \/ holders'[c] = 1
                             \/ \E v \in Workers : \E i \in 1..Len(mm'[v]) : mm'[v][i] = c
                        ELSE holders'[c] = 0
    BY DEF AllInv
  <2>1. CASE c = b
    <3>1. 1 \in 1..Len(mm'[w])
      BY <1>6
    <3> QED BY <1>3, <1>6, <1>7, <2>1, <3>1
  <2>2. CASE c # b /\ c <= mapped /\ holders[c] # 1
    <3>1. PICK v \in Workers : \E i \in 1..Len(mm[v]) : mm[v][i] = c
      BY <2>2 DEF IInv, AllInv
    <3>2. PICK i \in 1..Len(mm[v]) : mm[v][i] = c
      BY <3>1
    <3>3. CASE v = w
      <4>1. i + 1 \in 1..Len(mm'[v]) /\ mm'[v][i + 1] = c
        BY <1>6, <3>2, <3>3
      <4> QED BY <1>7, <2>2, <4>1
    <3>4. CASE v # w
      BY <1>5, <1>7, <2>2, <3>2, <3>4
    <3> QED BY <3>3, <3>4
  <2>3. CASE c # b /\ ~(c <= mapped /\ holders[c] # 1)
    BY <1>4, <1>7, <2>3 DEF IInv, AllInv
  <2> QED BY <2>1, <2>2, <2>3
<1> QED BY <1>9, <1>10, <1>11

\* Overwriting a block in use disturbs no list.
LEMMA UseInv ==
  ASSUME IInv, NEW b \in Blocks, Use(b) PROVE FreeInv' /\ OnceInv' /\ AllInv'
<1>1. mm' = mm /\ mapped' = mapped /\ holders' = holders
  BY UseLists DEF Use
<1>2. FreeInv'
  BY <1>1 DEF IInv, FreeInv
<1>3. OnceInv'
  BY <1>1 DEF IInv, OnceInv
<1>4. AllInv'
  BY <1>1 DEF IInv, AllInv
<1> QED BY <1>2, <1>3, <1>4

\* Every step preserves the invariant.
LEMMA StepInv == IInv /\ [Next]_vars => IInv'
<1> SUFFICES ASSUME IInv, [Next]_vars PROVE IInv'
  OBVIOUS
<1>1. ASSUME NEW w \in Workers, AllocMemory(w) PROVE IInv'
  <2>1. CASE Fill(w)
    BY <2>1, FillType, FillLists, FillInv DEF IInv
  <2>2. CASE Pop(w)
    BY <2>2, PopType, PopLists, PopInv DEF IInv
  <2> QED BY <1>1, <2>1, <2>2, AllocIsFillOrPop
<1>2. ASSUME NEW w \in Workers, NEW b \in Blocks, FreeMemory(w, b) PROVE IInv'
  BY <1>2, PushType, PushLists, PushInv DEF IInv
<1>3. ASSUME NEW b \in Blocks, Use(b) PROVE IInv'
  BY <1>3, UseLists, UseInv DEF IInv
<1>4. CASE UNCHANGED vars
  <2>1. UNCHANGED <<mm, availNum, head, next, mapped, holders>>
    BY <1>4 DEF vars, mm, List
  <2> QED BY <2>1 DEF IInv, TypeOK, Threaded, FreeInv, OnceInv, AllInv
<1> QED BY <1>1, <1>2, <1>3, <1>4 DEF Next

\* The inductive invariant holds throughout.
LEMMA Invariance == Spec => []IInv
  BY InitInv, StepInv, PTL DEF Spec

-----------------------------------------------------------------------------
(* Theorems *)

\* A list without repetition is not longer than there are blocks.
LEMMA ListFits == ASSUME IInv, NEW w \in Workers PROVE Len(mm[w]) <= MaxBlocks
<1> DEFINE n == Len(mm[w])
<1>1. mm[w] \in Seq(Blocks)
  BY ListsType DEF IInv
<1>2. n \in Nat /\ mm[w] \in [1..n -> Blocks]
  BY <1>1
<1>3. mm[w] \in Injection(1..n, Blocks)
  <2>1. \A i, j \in 1..n : mm[w][i] = mm[w][j] => i = j
    BY DEF IInv, OnceInv
  <2>2. DOMAIN mm[w] = 1..n
    BY <1>2
  <2> HIDE DEF n
  <2> QED BY <1>2, <2>1, <2>2 DEF Injection, IsInjective
<1>4. IsFiniteSet(Blocks) /\ Cardinality(Blocks) = MaxBlocks
  BY FS_Interval DEF Blocks
<1>5. Cardinality(1..n) = n
  BY <1>2, FS_Interval
<1>6. Cardinality(1..n) <= Cardinality(Blocks)
  <2> HIDE DEF n
  <2> QED BY <1>3, <1>4, FS_Injection
<1> QED BY <1>4, <1>5, <1>6

\* The two halves of EveryBlockOnce.
LEMMA ListsEnd ==
  ASSUME IInv, NEW w \in Workers
  PROVE  List(w) = <<mm[w], NULL>> /\ Len(mm[w]) = availNum[w]
<1>1. mm \in [Workers -> Seq(Blocks)] /\ TypeOK
  BY ListsType DEF IInv
<1>2. \A v \in Workers : Linked(mm[v], head[v], availNum[v], next)
  BY DEF IInv, Threaded
<1> QED BY <1>1, <1>2, ListsAre DEF Linked

\* A mapped block is handed out once and on no list, or not and on one list once.
LEMMA PlacesOf ==
  ASSUME IInv, NEW b \in 1..mapped PROVE holders[b] + Cardinality(Places(b)) = 1
<1>1. b \in Blocks /\ b <= mapped
  BY DEF IInv, TypeOK, Blocks
<1>2. ASSUME NEW p \in Places(b)
      PROVE  /\ p[1] \in Workers /\ p[2] \in 1..Len(mm[p[1]]) /\ p = <<p[1], p[2]>>
             /\ mm[p[1]][p[2]] = b
  <2>1. p \in Workers \X Blocks
    BY DEF Places
  <2>2. p[1] \in Workers /\ p[2] \in Blocks /\ p = <<p[1], p[2]>>
    BY <2>1
  <2>3. List(p[1])[1] = mm[p[1]] /\ mm[p[1]] \in Seq(Blocks)
    BY <2>2, ListsEnd, ListsType DEF IInv
  <2>4. p[2] <= Len(mm[p[1]]) /\ mm[p[1]][p[2]] = b
    BY <2>3 DEF Places
  <2> QED BY <2>2, <2>3, <2>4 DEF Blocks
<1>3. CASE holders[b] = 1
  <2>1. Places(b) = {}
    BY <1>2, <1>3 DEF IInv, FreeInv
  <2> QED BY <1>3, <2>1, FS_EmptySet
<1>4. CASE holders[b] = 0
  <2>1. PICK w \in Workers : \E i \in 1..Len(mm[w]) : mm[w][i] = b
    BY <1>1, <1>4 DEF IInv, AllInv
  <2>2. PICK i \in 1..Len(mm[w]) : mm[w][i] = b
    BY <2>1
  <2>3. <<w, i>> \in Places(b)
    <3>1. Len(mm[w]) <= MaxBlocks /\ List(w)[1] = mm[w] /\ Len(mm[w]) \in Nat
      BY ListFits, ListsEnd, ListsType DEF IInv
    <3>2. i \in Blocks
      BY <3>1 DEF Blocks
    <3> QED BY <2>2, <3>1, <3>2 DEF Places
  <2>4. ASSUME NEW p \in Places(b) PROVE p = <<w, i>>
    BY <1>2, <2>2 DEF IInv, OnceInv
  <2>5. Places(b) = {<<w, i>>}
    BY <2>3, <2>4
  <2>6. Cardinality(Places(b)) = 1
    BY <2>5, FS_Singleton
  <2> QED BY <1>4, <2>6
<1>5. holders[b] \in {0, 1}
  BY <1>1 DEF IInv, TypeOK
<1> QED BY <1>3, <1>4, <1>5

\* MemoryManager (thread.c) never hands a stack to two jobs and loses none, whatever the
\* jobs write into their stacks and whichever worker frees them.
THEOREM EveryBlockOnceCorrect == Spec => []EveryBlockOnce
<1>1. IInv => EveryBlockOnce
  BY PlacesOf, ListsEnd DEF EveryBlockOnce
<1> QED BY Invariance, <1>1, PTL

\* Every step of the managers is one of FreeLists.
LEMMA StepMaps == IInv /\ IInv' /\ [Next]_vars => [Lists!Next]_<<mm, mapped>>
<1> SUFFICES ASSUME IInv, IInv', [Next]_vars PROVE [Lists!Next]_<<mm, mapped>>
  OBVIOUS
<1>0. mm \in [Workers -> Seq(Blocks)]
  BY ListsType DEF IInv
<1>1. ASSUME NEW w \in Workers, Fill(w) PROVE Lists!Next
  <2>1. mapped + 1 \in 1..MaxBlocks
    BY <1>1 DEF Fill, IInv, TypeOK
  <2>2. Lists!AllocMemory(w, mapped + 1)
    BY <1>1, FillLists DEF Lists!AllocMemory, mm, Fill
  <2> QED BY <2>1, <2>2 DEF Lists!Next
<1>2. ASSUME NEW w \in Workers, Pop(w) PROVE Lists!Next
  <2>1. head[w] \in 1..MaxBlocks /\ head[w] = mm[w][1] /\ mm[w] # <<>>
    BY <1>2, PopLists DEF Blocks
  <2>2. head[w] = Head(mm[w])
    BY <1>0, <2>1
  <2>3. Lists!AllocMemory(w, head[w])
    BY <1>2, <2>1, <2>2, PopLists DEF Lists!AllocMemory, mm, Pop
  <2> QED BY <2>1, <2>3 DEF Lists!Next
<1>3. ASSUME NEW w \in Workers, NEW b \in Blocks, FreeMemory(w, b) PROVE Lists!Next
  <2>1. b \in 1..mapped /\ \A v \in Workers : \A i \in 1..Len(mm[v]) : mm[v][i] # b
    BY <1>3, InUseIsOut DEF FreeMemory, Blocks, IInv, TypeOK
  <2>2. b \in Lists!InUse
    BY <2>1 DEF Lists!InUse, Lists!InSeq, mm
  <2>3. Lists!FreeMemory(w, b)
    BY <1>3, PushLists DEF Lists!FreeMemory, mm, FreeMemory, Onto
  <2> QED BY <2>2, <2>3 DEF Lists!Next
<1>4. ASSUME NEW b \in Blocks, Use(b) PROVE UNCHANGED <<mm, mapped>>
  BY <1>4, UseLists DEF Use
<1>5. CASE UNCHANGED vars
  BY <1>5 DEF vars, mm, List
<1> QED BY <1>1, <1>2, <1>3, <1>4, <1>5, AllocIsFillOrPop DEF Next

\* Before the first mmap all lists are empty, as FreeLists starts.
LEMMA InitMaps == Init => Lists!Init
<1> SUFFICES ASSUME Init PROVE Lists!Init
  OBVIOUS
<1>1. IInv /\ mapped = 0 /\ \A w \in Workers : availNum[w] = 0
  BY InitInv DEF Init
<1>2. \A w \in Workers : mm[w] = <<>>
  BY <1>1, ListsEnd, ListsType DEF IInv
<1> QED BY <1>1, <1>2 DEF Lists!Init, mm

\* The lists that run through the stacks themselves behave as FreeLists, the sequences
\* Sched uses for them, promises.
THEOREM MemoryRefinesFreeLists == Spec => ImplementsFreeLists
<1>1. IInv /\ IInv' /\ [Next]_vars => [Lists!Next]_<<mm, mapped>>
  BY StepMaps
<1> QED BY InitMaps, Invariance, <1>1, PTL DEF Spec, ImplementsFreeLists, Lists!Spec, mm
=============================================================================
