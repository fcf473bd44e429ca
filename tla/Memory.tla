------------------------------- MODULE Memory -------------------------------
(***************************************************************************)
(* The memory managers of thread.c: availNum and a list that runs through  *)
(* the free segments themselves.  While a segment is in use it is a stack, *)
(* whose frames overwrite the link.                                        *)
(***************************************************************************)
EXTENDS Integers, Sequences, FiniteSets

CONSTANTS Workers, SEGMENT, MaxBlocks, NULL

ASSUME MemoryAssumption == /\ SEGMENT \in Nat \ {0} /\ MaxBlocks \in Nat
                           /\ NULL \notin Nat

Blocks == 1..MaxBlocks

VARIABLES
  availNum, head,   \* per worker: MemoryManager
  next,             \* the first word of each block
  mapped,           \* number of blocks mmapped
  holders           \* history, per block: how often it is handed out

vars == <<availNum, head, next, mapped, holders>>

NewPage == mapped + 1..mapped + SEGMENT

\* Mutant: the last segment of the page is linked to what comes after it.
linkedUnterminated == [b \in Blocks |-> IF b \in NewPage THEN b + 1 ELSE next[b]]

\* A new page is cut into segments that are linked up.
linked == [b \in Blocks |-> IF b \notin NewPage THEN next[b]
                            ELSE IF b = mapped + SEGMENT THEN NULL ELSE b + 1]

AllocMemory(w) ==
  \/ /\ availNum[w] = 0
     /\ mapped + SEGMENT <= MaxBlocks
     /\ LET space == mapped + 1
        IN /\ next' = linked
           /\ head' = [head EXCEPT ![w] = linked[space]]
           /\ availNum' = [availNum EXCEPT ![w] = @ + SEGMENT - 1]
           /\ mapped' = mapped + SEGMENT
           /\ holders' = [holders EXCEPT ![space] = @ + 1]
  \/ /\ availNum[w] # 0
     /\ head[w] # NULL   \* the code would read address 0
     /\ head' = [head EXCEPT ![w] = next[head[w]]]
     /\ availNum' = [availNum EXCEPT ![w] = @ - 1]
     /\ holders' = [holders EXCEPT ![head[w]] = @ + 1]
     /\ UNCHANGED <<next, mapped>>

\* Mutant: the head is moved before it is saved.
FreeMemorySwapped(w, b) ==
  /\ holders[b] > 0
  /\ availNum' = [availNum EXCEPT ![w] = @ + 1]
  /\ head' = [head EXCEPT ![w] = b]
  /\ next' = [next EXCEPT ![b] = head'[w]]
  /\ holders' = [holders EXCEPT ![b] = @ - 1]
  /\ UNCHANGED mapped

\* Any worker may be the one that runs a job to its end.
FreeMemory(w, b) ==
  /\ holders[b] > 0
  /\ availNum' = [availNum EXCEPT ![w] = @ + 1]
  /\ next' = [next EXCEPT ![b] = head[w]]
  /\ head' = [head EXCEPT ![w] = b]
  /\ holders' = [holders EXCEPT ![b] = @ - 1]
  /\ UNCHANGED mapped

\* A job runs on its stack.
Use(b) == /\ holders[b] > 0
          /\ \E x \in Blocks \cup {NULL} : next' = [next EXCEPT ![b] = x]
          /\ UNCHANGED <<availNum, head, mapped, holders>>

Init == /\ availNum = [w \in Workers |-> 0]
        /\ head = [w \in Workers |-> NULL]
        /\ next = [b \in Blocks |-> NULL]
        /\ mapped = 0
        /\ holders = [b \in Blocks |-> 0]

Next == \/ \E w \in Workers : AllocMemory(w) \/ \E b \in Blocks : FreeMemory(w, b)
        \/ \E b \in Blocks : Use(b)

Spec == Init /\ [][Next]_vars
-----------------------------------------------------------------------------
(* Properties *)

\* The first availNum[w] blocks from head[w] on.
List(w) ==
  LET f[k \in 0..availNum[w]] ==
        IF k = 0 THEN <<<<>>, head[w]>>
        ELSE LET l == f[k - 1] IN IF l[2] = NULL THEN l ELSE <<Append(l[1], l[2]), next[l[2]]>>
  IN f[availNum[w]]

\* The managers behave as lists that nobody can touch from outside, although each list
\* lives in memory that was in use before and is used by other workers again: what
\* Sched relies on when it treats mm[w] as a sequence.
Lists == INSTANCE FreeLists WITH mm <- [w \in Workers |-> List(w)[1]]
ImplementsFreeLists == Lists!Spec

\* Where b is in the lists.
Places(b) == {p \in Workers \X Blocks :
                LET list == List(p[1])[1] IN p[2] <= Len(list) /\ list[p[2]] = b}

\* No stack is given to two jobs at once and no free block is lost: every block is in
\* one place of one list or handed out once, and a list ends where availNum says.
EveryBlockOnce ==
  /\ \A b \in 1..mapped : holders[b] + Cardinality(Places(b)) = 1
  /\ \A w \in Workers : List(w)[2] = NULL /\ Len(List(w)[1]) = availNum[w]
=============================================================================
