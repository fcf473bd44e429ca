----------------------------- MODULE FreeLists -----------------------------
(***************************************************************************)
(* What the memory managers promise to the scheduler: every worker has a   *)
(* list of free segments, first one first; an empty list is filled with    *)
(* the segments of a new page.  Blocks are numbered as they are mapped.    *)
(***************************************************************************)
EXTENDS Integers, Sequences

CONSTANTS Workers,
          SEGMENT,   \* segments per mmapped page
          MaxBlocks  \* bound on the blocks that are mapped

VARIABLES mm,        \* mm[w]: the free list of worker w
          mapped     \* number of blocks obtained from mmap so far

\* AllocMemory: s is the block handed out.
AllocMemory(w, s) ==
  IF mm[w] = <<>>
    THEN /\ mapped + SEGMENT <= MaxBlocks
         /\ s = mapped + 1
         /\ mapped' = mapped + SEGMENT
         /\ mm' = [mm EXCEPT ![w] = [i \in 1..SEGMENT - 1 |-> mapped + 1 + i]]
    ELSE /\ s = Head(mm[w])
         /\ mm' = [mm EXCEPT ![w] = Tail(@)]
         /\ mapped' = mapped

FreeMemory(w, s) == /\ mm' = [mm EXCEPT ![w] = <<s>> \o @]
                    /\ mapped' = mapped

InSeq(q) == {q[i] : i \in 1..Len(q)}

InUse == (1..mapped) \ UNION {InSeq(mm[w]) : w \in Workers}

Init == mm = [w \in Workers |-> <<>>] /\ mapped = 0

\* Any worker frees any block that is in use, never one that is free.
Next == \E w \in Workers : \/ \E s \in 1..MaxBlocks : AllocMemory(w, s)
                           \/ \E s \in InUse : FreeMemory(w, s)

Spec == Init /\ [][Next]_<<mm, mapped>>
=============================================================================
