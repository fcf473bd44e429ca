----------------------------- MODULE DequeSpec -----------------------------
(***************************************************************************)
(* What a worker's deque promises to the scheduler, as atomic operations   *)
(* on a sequence: the owner pushes and pops at the tail, a thief takes     *)
(* from the head and never takes the last item.  A thief that is inside    *)
(* GetNodeFromHead has already added one to H: while it is undecided (it   *)
(* is the prober) the owner sees one item fewer than there is.             *)
(***************************************************************************)
EXTENDS Integers, Sequences

CONSTANTS Jobs,     \* the jobs that can be queued
          Owner,    \* the worker that owns the deque
          Thieves,  \* the other workers
          NULL

VARIABLES items,    \* the queued jobs, head first
          prober,   \* the thief whose increment of H is not settled, or NULL
          got       \* got[p]: the job p's call has removed and not yet returned

vars == <<items, prober, got>>

Procs == {Owner} \cup Thieves

Queued == {items[i] : i \in 1..Len(items)}

Init == /\ items = <<>>
        /\ prober = NULL
        /\ got = [p \in Procs |-> NULL]

\* The owner queues a job that nobody else has.
Push(j) == /\ j \in Jobs \ (Queued \cup {got[p] : p \in Procs})
           /\ items' = Append(items, j)
           /\ UNCHANGED <<prober, got>>

\* The owner takes the newest item; the last one only when no thief is at it.
Pop == /\ got[Owner] = NULL
       /\ Len(items) >= 2 \/ (Len(items) = 1 /\ prober = NULL)
       /\ items' = SubSeq(items, 1, Len(items) - 1)
       /\ got' = [got EXCEPT ![Owner] = items[Len(items)]]
       /\ UNCHANGED prober

\* A thief enters; one at a time.
Probe(t) == /\ prober = NULL
            /\ got[t] = NULL
            /\ prober' = t
            /\ UNCHANGED <<items, got>>

\* It leaves with the oldest item, of two at least ...
Steal(t) == /\ prober = t
            /\ Len(items) >= 2
            /\ items' = Tail(items)
            /\ got' = [got EXCEPT ![t] = Head(items)]
            /\ prober' = NULL

\* ... or with nothing, possibly although there were items.
Miss(t) == /\ prober = t
           /\ prober' = NULL
           /\ UNCHANGED <<items, got>>

Return(p) == /\ got[p] # NULL
             /\ got' = [got EXCEPT ![p] = NULL]
             /\ UNCHANGED <<items, prober>>

Next == \/ \E j \in Jobs : Push(j)
        \/ Pop
        \/ \E t \in Thieves : Probe(t) \/ Steal(t) \/ Miss(t)
        \/ \E p \in Procs : Return(p)

Spec == Init /\ [][Next]_vars
=============================================================================
