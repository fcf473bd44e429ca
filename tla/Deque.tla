------------------------------- MODULE Deque -------------------------------
(***************************************************************************)
(* The deque of one worker (src/thread.c, Deque and the functions on it),  *)
(* one action per access to shared memory.  The owner pushes and pops at   *)
(* the tail without the mutex unless the deque is nearly empty; thieves    *)
(* take from the head under the mutex.  T counts pushes minus pops, H      *)
(* counts steals; both are changed by locked instructions only.            *)
(***************************************************************************)
EXTENDS Integers, Sequences

CONSTANTS Jobs,       \* the jcbs
          Owner,      \* the worker whose deque this is
          Thieves,    \* the workers that steal from it
          NULL,
          MaxSteals   \* bound on H, for model checking

ASSUME DequeAssumption ==
  /\ Owner \notin Thieves
  /\ NULL \notin Jobs \cup Thieves \cup {Owner}
  /\ MaxSteals \in Nat

VARIABLES H, T,                  \* the two counters of struct deque
          queue_lock,            \* the process that holds the mutex, or NULL
          head_node, tail_node,
          next, prev,            \* the links inside each jcb
          pc,                    \* where each process is
          job,                   \* the jcb each process's call works on
          items                  \* history: the jobs in the deque, head first

shared == <<H, T, queue_lock, head_node, tail_node, next, prev>>
vars == <<shared, pc, job, items>>

Procs == {Owner} \cup Thieves

\* Control points, grouped as the invariants need them.
PushPC   == {"push_link", "push_back", "push_tail", "push_count"}
LockedPC == {"pop_dec2", "pop_check2", "pop_undo2", "pop_null", "pop_unlock"}
PopBody  == {"pop_unlink", "pop_tail", "pop_clear"}
OwnerPC  == {"idle", "pop_dec", "pop_check", "pop_undo", "pop_lock", "pop_read", "ret"}
              \cup PushPC \cup LockedPC \cup PopBody
ProbePC   == {"steal_check", "steal_undo", "steal_read"}
StealBody == {"steal_unlink", "steal_head", "steal_clear"}
HoldPC    == {"steal_inc", "steal_null", "steal_unlock"} \cup ProbePC \cup StealBody
ThiefPC   == {"idle", "steal_lock", "ret"} \cup HoldPC

Queued == {items[i] : i \in 1..Len(items)}

Step(p, from, to) == /\ pc[p] = from
                     /\ pc' = [pc EXCEPT ![p] = to]

\* Deque_new
Init == /\ H = 0 /\ T = 0
        /\ queue_lock = NULL
        /\ head_node = NULL /\ tail_node = NULL
        /\ next = [j \in Jobs |-> NULL]
        /\ prev = [j \in Jobs |-> NULL]
        /\ pc = [p \in Procs |-> "idle"]
        /\ job = [p \in Procs |-> NULL]
        /\ items = <<>>

-----------------------------------------------------------------------------
(* AddNodeToTail: no mutex at all *)

PushCall(j) ==
  /\ j \in Jobs \ (Queued \cup {job[p] : p \in Procs})
  /\ Step(Owner, "idle", "push_link")
  /\ job' = [job EXCEPT ![Owner] = j]
  /\ next' = [next EXCEPT ![j] = NULL]
  /\ prev' = [prev EXCEPT ![j] = NULL]
  /\ UNCHANGED <<H, T, queue_lock, head_node, tail_node, items>>

PushLink ==
  /\ IF tail_node = NULL
       THEN /\ Step(Owner, "push_link", "push_tail")
            /\ head_node' = job[Owner]
            /\ next' = next
       ELSE /\ Step(Owner, "push_link", "push_back")
            /\ next' = [next EXCEPT ![tail_node] = job[Owner]]
            /\ head_node' = head_node
  /\ UNCHANGED <<H, T, queue_lock, tail_node, prev, job, items>>

\* Mutant: the new node is not linked back.
PushBackUnlinked ==
  /\ Step(Owner, "push_back", "push_tail")
  /\ UNCHANGED <<shared, job, items>>

\* The local prev of the code is tail_node, which PushTail alone changes next.
PushBack ==
  /\ Step(Owner, "push_back", "push_tail")
  /\ prev' = [prev EXCEPT ![job[Owner]] = tail_node]
  /\ UNCHANGED <<H, T, queue_lock, head_node, tail_node, next, job, items>>

PushTail ==
  /\ Step(Owner, "push_tail", "push_count")
  /\ tail_node' = job[Owner]
  /\ UNCHANGED <<H, T, queue_lock, head_node, next, prev, job, items>>

\* The increment of T is what makes the job visible to thieves.
PushCount ==
  /\ Step(Owner, "push_count", "idle")
  /\ T' = T + 1
  /\ items' = Append(items, job[Owner])
  /\ job' = [job EXCEPT ![Owner] = NULL]
  /\ UNCHANGED <<H, queue_lock, head_node, tail_node, next, prev>>

Push == PushLink \/ PushBack \/ PushTail \/ PushCount

-----------------------------------------------------------------------------
(* GetNodeFromTail: lock-free while T is well above H.  "flag" of the code *)
(* is queue_lock = Owner.  The owner alone writes T and the mutex guards   *)
(* H, so each comparison of the two has one racing read.                   *)

PopCall == /\ Step(Owner, "idle", "pop_dec")
           /\ UNCHANGED <<shared, job, items>>

PopDec(from, to) ==
  /\ Step(Owner, from, to)
  /\ T' = T - 1
  /\ UNCHANGED <<H, queue_lock, head_node, tail_node, next, prev, job, items>>

\* Mutant: a failed check does not restore T.
PopUndoForgotten(from, to) ==
  /\ Step(Owner, from, to)
  /\ UNCHANGED <<shared, job, items>>

PopUndo(from, to) ==
  /\ Step(Owner, from, to)
  /\ T' = T + 1
  /\ UNCHANGED <<H, queue_lock, head_node, tail_node, next, prev, job, items>>

\* Mutant: the lock-free check has no margin for a thief.
PopCheckNoMargin ==
  /\ Step(Owner, "pop_check", IF H > T THEN "pop_undo" ELSE "pop_read")
  /\ UNCHANGED <<shared, job, items>>

PopCheck ==
  /\ Step(Owner, "pop_check", IF H + 1 > T THEN "pop_undo" ELSE "pop_read")
  /\ UNCHANGED <<shared, job, items>>

\* Mutant: the slow path does not wait for the mutex.
PopLockBarges ==
  /\ Step(Owner, "pop_lock", "pop_dec2")
  /\ queue_lock' = Owner
  /\ UNCHANGED <<H, T, head_node, tail_node, next, prev, job, items>>

PopLock ==
  /\ Step(Owner, "pop_lock", "pop_dec2")
  /\ queue_lock = NULL
  /\ queue_lock' = Owner
  /\ UNCHANGED <<H, T, head_node, tail_node, next, prev, job, items>>

\* Mutant: the check under the mutex keeps the margin of the first one.
PopCheck2Margin ==
  /\ Step(Owner, "pop_check2", IF H + 1 > T THEN "pop_undo2" ELSE "pop_read")
  /\ UNCHANGED <<shared, job, items>>

PopCheck2 ==
  /\ Step(Owner, "pop_check2", IF H > T THEN "pop_undo2" ELSE "pop_read")
  /\ UNCHANGED <<shared, job, items>>

PopRead ==
  /\ Step(Owner, "pop_read", "pop_unlink")
  /\ job' = [job EXCEPT ![Owner] = tail_node]
  /\ items' = SubSeq(items, 1, Len(items) - 1)
  /\ UNCHANGED shared

PopUnlink ==
  /\ Step(Owner, "pop_unlink", "pop_tail")
  /\ IF prev[job[Owner]] = NULL
       THEN head_node' = NULL /\ next' = next
       ELSE head_node' = head_node /\ next' = [next EXCEPT ![prev[job[Owner]]] = NULL]
  /\ UNCHANGED <<H, T, queue_lock, tail_node, prev, job, items>>

PopTail ==
  /\ Step(Owner, "pop_tail", "pop_clear")
  /\ tail_node' = prev[job[Owner]]
  /\ UNCHANGED <<H, T, queue_lock, head_node, next, prev, job, items>>

PopClear ==
  /\ Step(Owner, "pop_clear", IF queue_lock = Owner THEN "pop_unlock" ELSE "ret")
  /\ prev' = [prev EXCEPT ![job[Owner]] = NULL]
  /\ next' = [next EXCEPT ![job[Owner]] = NULL]
  /\ UNCHANGED <<H, T, queue_lock, head_node, tail_node, job, items>>

PopUnlock(from, to) ==
  /\ Step(Owner, from, to)
  /\ queue_lock' = NULL
  /\ UNCHANGED <<H, T, head_node, tail_node, next, prev, job, items>>

Pop == \/ PopDec("pop_dec", "pop_check") \/ PopCheck
       \/ PopUndo("pop_undo", "pop_lock") \/ PopLock
       \/ PopDec("pop_dec2", "pop_check2") \/ PopCheck2
       \/ PopUndo("pop_undo2", "pop_null") \/ PopUnlock("pop_null", "idle")
       \/ PopRead \/ PopUnlink \/ PopTail \/ PopClear \/ PopUnlock("pop_unlock", "ret")

-----------------------------------------------------------------------------
(* GetNodeFromHead: always under the mutex *)

StealCall(t) == /\ H < MaxSteals
                /\ Step(t, "idle", "steal_lock")
                /\ UNCHANGED <<shared, job, items>>

StealLock(t) ==
  /\ Step(t, "steal_lock", "steal_inc")
  /\ queue_lock = NULL
  /\ queue_lock' = t
  /\ UNCHANGED <<H, T, head_node, tail_node, next, prev, job, items>>

\* Mutant: H is not incremented before the check.
StealIncMissing(t) ==
  /\ Step(t, "steal_inc", "steal_check")
  /\ UNCHANGED <<shared, job, items>>

StealInc(t) ==
  /\ Step(t, "steal_inc", "steal_check")
  /\ H' = H + 1
  /\ UNCHANGED <<T, queue_lock, head_node, tail_node, next, prev, job, items>>

\* Mutant: a thief may take the last job.
StealCheckNoMargin(t) ==
  /\ Step(t, "steal_check", IF H > T THEN "steal_undo" ELSE "steal_read")
  /\ UNCHANGED <<shared, job, items>>

StealCheck(t) ==
  /\ Step(t, "steal_check", IF H + 1 > T THEN "steal_undo" ELSE "steal_read")
  /\ UNCHANGED <<shared, job, items>>

\* Mutant: a thief that finds too few items tries again with the mutex held.
StealUndoRetries(t) ==
  /\ Step(t, "steal_undo", "steal_inc")
  /\ H' = H - 1
  /\ UNCHANGED <<T, queue_lock, head_node, tail_node, next, prev, job, items>>

StealUndo(t) ==
  /\ Step(t, "steal_undo", "steal_null")
  /\ H' = H - 1
  /\ UNCHANGED <<T, queue_lock, head_node, tail_node, next, prev, job, items>>

StealRead(t) ==
  /\ Step(t, "steal_read", "steal_unlink")
  /\ job' = [job EXCEPT ![t] = head_node]
  /\ items' = Tail(items)
  /\ UNCHANGED shared

StealUnlink(t) ==
  /\ Step(t, "steal_unlink", "steal_head")
  /\ IF next[job[t]] = NULL
       THEN tail_node' = NULL /\ prev' = prev
       ELSE tail_node' = tail_node /\ prev' = [prev EXCEPT ![next[job[t]]] = NULL]
  /\ UNCHANGED <<H, T, queue_lock, head_node, next, job, items>>

StealHead(t) ==
  /\ Step(t, "steal_head", "steal_clear")
  /\ head_node' = next[job[t]]
  /\ UNCHANGED <<H, T, queue_lock, tail_node, next, prev, job, items>>

StealClear(t) ==
  /\ Step(t, "steal_clear", "steal_unlock")
  /\ prev' = [prev EXCEPT ![job[t]] = NULL]
  /\ next' = [next EXCEPT ![job[t]] = NULL]
  /\ UNCHANGED <<H, T, queue_lock, head_node, tail_node, job, items>>

StealUnlock(t, from, to) ==
  /\ Step(t, from, to)
  /\ queue_lock' = NULL
  /\ UNCHANGED <<H, T, head_node, tail_node, next, prev, job, items>>

Steal(t) == \/ StealLock(t) \/ StealInc(t) \/ StealCheck(t)
            \/ StealUndo(t) \/ StealUnlock(t, "steal_null", "idle")
            \/ StealRead(t) \/ StealUnlink(t) \/ StealHead(t) \/ StealClear(t)
            \/ StealUnlock(t, "steal_unlock", "ret")

-----------------------------------------------------------------------------
Return(p) == /\ Step(p, "ret", "idle")
             /\ job' = [job EXCEPT ![p] = NULL]
             /\ UNCHANGED <<shared, items>>

OwnerStep == Push \/ Pop \/ Return(Owner)
ThiefStep(t) == Steal(t) \/ Return(t)

Next == \/ \E j \in Jobs : PushCall(j)
        \/ PopCall
        \/ OwnerStep
        \/ \E t \in Thieves : StealCall(t) \/ ThiefStep(t)

Spec == Init /\ [][Next]_vars

\* A thread inside a call keeps running; nobody has to start a call, and the
\* mutex promises no order among the threads that wait for it.
FairSpec == Spec /\ WF_vars(OwnerStep) /\ \A t \in Thieves : WF_vars(ThiefStep(t))
-----------------------------------------------------------------------------
(* Properties *)

TypeOK ==
  /\ H \in Nat
  /\ T \in Int
  /\ queue_lock \in Procs \cup {NULL}
  /\ head_node \in Jobs \cup {NULL}
  /\ tail_node \in Jobs \cup {NULL}
  /\ next \in [Jobs -> Jobs \cup {NULL}]
  /\ prev \in [Jobs -> Jobs \cup {NULL}]
  /\ pc \in [Procs -> OwnerPC \cup ThiefPC]
  /\ pc[Owner] \in OwnerPC
  /\ \A t \in Thieves : pc[t] \in ThiefPC
  /\ job \in [Procs -> Jobs \cup {NULL}]
  /\ items \in Seq(Jobs)

\* The thief whose increment of H is not settled yet, and what it and the
\* owner have already counted of the items that are still in the list.
Probing == queue_lock \in Thieves /\ pc[queue_lock] \in ProbePC
ThiefInc == IF Probing THEN 1 ELSE 0
OwnerDec == IF pc[Owner] \in {"pop_check", "pop_undo", "pop_check2", "pop_undo2", "pop_read"}
              THEN 1 ELSE 0

\* The mutex admits one process, and whoever is where the code holds it has it.
LockInv ==
  /\ \A t \in Thieves : pc[t] \in HoldPC <=> queue_lock = t
  /\ pc[Owner] \in LockedPC => queue_lock = Owner
  /\ queue_lock = Owner => pc[Owner] \in LockedPC \cup {"pop_read"} \cup PopBody

\* T - H is the number of items, up to the increments and decrements that are
\* on trial: the numbers every guard of the code is decided by are right.
CountInv == T - H = Len(items) - OwnerDec - ThiefInc

\* A process that has passed its check has its item reserved: what the owner
\* and a thief are about to take are different items with one between them.
AtRead(p, l) == IF pc[p] = l THEN 1 ELSE 0
Taking == IF \E t \in Thieves : pc[t] = "steal_read" THEN 1 ELSE 0
ReserveInv ==
  /\ pc[Owner] = "pop_read" =>
       Len(items) >= IF queue_lock = Owner THEN 1 ELSE 2 + Taking
  /\ pc[Owner] \in PopBody /\ queue_lock # Owner => Len(items) >= 1 + Taking
  /\ \A t \in Thieves :
       /\ pc[t] = "steal_read" => Len(items) >= 2 + AtRead(Owner, "pop_read")
       /\ pc[t] \in StealBody => Len(items) >= 1 + AtRead(Owner, "pop_read")

\* While the owner unlinks the tail (with or without the mutex) and a thief
\* unlinks the head, an item lies between the two: they write different links.
NeverAdjacent ==
  \A t \in Thieves :
    pc[Owner] \in PopBody /\ pc[t] \in StealBody => items # <<>>

\* GetNodeFromTail answers NULL only when the deque is really empty: a thief's
\* transient increment of H never makes the owner lose sight of its own work.
PopNullOnlyWhenEmpty ==
  pc[Owner] \in {"pop_undo2", "pop_null"} => items = <<>>

\* Following next from head_node, and prev from tail_node, spells exactly the
\* items, with the node a call has half linked or half unlinked at either end.
InFlight(p, at) == IF pc[p] \in at THEN <<job[p]>> ELSE <<>>
ThiefNode(at) == IF queue_lock \in Thieves THEN InFlight(queue_lock, at) ELSE <<>>
Forward  == ThiefNode({"steal_unlink", "steal_head"}) \o items
              \o InFlight(Owner, {"push_back", "push_tail", "push_count", "pop_unlink"})
Backward == ThiefNode({"steal_unlink"}) \o items
              \o InFlight(Owner, {"push_count", "pop_unlink", "pop_tail"})
LinksSpellItems ==
  /\ head_node = IF Forward = <<>> THEN NULL ELSE Forward[1]
  /\ tail_node = IF Backward = <<>> THEN NULL ELSE Backward[Len(Backward)]
  /\ \A i \in 1..Len(Forward) :
       next[Forward[i]] = IF i = Len(Forward) THEN NULL ELSE Forward[i + 1]
  /\ \A i \in 1..Len(Backward) :
       prev[Backward[i]] = IF i = 1 THEN NULL ELSE Backward[i - 1]

\* The deque is an atomic sequence with a probing thief: every push, pop and
\* steal takes effect at one step, and each call returns the job it removed.
TookPC == PopBody \cup StealBody \cup {"pop_unlock", "steal_unlock", "ret"}
Atomic == INSTANCE DequeSpec WITH
            prober <- IF Probing THEN queue_lock ELSE NULL,
            got <- [p \in Procs |-> IF pc[p] \in TookPC THEN job[p] ELSE NULL]
ImplementsDequeSpec == Atomic!Spec

\* Whoever takes the mutex releases it, on every path through the two calls.
LockReleased == \A p \in Procs : queue_lock = p ~> queue_lock # p
=============================================================================
