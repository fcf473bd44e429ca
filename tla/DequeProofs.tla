---------------------------- MODULE DequeProofs ----------------------------
(***************************************************************************)
(* Proofs about Deque for every set of jobs and thieves and every          *)
(* MaxSteals: counters, reservations and links are right in every order of *)
(* the steps, and so the deque implements DequeSpec.                       *)
(***************************************************************************)
EXTENDS Deque, TLAPS, SequenceTheorems

-----------------------------------------------------------------------------
(* The inductive invariant.  LockInv, CountInv and ReserveInv are about    *)
(* the counters alone; that the items a process has reserved are really    *)
(* the nodes it finds needs the links too.                                 *)

\* H is not decremented below zero: only a thief that has incremented it does.
HeadInv == \A t \in Thieves : pc[t] \in ProbePC => H >= 1

\* Where a call has a job it is one; jobs in the deque and in calls are all
\* different.
OwnInv ==
  /\ pc[Owner] \in PushPC \cup PopBody => job[Owner] \in Jobs
  /\ \A t \in Thieves : pc[t] \in StealBody => job[t] \in Jobs
  /\ \A p \in Procs : \A i \in 1..Len(items) : items[i] # job[p]
  /\ \A p, q \in Procs : p # q /\ job[p] # NULL => job[p] # job[q]
  /\ \A i, k \in 1..Len(items) : i # k => items[i] # items[k]

\* LinksSpellItems, end by end: the links between two items, ...
MiddleInv ==
  \A i \in 1..Len(items) - 1 : /\ next[items[i]] = items[i + 1]
                               /\ prev[items[i + 1]] = items[i]

\* ... the end where the owner adds or removes its node, ...
Last == IF Len(items) = 0 THEN NULL ELSE items[Len(items)]
TailInv ==
  /\ Len(items) # 0 => next[Last] = IF pc[Owner] \in {"push_back", "push_tail", "push_count", "pop_unlink"}
                                    THEN job[Owner] ELSE NULL
  /\ tail_node = IF pc[Owner] \in {"push_count", "pop_unlink", "pop_tail"} THEN job[Owner] ELSE Last
  /\ pc[Owner] \in PushPC \cup {"pop_unlink", "pop_tail"} => next[job[Owner]] = NULL
  /\ pc[Owner] \in {"push_link", "push_back"} => prev[job[Owner]] = NULL
  /\ pc[Owner] \in {"push_tail", "push_count", "pop_unlink", "pop_tail"} => prev[job[Owner]] = Last
  /\ pc[Owner] = "push_back" => Len(items) # 0

\* ... and the end where a thief removes one: the node it is removing, the
\* first item, and head_node.
StolenNode(t) ==
  /\ pc[t] \in {"steal_unlink", "steal_head"} => head_node = job[t] /\ next[job[t]] = items[1]
  /\ pc[t] = "steal_unlink" => prev[items[1]] = job[t] /\ prev[job[t]] = NULL
StolenInv == \A t \in Thieves : StolenNode(t)
FirstInv ==
  Len(items) # 0 /\ (\A t \in Thieves : pc[t] # "steal_unlink") => prev[items[1]] = NULL
HeadNodeInv ==
  (\A t \in Thieves : pc[t] \notin {"steal_unlink", "steal_head"}) =>
    head_node = IF Len(items) # 0 THEN items[1]
                ELSE IF pc[Owner] \in {"push_tail", "push_count", "pop_unlink"}
                  THEN job[Owner] ELSE NULL

LinkInv == MiddleInv /\ TailInv /\ StolenInv /\ FirstInv /\ HeadNodeInv

IInv == /\ TypeOK /\ LockInv /\ CountInv /\ ReserveInv /\ HeadInv
        /\ PopNullOnlyWhenEmpty /\ OwnInv /\ LinkInv

USE DequeAssumption

-----------------------------------------------------------------------------
(* The sequence of items when one is taken at either end, index by index; *)
(* the library's AppendProperties says it of Append.                       *)

\* Taking the last element keeps the others at their index.
LEMMA FrontFacts ==
  ASSUME NEW s \in Seq(Jobs), Len(s) >= 1
  PROVE  /\ SubSeq(s, 1, Len(s) - 1) \in Seq(Jobs)
         /\ Len(SubSeq(s, 1, Len(s) - 1)) = Len(s) - 1
         /\ \A i \in 1..Len(s) - 1 : SubSeq(s, 1, Len(s) - 1)[i] = s[i]
<1> DEFINE n == Len(s) - 1
           f == SubSeq(s, 1, n)
<1>1. Len(s) \in Nat /\ n \in Nat /\ 1 \in Int /\ n \in Int /\ \A i \in 1..n : s[i] \in Jobs
  BY LenProperties, ElementOfSeq
<1>2. /\ f \in Seq(Jobs)
      /\ Len(f) = IF 1 <= n THEN n - 1 + 1 ELSE 0
      /\ \A i \in 1..n - 1 + 1 : f[i] = s[1 + i - 1]
  <2> HIDE DEF n
  <2> QED BY <1>1, SubSeqProperties
<1> HIDE DEF f, n
<1>3. Len(f) = n
  BY <1>1, <1>2
<1>4. ASSUME NEW i \in 1..n PROVE f[i] = s[i]
  <2>1. i \in 1..n - 1 + 1 /\ 1 + i - 1 = i
    BY <1>1
  <2> QED BY <1>2, <2>1
<1> QED
  BY <1>2, <1>3, <1>4 DEF f, n

\* Taking the first element shifts the others by one.
LEMMA TailFacts ==
  ASSUME NEW s \in Seq(Jobs), Len(s) >= 1
  PROVE  /\ Tail(s) \in Seq(Jobs)
         /\ Len(Tail(s)) = Len(s) - 1
         /\ \A i \in 1..Len(s) - 1 : Tail(s)[i] = s[i + 1]
<1>1. s # <<>>
  BY EmptySeq
<1> QED
  BY <1>1, HeadTailProperties

\* A sequence is empty exactly when its length is zero.
LEMMA EmptyFacts ==
  ASSUME NEW s \in Seq(Jobs)
  PROVE  Len(s) \in Nat /\ (s = <<>> <=> Len(s) = 0)
BY EmptySeq, LenProperties

-----------------------------------------------------------------------------
(* What the owner and a thief find at their ends of the list. *)

\* Every item is a jcb.
LEMMA ItemsAreJobs ==
  ASSUME TypeOK
  PROVE  Len(items) \in Nat /\ \A i \in 1..Len(items) : items[i] \in Jobs
BY ElementOfSeq, LenProperties DEF TypeOK

\* The owner takes the last item, and it is the tail node.
LEMMA PopReadFacts ==
  ASSUME IInv, PopRead
  PROVE  /\ Len(items) >= 1
         /\ items' \in Seq(Jobs) /\ Len(items') = Len(items) - 1
         /\ \A i \in 1..Len(items) - 1 : items'[i] = items[i]
         /\ items[Len(items)] \in Jobs
         /\ tail_node = items[Len(items)]
         /\ job' = [job EXCEPT ![Owner] = items[Len(items)]]
<1> USE DEF IInv, TypeOK, PopRead, Step, ReserveInv
<1>1. Len(items) >= 1 /\ items \in Seq(Jobs)
  BY DEF Taking
<1>2. tail_node = items[Len(items)] /\ items[Len(items)] \in Jobs
  BY <1>1, ItemsAreJobs DEF LinkInv, TailInv, Last
<1> QED
  BY <1>1, <1>2, FrontFacts

\* A thief takes the first item, of two at least, and it is the head node.
LEMMA StealReadFacts ==
  ASSUME IInv, NEW t \in Thieves, StealRead(t)
  PROVE  /\ Len(items) >= 2
         /\ items' \in Seq(Jobs) /\ Len(items') = Len(items) - 1
         /\ \A i \in 1..Len(items) - 1 : items'[i] = items[i + 1]
         /\ items[1] \in Jobs
         /\ head_node = items[1]
         /\ job' = [job EXCEPT ![t] = items[1]]
         /\ queue_lock = t
         /\ \A u \in Thieves \ {t} : pc[u] \notin HoldPC /\ pc'[u] = pc[u]
<1> USE DEF IInv, TypeOK, StealRead, Step
<1>1. Len(items) >= 2 /\ items \in Seq(Jobs)
  BY DEF ReserveInv, AtRead
<1>2. queue_lock = t /\ \A u \in Thieves \ {t} : pc[u] \notin HoldPC /\ pc'[u] = pc[u]
  BY DEF LockInv, HoldPC, ProbePC, Procs
<1>3. head_node = items[1] /\ items[1] \in Jobs
  BY <1>1, <1>2, ItemsAreJobs DEF LinkInv, FirstInv, HeadNodeInv, HoldPC, StealBody
<1> QED
  BY <1>1, <1>2, <1>3, TailFacts

\* While a thief unlinks its node there is an item left, the node is in no
\* other hands, and no other thief is in the list.
LEMMA StolenFacts ==
  ASSUME IInv, NEW t \in Thieves, pc[t] \in StealBody
  PROVE  /\ Len(items) >= 1
         /\ items[1] \in Jobs /\ items[Len(items)] \in Jobs
         /\ job[t] \in Jobs
         /\ \A i \in 1..Len(items) : items[i] # job[t]
         /\ \A p \in Procs \ {t} : job[p] # job[t]
         /\ queue_lock = t
         /\ \A u \in Thieves \ {t} : pc[u] \notin HoldPC
<1>1. Len(items) >= 1 /\ queue_lock = t
  BY DEF IInv, ReserveInv, LockInv, HoldPC, AtRead
<1>2. items[1] \in Jobs /\ items[Len(items)] \in Jobs
  BY <1>1, ItemsAreJobs DEF IInv
<1> QED
  BY <1>1, <1>2 DEF IInv, OwnInv, LockInv, Procs

\* The mutex: only its holder is where the code holds it.
LEMMA LockStep ==
  ASSUME IInv, Next
  PROVE  LockInv'
<1> USE DEF IInv, TypeOK, Procs, Step, shared, PushPC, LockedPC, PopBody, OwnerPC, ProbePC,
   StealBody, HoldPC, ThiefPC, LockInv
<1>1. ASSUME NEW j \in Jobs, PushCall(j) PROVE LockInv'
  BY <1>1 DEF PushCall
<1>2. CASE Push
  BY <1>2 DEF Push, PushLink, PushBack, PushTail, PushCount
<1>3. CASE Pop
  BY <1>3 DEF Pop, PopDec, PopCheck, PopUndo, PopLock, PopCheck2, PopUnlock, PopRead, PopUnlink,
     PopTail, PopClear
<1>4. ASSUME NEW t \in Thieves, Steal(t) PROVE LockInv'
  BY <1>4 DEF Steal, StealLock, StealInc, StealCheck, StealUndo, StealUnlock, StealRead,
     StealUnlink, StealHead, StealClear
<1>5. CASE PopCall
  BY <1>5 DEF PopCall
<1>6. ASSUME NEW t \in Thieves, StealCall(t) PROVE LockInv'
  BY <1>6 DEF StealCall
<1>7. ASSUME NEW p \in Procs, Return(p) PROVE LockInv'
  BY <1>7 DEF Return
<1> QED
  BY <1>1, <1>2, <1>3, <1>4, <1>5, <1>6, <1>7 DEF Next, OwnerStep, ThiefStep

\* H: only the thief that incremented it decrements it.
LEMMA HeadStep ==
  ASSUME IInv, Next
  PROVE  HeadInv'
<1> USE DEF IInv, TypeOK, Procs, Step, shared, PushPC, LockedPC, PopBody, OwnerPC, ProbePC,
   StealBody, HoldPC, ThiefPC, LockInv, HeadInv
<1>1. ASSUME NEW j \in Jobs, PushCall(j) PROVE HeadInv'
  BY <1>1 DEF PushCall
<1>2. CASE Push
  BY <1>2 DEF Push, PushLink, PushBack, PushTail, PushCount
<1>3. CASE Pop
  BY <1>3 DEF Pop, PopDec, PopCheck, PopUndo, PopLock, PopCheck2, PopUnlock, PopRead, PopUnlink,
     PopTail, PopClear
<1>4. ASSUME NEW t \in Thieves, Steal(t) PROVE HeadInv'
  BY <1>4 DEF Steal, StealLock, StealInc, StealCheck, StealUndo, StealUnlock, StealRead,
     StealUnlink, StealHead, StealClear
<1>5. CASE PopCall
  BY <1>5 DEF PopCall
<1>6. ASSUME NEW t \in Thieves, StealCall(t) PROVE HeadInv'
  BY <1>6 DEF StealCall
<1>7. ASSUME NEW p \in Procs, Return(p) PROVE HeadInv'
  BY <1>7 DEF Return
<1> QED
  BY <1>1, <1>2, <1>3, <1>4, <1>5, <1>6, <1>7 DEF Next, OwnerStep, ThiefStep

\* The owner's steps leave the thieves' share of the counters alone ...
LEMMA OwnerKeeps ==
  ASSUME TypeOK, LockInv, (\E j \in Jobs : PushCall(j)) \/ PopCall \/ Push \/ Pop
  PROVE  H' = H /\ ThiefInc' = ThiefInc
<1> USE DEF TypeOK, LockInv, Procs, Step, shared
<1>1. H' = H /\ \A t \in Thieves : pc'[t] = pc[t]
  <2>1. CASE (\E j \in Jobs : PushCall(j)) \/ PopCall \/ Push
    BY <2>1 DEF PushCall, PopCall, Push, PushLink, PushBack, PushTail, PushCount
  <2>2. CASE Pop
    BY <2>2 DEF Pop, PopDec, PopCheck, PopUndo, PopLock, PopCheck2, PopUnlock, PopRead, PopUnlink,
                PopTail, PopClear
  <2> QED BY <2>1, <2>2
<1>2. queue_lock' = queue_lock \/ (queue_lock \notin Thieves /\ queue_lock' \notin Thieves)
  <2>1. CASE (\E j \in Jobs : PushCall(j)) \/ PopCall \/ Push
    BY <2>1 DEF PushCall, PopCall, Push, PushLink, PushBack, PushTail, PushCount
  <2>2. CASE Pop
    BY <2>2 DEF Pop, PopDec, PopCheck, PopUndo, PopLock, PopCheck2, PopUnlock, PopRead, PopUnlink,
                PopTail, PopClear, LockedPC
  <2> QED BY <2>1, <2>2
<1> QED
  BY <1>1, <1>2 DEF ThiefInc, Probing

\* ... and the other way round.
LEMMA ThiefKeeps ==
  ASSUME TypeOK, NEW t \in Thieves, StealCall(t) \/ Steal(t)
  PROVE  T' = T /\ OwnerDec' = OwnerDec
<1> USE DEF TypeOK, Procs, Step, shared
<1>1. T' = T /\ pc'[Owner] = pc[Owner]
  BY DEF StealCall, Steal, StealLock, StealInc, StealCheck, StealUndo, StealUnlock, StealRead,
         StealUnlink, StealHead, StealClear
<1> QED
  BY <1>1 DEF OwnerDec

\* The counters: every change of T, H and the items keeps them in step.
LEMMA CountStep ==
  ASSUME IInv, Next
  PROVE  CountInv'
<1> TypeOK /\ LockInv /\ CountInv
  BY DEF IInv
<1> USE DEF CountInv, Step
<1> Len(items) \in Nat /\ T \in Int /\ H \in Int /\ ThiefInc \in {0, 1} /\ OwnerDec \in {0, 1}
  BY ItemsAreJobs DEF TypeOK, ThiefInc, OwnerDec
<1>1. ASSUME NEW j \in Jobs, PushCall(j) PROVE CountInv'
  BY <1>1, OwnerKeeps DEF PushCall, OwnerDec, TypeOK, Procs
<1>2. CASE Push
  <2>1. CASE PushCount
    <3>1. Len(items') = Len(items) + 1
      BY <2>1, AppendProperties DEF PushCount, TypeOK
    <3> QED BY <1>2, <2>1, <3>1, OwnerKeeps DEF PushCount, OwnerDec, TypeOK, Procs
  <2>2. CASE PushLink \/ PushBack \/ PushTail
    BY <1>2, <2>2, OwnerKeeps DEF PushLink, PushBack, PushTail, OwnerDec, TypeOK, Procs
  <2> QED BY <1>2, <2>1, <2>2 DEF Push
<1>3. CASE Pop
  <2> USE DEF OwnerDec, TypeOK, Procs, shared
  <2>1. ThiefInc' = ThiefInc /\ H' = H
    BY <1>3, OwnerKeeps
  <2>2. CASE PopRead
    <3>1. Len(items') = Len(items) - 1
      BY <2>2, PopReadFacts
    <3>2. OwnerDec = 1 /\ OwnerDec' = 0 /\ T' = T
      BY <2>2 DEF PopRead
    <3> HIDE DEF OwnerDec, TypeOK
    <3> QED BY <2>1, <3>1, <3>2
  <2>3. CASE PopDec("pop_dec", "pop_check") \/ PopDec("pop_dec2", "pop_check2")
    BY <2>1, <2>3 DEF PopDec
  <2>4. CASE PopUndo("pop_undo", "pop_lock") \/ PopUndo("pop_undo2", "pop_null")
    BY <2>1, <2>4 DEF PopUndo
  <2>5. CASE PopCheck \/ PopCheck2 \/ PopLock
    BY <2>1, <2>5 DEF PopCheck, PopCheck2, PopLock
  <2>6. CASE PopUnlink \/ PopTail \/ PopClear
    BY <2>1, <2>6 DEF PopUnlink, PopTail, PopClear
  <2>7. CASE PopUnlock("pop_null", "idle") \/ PopUnlock("pop_unlock", "ret")
    BY <2>1, <2>7 DEF PopUnlock
  <2> QED BY <1>3, <2>2, <2>3, <2>4, <2>5, <2>6, <2>7 DEF Pop
<1>4. ASSUME NEW t \in Thieves, Steal(t) PROVE CountInv'
  <2> USE DEF ThiefInc, Probing, TypeOK, Procs, LockInv, HoldPC, ProbePC, shared
  <2>1. T' = T /\ OwnerDec' = OwnerDec
    BY <1>4, ThiefKeeps
  <2>2. CASE StealRead(t)
    <3>1. Len(items') = Len(items) - 1
      BY <2>2, StealReadFacts
    <3>2. ThiefInc = 1 /\ ThiefInc' = 0 /\ H' = H
      BY <2>2 DEF StealRead
    <3> HIDE DEF ThiefInc, TypeOK
    <3> QED BY <2>1, <3>1, <3>2
  <2>3. CASE StealInc(t)
    BY <2>1, <2>3 DEF StealInc
  <2>4. CASE StealUndo(t)
    BY <2>1, <2>4 DEF StealUndo
  <2>5. CASE StealLock(t) \/ StealCheck(t)
    BY <2>1, <2>5 DEF StealLock, StealCheck
  <2>6. CASE StealUnlink(t) \/ StealHead(t) \/ StealClear(t)
    BY <2>1, <2>6 DEF StealUnlink, StealHead, StealClear, StealBody
  <2>7. CASE StealUnlock(t, "steal_null", "idle") \/ StealUnlock(t, "steal_unlock", "ret")
    BY <2>1, <2>7 DEF StealUnlock
  <2> QED BY <1>4, <2>2, <2>3, <2>4, <2>5, <2>6, <2>7 DEF Steal
<1>5. CASE PopCall
  BY <1>5, OwnerKeeps DEF PopCall, OwnerDec, shared, TypeOK, Procs
<1>6. ASSUME NEW t \in Thieves, StealCall(t) PROVE CountInv'
  BY <1>6, ThiefKeeps DEF StealCall, shared, ThiefInc, Probing, TypeOK, Procs, ProbePC
<1>7. ASSUME NEW p \in Procs, Return(p) PROVE CountInv'
  BY <1>7 DEF Return, shared, ThiefInc, OwnerDec, Probing, TypeOK, Procs, ProbePC
<1> QED
  BY <1>1, <1>2, <1>3, <1>4, <1>5, <1>6, <1>7 DEF Next, OwnerStep, ThiefStep, Procs

\* The reservations: a check that succeeds leaves enough items for both ends.
LEMMA ReserveStep ==
  ASSUME IInv, Next
  PROVE  ReserveInv'
<1> USE DEF IInv, TypeOK, Procs, Step, shared, PushPC, LockedPC, PopBody, OwnerPC, ProbePC,
   StealBody, HoldPC, ThiefPC, LockInv, CountInv, ReserveInv, OwnerDec, ThiefInc, Probing,
   AtRead, Taking
<1>1. ASSUME NEW j \in Jobs, PushCall(j) PROVE ReserveInv'
  BY <1>1 DEF PushCall
<1>2. CASE Push
  BY <1>2, AppendProperties DEF Push, PushLink, PushBack, PushTail, PushCount
<1>3. CASE Pop
  <2>1. CASE PopRead
    <3>1. Len(items) >= 1 /\ Len(items') = Len(items) - 1
      BY <2>1, FrontFacts DEF PopRead
    <3>2. /\ pc[Owner] = "pop_read" /\ pc'[Owner] = "pop_unlink" /\ queue_lock' = queue_lock
          /\ \A t \in Thieves : pc'[t] = pc[t]
      BY <2>1 DEF PopRead
    <3> QED BY <3>1, <3>2
  <2>2. CASE PopCheck
    BY <2>2 DEF PopCheck
  <2>3. CASE PopCheck2
    BY <2>3 DEF PopCheck2
  <2>4. CASE PopLock
    BY <2>4 DEF PopLock
  <2>5. CASE \/ PopDec("pop_dec", "pop_check")
             \/ PopUndo("pop_undo", "pop_lock")
             \/ PopDec("pop_dec2", "pop_check2")
             \/ PopUndo("pop_undo2", "pop_null")
             \/ PopUnlock("pop_null", "idle")
             \/ PopUnlink
             \/ PopTail
             \/ PopClear
             \/ PopUnlock("pop_unlock", "ret")
    BY <2>5 DEF PopDec, PopUndo, PopUnlock, PopUnlink, PopTail, PopClear
  <2> QED BY <1>3, <2>1, <2>2, <2>3, <2>4, <2>5 DEF Pop
<1>4. ASSUME NEW t \in Thieves, Steal(t) PROVE ReserveInv'
  <2>1. CASE StealRead(t)
    <3>1. Len(items) >= 2 /\ Len(items') = Len(items) - 1
      BY <2>1, TailFacts DEF StealRead
    <3>2. /\ pc[t] = "steal_read" /\ pc'[t] = "steal_unlink"
          /\ queue_lock' = queue_lock /\ queue_lock = t
          /\ \A q \in Procs : q # t => pc'[q] = pc[q]
      BY <2>1 DEF StealRead
    <3>3. Taking = 1 /\ Taking' = 0
      BY <3>2
    <3>4. /\ pc'[Owner] = pc[Owner]
          /\ \A u \in Thieves : u # t => pc'[u] \notin StealBody \cup {"steal_read"}
      BY <3>2
    <3> QED BY <3>1, <3>2, <3>3, <3>4
  <2>2. CASE StealLock(t)
    BY <2>2 DEF StealLock
  <2>3. CASE StealCheck(t)
    BY <2>3 DEF StealCheck
  <2>4. CASE \/ StealInc(t)
             \/ StealUndo(t)
             \/ StealUnlock(t, "steal_null", "idle")
             \/ StealUnlink(t)
             \/ StealHead(t)
             \/ StealClear(t)
             \/ StealUnlock(t, "steal_unlock", "ret")
    BY <2>4 DEF StealInc, StealUndo, StealUnlock, StealUnlink, StealHead, StealClear
  <2> QED BY <1>4, <2>1, <2>2, <2>3, <2>4 DEF Steal
<1>5. CASE PopCall
  BY <1>5 DEF PopCall
<1>6. ASSUME NEW t \in Thieves, StealCall(t) PROVE ReserveInv'
  BY <1>6 DEF StealCall
<1>7. ASSUME NEW p \in Procs, Return(p) PROVE ReserveInv'
  BY <1>7 DEF Return
<1> QED
  BY <1>1, <1>2, <1>3, <1>4, <1>5, <1>6, <1>7 DEF Next, OwnerStep, ThiefStep

\* The owner gives up only on an empty deque.
LEMMA PopNullStep ==
  ASSUME IInv, Next
  PROVE  PopNullOnlyWhenEmpty'
<1> USE DEF TypeOK, Procs, Step, shared, PushPC, LockedPC, PopBody, OwnerPC, ProbePC, StealBody,
   HoldPC, ThiefPC, IInv, LockInv, PopNullOnlyWhenEmpty
<1>1. ASSUME NEW j \in Jobs, PushCall(j) PROVE PopNullOnlyWhenEmpty'
  BY <1>1 DEF PushCall
<1>2. CASE Push
  BY <1>2 DEF Push, PushLink, PushBack, PushTail, PushCount
<1>3. CASE Pop
  <2>1. CASE PopCheck2
    <3>1. pc'[Owner] = "pop_undo2" => Len(items) = 0
      <4>1. CountInv /\ Len(items) \in Nat
        BY ItemsAreJobs
      <4>2. pc[Owner] = "pop_check2" /\ (pc'[Owner] = "pop_undo2" => H > T)
        BY <2>1 DEF PopCheck2
      <4>3. OwnerDec = 1 /\ ThiefInc = 0
        BY <4>2 DEF OwnerDec, ThiefInc, Probing
      <4> HIDE DEF TypeOK, LockInv
      <4> QED BY <4>1, <4>2, <4>3 DEF CountInv, TypeOK
    <3> QED BY <2>1, <3>1, EmptyFacts DEF PopCheck2
  <2>2. CASE \/ PopDec("pop_dec", "pop_check")
             \/ PopCheck
             \/ PopUndo("pop_undo", "pop_lock")
             \/ PopLock
             \/ PopDec("pop_dec2", "pop_check2")
             \/ PopUndo("pop_undo2", "pop_null")
             \/ PopUnlock("pop_null", "idle")
             \/ PopRead
             \/ PopUnlink
             \/ PopTail
             \/ PopClear
             \/ PopUnlock("pop_unlock", "ret")
    BY <2>2 DEF PopDec, PopCheck, PopUndo, PopLock, PopUnlock, PopRead, PopUnlink, PopTail,
       PopClear
  <2> QED BY <1>3, <2>1, <2>2 DEF Pop
<1>4. ASSUME NEW t \in Thieves, Steal(t) PROVE PopNullOnlyWhenEmpty'
  BY <1>4 DEF Steal, StealLock, StealInc, StealCheck, StealUndo, StealUnlock, StealRead,
     StealUnlink, StealHead, StealClear
<1>5. CASE PopCall
  BY <1>5 DEF PopCall
<1>6. ASSUME NEW t \in Thieves, StealCall(t) PROVE PopNullOnlyWhenEmpty'
  BY <1>6 DEF StealCall
<1>7. ASSUME NEW p \in Procs, Return(p) PROVE PopNullOnlyWhenEmpty'
  BY <1>7 DEF Return
<1> QED
  BY <1>1, <1>2, <1>3, <1>4, <1>5, <1>6, <1>7 DEF Next, OwnerStep, ThiefStep

\* Types: what is read at either end of the list is a job.
LEMMA TypeStep ==
  ASSUME IInv, Next
  PROVE  TypeOK'
<1> USE DEF TypeOK, Procs, Step, shared, PushPC, LockedPC, PopBody, OwnerPC, ProbePC, StealBody,
   HoldPC, ThiefPC, IInv, ReserveInv, HeadInv, OwnInv, LinkInv, TailInv, HeadNodeInv, Last,
   LockInv
<1>1. ASSUME NEW j \in Jobs, PushCall(j) PROVE TypeOK'
  BY <1>1, ItemsAreJobs, StolenFacts DEF PushCall
<1>2. CASE Push
  <2>1. CASE PushCount
    BY <2>1, AppendProperties, StolenFacts DEF PushCount
  <2>2. CASE PushLink \/ PushBack \/ PushTail
    BY <2>2, ItemsAreJobs, StolenFacts DEF PushLink, PushBack, PushTail
  <2> QED BY <1>2, <2>1, <2>2 DEF Push
<1>3. CASE Pop
  <2>1. CASE PopRead
    BY <2>1, PopReadFacts, EmptyFacts, StolenFacts DEF PopRead
  <2>2. CASE PopUnlink
    BY <2>2, ItemsAreJobs, StolenFacts DEF PopUnlink
  <2>3. CASE PopTail
    BY <2>3 DEF PopTail
  <2>4. CASE PopClear
    BY <2>4, ItemsAreJobs, StolenFacts DEF PopClear
  <2>5. CASE \/ PopDec("pop_dec", "pop_check")
             \/ PopCheck
             \/ PopUndo("pop_undo", "pop_lock")
             \/ PopLock
             \/ PopDec("pop_dec2", "pop_check2")
             \/ PopCheck2
             \/ PopUndo("pop_undo2", "pop_null")
             \/ PopUnlock("pop_null", "idle")
             \/ PopUnlock("pop_unlock", "ret")
    BY <2>5 DEF PopDec, PopCheck, PopUndo, PopLock, PopCheck2, PopUnlock
  <2> QED BY <1>3, <2>1, <2>2, <2>3, <2>4, <2>5 DEF Pop
<1>4. ASSUME NEW t \in Thieves, Steal(t) PROVE TypeOK'
  <2>1. CASE StealRead(t)
    BY <2>1, StealReadFacts, EmptyFacts, StolenFacts DEF StealRead
  <2>2. CASE StealUndo(t)
    BY <2>2 DEF StealUndo
  <2>3. CASE StealHead(t)
    BY <2>3, ItemsAreJobs, StolenFacts DEF StealHead
  <2>4. CASE StealUnlink(t)
    BY <2>4, ItemsAreJobs, StolenFacts DEF StealUnlink
  <2>5. CASE StealClear(t)
    BY <2>5 DEF StealClear
  <2>6. CASE \/ StealLock(t)
             \/ StealInc(t)
             \/ StealCheck(t)
             \/ StealUnlock(t, "steal_null", "idle")
             \/ StealUnlock(t, "steal_unlock", "ret")
    BY <2>6 DEF StealLock, StealInc, StealCheck, StealUnlock
  <2> QED BY <1>4, <2>1, <2>2, <2>3, <2>4, <2>5, <2>6 DEF Steal
<1>5. CASE PopCall
  BY <1>5 DEF PopCall
<1>6. ASSUME NEW t \in Thieves, StealCall(t) PROVE TypeOK'
  BY <1>6 DEF StealCall
<1>7. ASSUME NEW p \in Procs, Return(p) PROVE TypeOK'
  BY <1>7 DEF Return
<1> QED
  BY <1>1, <1>2, <1>3, <1>4, <1>5, <1>6, <1>7 DEF Next, OwnerStep, ThiefStep

\* Ownership: a job is in the deque or in one call.
LEMMA OwnStep ==
  ASSUME IInv, Next
  PROVE  OwnInv'
<1> USE DEF TypeOK, Procs, Step, shared, PushPC, LockedPC, PopBody, OwnerPC, ProbePC, StealBody,
   HoldPC, ThiefPC, IInv, ReserveInv, OwnInv, Last, LockInv, Queued
<1>1. ASSUME NEW j \in Jobs, PushCall(j) PROVE OwnInv'
  BY <1>1, ItemsAreJobs, StolenFacts DEF PushCall
<1>2. CASE Push
  <2>1. CASE PushCount
    BY <2>1, AppendProperties, StolenFacts DEF PushCount
  <2>2. CASE PushLink \/ PushBack \/ PushTail
    BY <2>2, ItemsAreJobs, StolenFacts DEF PushLink, PushBack, PushTail
  <2> QED BY <1>2, <2>1, <2>2 DEF Push
<1>3. CASE Pop
  <2>1. CASE PopRead
    <3>1. /\ Len(items) >= 1 /\ Len(items') = Len(items) - 1
          /\ items[Len(items)] \in Jobs
          /\ \A i \in 1..Len(items') :
               i \in 1..Len(items) /\ items'[i] = items[i] /\ i # Len(items)
      BY <2>1, PopReadFacts, ItemsAreJobs
    <3>2. /\ job'[Owner] = items[Len(items)]
          /\ \A p \in Procs \ {Owner} : job'[p] = job[p] /\ pc'[p] = pc[p]
      BY <2>1, PopReadFacts DEF PopRead
    <3> HIDE DEF TypeOK
    <3>3. \A p \in Procs : \A i \in 1..Len(items') : items'[i] # job'[p]
      BY <3>1, <3>2, ItemsAreJobs
    <3>4. \A p, q \in Procs : p # q /\ job'[p] # NULL => job'[p] # job'[q]
      BY <3>1, <3>2, ItemsAreJobs
    <3>5. \A i, k \in 1..Len(items') : i # k => items'[i] # items'[k]
      BY <3>1, ItemsAreJobs
    <3> QED BY <3>1, <3>2, <3>3, <3>4, <3>5, <2>1 DEF PopRead
  <2>2. CASE PopUnlink
    BY <2>2, ItemsAreJobs, StolenFacts DEF PopUnlink
  <2>3. CASE PopTail
    BY <2>3 DEF PopTail
  <2>4. CASE PopClear
    BY <2>4, ItemsAreJobs, StolenFacts DEF PopClear
  <2>5. CASE \/ PopDec("pop_dec", "pop_check")
             \/ PopCheck
             \/ PopUndo("pop_undo", "pop_lock")
             \/ PopLock
             \/ PopDec("pop_dec2", "pop_check2")
             \/ PopCheck2
             \/ PopUndo("pop_undo2", "pop_null")
             \/ PopUnlock("pop_null", "idle")
             \/ PopUnlock("pop_unlock", "ret")
    BY <2>5 DEF PopDec, PopCheck, PopUndo, PopLock, PopCheck2, PopUnlock
  <2> QED BY <1>3, <2>1, <2>2, <2>3, <2>4, <2>5 DEF Pop
<1>4. ASSUME NEW t \in Thieves, Steal(t) PROVE OwnInv'
  <2>1. CASE StealRead(t)
    <3>1. /\ Len(items) >= 2 /\ Len(items') = Len(items) - 1
          /\ items[1] \in Jobs
          /\ \A i \in 1..Len(items') :
               i + 1 \in 1..Len(items) /\ items'[i] = items[i + 1] /\ i + 1 # 1
      BY <2>1, StealReadFacts, ItemsAreJobs
    <3>2. /\ job'[t] = items[1]
          /\ \A p \in Procs \ {t} : job'[p] = job[p] /\ pc'[p] = pc[p]
      BY <2>1, StealReadFacts DEF StealRead
    <3> HIDE DEF TypeOK
    <3>3. \A p \in Procs : \A i \in 1..Len(items') : items'[i] # job'[p]
      BY <3>1, <3>2
    <3>4. \A p, q \in Procs : p # q /\ job'[p] # NULL => job'[p] # job'[q]
      BY <3>1, <3>2
    <3>5. \A i, k \in 1..Len(items') : i # k => items'[i] # items'[k]
      BY <3>1, ItemsAreJobs
    <3> QED BY <3>1, <3>2, <3>3, <3>4, <3>5, <2>1 DEF StealRead
  <2>2. CASE \/ StealLock(t)
             \/ StealInc(t)
             \/ StealCheck(t)
             \/ StealUndo(t)
             \/ StealUnlock(t, "steal_null", "idle")
             \/ StealUnlink(t)
             \/ StealHead(t)
             \/ StealClear(t)
             \/ StealUnlock(t, "steal_unlock", "ret")
    BY <2>2, ItemsAreJobs, StolenFacts DEF StealLock, StealInc, StealCheck, StealUndo,
       StealUnlock, StealUnlink, StealHead, StealClear
  <2> QED BY <1>4, <2>1, <2>2 DEF Steal
<1>5. CASE PopCall
  BY <1>5 DEF PopCall
<1>6. ASSUME NEW t \in Thieves, StealCall(t) PROVE OwnInv'
  BY <1>6 DEF StealCall
<1>7. ASSUME NEW p \in Procs, Return(p) PROVE OwnInv'
  BY <1>7 DEF Return
<1> QED
  BY <1>1, <1>2, <1>3, <1>4, <1>5, <1>6, <1>7 DEF Next, OwnerStep, ThiefStep

\* The links between items: what changes at one end never touches them.
LEMMA MiddleStep ==
  ASSUME IInv, Next
  PROVE  MiddleInv'
<1> USE DEF TypeOK, Procs, Step, shared, PushPC, LockedPC, PopBody, OwnerPC, ProbePC, StealBody,
   HoldPC, ThiefPC, IInv, ReserveInv, OwnInv, LinkInv, MiddleInv, TailInv, StolenInv,
   StolenNode, FirstInv, HeadNodeInv, Last, LockInv, Queued
<1>1. ASSUME NEW j \in Jobs, PushCall(j) PROVE MiddleInv'
  BY <1>1, ItemsAreJobs, StolenFacts DEF PushCall
<1>2. CASE Push
  <2>1. CASE PushLink
    BY <2>1, ItemsAreJobs, StolenFacts DEF PushLink
  <2>2. CASE PushBack
    BY <2>2 DEF PushBack
  <2>3. CASE PushCount
    BY <2>3, AppendProperties, StolenFacts DEF PushCount
  <2>4. CASE PushTail
    BY <2>4 DEF PushTail
  <2> QED BY <1>2, <2>1, <2>2, <2>3, <2>4 DEF Push
<1>3. CASE Pop
  <2>1. CASE PopRead
    BY <2>1, PopReadFacts, EmptyFacts, StolenFacts DEF PopRead
  <2>2. CASE PopUnlink
    BY <2>2, ItemsAreJobs, StolenFacts DEF PopUnlink
  <2>3. CASE PopClear
    BY <2>3, ItemsAreJobs, StolenFacts DEF PopClear
  <2>4. CASE \/ PopDec("pop_dec", "pop_check")
             \/ PopCheck
             \/ PopUndo("pop_undo", "pop_lock")
             \/ PopLock
             \/ PopDec("pop_dec2", "pop_check2")
             \/ PopCheck2
             \/ PopUndo("pop_undo2", "pop_null")
             \/ PopUnlock("pop_null", "idle")
             \/ PopTail
             \/ PopUnlock("pop_unlock", "ret")
    BY <2>4 DEF PopDec, PopCheck, PopUndo, PopLock, PopCheck2, PopUnlock, PopTail
  <2> QED BY <1>3, <2>1, <2>2, <2>3, <2>4 DEF Pop
<1>4. ASSUME NEW t \in Thieves, Steal(t) PROVE MiddleInv'
  <2>1. CASE StealRead(t)
    BY <2>1, StealReadFacts, EmptyFacts, StolenFacts DEF StealRead
  <2>2. CASE StealUnlink(t)
    BY <2>2, ItemsAreJobs, StolenFacts DEF StealUnlink
  <2>3. CASE StealClear(t)
    BY <2>3 DEF StealClear
  <2>4. CASE \/ StealLock(t)
             \/ StealInc(t)
             \/ StealCheck(t)
             \/ StealUndo(t)
             \/ StealUnlock(t, "steal_null", "idle")
             \/ StealHead(t)
             \/ StealUnlock(t, "steal_unlock", "ret")
    BY <2>4, ItemsAreJobs, StolenFacts DEF StealLock, StealInc, StealCheck, StealUndo,
       StealUnlock, StealHead
  <2> QED BY <1>4, <2>1, <2>2, <2>3, <2>4 DEF Steal
<1>5. CASE PopCall
  BY <1>5 DEF PopCall
<1>6. ASSUME NEW t \in Thieves, StealCall(t) PROVE MiddleInv'
  BY <1>6 DEF StealCall
<1>7. ASSUME NEW p \in Procs, Return(p) PROVE MiddleInv'
  BY <1>7 DEF Return
<1> QED
  BY <1>1, <1>2, <1>3, <1>4, <1>5, <1>6, <1>7 DEF Next, OwnerStep, ThiefStep

\* The owner's end of the list.
LEMMA TailStep ==
  ASSUME IInv, Next
  PROVE  TailInv'
<1> USE DEF TypeOK, Procs, Step, shared, PushPC, LockedPC, PopBody, OwnerPC, ProbePC, StealBody,
   HoldPC, ThiefPC, IInv, ReserveInv, OwnInv, LinkInv, MiddleInv, TailInv, StolenInv,
   StolenNode, FirstInv, HeadNodeInv, Last, LockInv, Queued
<1>1. ASSUME NEW j \in Jobs, PushCall(j) PROVE TailInv'
  BY <1>1, ItemsAreJobs, StolenFacts DEF PushCall
<1>2. CASE Push
  BY <1>2, ItemsAreJobs, StolenFacts, AppendProperties DEF Push, PushLink, PushBack, PushTail,
     PushCount
<1>3. CASE Pop
  <2>1. CASE PopRead
    <3>1. /\ next' = next /\ prev' = prev /\ tail_node' = tail_node
          /\ pc[Owner] = "pop_read" /\ pc'[Owner] = "pop_unlink"
      BY <2>1 DEF PopRead
    <3>2. /\ Len(items) >= 1 /\ Len(items') = Len(items) - 1
          /\ tail_node = items[Len(items)] /\ job'[Owner] = items[Len(items)]
          /\ Last = items[Len(items)]
          /\ Last' = IF Len(items) = 1 THEN NULL ELSE items[Len(items) - 1]
      <4>1. PICK n \in Nat : n = Len(items) - 1
        BY <2>1, PopReadFacts, ItemsAreJobs
      <4>2. Len(items') = n /\ \A i \in 1..n : items'[i] = items[i]
        BY <4>1, <2>1, PopReadFacts
      <4>3. Last' = IF n = 0 THEN NULL ELSE items[n]
        BY <4>2
      <4> QED BY <4>1, <4>3, <2>1, PopReadFacts
    <3>3. next[items[Len(items)]] = NULL
      BY <3>1, <3>2
    <3>4. Len(items) # 1 => /\ next[items[Len(items) - 1]] = items[Len(items)]
                            /\ prev[items[Len(items)]] = items[Len(items) - 1]
      <4> SUFFICES ASSUME Len(items) # 1, NEW n \in Nat, n = Len(items) - 1
                   PROVE  next[items[n]] = items[n + 1] /\ prev[items[n + 1]] = items[n]
        BY <3>2, ItemsAreJobs
      <4> QED BY <3>2, ItemsAreJobs
    <3>5. ASSUME Len(items) = 1 PROVE prev[items[1]] = NULL
      <4>1. \A t \in Thieves : pc[t] \notin StealBody
        BY <3>1, <3>5 DEF AtRead
      <4> QED BY <3>5, <4>1
    <3> QED BY <3>1, <3>2, <3>3, <3>4, <3>5
  <2>2. CASE PopUnlink
    BY <2>2, ItemsAreJobs, StolenFacts DEF PopUnlink
  <2>3. CASE PopTail
    BY <2>3 DEF PopTail
  <2>4. CASE PopClear
    BY <2>4, ItemsAreJobs, StolenFacts DEF PopClear
  <2>5. CASE \/ PopDec("pop_dec", "pop_check")
             \/ PopCheck
             \/ PopUndo("pop_undo", "pop_lock")
             \/ PopLock
             \/ PopDec("pop_dec2", "pop_check2")
             \/ PopCheck2
             \/ PopUndo("pop_undo2", "pop_null")
             \/ PopUnlock("pop_null", "idle")
             \/ PopUnlock("pop_unlock", "ret")
    BY <2>5 DEF PopDec, PopCheck, PopUndo, PopLock, PopCheck2, PopUnlock
  <2> QED BY <1>3, <2>1, <2>2, <2>3, <2>4, <2>5 DEF Pop
<1>4. ASSUME NEW t \in Thieves, Steal(t) PROVE TailInv'
  <2>1. CASE StealRead(t)
    <3>1. Len(items) >= 2 /\ Last' = Last /\ Len(items') # 0
      BY <2>1, StealReadFacts, ItemsAreJobs
    <3>2. /\ job'[Owner] = job[Owner] /\ pc'[Owner] = pc[Owner]
          /\ next' = next /\ prev' = prev /\ tail_node' = tail_node
      BY <2>1 DEF StealRead
    <3> HIDE DEF Last
    <3> QED BY <3>1, <3>2
  <2>2. CASE StealUnlink(t)
    BY <2>2, ItemsAreJobs, StolenFacts DEF StealUnlink
  <2>3. CASE StealHead(t)
    BY <2>3, ItemsAreJobs, StolenFacts DEF StealHead
  <2>4. CASE StealClear(t)
    BY <2>4 DEF StealClear
  <2>5. CASE \/ StealLock(t)
             \/ StealInc(t)
             \/ StealCheck(t)
             \/ StealUndo(t)
             \/ StealUnlock(t, "steal_null", "idle")
             \/ StealUnlock(t, "steal_unlock", "ret")
    BY <2>5 DEF StealLock, StealInc, StealCheck, StealUndo, StealUnlock
  <2> QED BY <1>4, <2>1, <2>2, <2>3, <2>4, <2>5 DEF Steal
<1>5. CASE PopCall
  BY <1>5 DEF PopCall
<1>6. ASSUME NEW t \in Thieves, StealCall(t) PROVE TailInv'
  BY <1>6 DEF StealCall
<1>7. ASSUME NEW p \in Procs, Return(p) PROVE TailInv'
  BY <1>7 DEF Return
<1> QED
  BY <1>1, <1>2, <1>3, <1>4, <1>5, <1>6, <1>7 DEF Next, OwnerStep, ThiefStep

\* The node a thief is removing.
LEMMA StolenStep ==
  ASSUME IInv, NEW u \in Thieves, Next
  PROVE  StolenNode(u)'
<1> USE DEF TypeOK, Procs, Step, shared, PushPC, LockedPC, PopBody, OwnerPC, ProbePC, StealBody,
   HoldPC, ThiefPC, IInv, ReserveInv, OwnInv, LinkInv, MiddleInv, TailInv, StolenInv,
   StolenNode, FirstInv, HeadNodeInv, Last, LockInv, Queued
<1>1. ASSUME NEW j \in Jobs, PushCall(j) PROVE StolenNode(u)'
  BY <1>1, ItemsAreJobs, StolenFacts DEF PushCall
<1>2. CASE Push
  <2>1. CASE PushLink
    BY <2>1, ItemsAreJobs, StolenFacts DEF PushLink
  <2>2. CASE PushBack
    BY <2>2 DEF PushBack
  <2>3. CASE PushCount
    BY <2>3, AppendProperties, StolenFacts DEF PushCount
  <2>4. CASE PushTail
    BY <2>4 DEF PushTail
  <2> QED BY <1>2, <2>1, <2>2, <2>3, <2>4 DEF Push
<1>3. CASE Pop
  <2>1. CASE PopRead
    <3>1. pc[u] \in StealBody => Len(items) >= 2
      BY <2>1 DEF PopRead, AtRead
    <3>2. /\ pc'[u] = pc[u] /\ job'[u] = job[u]
          /\ next' = next /\ prev' = prev /\ head_node' = head_node
      BY <2>1 DEF PopRead
    <3> QED BY <3>1, <3>2, <2>1, PopReadFacts
  <2>2. CASE PopUnlink
    BY <2>2, ItemsAreJobs, StolenFacts DEF PopUnlink
  <2>3. CASE PopClear
    BY <2>3, ItemsAreJobs, StolenFacts DEF PopClear
  <2>4. CASE \/ PopDec("pop_dec", "pop_check")
             \/ PopCheck
             \/ PopUndo("pop_undo", "pop_lock")
             \/ PopLock
             \/ PopDec("pop_dec2", "pop_check2")
             \/ PopCheck2
             \/ PopUndo("pop_undo2", "pop_null")
             \/ PopUnlock("pop_null", "idle")
             \/ PopTail
             \/ PopUnlock("pop_unlock", "ret")
    BY <2>4 DEF PopDec, PopCheck, PopUndo, PopLock, PopCheck2, PopUnlock, PopTail
  <2> QED BY <1>3, <2>1, <2>2, <2>3, <2>4 DEF Pop
<1>4. ASSUME NEW t \in Thieves, Steal(t) PROVE StolenNode(u)'
  <2>1. CASE StealRead(t)
    <3>1. CASE u = t
      <4>1. /\ pc[t] = "steal_read" /\ pc'[t] = "steal_unlink"
            /\ next' = next /\ prev' = prev /\ head_node' = head_node
        BY <2>1 DEF StealRead
      <4>2. /\ Len(items) >= 2 /\ items'[1] = items[2]
            /\ job'[t] = items[1] /\ head_node = items[1]
        BY <2>1, StealReadFacts, EmptyFacts
      <4>3. next[items[1]] = items[2] /\ prev[items[2]] = items[1]
        BY <4>2, ItemsAreJobs
      <4>4. prev[items[1]] = NULL
        BY <4>1, <4>2, <2>1, StealReadFacts
      <4> QED BY <3>1, <4>1, <4>2, <4>3, <4>4
    <3>2. CASE u # t
      <4>1. pc'[u] \notin HoldPC
        BY <2>1, <3>2, StealReadFacts
      <4> QED BY <4>1
    <3> QED BY <3>1, <3>2
  <2>2. CASE StealUnlink(t)
    BY <2>2, ItemsAreJobs, StolenFacts DEF StealUnlink
  <2>3. CASE StealHead(t)
    BY <2>3, ItemsAreJobs, StolenFacts DEF StealHead
  <2>4. CASE StealClear(t)
    BY <2>4 DEF StealClear
  <2>5. CASE \/ StealLock(t)
             \/ StealInc(t)
             \/ StealCheck(t)
             \/ StealUndo(t)
             \/ StealUnlock(t, "steal_null", "idle")
             \/ StealUnlock(t, "steal_unlock", "ret")
    BY <2>5 DEF StealLock, StealInc, StealCheck, StealUndo, StealUnlock
  <2> QED BY <1>4, <2>1, <2>2, <2>3, <2>4, <2>5 DEF Steal
<1>5. CASE PopCall
  BY <1>5 DEF PopCall
<1>6. ASSUME NEW t \in Thieves, StealCall(t) PROVE StolenNode(u)'
  BY <1>6 DEF StealCall
<1>7. ASSUME NEW p \in Procs, Return(p) PROVE StolenNode(u)'
  BY <1>7 DEF Return
<1> QED
  BY <1>1, <1>2, <1>3, <1>4, <1>5, <1>6, <1>7 DEF Next, OwnerStep, ThiefStep

\* The first item has no predecessor unless a thief is removing it.
LEMMA FirstStep ==
  ASSUME IInv, Next
  PROVE  FirstInv'
<1> USE DEF TypeOK, Procs, Step, shared, PushPC, LockedPC, PopBody, OwnerPC, ProbePC, StealBody,
   HoldPC, ThiefPC, IInv, ReserveInv, OwnInv, LinkInv, MiddleInv, TailInv, StolenInv,
   StolenNode, FirstInv, HeadNodeInv, Last, LockInv, Queued
<1>1. ASSUME NEW j \in Jobs, PushCall(j) PROVE FirstInv'
  BY <1>1, ItemsAreJobs, StolenFacts DEF PushCall
<1>2. CASE Push
  <2>1. CASE PushLink
    BY <2>1, ItemsAreJobs, StolenFacts DEF PushLink
  <2>2. CASE PushBack
    BY <2>2 DEF PushBack
  <2>3. CASE PushCount
    BY <2>3, AppendProperties, StolenFacts DEF PushCount
  <2>4. CASE PushTail
    BY <2>4 DEF PushTail
  <2> QED BY <1>2, <2>1, <2>2, <2>3, <2>4 DEF Push
<1>3. CASE Pop
  BY <1>3, PopReadFacts, EmptyFacts, StolenFacts, ItemsAreJobs DEF Pop, PopDec, PopCheck,
     PopUndo, PopLock, PopCheck2, PopUnlock, PopRead, PopUnlink, PopTail, PopClear
<1>4. ASSUME NEW t \in Thieves, Steal(t) PROVE FirstInv'
  BY <1>4, StealReadFacts, EmptyFacts, StolenFacts, ItemsAreJobs DEF Steal, StealLock, StealInc,
     StealCheck, StealUndo, StealUnlock, StealRead, StealUnlink, StealHead, StealClear
<1>5. CASE PopCall
  BY <1>5 DEF PopCall
<1>6. ASSUME NEW t \in Thieves, StealCall(t) PROVE FirstInv'
  BY <1>6 DEF StealCall
<1>7. ASSUME NEW p \in Procs, Return(p) PROVE FirstInv'
  BY <1>7 DEF Return
<1> QED
  BY <1>1, <1>2, <1>3, <1>4, <1>5, <1>6, <1>7 DEF Next, OwnerStep, ThiefStep

\* head_node.
LEMMA HeadNodeStep ==
  ASSUME IInv, Next
  PROVE  HeadNodeInv'
<1> USE DEF TypeOK, Procs, Step, shared, PushPC, LockedPC, PopBody, OwnerPC, ProbePC, StealBody,
   HoldPC, ThiefPC, IInv, ReserveInv, OwnInv, LinkInv, MiddleInv, TailInv, StolenInv,
   StolenNode, FirstInv, HeadNodeInv, Last, LockInv, Queued
<1>1. ASSUME NEW j \in Jobs, PushCall(j) PROVE HeadNodeInv'
  BY <1>1, ItemsAreJobs, StolenFacts DEF PushCall
<1>2. CASE Push
  <2>1. CASE PushLink
    BY <2>1, ItemsAreJobs, StolenFacts DEF PushLink
  <2>2. CASE PushBack
    BY <2>2 DEF PushBack
  <2>3. CASE PushCount
    BY <2>3, AppendProperties, StolenFacts DEF PushCount
  <2>4. CASE PushTail
    BY <2>4 DEF PushTail
  <2> QED BY <1>2, <2>1, <2>2, <2>3, <2>4 DEF Push
<1>3. CASE Pop
  BY <1>3, PopReadFacts, EmptyFacts, StolenFacts, ItemsAreJobs DEF Pop, PopDec, PopCheck,
     PopUndo, PopLock, PopCheck2, PopUnlock, PopRead, PopUnlink, PopTail, PopClear
<1>4. ASSUME NEW t \in Thieves, Steal(t) PROVE HeadNodeInv'
  BY <1>4, StealReadFacts, EmptyFacts, StolenFacts, ItemsAreJobs DEF Steal, StealLock, StealInc,
     StealCheck, StealUndo, StealUnlock, StealRead, StealUnlink, StealHead, StealClear
<1>5. CASE PopCall
  BY <1>5 DEF PopCall
<1>6. ASSUME NEW t \in Thieves, StealCall(t) PROVE HeadNodeInv'
  BY <1>6 DEF StealCall
<1>7. ASSUME NEW p \in Procs, Return(p) PROVE HeadNodeInv'
  BY <1>7 DEF Return
<1> QED
  BY <1>1, <1>2, <1>3, <1>4, <1>5, <1>6, <1>7 DEF Next, OwnerStep, ThiefStep

-----------------------------------------------------------------------------
(* The list as a whole, from its parts *)

\* A sequence between two others, index by index.
LEMMA BetweenFacts ==
  ASSUME NEW u \in Seq(Jobs), NEW s \in Seq(Jobs), NEW v \in Seq(Jobs)
  PROVE  /\ u \o s \o v \in Seq(Jobs)
         /\ Len(u \o s \o v) = Len(u) + Len(s) + Len(v)
         /\ \A i \in 1..Len(u) : (u \o s \o v)[i] = u[i]
         /\ \A i \in 1..Len(s) : (u \o s \o v)[Len(u) + i] = s[i]
         /\ \A i \in 1..Len(v) : (u \o s \o v)[Len(u) + Len(s) + i] = v[i]
<1> DEFINE us == u \o s
           f == us \o v
<1>1. Len(u) \in Nat /\ Len(s) \in Nat /\ Len(v) \in Nat
  BY LenProperties
<1>2. /\ us \in Seq(Jobs) /\ Len(us) = Len(u) + Len(s)
      /\ \A i \in 1..Len(u) + Len(s) : us[i] = IF i <= Len(u) THEN u[i] ELSE s[i - Len(u)]
  BY ConcatProperties
<1> HIDE DEF us
<1>3. /\ f \in Seq(Jobs) /\ Len(f) = Len(us) + Len(v)
      /\ \A i \in 1..Len(us) + Len(v) : f[i] = IF i <= Len(us) THEN us[i] ELSE v[i - Len(us)]
  BY <1>2, ConcatProperties
<1> HIDE DEF f
<1>4. ASSUME NEW i \in 1..Len(u) PROVE f[i] = u[i]
  BY <1>1, <1>2, <1>3
<1>5. ASSUME NEW i \in 1..Len(s) PROVE f[Len(u) + i] = s[i]
  <2>1. PICK k \in 1..Len(u) + Len(s) : k = Len(u) + i /\ ~(k <= Len(u)) /\ k - Len(u) = i
    BY <1>1
  <2>2. us[k] = s[i] /\ f[k] = us[k]
    BY <1>1, <1>2, <1>3, <2>1
  <2> QED BY <2>1, <2>2
<1>6. ASSUME NEW i \in 1..Len(v) PROVE f[Len(u) + Len(s) + i] = v[i]
  <2>1. Len(us) \in Nat /\ Len(u) + Len(s) + i = Len(us) + i
    BY <1>1, <1>2
  <2>2. PICK k \in 1..Len(us) + Len(v) : k = Len(us) + i /\ ~(k <= Len(us)) /\ k - Len(us) = i
    BY <1>1, <2>1
  <2>3. f[k] = v[i]
    BY <1>3, <2>2
  <2> QED BY <2>1, <2>2, <2>3
<1> QED
  BY <1>1, <1>2, <1>3, <1>4, <1>5, <1>6 DEF f, us

\* A node in flight is at most one job.
LEMMA InFlightFacts ==
  ASSUME NEW p, NEW at, pc[p] \in at => job[p] \in Jobs
  PROVE  /\ InFlight(p, at) \in Seq(Jobs)
         /\ Len(InFlight(p, at)) = IF pc[p] \in at THEN 1 ELSE 0
         /\ pc[p] \in at => InFlight(p, at)[1] = job[p]
BY EmptySeq DEF InFlight

\* The thief's node in flight: it is the only thief in the list.
LEMMA ThiefNodeFacts ==
  ASSUME IInv, NEW at \in SUBSET StealBody
  PROVE  /\ ThiefNode(at) \in Seq(Jobs)
         /\ \/ /\ \E t \in Thieves : pc[t] \in at /\ ThiefNode(at)[1] = job[t]
               /\ Len(ThiefNode(at)) = 1
            \/ /\ \A t \in Thieves : pc[t] \notin at
               /\ Len(ThiefNode(at)) = 0
<1>1. \A t \in Thieves : pc[t] \in at => queue_lock = t /\ job[t] \in Jobs
  BY StolenFacts
<1>2. CASE queue_lock \in Thieves
  <2>1. ThiefNode(at) = InFlight(queue_lock, at)
    BY <1>2 DEF ThiefNode
  <2>2. pc[queue_lock] \in at => job[queue_lock] \in Jobs
    BY <1>1, <1>2
  <2>3. \A t \in Thieves : pc[t] \in at => t = queue_lock
    BY <1>1
  <2> HIDE DEF InFlight, ThiefNode
  <2> QED BY <1>2, <2>1, <2>2, <2>3, InFlightFacts
<1>3. CASE queue_lock \notin Thieves
  BY <1>1, <1>3, EmptySeq DEF ThiefNode
<1> QED
  BY <1>2, <1>3

\* A link that leads from each job to the one after it, piece by piece and from
\* piece to piece, does so along the whole.
Leads(link, u, s, v) ==
  /\ Len(u) = 1 => Len(s) # 0 /\ link[u[1]] = s[1]
  /\ \A k \in 1..Len(s) - 1 : link[s[k]] = s[k + 1]
  /\ Len(s) # 0 => link[s[Len(s)]] = IF Len(v) = 1 THEN v[1] ELSE NULL
  /\ Len(v) = 1 => link[v[1]] = NULL
Chain(link, f) == \A i \in 1..Len(f) : link[f[i]] = IF i = Len(f) THEN NULL ELSE f[i + 1]

\* Pieces that lead on, one after the other, are a chain.
LEMMA ChainFacts ==
  ASSUME NEW u \in Seq(Jobs), NEW s \in Seq(Jobs), NEW v \in Seq(Jobs), NEW link,
         Len(u) \in {0, 1}, Len(v) \in {0, 1}, Leads(link, u, s, v)
  PROVE  Chain(link, u \o s \o v)
<1> DEFINE f == u \o s \o v
           n == Len(s)
<1>0. n \in Nat
  BY LenProperties
<1>1. /\ n \in Nat /\ Len(f) = Len(u) + n + Len(v)
      /\ Len(u) = 1 => f[1] = u[1]
      /\ \A k \in 1..n : f[Len(u) + k] = s[k]
      /\ Len(v) = 1 => f[Len(u) + n + 1] = v[1]
  BY <1>0, BetweenFacts
<1> HIDE DEF f
<1> SUFFICES ASSUME NEW i \in 1..Len(f)
             PROVE  link[f[i]] = IF i = Len(f) THEN NULL ELSE f[i + 1]
  BY DEF f, Chain
<1> HIDE DEF n
<1>2. CASE Len(u) = 1 /\ i = 1
  <2>1. f[1] = u[1] /\ n # 0 /\ link[u[1]] = s[1]
    BY <1>1, <1>2 DEF n, Leads
  <2>2. f[1 + 1] = s[1] /\ 1 # Len(f)
    BY <1>1, <1>2, <2>1
  <2> QED BY <1>2, <2>1, <2>2
<1>3. ASSUME NEW k \in 1..n, i = Len(u) + k
      PROVE  link[f[i]] = IF i = Len(f) THEN NULL ELSE f[i + 1]
  <2>1. f[i] = s[k]
    BY <1>1, <1>3
  <2>2. CASE k < n
    <3>1. k + 1 \in 1..n /\ i + 1 = Len(u) + (k + 1) /\ i # Len(f) /\ k \in 1..n - 1
      BY <1>1, <1>3, <2>2
    <3>2. f[i + 1] = s[k + 1] /\ link[s[k]] = s[k + 1]
      BY <1>1, <3>1 DEF Leads, n
    <3> QED BY <2>1, <3>1, <3>2
  <2>3. CASE k = n
    <3>1. link[s[k]] = IF Len(v) = 1 THEN v[1] ELSE NULL
      BY <2>3 DEF Leads, n
    <3>2. /\ Len(v) = 0 => i = Len(f)
          /\ Len(v) = 1 => i # Len(f) /\ f[i + 1] = v[1]
      BY <1>1, <1>3, <2>3
    <3> QED BY <2>1, <3>1, <3>2
  <2> QED BY <1>1, <2>2, <2>3
<1>4. CASE Len(v) = 1 /\ i = Len(u) + n + 1
  <2>1. f[i] = v[1] /\ i = Len(f)
    BY <1>1, <1>4
  <2> QED BY <1>4, <2>1 DEF Leads
<1>5. i \in Nat /\ 1 <= i /\ i <= Len(u) + n + Len(v) /\ Len(u) \in Nat /\ Len(v) \in Nat
  BY <1>1
<1>6. CASE Len(u) < i /\ i <= Len(u) + n
  <2>1. i - Len(u) \in 1..n /\ i = Len(u) + (i - Len(u))
    BY <1>1, <1>5, <1>6
  <2> QED BY <1>3, <2>1
<1>7. CASE i <= Len(u)
  <2>1. CASE Len(u) = 1
    BY <1>2, <1>5, <1>7, <2>1
  <2>2. CASE Len(u) = 0
    BY <1>5, <1>7, <2>2
  <2> QED BY <2>1, <2>2
<1>8. CASE Len(u) + n < i
  <2>1. CASE Len(v) = 1
    BY <1>1, <1>4, <1>5, <1>8, <2>1
  <2>2. CASE Len(v) = 0
    BY <1>1, <1>5, <1>8, <2>2
  <2> QED BY <2>1, <2>2
<1> QED
  BY <1>1, <1>5, <1>6, <1>7, <1>8

\* The same backwards: each job leads to the one before it.
LeadsBack(link, u, s, v) ==
  /\ Len(u) = 1 => Len(s) # 0 /\ link[u[1]] = NULL
  /\ Len(s) # 0 => link[s[1]] = IF Len(u) = 1 THEN u[1] ELSE NULL
  /\ \A k \in 1..Len(s) - 1 : link[s[k + 1]] = s[k]
  /\ Len(v) = 1 => link[v[1]] = IF Len(s) # 0 THEN s[Len(s)] ELSE NULL
ChainBack(link, f) == \A i \in 1..Len(f) : link[f[i]] = IF i = 1 THEN NULL ELSE f[i - 1]

\* Pieces that lead back are a chain backwards.
LEMMA ChainBackFacts ==
  ASSUME NEW u \in Seq(Jobs), NEW s \in Seq(Jobs), NEW v \in Seq(Jobs), NEW link,
         Len(u) \in {0, 1}, Len(v) \in {0, 1}, LeadsBack(link, u, s, v)
  PROVE  ChainBack(link, u \o s \o v)
<1> DEFINE f == u \o s \o v
           n == Len(s)
<1>0. n \in Nat
  BY LenProperties
<1>1. /\ n \in Nat /\ Len(f) = Len(u) + n + Len(v)
      /\ Len(u) = 1 => f[1] = u[1]
      /\ \A k \in 1..n : f[Len(u) + k] = s[k]
      /\ Len(v) = 1 => f[Len(u) + n + 1] = v[1]
  BY <1>0, BetweenFacts
<1> HIDE DEF f
<1> SUFFICES ASSUME NEW i \in 1..Len(f)
             PROVE  link[f[i]] = IF i = 1 THEN NULL ELSE f[i - 1]
  BY DEF f, ChainBack
<1> HIDE DEF n
<1>2. CASE Len(u) = 1 /\ i = 1
  BY <1>1, <1>2 DEF LeadsBack
<1>3. ASSUME NEW k \in 1..n, i = Len(u) + k
      PROVE  link[f[i]] = IF i = 1 THEN NULL ELSE f[i - 1]
  <2>1. f[i] = s[k]
    BY <1>1, <1>3
  <2>2. CASE k = 1
    <3>1. link[s[k]] = IF Len(u) = 1 THEN u[1] ELSE NULL
      BY <1>1, <2>2 DEF LeadsBack, n
    <3>2. /\ Len(u) = 0 => i = 1
          /\ Len(u) = 1 => i # 1 /\ i - 1 = 1 /\ f[1] = u[1]
      BY <1>1, <1>3, <2>2
    <3> QED BY <2>1, <3>1, <3>2
  <2>3. CASE k > 1
    <3>1. PICK m \in 1..n - 1 : k = m + 1
      BY <1>1, <2>3
    <3>2. i - 1 = Len(u) + m /\ i # 1 /\ m \in 1..n
      BY <1>1, <1>3, <3>1
    <3>3. f[i - 1] = s[m] /\ link[s[m + 1]] = s[m]
      BY <1>1, <3>1, <3>2 DEF LeadsBack, n
    <3> QED BY <2>1, <3>1, <3>2, <3>3
  <2> QED BY <1>1, <2>2, <2>3
<1>4. CASE Len(v) = 1 /\ i = Len(u) + n + 1
  <2>1. f[i] = v[1] /\ link[v[1]] = IF n # 0 THEN s[n] ELSE NULL
    BY <1>1, <1>4 DEF LeadsBack, n
  <2>2. CASE n = 0
    <3>1. Len(u) = 0
      BY <2>2 DEF LeadsBack, n
    <3> QED BY <1>4, <2>1, <2>2, <3>1
  <2>3. CASE n # 0
    <3>1. i - 1 = Len(u) + n /\ i # 1 /\ n \in 1..n
      BY <1>1, <1>4, <2>3
    <3> QED BY <1>1, <2>1, <2>3, <3>1
  <2> QED BY <2>2, <2>3
<1>5. i \in Nat /\ 1 <= i /\ i <= Len(u) + n + Len(v) /\ Len(u) \in Nat /\ Len(v) \in Nat
  BY <1>1
<1>6. CASE Len(u) < i /\ i <= Len(u) + n
  <2>1. i - Len(u) \in 1..n /\ i = Len(u) + (i - Len(u))
    BY <1>1, <1>5, <1>6
  <2> QED BY <1>3, <2>1
<1>7. CASE i <= Len(u)
  <2>1. CASE Len(u) = 1
    BY <1>2, <1>5, <1>7, <2>1
  <2>2. CASE Len(u) = 0
    BY <1>5, <1>7, <2>2
  <2> QED BY <2>1, <2>2
<1>8. CASE Len(u) + n < i
  <2>1. CASE Len(v) = 1
    BY <1>1, <1>4, <1>5, <1>8, <2>1
  <2>2. CASE Len(v) = 0
    BY <1>1, <1>5, <1>8, <2>2
  <2> QED BY <2>1, <2>2
<1> QED
  BY <1>1, <1>5, <1>6, <1>7, <1>8

\* The first and the last element of the three pieces together.
LEMMA EndFacts ==
  ASSUME NEW u \in Seq(Jobs), NEW s \in Seq(Jobs), NEW v \in Seq(Jobs),
         Len(u) \in {0, 1}, Len(v) \in {0, 1}, Len(u) = 1 => Len(s) # 0
  PROVE  /\ u \o s \o v = <<>> <=> Len(u) = 0 /\ Len(s) = 0 /\ Len(v) = 0
         /\ u \o s \o v # <<>> =>
              /\ (u \o s \o v)[1] = IF Len(u) = 1 THEN u[1] ELSE IF Len(s) # 0 THEN s[1] ELSE v[1]
              /\ (u \o s \o v)[Len(u \o s \o v)] = IF Len(v) = 1 THEN v[1] ELSE s[Len(s)]
<1> DEFINE f == u \o s \o v
           n == Len(s)
<1>1. /\ n \in Nat /\ Len(f) = Len(u) + n + Len(v) /\ (f = <<>> <=> Len(f) = 0)
      /\ \A k \in 1..Len(u) : f[k] = u[k]
      /\ \A k \in 1..n : f[Len(u) + k] = s[k]
      /\ \A k \in 1..Len(v) : f[Len(u) + n + k] = v[k]
  BY BetweenFacts, LenProperties, EmptyFacts
<1> HIDE DEF f
<1>2. f = <<>> <=> Len(u) = 0 /\ Len(s) = 0 /\ Len(v) = 0
  BY <1>1
<1>3. ASSUME f # <<>>
      PROVE  /\ f[1] = IF Len(u) = 1 THEN u[1] ELSE IF Len(s) # 0 THEN s[1] ELSE v[1]
             /\ f[Len(f)] = IF Len(v) = 1 THEN v[1] ELSE s[Len(s)]
  <2> HIDE DEF n
  <2>1. f[1] = IF Len(u) = 1 THEN u[1] ELSE IF n # 0 THEN s[1] ELSE v[1]
    BY <1>1, <1>2, <1>3 DEF n
  <2>2. f[Len(f)] = IF Len(v) = 1 THEN v[1] ELSE s[n]
    BY <1>1, <1>2, <1>3 DEF n
  <2> QED BY <2>1, <2>2 DEF n
<1> QED
  BY <1>2, <1>3 DEF f

\* Walking next from head_node, and prev from tail_node, spells the items.
LEMMA Spelling == IInv => LinksSpellItems
<1> SUFFICES ASSUME IInv PROVE LinksSpellItems
  OBVIOUS
<1> DEFINE n == Len(items)
<1>1. /\ items \in Seq(Jobs) /\ n \in Nat /\ \A i \in 1..n : items[i] \in Jobs
      /\ pc[Owner] \in PushPC \cup PopBody => job[Owner] \in Jobs
  BY ItemsAreJobs DEF IInv, TypeOK, OwnInv
<1>2. /\ head_node = IF Forward = <<>> THEN NULL ELSE Forward[1]
      /\ \A i \in 1..Len(Forward) :
           next[Forward[i]] = IF i = Len(Forward) THEN NULL ELSE Forward[i + 1]
  <2> DEFINE out == {"push_back", "push_tail", "push_count", "pop_unlink"}
             in == {"steal_unlink", "steal_head"}
             u == ThiefNode(in)
             v == InFlight(Owner, out)
  <2>1. /\ v \in Seq(Jobs) /\ Len(v) = IF pc[Owner] \in out THEN 1 ELSE 0
        /\ pc[Owner] \in out => v[1] = job[Owner]
    BY <1>1, InFlightFacts DEF PushPC, PopBody
  <2>2. /\ u \in Seq(Jobs)
        /\ \/ /\ \E t \in Thieves : pc[t] \in in /\ u[1] = job[t]
              /\ Len(u) = 1
           \/ /\ \A t \in Thieves : pc[t] \notin in
              /\ Len(u) = 0
    BY ThiefNodeFacts DEF StealBody
  <2> HIDE DEF u, v
  <2>3. Len(u) = 1 => head_node = u[1] /\ n >= 1 /\ next[u[1]] = items[1]
    BY <2>2, StolenFacts DEF IInv, LinkInv, StolenInv, StolenNode, StealBody
  <2>4. Len(u) = 0 => head_node = IF n # 0 THEN items[1] ELSE IF Len(v) = 1 THEN v[1] ELSE NULL
    BY <2>1, <2>2 DEF IInv, LinkInv, HeadNodeInv, TailInv
  <2>5. /\ \A i \in 1..n - 1 : next[items[i]] = items[i + 1]
        /\ n # 0 => next[items[n]] = IF Len(v) = 1 THEN v[1] ELSE NULL
        /\ Len(v) = 1 => next[v[1]] = NULL
    BY <1>1, <2>1 DEF IInv, LinkInv, MiddleInv, TailInv, Last, PushPC
  <2>6. Forward = u \o items \o v /\ Len(u) \in {0, 1} /\ Len(v) \in {0, 1}
    BY <2>1, <2>2 DEF Forward, u, v
  <2>7. head_node = IF Forward = <<>> THEN NULL ELSE Forward[1]
    BY <1>1, <2>1, <2>2, <2>3, <2>4, <2>6, EndFacts
  <2>8. \A i \in 1..Len(Forward) :
          next[Forward[i]] = IF i = Len(Forward) THEN NULL ELSE Forward[i + 1]
    <3>1. Leads(next, u, items, v)
      BY <1>1, <2>3, <2>5 DEF Leads
    <3>2. /\ u \in Seq(Jobs) /\ items \in Seq(Jobs) /\ v \in Seq(Jobs)
          /\ Len(u) \in {0, 1} /\ Len(v) \in {0, 1}
      BY <1>1, <2>1, <2>2, <2>6
    <3>3. Chain(next, u \o items \o v)
      BY <3>1, <3>2, ChainFacts
    <3> QED BY <2>6, <3>3 DEF Chain
  <2> QED BY <2>7, <2>8
<1>3. /\ tail_node = IF Backward = <<>> THEN NULL ELSE Backward[Len(Backward)]
      /\ \A i \in 1..Len(Backward) :
           prev[Backward[i]] = IF i = 1 THEN NULL ELSE Backward[i - 1]
  <2> DEFINE in == {"push_count", "pop_unlink", "pop_tail"}
             u == ThiefNode({"steal_unlink"})
             v == InFlight(Owner, in)
  <2>1. /\ v \in Seq(Jobs) /\ Len(v) = IF pc[Owner] \in in THEN 1 ELSE 0
        /\ pc[Owner] \in in => v[1] = job[Owner]
    BY <1>1, InFlightFacts DEF PushPC, PopBody
  <2>2. /\ u \in Seq(Jobs)
        /\ \/ /\ \E t \in Thieves : pc[t] = "steal_unlink" /\ u[1] = job[t]
              /\ Len(u) = 1
           \/ /\ \A t \in Thieves : pc[t] # "steal_unlink"
              /\ Len(u) = 0
    BY ThiefNodeFacts DEF StealBody
  <2> HIDE DEF u, v
  <2>3. Len(u) = 1 => n >= 1 /\ prev[u[1]] = NULL /\ prev[items[1]] = u[1]
    BY <2>2, StolenFacts DEF IInv, LinkInv, StolenInv, StolenNode, StealBody
  <2>4. n # 0 => prev[items[1]] = IF Len(u) = 1 THEN u[1] ELSE NULL
    BY <2>2, <2>3 DEF IInv, LinkInv, FirstInv
  <2>5. /\ \A i \in 1..n - 1 : prev[items[i + 1]] = items[i]
        /\ tail_node = IF Len(v) = 1 THEN v[1] ELSE IF n # 0 THEN items[n] ELSE NULL
        /\ Len(v) = 1 => prev[v[1]] = IF n # 0 THEN items[n] ELSE NULL
    BY <1>1, <2>1 DEF IInv, LinkInv, MiddleInv, TailInv, Last, PushPC
  <2>6. Backward = u \o items \o v /\ Len(u) \in {0, 1} /\ Len(v) \in {0, 1}
    BY <2>1, <2>2 DEF Backward, u, v
  <2>7. tail_node = IF Backward = <<>> THEN NULL ELSE Backward[Len(Backward)]
    BY <1>1, <2>1, <2>2, <2>3, <2>5, <2>6, EndFacts
  <2>8. \A i \in 1..Len(Backward) :
          prev[Backward[i]] = IF i = 1 THEN NULL ELSE Backward[i - 1]
    <3>1. LeadsBack(prev, u, items, v)
      BY <1>1, <2>3, <2>4, <2>5 DEF LeadsBack
    <3>2. /\ u \in Seq(Jobs) /\ items \in Seq(Jobs) /\ v \in Seq(Jobs)
          /\ Len(u) \in {0, 1} /\ Len(v) \in {0, 1}
      BY <1>1, <2>1, <2>2, <2>6
    <3>3. ChainBack(prev, u \o items \o v)
      BY <3>1, <3>2, ChainBackFacts
    <3> QED BY <2>6, <3>3 DEF ChainBack
  <2> QED BY <2>7, <2>8
<1> QED
  BY <1>2, <1>3 DEF LinksSpellItems
-----------------------------------------------------------------------------
(* The theorems *)

\* Deque_new establishes the inductive invariant.
LEMMA InitHolds == Init => IInv
<1> USE DEF Init, IInv, Procs, OwnerPC, ThiefPC, PushPC, LockedPC, PopBody, HoldPC, ProbePC, StealBody
<1> SUFFICES ASSUME Init PROVE IInv
  OBVIOUS
<1>1. Len(items) = 0 /\ items \in Seq(Jobs)
  BY EmptySeq
<1>2. TypeOK
  BY <1>1 DEF TypeOK
<1>3. LockInv /\ HeadInv /\ ReserveInv /\ PopNullOnlyWhenEmpty
  BY DEF LockInv, HeadInv, ReserveInv, PopNullOnlyWhenEmpty
<1>4. CountInv
  BY <1>1 DEF CountInv, OwnerDec, ThiefInc, Probing
<1>5. OwnInv
  BY <1>1 DEF OwnInv
<1>6. LinkInv
  BY <1>1 DEF LinkInv, MiddleInv, TailInv, StolenInv, StolenNode, FirstInv, HeadNodeInv, Last
<1> QED
  BY <1>2, <1>3, <1>4, <1>5, <1>6

\* Every step of the owner and of a thief preserves it.
LEMMA NextHolds == IInv /\ [Next]_vars => IInv'
<1> SUFFICES ASSUME IInv, [Next]_vars PROVE IInv'
  OBVIOUS
<1>1. CASE Next
  <2>1. LinkInv'
    <3>1. StolenInv'
      BY <1>1, StolenStep DEF StolenInv
    <3> QED BY <1>1, <3>1, MiddleStep, TailStep, FirstStep, HeadNodeStep DEF LinkInv
  <2> QED
    BY <1>1, <2>1, TypeStep, LockStep, CountStep, ReserveStep, HeadStep, PopNullStep, OwnStep DEF IInv
<1>2. CASE UNCHANGED vars
  BY <1>2 DEF vars, shared, IInv, TypeOK, LockInv, CountInv, OwnerDec, ThiefInc, Probing, ReserveInv,
              AtRead, Taking, HeadInv, PopNullOnlyWhenEmpty, OwnInv, LinkInv, MiddleInv, TailInv,
              StolenInv, StolenNode, FirstInv, HeadNodeInv, Last
<1> QED
  BY <1>1, <1>2

\* The inductive invariant holds in every behaviour of the deque.
THEOREM Invariance == Spec => []IInv
  BY InitHolds, NextHolds, PTL DEF Spec

\* Every variable has its type; H in particular, which a thief decrements, never
\* drops below zero.
THEOREM TypeCorrect == Spec => []TypeOK
<1>1. IInv => TypeOK
  BY DEF IInv
<1> QED
  BY <1>1, Invariance, PTL

\* The node that GetNodeFromTail or GetNodeFromHead unlinks, which neither tests
\* (thread.c:291, 319), is a jcb and not NULL.
THEOREM NoNullNode ==
  Spec => [](/\ pc[Owner] \in PopBody => job[Owner] \in Jobs
             /\ \A t \in Thieves : pc[t] \in StealBody => job[t] \in Jobs)
<1>1. IInv => /\ pc[Owner] \in PopBody => job[Owner] \in Jobs
              /\ \A t \in Thieves : pc[t] \in StealBody => job[t] \in Jobs
  BY DEF IInv, OwnInv
<1> QED
  BY <1>1, Invariance, PTL

\* The mutex admits one process, and nobody is where the code holds it without
\* having it.
THEOREM MutexCorrect == Spec => []LockInv
<1>1. IInv => LockInv
  BY DEF IInv
<1> QED
  BY <1>1, Invariance, PTL

\* T - H counts the items, up to the increments and decrements on trial: the
\* numbers that every check of GetNodeFromTail and GetNodeFromHead reads are right.
THEOREM CountersCorrect == Spec => []CountInv
<1>1. IInv => CountInv
  BY DEF IInv
<1> QED
  BY <1>1, Invariance, PTL

\* Whoever has passed its check, with or without the mutex, has its item
\* reserved, with another one between the owner's and a thief's.
THEOREM ItemsReserved == Spec => []ReserveInv
<1>1. IInv => ReserveInv
  BY DEF IInv
<1> QED
  BY <1>1, Invariance, PTL

\* The owner unlinking the tail and a thief unlinking the head never work on
\* neighbours, although the owner may not hold the mutex.
THEOREM EndsApart == Spec => []NeverAdjacent
<1>1. IInv => NeverAdjacent
  <2> SUFFICES ASSUME IInv, NEW t \in Thieves, pc[Owner] \in PopBody, pc[t] \in StealBody
               PROVE  items # <<>>
    BY DEF NeverAdjacent
  <2>1. Len(items) >= 1
    BY StolenFacts
  <2> QED BY <2>1, EmptyFacts DEF IInv, TypeOK
<1> QED
  BY <1>1, Invariance, PTL

\* GetNodeFromTail returns NULL only when the deque is empty.
THEOREM OwnerMissesNothing == Spec => []PopNullOnlyWhenEmpty
<1>1. IInv => PopNullOnlyWhenEmpty
  BY DEF IInv
<1> QED
  BY <1>1, Invariance, PTL

\* The links are a doubly linked list of exactly the items, at every moment of
\* an unlocked push, a lock-free pop and a locked steal.
THEOREM ListIntact == Spec => []LinksSpellItems
  BY Spelling, Invariance, PTL

-----------------------------------------------------------------------------
(* The deque, with its mutex, counters and links, implements the atomic    *)
(* sequence of DequeSpec: one step of each call is the step of the         *)
(* sequence, and all others leave the sequence as it is.                   *)

\* The mapped variables, by name.
Prober == IF Probing THEN queue_lock ELSE NULL
Got == [p \in Procs |-> IF pc[p] \in TookPC THEN job[p] ELSE NULL]

-----------------------------------------------------------------------------
(* What a step shows of itself in the mapped variables. *)

\* A step of p that leaves p's job in place, or moves p among points where it
\* does not count, leaves got alone.
LEMMA GotKeeps ==
  ASSUME TypeOK, NEW p \in Procs, NEW to, pc' = [pc EXCEPT ![p] = to],
         \A q \in Procs \ {p} : job'[q] = job[q],
         \/ (pc[p] \in TookPC <=> to \in TookPC) /\ job'[p] = job[p]
         \/ pc[p] \notin TookPC /\ to \notin TookPC
  PROVE  Got' = Got
<1>1. ASSUME NEW q \in Procs
      PROVE  (IF pc'[q] \in TookPC THEN job'[q] ELSE NULL) = (IF pc[q] \in TookPC THEN job[q] ELSE NULL)
  <2>1. CASE q = p
    BY <2>1 DEF TypeOK
  <2>2. CASE q # p
    BY <2>2 DEF TypeOK
  <2> QED BY <2>1, <2>2
<1> QED
  BY <1>1 DEF Got

\* The owner never changes who is probing.
LEMMA OwnerKeepsProber ==
  ASSUME IInv, (\E j \in Jobs : PushCall(j)) \/ PopCall \/ Push \/ Pop
  PROVE  Prober' = Prober
<1> USE DEF Step, shared
<1> TypeOK /\ LockInv
  BY DEF IInv
<1>1. \A t \in Thieves : pc'[t] = pc[t]
  <2>1. CASE (\E j \in Jobs : PushCall(j)) \/ PopCall \/ Push
    BY <2>1 DEF TypeOK, Procs, PushCall, PopCall, Push, PushLink, PushBack, PushTail, PushCount
  <2>2. CASE Pop
    BY <2>2 DEF TypeOK, Procs, Pop, PopDec, PopCheck, PopUndo, PopLock, PopCheck2, PopUnlock, PopRead,
                PopUnlink, PopTail, PopClear
  <2> QED BY <2>1, <2>2
<1>2. queue_lock' = queue_lock \/ (queue_lock \notin Thieves /\ queue_lock' \notin Thieves)
  <2>1. CASE (\E j \in Jobs : PushCall(j)) \/ PopCall \/ Push
    BY <2>1 DEF PushCall, PopCall, Push, PushLink, PushBack, PushTail, PushCount
  <2>2. CASE Pop
    <3>1. pc[Owner] \in LockedPC => queue_lock = Owner
      BY DEF LockInv
    <3> QED BY <2>2, <3>1 DEF Pop, PopDec, PopCheck, PopUndo, PopLock, PopCheck2, PopUnlock, PopRead,
                PopUnlink, PopTail, PopClear, LockedPC
  <2> QED BY <2>1, <2>2
<1> QED
  BY <1>1, <1>2 DEF Prober, Probing

-----------------------------------------------------------------------------
(* The steps that are steps of the sequence. *)

\* The increment of T queues the job.
LEMMA PushCountIsPush ==
  ASSUME IInv, PushCount
  PROVE  Atomic!Push(job[Owner])
<1> USE DEF PushCount, Step
<1>1. pc[Owner] = "push_count" /\ Owner \in Procs /\ job[Owner] \in Jobs /\ job[Owner] # NULL
  BY DEF IInv, OwnInv, PushPC, Procs
<1>2. Prober' = Prober
  BY OwnerKeepsProber DEF Push
<1>3. Got' = Got
  <2>1. "push_count" \notin TookPC /\ "idle" \notin TookPC
    BY DEF TookPC, PopBody, StealBody
  <2>2. \A q \in Procs \ {Owner} : job'[q] = job[q]
    BY DEF IInv, TypeOK
  <2> QED BY <1>1, <2>1, <2>2, GotKeeps DEF IInv
<1>4. job[Owner] \notin Queued
  BY <1>1 DEF IInv, OwnInv, Queued
<1>5. ASSUME NEW p \in Procs PROVE Got[p] # job[Owner]
  <2>1. CASE p = Owner
    BY <1>1, <2>1 DEF Got, TookPC, PopBody, StealBody
  <2>2. CASE p # Owner
    BY <1>1, <2>2 DEF Got, IInv, OwnInv
  <2> QED BY <2>1, <2>2
<1>6. items' = Append(items, job[Owner])
  OBVIOUS
<1> QED
  BY <1>1, <1>2, <1>3, <1>4, <1>5, <1>6 DEF Atomic!Push, Atomic!Queued, Atomic!Procs, Procs, Queued, Got, Prober

\* The owner's read of the tail node takes the newest item; the last one only
\* under the mutex, that is, when no thief is probing.
LEMMA PopReadIsPop ==
  ASSUME IInv, PopRead
  PROVE  Atomic!Pop
<1> USE DEF PopRead, Step
<1>1. pc[Owner] = "pop_read" /\ Owner \in Procs /\ Len(items) \in Nat
  BY ItemsAreJobs DEF IInv, Procs
<1>2. Prober' = Prober
  BY OwnerKeepsProber DEF Pop
<1>3. Got[Owner] = NULL
  BY <1>1 DEF Got, TookPC, PopBody, StealBody
<1>4. Len(items) >= 2 \/ (Len(items) = 1 /\ Prober = NULL)
  <2>1. CASE queue_lock = Owner
    <3>1. Len(items) >= 1
      BY <1>1, <2>1 DEF IInv, ReserveInv
    <3>2. Prober = NULL
      BY <2>1 DEF Prober, Probing
    <3>3. \A n \in Nat : n >= 1 => n = 1 \/ n >= 2
      OBVIOUS
    <3> QED BY <1>1, <3>1, <3>2, <3>3
  <2>2. CASE queue_lock # Owner
    BY <1>1, <2>2 DEF IInv, ReserveInv, Taking
  <2> QED BY <2>1, <2>2
<1>5. Got' = [Got EXCEPT ![Owner] = items[Len(items)]]
  <2>1. job' = [job EXCEPT ![Owner] = items[Len(items)]] /\ pc' = [pc EXCEPT ![Owner] = "pop_unlink"]
    BY PopReadFacts
  <2>2. "pop_unlink" \in TookPC
    BY DEF TookPC, PopBody
  <2> QED BY <1>1, <2>1, <2>2 DEF Got, IInv, TypeOK
<1> QED
  BY <1>2, <1>3, <1>4, <1>5 DEF Atomic!Pop, Atomic!Procs, Procs, Got, Prober

\* A thief's increment of H opens its probe, ...
LEMMA StealIncIsProbe ==
  ASSUME IInv, NEW t \in Thieves, StealInc(t)
  PROVE  Atomic!Probe(t)
<1> USE DEF StealInc, Step
<1> t \in Procs /\ pc[t] = "steal_inc"
  BY DEF Procs
<1>1. Prober = NULL /\ Prober' = t
  <2>1. queue_lock = t /\ queue_lock' = t /\ pc'[t] = "steal_check"
    BY DEF IInv, TypeOK, LockInv, HoldPC
  <2> QED BY <2>1 DEF Prober, Probing, ProbePC
<1>2. Got' = Got
  BY GotKeeps DEF IInv, TookPC, PopBody, StealBody
<1>3. Got[t] = NULL
  BY DEF Got, TookPC, PopBody, StealBody
<1> QED
  BY <1>1, <1>2, <1>3 DEF Atomic!Probe, Atomic!Procs, Procs, Got, Prober

\* ... its read of the head node closes it with the oldest item, ...
LEMMA StealReadIsSteal ==
  ASSUME IInv, NEW t \in Thieves, StealRead(t)
  PROVE  Atomic!Steal(t)
<1> t \in Procs /\ pc[t] = "steal_read" /\ pc' = [pc EXCEPT ![t] = "steal_unlink"]
  BY DEF Procs, StealRead, Step
<1>1. /\ Len(items) >= 2 /\ items' = Tail(items)
      /\ job' = [job EXCEPT ![t] = items[1]]
      /\ queue_lock = t /\ queue_lock' = t
  BY StealReadFacts DEF StealRead, shared
<1>2. Prober = t
  BY <1>1 DEF Prober, Probing, ProbePC
<1>3. Prober' = NULL
  <2>1. pc'[t] = "steal_unlink"
    BY DEF IInv, TypeOK
  <2> QED BY <1>1, <2>1 DEF Prober, Probing, ProbePC
<1>4. Head(items) = items[1]
  OBVIOUS
<1>5. Got' = [Got EXCEPT ![t] = Head(items)]
  <2>1. "steal_unlink" \in TookPC
    BY DEF TookPC, StealBody
  <2> QED BY <1>1, <1>4, <2>1 DEF Got, IInv, TypeOK
<1> QED
  BY <1>1, <1>2, <1>3, <1>5 DEF Atomic!Steal, Atomic!Procs, Procs, Got, Prober

\* ... and its decrement of H without one.
LEMMA StealUndoIsMiss ==
  ASSUME IInv, NEW t \in Thieves, StealUndo(t)
  PROVE  Atomic!Miss(t)
<1> USE DEF StealUndo, Step
<1> t \in Procs /\ pc[t] = "steal_undo" /\ pc'[t] = "steal_null"
  BY DEF Procs, IInv, TypeOK
<1>1. queue_lock = t /\ queue_lock' = t
  BY DEF IInv, LockInv, HoldPC, ProbePC
<1>2. Prober = t /\ Prober' = NULL
  BY <1>1 DEF Prober, Probing, ProbePC
<1>3. Got' = Got
  BY GotKeeps DEF IInv, TookPC, PopBody, StealBody
<1> QED
  BY <1>2, <1>3 DEF Atomic!Miss, Atomic!Procs, Procs, Got, Prober

\* The end of a call hands its job over, if it has one.
LEMMA ReturnIsReturn ==
  ASSUME IInv, NEW p \in Procs, Return(p)
  PROVE  [Atomic!Next]_(Atomic!vars)
<1> USE DEF Return, Step, shared
<1> pc[p] = "ret" /\ pc' = [pc EXCEPT ![p] = "idle"] /\ "ret" \in TookPC /\ "idle" \notin TookPC
  BY DEF TookPC, PopBody, StealBody
<1>1. Prober' = Prober
  BY DEF IInv, TypeOK, Prober, Probing, ProbePC, Procs
<1>2. Got' = [Got EXCEPT ![p] = NULL]
  BY DEF Got, IInv, TypeOK
<1>3. CASE Got[p] # NULL
  BY <1>1, <1>2, <1>3 DEF Atomic!Next, Atomic!Return, Atomic!Procs, Procs, Got, Prober
<1>4. CASE Got[p] = NULL
  <2>1. Got' = Got
    BY <1>2, <1>4 DEF Got
  <2> QED BY <1>1, <2>1 DEF Atomic!vars, Procs, Got, Prober
<1> QED
  BY <1>3, <1>4

-----------------------------------------------------------------------------
(* All other steps leave the sequence as it is. *)

\* The owner's.
LEMMA OwnerStutters ==
  ASSUME IInv, (\E j \in Jobs : PushCall(j)) \/ PopCall \/ (Push /\ ~PushCount) \/ (Pop /\ ~PopRead)
  PROVE  Got' = Got /\ Prober' = Prober /\ items' = items
<1> USE DEF Step, shared
<1> TypeOK /\ Owner \in Procs
  BY DEF IInv, Procs
<1>1. Prober' = Prober
  BY OwnerKeepsProber
<1>2. CASE (\E j \in Jobs : PushCall(j)) \/ PopCall \/ (Push /\ ~PushCount)
  <2>1. /\ items' = items
        /\ \E to \in PushPC \cup {"pop_dec"} : pc' = [pc EXCEPT ![Owner] = to]
        /\ \A q \in Procs \ {Owner} : job'[q] = job[q]
        /\ pc[Owner] \in PushPC \cup {"idle"}
    BY <1>2 DEF PushPC, TypeOK, PushCall, PopCall, Push, PushLink, PushBack, PushTail
  <2>2. \A to \in PushPC \cup {"pop_dec", "idle"} : to \notin TookPC
    BY DEF PushPC, TookPC, PopBody, StealBody
  <2>3. Got' = Got
    BY <2>1, <2>2, GotKeeps
  <2> QED BY <1>1, <2>1, <2>3
<1>3. CASE Pop /\ ~PopRead
  <2>1. items' = items /\ job' = job
    BY <1>3 DEF Pop, PopDec, PopCheck, PopUndo, PopLock, PopCheck2, PopUnlock, PopUnlink, PopTail, PopClear
  <2>2. \E to \in OwnerPC : pc' = [pc EXCEPT ![Owner] = to] /\ (pc[Owner] \in TookPC <=> to \in TookPC)
    BY <1>3 DEF OwnerPC, PushPC, LockedPC, PopBody, TookPC, StealBody, Pop, PopDec, PopCheck, PopUndo,
       PopLock, PopCheck2, PopUnlock, PopUnlink, PopTail, PopClear
  <2>3. Got' = Got
    BY <2>1, <2>2, GotKeeps
  <2> QED BY <1>1, <2>1, <2>3
<1> QED
  BY <1>2, <1>3

\* The thieves'.
LEMMA ThiefStutters ==
  ASSUME IInv, NEW t \in Thieves, StealCall(t) \/ Steal(t),
         ~StealInc(t), ~StealRead(t), ~StealUndo(t)
  PROVE  Got' = Got /\ Prober' = Prober /\ items' = items
<1> USE DEF Step, shared
<1> TypeOK /\ LockInv /\ t \in Procs
  BY DEF IInv, Procs
<1>1. items' = items /\ job' = job
  BY DEF StealCall, Steal, StealLock, StealCheck, StealUnlock, StealUnlink, StealHead, StealClear
<1>2. Got' = Got
  <2>1. \E to \in ThiefPC : pc' = [pc EXCEPT ![t] = to] /\ (pc[t] \in TookPC <=> to \in TookPC)
    BY DEF ThiefPC, HoldPC, ProbePC, PopBody, TookPC, StealBody, StealCall, Steal, StealLock, StealCheck,
       StealUnlock, StealUnlink, StealHead, StealClear
  <2> QED BY <1>1, <2>1, GotKeeps
<1>3. Prober' = Prober
  <2>1. \A u \in Thieves \ {t} : pc'[u] = pc[u]
    BY DEF TypeOK, Procs, StealCall, Steal, StealLock, StealCheck, StealUnlock, StealUnlink, StealHead,
       StealClear
  <2>2. \/ queue_lock' = queue_lock
        \/ pc[t] \notin ProbePC /\ pc'[t] \notin ProbePC
             /\ queue_lock \in {t, NULL} /\ queue_lock' \in {t, NULL}
    BY DEF TypeOK, LockInv, HoldPC, ProbePC, StealCall, Steal, StealLock, StealCheck, StealUnlock,
       StealUnlink, StealHead, StealClear
  <2>3. pc[t] \in ProbePC <=> pc'[t] \in ProbePC
    BY DEF TypeOK, HoldPC, ProbePC, StealBody, StealCall, Steal, StealLock, StealCheck, StealUnlock,
       StealUnlink, StealHead, StealClear
  <2> QED BY <2>1, <2>2, <2>3 DEF Prober, Probing
<1> QED
  BY <1>1, <1>2, <1>3

-----------------------------------------------------------------------------
\* The empty deque is the empty sequence, with nobody in a call.
LEMMA InitMaps == Init => Atomic!Init
<1> SUFFICES ASSUME Init PROVE Atomic!Init
  OBVIOUS
<1>1. Prober = NULL
  BY DEF Init, Prober, Probing
<1>2. Got = [p \in Procs |-> NULL]
  BY DEF Init, Got, TookPC, PopBody, StealBody
<1> QED
  BY <1>1, <1>2 DEF Init, Atomic!Init, Atomic!Procs, Procs, Prober, Got

\* Every step of the deque is a step of the sequence or leaves it alone.
LEMMA StepMaps == IInv /\ [Next]_vars => [Atomic!Next]_(Atomic!vars)
<1> SUFFICES ASSUME IInv, [Next]_vars PROVE [Atomic!Next]_(Atomic!vars)
  OBVIOUS
<1>1. CASE Got' = Got /\ Prober' = Prober /\ items' = items
  BY <1>1 DEF Atomic!vars, Procs, Got, Prober
<1>2. CASE PushCount
  <2>1. job[Owner] \in Jobs
    BY <1>2 DEF IInv, OwnInv, PushCount, Step, PushPC
  <2> QED BY <1>2, <2>1, PushCountIsPush DEF Atomic!Next
<1>3. CASE PopRead
  BY <1>3, PopReadIsPop DEF Atomic!Next
<1>4. ASSUME NEW t \in Thieves, StealInc(t) \/ StealRead(t) \/ StealUndo(t)
      PROVE  [Atomic!Next]_(Atomic!vars)
  BY <1>4, StealIncIsProbe, StealReadIsSteal, StealUndoIsMiss DEF Atomic!Next
<1>5. ASSUME NEW p \in Procs, Return(p) PROVE [Atomic!Next]_(Atomic!vars)
  BY <1>5, ReturnIsReturn
<1>6. CASE UNCHANGED vars
  BY <1>6, <1>1 DEF vars, shared, Got, Prober, Probing
<1>7. CASE Next
  BY <1>1, <1>2, <1>3, <1>4, <1>5, <1>7, OwnerStutters, ThiefStutters
     DEF Next, OwnerStep, ThiefStep, Procs
<1> QED
  BY <1>6, <1>7

\* The deque of thread.c, one access to memory at a time, behaves as a sequence
\* on which each push, pop and steal is one step, where the owner sees one job
\* fewer while a thief is probing and no thief takes the last job.
THEOREM DequeRefinesSpec == Spec => ImplementsDequeSpec
  BY InitMaps, StepMaps, Invariance, PTL DEF Spec, ImplementsDequeSpec, Atomic!Spec
=============================================================================
