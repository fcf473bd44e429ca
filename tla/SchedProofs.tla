---------------------------- MODULE SchedProofs ----------------------------
(***************************************************************************)
(* Proofs about Sched for every set of workers and every MaxSpawns: what   *)
(* the scheduler does with jobs and stacks is right whatever the order of  *)
(* the workers' steps, and it keeps both of its contracts: to a program it *)
(* is the fork and join of ForkJoin, and it uses each deque only as        *)
(* DequeSpec, which Deque implements, allows.                              *)
(***************************************************************************)
EXTENDS Sched, TLAPS, SequenceTheorems, FiniteSetTheorems

-----------------------------------------------------------------------------
(* The inductive invariant *)

\* Where each control point finds the worker's own state.  In do_pick_work there
\* is no next job, and a current one only when __gregor_sync made the call; at
\* the end of do_cleanup the job has synced for the last time.
LookingPC == {"pick", "pop", "steal", "lock", "probe"}
OnJobPC   == JobPC \cup {"leave", "check", "back"}

Control(w) ==
  /\ pc[w] # "panic"
  /\ pc[w] = "boot" => w = Worker0
  /\ pc[w] \in {"start", "boot"} => cur[w] = NULL /\ next_job[w] = NULL /\ sp[w] = NULL
  /\ pc[w] \in LookingPC => next_job[w] = NULL /\ sp[w] = cur[w]
  /\ pc[w] \in LookingPC \cup {"sync"} /\ cur[w] # NULL => resume[cur[w]] \in {"sync", "cleanup"}
  /\ pc[w] \in {"resched", "reset"} => next_job[w] # NULL
  /\ pc[w] = "resched" => sp[w] = cur[w]
  /\ pc[w] = "reset" => sp[w] = next_job[w]
  /\ pc[w] \in OnJobPC => cur[w] # NULL /\ next_job[w] = NULL /\ sp[w] = cur[w]
  /\ pc[w] = "free" => cur[w] # NULL /\ next_job[w] = NULL /\ sp[w] = NULL
  /\ pc[w] \in {"leave"} \cup TailPC => resume[cur[w]] = "cleanup"
  /\ pc[w] = "check" => parent[cur[w]] # NULL

ControlInv == \A w \in Workers : Control(w)

\* Thieves: the victims still to try, and the one a thief is at.
ThiefInv ==
  \A w \in Workers :
    /\ w \notin unvisited[w]
    /\ pc[w] \in {"lock", "probe"} => victim[w] \in Workers \ {w}
    /\ \A v \in Workers : prober[v] = w <=> pc[w] = "probe" /\ victim[w] = v

\* Before worker 0 has queued the main job there is nothing.
BootInv ==
  pc[Worker0] \in {"start", "boot"} => mapped = 0 /\ sem = 0 /\ master = "waiting"

\* The free lists: mapped segments, each in one slot of one list.
Distinct(q) == \A i, k \in 1..Len(q) : i # k => q[i] # q[k]

FreeInv ==
  /\ \A w \in Workers : Distinct(mm[w]) /\ \A s \in InSeq(mm[w]) : s <= mapped
  /\ \A w, v \in Workers : w # v => InSeq(mm[w]) \cap InSeq(mm[v]) = {}

\* The other segments that are mapped: each held by one worker, in one way.
Kinds == {"deque", "cur", "next_job"}
Holds(w, k, s) == \/ k = "deque" /\ s \in InSeq(deque[w])
                  \/ k = "cur" /\ cur[w] = s
                  \/ k = "next_job" /\ next_job[w] = s

HeldOnce(s) ==
  /\ s \in Live <=> \E w \in Workers, k \in Kinds : Holds(w, k, s)
  /\ \A w, v \in Workers, k, l \in Kinds : Holds(w, k, s) /\ Holds(v, l, s) => w = v /\ k = l

HeldInv ==
  /\ \A w \in Workers : Distinct(deque[w])
  /\ \A s \in Segs : HeldOnce(s)

PlaceInv == FreeInv /\ HeldInv

\* The jobs that have not counted themselves off are a tree: the parent of one
\* is another, there is no cycle, and at most one has no parent, the main job,
\* as long as the master has not been woken.
Unfinished == {s \in Live : ~CountedOff(s)}

TreeInv ==
  /\ \A s \in Unfinished : parent[s] \in Unfinished \cup {NULL}
  /\ \A X \in SUBSET Unfinished : X # {} => \E s \in X : parent[s] \notin X
  /\ \A s, r \in Unfinished : parent[s] = NULL /\ parent[r] = NULL => s = r
  /\ \A s \in Unfinished : parent[s] = NULL => sem = 0 /\ master = "waiting"

\* The counters: of every segment, freed ones included, because CheckCounter
\* may read the counter of a parent that is gone.
Children(b) == {s \in Unfinished : parent[s] = b}

CountInv ==
  /\ \A b \in Segs : join_counter[b] = Cardinality(Children(b))
  /\ \A w \in Workers : pc[w] = "leave" => Children(cur[w]) = {}

\* A result that is not stored yet is owed by a child that has not returned.
ResultInv ==
  \A b \in Segs : \A s \in awaited[b] :
    s \in Unfinished /\ parent[s] = b /\ resume[s] # "cleanup"

IInv == /\ TypeOK /\ ControlInv /\ ThiefInv /\ PopFindsWork /\ BootInv
        /\ PlaceInv /\ TreeInv /\ CountInv /\ ResultInv

USE SchedAssumption

-----------------------------------------------------------------------------
(* What the sequence operations of the model do to the set of elements and *)
(* to Distinct.                                                            *)

\* The elements of a sequence are what its indices show.
LEMMA ElementFacts ==
  ASSUME NEW q \in Seq(Segs)
  PROVE  /\ Len(q) \in Nat
         /\ q = <<>> <=> Len(q) = 0
         /\ \A i \in 1..Len(q) : q[i] \in Segs
         /\ \A s : s \in InSeq(q) <=> \E i \in 1..Len(q) : q[i] = s
BY LenProperties, ElementOfSeq, EmptySeq DEF InSeq

\* A job pushed at the tail of a deque is one element more.
LEMMA AppendFacts ==
  ASSUME NEW q \in Seq(Segs), NEW s \in Segs
  PROVE  /\ Append(q, s) \in Seq(Segs)
         /\ InSeq(Append(q, s)) = InSeq(q) \cup {s}
         /\ Distinct(q) /\ s \notin InSeq(q) => Distinct(Append(q, s))
<1> DEFINE a == Append(q, s)
<1>1. /\ a \in Seq(Segs) /\ Len(a) = Len(q) + 1
      /\ \A i \in 1..Len(q) : a[i] = q[i]
      /\ a[Len(q) + 1] = s
  BY AppendProperties
<1> HIDE DEF a
<1>2. /\ \A r : r \in InSeq(a) <=> \E i \in 1..Len(a) : a[i] = r
      /\ \A r : r \in InSeq(q) <=> \E i \in 1..Len(q) : q[i] = r
      /\ Len(q) \in Nat
  BY <1>1, ElementFacts
<1>3. ASSUME NEW r PROVE r \in InSeq(a) <=> r \in InSeq(q) \cup {s}
  BY <1>1, <1>2
<1>4. Distinct(q) /\ s \notin InSeq(q) => Distinct(a)
  BY <1>1, <1>2 DEF Distinct
<1> QED
  BY <1>1, <1>3, <1>4 DEF a

\* Popping at the tail takes exactly the last element out.
LEMMA FrontFacts ==
  ASSUME NEW q \in Seq(Segs), Len(q) >= 1
  PROVE  /\ q[Len(q)] \in InSeq(q) /\ q[Len(q)] \in Segs
         /\ SubSeq(q, 1, Len(q) - 1) \in Seq(Segs)
         /\ Distinct(q) => /\ Distinct(SubSeq(q, 1, Len(q) - 1))
                           /\ InSeq(SubSeq(q, 1, Len(q) - 1)) = InSeq(q) \ {q[Len(q)]}
<1> DEFINE n == Len(q) - 1
           f == SubSeq(q, 1, n)
<1>1. /\ Len(q) \in Nat /\ n \in Nat /\ 1 \in Int /\ n \in Int
      /\ \A i \in 1..Len(q) : q[i] \in Segs
      /\ \A i \in 1..n : q[i] \in Segs
      /\ \A s : s \in InSeq(q) <=> \E i \in 1..Len(q) : q[i] = s
  BY ElementFacts
<1>2. /\ f \in Seq(Segs)
      /\ Len(f) = IF 1 <= n THEN n - 1 + 1 ELSE 0
      /\ \A i \in 1..n - 1 + 1 : f[i] = q[1 + i - 1]
  <2> HIDE DEF n
  <2> QED BY <1>1, SubSeqProperties
<1> HIDE DEF f
<1>3. Len(f) = Len(q) - 1 /\ \A i \in 1..Len(q) - 1 : f[i] = q[i]
  <2> HIDE DEF n
  <2>1. Len(f) = n
    BY <1>1, <1>2
  <2>2. ASSUME NEW i \in 1..n PROVE f[i] = q[i]
    <3>1. i \in 1..n - 1 + 1 /\ 1 + i - 1 = i
      BY <1>1
    <3> QED BY <1>2, <3>1
  <2> QED BY <2>1, <2>2 DEF n
<1>4. \A s : s \in InSeq(f) <=> \E i \in 1..Len(f) : f[i] = s
  BY <1>2, ElementFacts
<1>5. ASSUME Distinct(q) PROVE Distinct(f)
  BY <1>1, <1>3, <1>5 DEF Distinct
<1>6. ASSUME Distinct(q), NEW s PROVE s \in InSeq(f) <=> s \in InSeq(q) \ {q[Len(q)]}
  <2>1. ASSUME s \in InSeq(f) PROVE s \in InSeq(q) \ {q[Len(q)]}
    <3>1. PICK i \in 1..Len(q) - 1 : f[i] = s /\ q[i] = s
      BY <1>3, <1>4, <2>1
    <3>2. i \in 1..Len(q) /\ Len(q) \in 1..Len(q) /\ i # Len(q)
      BY <1>1, <3>1
    <3> QED BY <1>1, <1>6, <3>1, <3>2 DEF Distinct
  <2>2. ASSUME s \in InSeq(q) \ {q[Len(q)]} PROVE s \in InSeq(f)
    <3>1. PICK i \in 1..Len(q) : q[i] = s
      BY <1>1, <2>2
    <3>2. i \in 1..Len(q) - 1
      BY <1>1, <2>2, <3>1
    <3> QED BY <1>3, <1>4, <3>1, <3>2
  <2> QED BY <2>1, <2>2
<1>7. q[Len(q)] \in InSeq(q) /\ q[Len(q)] \in Segs
  BY <1>1
<1> QED
  BY <1>2, <1>5, <1>6, <1>7 DEF f, n

\* Taking the head of a deque or of a free list takes exactly the first element out.
LEMMA TailFacts ==
  ASSUME NEW q \in Seq(Segs), q # <<>>
  PROVE  /\ Head(q) \in InSeq(q) /\ Head(q) \in Segs
         /\ Tail(q) \in Seq(Segs)
         /\ Len(Tail(q)) = Len(q) - 1
         /\ Distinct(q) => /\ Distinct(Tail(q))
                           /\ InSeq(Tail(q)) = InSeq(q) \ {Head(q)}
<1>1. /\ Head(q) \in Segs /\ Tail(q) \in Seq(Segs)
      /\ Len(Tail(q)) = Len(q) - 1
      /\ \A i \in 1..Len(Tail(q)) : Tail(q)[i] = q[i + 1]
  BY HeadTailProperties
<1>2. /\ Len(q) \in Nat /\ Len(q) >= 1 /\ Head(q) = q[1]
      /\ \A s : s \in InSeq(q) <=> \E i \in 1..Len(q) : q[i] = s
  BY ElementFacts
<1>3. \A s : s \in InSeq(Tail(q)) <=> \E i \in 1..Len(Tail(q)) : Tail(q)[i] = s
  BY <1>1, ElementFacts
<1>4. ASSUME Distinct(q) PROVE Distinct(Tail(q))
  <2> SUFFICES ASSUME NEW i \in 1..Len(Tail(q)), NEW k \in 1..Len(Tail(q)), i # k
               PROVE  Tail(q)[i] # Tail(q)[k]
    BY DEF Distinct
  <2>1. i + 1 \in 1..Len(q) /\ k + 1 \in 1..Len(q) /\ i + 1 # k + 1
    BY <1>1, <1>2
  <2> QED BY <1>1, <1>4, <2>1 DEF Distinct
<1>5. ASSUME Distinct(q), NEW s PROVE s \in InSeq(Tail(q)) <=> s \in InSeq(q) \ {Head(q)}
  <2>1. ASSUME s \in InSeq(Tail(q)) PROVE s \in InSeq(q) \ {Head(q)}
    <3>1. PICK i \in 1..Len(Tail(q)) : q[i + 1] = s
      BY <1>1, <1>3, <2>1
    <3>2. i + 1 \in 1..Len(q) /\ 1 \in 1..Len(q) /\ i + 1 # 1
      BY <1>1, <1>2, <3>1
    <3> QED BY <1>2, <1>5, <3>1, <3>2 DEF Distinct
  <2>2. ASSUME s \in InSeq(q) \ {Head(q)} PROVE s \in InSeq(Tail(q))
    <3>1. PICK i \in 1..Len(q) : q[i] = s
      BY <1>2, <2>2
    <3>2. i - 1 \in 1..Len(Tail(q)) /\ (i - 1) + 1 = i
      BY <1>1, <1>2, <2>2, <3>1
    <3>3. Tail(q)[i - 1] = s
      BY <1>1, <3>1, <3>2
    <3> QED BY <1>3, <3>2, <3>3
  <2> QED BY <2>1, <2>2
<1>6. Head(q) \in InSeq(q)
  BY <1>2
<1> QED
  BY <1>1, <1>4, <1>5, <1>6

\* A segment put in front of a free list is one element more.
LEMMA ConsFacts ==
  ASSUME NEW q \in Seq(Segs), NEW s \in Segs
  PROVE  /\ <<s>> \o q \in Seq(Segs)
         /\ InSeq(<<s>> \o q) = InSeq(q) \cup {s}
         /\ Distinct(q) /\ s \notin InSeq(q) => Distinct(<<s>> \o q)
<1> DEFINE c == <<s>> \o q
<1>1. <<s>> \in Seq(Segs) /\ Len(<<s>>) = 1 /\ <<s>>[1] = s
  OBVIOUS
<1>2. /\ c \in Seq(Segs) /\ Len(c) = 1 + Len(q)
      /\ \A i \in 1..1 + Len(q) : c[i] = IF i <= 1 THEN <<s>>[i] ELSE q[i - 1]
  BY <1>1, ConcatProperties
<1> HIDE DEF c
<1>3. /\ Len(q) \in Nat
      /\ \A r : r \in InSeq(q) <=> \E i \in 1..Len(q) : q[i] = r
      /\ \A r : r \in InSeq(c) <=> \E i \in 1..Len(c) : c[i] = r
  BY <1>2, ElementFacts
<1>4. c[1] = s /\ \A i \in 1..Len(q) : i + 1 \in 1..Len(c) /\ c[i + 1] = q[i]
  <2>1. c[1] = s
    BY <1>1, <1>2, <1>3
  <2>2. ASSUME NEW i \in 1..Len(q) PROVE i + 1 \in 1..Len(c) /\ c[i + 1] = q[i]
    <3>1. i + 1 \in 1..1 + Len(q) /\ ~(i + 1 <= 1) /\ (i + 1) - 1 = i
      BY <1>3
    <3> QED BY <1>2, <3>1
  <2> QED BY <2>1, <2>2
<1>5. \A i \in 1..Len(c) : i = 1 \/ (i - 1 \in 1..Len(q) /\ c[i] = q[i - 1])
  <2> SUFFICES ASSUME NEW i \in 1..Len(c), i # 1
               PROVE  i - 1 \in 1..Len(q) /\ c[i] = q[i - 1]
    OBVIOUS
  <2>1. i \in 1..1 + Len(q) /\ ~(i <= 1)
    BY <1>2, <1>3
  <2> QED BY <1>2, <1>3, <2>1
<1>6. ASSUME NEW r PROVE r \in InSeq(c) <=> r \in InSeq(q) \cup {s}
  <2>1. ASSUME r \in InSeq(c) PROVE r \in InSeq(q) \cup {s}
    BY <1>3, <1>4, <1>5, <2>1
  <2>2. ASSUME r \in InSeq(q) PROVE r \in InSeq(c)
    BY <1>3, <1>4, <2>2
  <2>3. s \in InSeq(c)
    <3>1. 1 \in 1..Len(c)
      BY <1>2, <1>3
    <3> QED BY <1>3, <1>4, <3>1
  <2> QED BY <2>1, <2>2, <2>3
<1>7. Distinct(q) /\ s \notin InSeq(q) => Distinct(c)
  <2> SUFFICES ASSUME Distinct(q), s \notin InSeq(q),
                      NEW i \in 1..Len(c), NEW k \in 1..Len(c), i # k
               PROVE  c[i] # c[k]
    BY DEF Distinct
  <2>1. CASE i = 1
    BY <1>3, <1>4, <1>5, <2>1
  <2>2. CASE k = 1
    BY <1>3, <1>4, <1>5, <2>2
  <2>3. CASE i # 1 /\ k # 1
    <3>1. i - 1 \in 1..Len(q) /\ k - 1 \in 1..Len(q) /\ i - 1 # k - 1
      BY <1>2, <1>3, <1>5, <2>3
    <3> QED BY <1>5, <2>3, <3>1 DEF Distinct
  <2> QED BY <2>1, <2>2, <2>3
<1> QED
  BY <1>2, <1>6, <1>7 DEF c

-----------------------------------------------------------------------------
(* Segments that are live, and what AllocMemory and FreeMemory do to them. *)

\* Segments are the numbers from 1 on, enough of them for every job; NULL is none.
LEMMA SegsFacts ==
  /\ NULL \notin Segs /\ NULL \notin Workers
  /\ IsFiniteSet(Segs) /\ Cardinality(Segs) = 2 * (MaxSpawns + 1)
  /\ \A s : s \in Segs <=> s \in Nat /\ 1 <= s /\ s <= Cardinality(Segs)
<1>1. Segs = 1..2 * (MaxSpawns + 1) /\ 2 * (MaxSpawns + 1) \in Nat /\ 2 * (MaxSpawns + 1) >= 2
  BY DEF Segs, SEGMENT
<1>2. IsFiniteSet(Segs) /\ Cardinality(Segs) = 2 * (MaxSpawns + 1)
  BY <1>1, FS_Interval
<1> QED
  BY <1>1, <1>2

\* A segment is live when it is mapped and on no free list.
LEMMA LiveFacts ==
  \A s : s \in Live <=> /\ s \in Segs /\ s <= mapped
                        /\ \A w \in Workers : s \notin InSeq(mm[w])
BY DEF Live, Free

\* AllocMemory makes one segment live that was not, and changes no other.
LEMMA AllocFacts ==
  ASSUME TypeOK, FreeInv, NEW w \in Workers, NEW s \in Segs, FL!AllocMemory(w, s)
  PROVE  /\ mm' \in [Workers -> Seq(Segs)] /\ mapped' \in 0..Cardinality(Segs)
         /\ FreeInv'
         /\ s \notin Live /\ Live' = Live \cup {s}
         /\ mapped' >= 1
<1> DEFINE fresh == [i \in 1..1 |-> mapped + 1 + i]
<1>1. /\ mapped \in Nat /\ mapped <= Cardinality(Segs) /\ Cardinality(Segs) \in Nat
      /\ mm \in [Workers -> Seq(Segs)]
      /\ mapped' >= mapped
  BY SegsFacts DEF TypeOK, FL!AllocMemory, SEGMENT
<1>2. CASE mm[w] = <<>>
  <2>1. /\ mapped + 2 <= Cardinality(Segs) /\ s = mapped + 1 /\ mapped' = mapped + 2
        /\ mm' = [mm EXCEPT ![w] = fresh]
    BY <1>2 DEF FL!AllocMemory, SEGMENT
  <2>2. fresh \in Seq(Segs) /\ Len(fresh) = 1 /\ fresh[1] = mapped + 2
    <3>1. mapped + 2 \in Nat /\ 1 <= mapped + 2
      BY <1>1
    <3>2. mapped + 2 \in Segs
      BY <2>1, <3>1, SegsFacts
    <3> QED BY <1>1, <3>2
  <2> HIDE DEF fresh
  <2>3. InSeq(fresh) = {mapped + 2} /\ Distinct(fresh)
    BY <2>2 DEF InSeq, Distinct
  <2>4. InSeq(mm[w]) = {}
    BY <1>2, <1>1, ElementFacts
  <2>5. /\ mm' \in [Workers -> Seq(Segs)] /\ mm'[w] = fresh
        /\ \A v \in Workers : v # w => mm'[v] = mm[v]
    BY <1>1, <2>1, <2>2
  <2>6. \A v \in Workers : InSeq(mm[v]) \subseteq Segs /\ \A r \in InSeq(mm[v]) : r <= mapped
    BY <1>1, ElementFacts DEF FreeInv
  <2>7. FreeInv'
    <3>1. \A v \in Workers : Distinct(mm'[v]) /\ \A r \in InSeq(mm'[v]) : r <= mapped'
      BY <1>1, <2>1, <2>3, <2>5, <2>6, SegsFacts DEF FreeInv
    <3>2. \A v, u \in Workers : v # u => InSeq(mm'[v]) \cap InSeq(mm'[u]) = {}
      BY <1>1, <2>1, <2>3, <2>5, <2>6, SegsFacts DEF FreeInv
    <3> QED BY <3>1, <3>2 DEF FreeInv, Distinct, InSeq
  <2>8. \A r : r \in Live' <=> /\ r \in Segs /\ r <= mapped'
                               /\ \A v \in Workers : r \notin InSeq(mm'[v])
    BY DEF Live, Free, InSeq
  <2>9. s \notin Live
    BY <1>1, <2>1, LiveFacts
  <2>10. ASSUME NEW r PROVE r \in Live' <=> r \in Live \cup {s}
    <3>1. r \in Segs => r \in Nat
      BY SegsFacts
    <3>2. r \in Segs => (r <= mapped' <=> r <= mapped \/ r = s \/ r = mapped + 2)
      BY <1>1, <2>1, <3>1
    <3>3. r = mapped + 2 => ~(r <= mapped) /\ r # s
      BY <1>1, <2>1
    <3>4. CASE r = mapped + 2
      BY <2>3, <2>5, <2>8, <3>3, <3>4, LiveFacts
    <3>5. CASE r # mapped + 2
      <4>1. \A v \in Workers : r \in InSeq(mm'[v]) <=> r \in InSeq(mm[v])
        BY <2>3, <2>4, <2>5, <3>5
      <4>2. r = s => \A v \in Workers : r \notin InSeq(mm[v])
        BY <1>1, <2>1, <2>6
      <4> QED BY <2>8, <3>2, <3>5, <4>1, <4>2, LiveFacts
    <3> QED BY <3>4, <3>5
  <2> QED BY <1>1, <2>1, <2>5, <2>7, <2>9, <2>10
<1>3. CASE mm[w] # <<>>
  <2>1. s = Head(mm[w]) /\ mm' = [mm EXCEPT ![w] = Tail(mm[w])] /\ mapped' = mapped
    BY <1>3 DEF FL!AllocMemory
  <2>2. /\ mm[w] \in Seq(Segs) /\ Tail(mm[w]) \in Seq(Segs) /\ s \in InSeq(mm[w])
        /\ Distinct(Tail(mm[w])) /\ InSeq(Tail(mm[w])) = InSeq(mm[w]) \ {s}
    BY <1>1, <1>3, <2>1, TailFacts DEF FreeInv
  <2>3. /\ mm' \in [Workers -> Seq(Segs)] /\ mm'[w] = Tail(mm[w])
        /\ \A v \in Workers : v # w => mm'[v] = mm[v]
    BY <1>1, <2>1, <2>2
  <2>4. FreeInv'
    <3>1. \A v \in Workers : Distinct(mm'[v]) /\ \A r \in InSeq(mm'[v]) : r <= mapped'
      BY <2>1, <2>2, <2>3 DEF FreeInv
    <3>2. \A v, u \in Workers : v # u => InSeq(mm'[v]) \cap InSeq(mm'[u]) = {}
      BY <2>2, <2>3 DEF FreeInv
    <3> QED BY <3>1, <3>2 DEF FreeInv, Distinct, InSeq
  <2>5. \A r : r \in Live' <=> /\ r \in Segs /\ r <= mapped'
                               /\ \A v \in Workers : r \notin InSeq(mm'[v])
    BY DEF Live, Free, InSeq
  <2>6. s \notin Live /\ s <= mapped
    BY <2>2, LiveFacts DEF FreeInv
  <2>7. ASSUME NEW r PROVE r \in Live' <=> r \in Live \cup {s}
    BY <2>1, <2>2, <2>3, <2>5, <2>6, LiveFacts DEF FreeInv
  <2>8. mapped' >= 1
    BY <1>1, <2>1, <2>6, SegsFacts
  <2> QED BY <1>1, <2>1, <2>3, <2>4, <2>6, <2>7, <2>8
<1> QED
  BY <1>2, <1>3

\* FreeMemory makes one live segment free, and changes no other.
LEMMA FreeFacts ==
  ASSUME TypeOK, FreeInv, NEW w \in Workers, NEW s \in Live, FL!FreeMemory(w, s)
  PROVE  /\ mm' \in [Workers -> Seq(Segs)] /\ mapped' = mapped
         /\ FreeInv' /\ Live' = Live \ {s}
<1>1. /\ mm \in [Workers -> Seq(Segs)] /\ s \in Segs /\ s <= mapped
      /\ \A v \in Workers : s \notin InSeq(mm[v])
  BY LiveFacts DEF TypeOK
<1>2. mm' = [mm EXCEPT ![w] = <<s>> \o mm[w]] /\ mapped' = mapped
  BY DEF FL!FreeMemory
<1>3. /\ <<s>> \o mm[w] \in Seq(Segs) /\ InSeq(<<s>> \o mm[w]) = InSeq(mm[w]) \cup {s}
      /\ Distinct(<<s>> \o mm[w])
  BY <1>1, ConsFacts DEF FreeInv
<1>4. /\ mm' \in [Workers -> Seq(Segs)] /\ mm'[w] = <<s>> \o mm[w]
      /\ \A v \in Workers : v # w => mm'[v] = mm[v]
  BY <1>1, <1>2, <1>3
<1>5. FreeInv'
  <2>1. \A v \in Workers : Distinct(mm'[v]) /\ \A r \in InSeq(mm'[v]) : r <= mapped'
    BY <1>1, <1>2, <1>3, <1>4 DEF FreeInv
  <2>2. ASSUME NEW v \in Workers, NEW u \in Workers, v # u, NEW r \in InSeq(mm'[v])
        PROVE  r \notin InSeq(mm'[u])
    <3>1. \A x \in Workers : r \in InSeq(mm'[x]) => r \in InSeq(mm[x]) \/ (x = w /\ r = s)
      BY <1>3, <1>4
    <3>2. ~(r \in InSeq(mm[v]) /\ r \in InSeq(mm[u]))
      BY <2>2 DEF FreeInv
    <3> QED BY <1>1, <2>2, <3>1, <3>2
  <2> QED BY <2>1, <2>2 DEF FreeInv, Distinct, InSeq
<1>6. \A r : r \in Live' <=> /\ r \in Segs /\ r <= mapped'
                             /\ \A v \in Workers : r \notin InSeq(mm'[v])
  BY DEF Live, Free, InSeq
<1>7. ASSUME NEW r PROVE r \in Live' <=> r \in Live \ {s}
  BY <1>1, <1>2, <1>3, <1>4, <1>6, LiveFacts
<1> QED
  BY <1>2, <1>4, <1>5, <1>7

-----------------------------------------------------------------------------
(* Facts about the current state that several actions need. *)

\* Whatever a worker runs, is about to run or has queued is a live job.
LEMMA HeldIsLive ==
  ASSUME IInv, NEW w \in Workers
  PROVE  /\ cur[w] # NULL => cur[w] \in Live
         /\ next_job[w] # NULL => next_job[w] \in Live
         /\ \A s \in InSeq(deque[w]) : s \in Live
<1>1. /\ cur[w] \in Segs \cup {NULL} /\ next_job[w] \in Segs \cup {NULL}
      /\ deque[w] \in Seq(Segs)
  BY DEF IInv, TypeOK
<1>2. \A s \in InSeq(deque[w]) : s \in Segs
  BY <1>1, ElementFacts
<1> QED
  BY <1>1, <1>2 DEF IInv, PlaceInv, HeldInv, HeldOnce, Holds, Kinds

\* PopOwn finds a job.
LEMMA PopFacts ==
  ASSUME TypeOK, NEW w \in Workers, PopOwn(w)
  PROVE  deque[w] \in Seq(Segs) /\ Len(deque[w]) \in Nat /\ Len(deque[w]) >= 1
<1>1. deque[w] \in Seq(Segs) /\ (Len(deque[w]) >= 2 \/ Len(deque[w]) = 1)
  BY DEF TypeOK, PopOwn
<1> QED
  BY <1>1, ElementFacts

\* The jcb of a new job, and what is the same of the others.
LEMMA CreateFacts ==
  ASSUME IInv, NEW w \in Workers, NEW s \in Segs, create_job(w, s)
  PROVE  /\ mm' \in [Workers -> Seq(Segs)] /\ mapped' \in 0..Cardinality(Segs) /\ mapped' >= 1
         /\ status' \in [Segs -> {"SPAWN", "RUNNING", "SYNC"}]
         /\ parent' \in [Segs -> Segs \cup {NULL}]
         /\ join_counter' \in [Segs -> Int]
         /\ awaited' \in [Segs -> SUBSET Segs]
         /\ FreeInv' /\ s \notin Live /\ Live' = Live \cup {s}
         /\ parent'[s] = cur[w] /\ \A b \in Segs : b # s => parent'[b] = parent[b]
         /\ join_counter'[s] = 0
         /\ \A b \in Segs : b # s =>
              join_counter'[b] = join_counter[b] + IF b = cur[w] THEN 1 ELSE 0
         /\ awaited'[s] = {}
         /\ \A b \in Segs : b # s =>
              awaited'[b] = awaited[b] \cup IF b = cur[w] THEN {s} ELSE {}
<1>1. TypeOK /\ FreeInv /\ FL!AllocMemory(w, s)
  BY DEF IInv, PlaceInv, create_job
<1>2. /\ mm' \in [Workers -> Seq(Segs)] /\ mapped' \in 0..Cardinality(Segs) /\ mapped' >= 1
      /\ FreeInv' /\ s \notin Live /\ Live' = Live \cup {s}
  BY <1>1, AllocFacts
<1>3. /\ status' \in [Segs -> {"SPAWN", "RUNNING", "SYNC"}]
      /\ parent' \in [Segs -> Segs \cup {NULL}]
      /\ parent'[s] = cur[w] /\ \A b \in Segs : b # s => parent'[b] = parent[b]
  BY <1>1 DEF TypeOK, create_job
<1>4. /\ join_counter' \in [Segs -> Int] /\ join_counter'[s] = 0
      /\ \A b \in Segs : b # s =>
           join_counter'[b] = join_counter[b] + IF b = cur[w] THEN 1 ELSE 0
  BY <1>1 DEF TypeOK, create_job
<1>5. /\ awaited' \in [Segs -> SUBSET Segs] /\ awaited'[s] = {}
      /\ \A b \in Segs : b # s =>
           awaited'[b] = awaited[b] \cup IF b = cur[w] THEN {s} ELSE {}
  BY <1>1 DEF TypeOK, create_job
<1> QED
  BY <1>2, <1>3, <1>4, <1>5

-----------------------------------------------------------------------------
(* Types *)

\* Every step keeps the types.
LEMMA TypeStep ==
  ASSUME IInv, [Next]_vars
  PROVE  TypeOK'
<1> USE DEF WorkerPC, JobPC, TailPC, wvars, jvars
<1>1. ASSUME NEW w \in Workers, StartWorker(w) PROVE TypeOK'
  BY <1>1 DEF IInv, TypeOK, StartWorker, Goto
<1>2. ASSUME NEW w \in Workers, BootMainJob(w) PROVE TypeOK'
  <2>1. PICK s \in Segs : /\ create_job(w, s)
                          /\ resume' = [resume EXCEPT ![s] = "routine"]
                          /\ deque' = [deque EXCEPT ![w] = Append(deque[w], s)]
    BY <1>2 DEF BootMainJob
  <2>2. /\ mm' \in [Workers -> Seq(Segs)] /\ mapped' \in 0..Cardinality(Segs)
        /\ status' \in [Segs -> {"SPAWN", "RUNNING", "SYNC"}]
        /\ parent' \in [Segs -> Segs \cup {NULL}]
        /\ join_counter' \in [Segs -> Int]
        /\ awaited' \in [Segs -> SUBSET Segs]
    BY <2>1, CreateFacts
  <2>3. deque' \in [Workers -> Seq(Segs)]
    BY <2>1, AppendFacts DEF IInv, TypeOK
  <2> QED BY <1>2, <2>1, <2>2, <2>3 DEF IInv, TypeOK, BootMainJob, Goto
<1>3. ASSUME NEW w \in Workers, PickOwn(w) PROVE TypeOK'
  <2>1. pc' \in [Workers -> WorkerPC] /\ unvisited' \in [Workers -> SUBSET Workers]
    <3>1. \/ /\ pc' = [pc EXCEPT ![w] = "steal"]
             /\ unvisited' = [unvisited EXCEPT ![w] = Workers \ {w}]
          \/ pc' = [pc EXCEPT ![w] = "pop"] /\ unvisited' = unvisited
      BY <1>3 DEF PickOwn
    <3>2. pc \in [Workers -> WorkerPC] /\ unvisited \in [Workers -> SUBSET Workers]
      BY DEF IInv, TypeOK
    <3>3. pc' \in [Workers -> WorkerPC]
      BY <3>1, <3>2
    <3>4. unvisited' \in [Workers -> SUBSET Workers]
      BY <3>1, <3>2
    <3> QED BY <3>3, <3>4
  <2> QED BY <1>3, <2>1 DEF IInv, TypeOK, PickOwn
<1>4. ASSUME NEW w \in Workers, PopOwn(w) PROVE TypeOK'
  <2>1. deque[w] \in Seq(Segs) /\ Len(deque[w]) >= 1
    BY <1>4, PopFacts DEF IInv
  <2>2. SubSeq(deque[w], 1, Len(deque[w]) - 1) \in Seq(Segs) /\ deque[w][Len(deque[w])] \in Segs
    BY <2>1, FrontFacts
  <2> QED BY <1>4, <2>2 DEF IInv, TypeOK, PopOwn, Goto
<1>5. ASSUME NEW w \in Workers, ChooseVictim(w) PROVE TypeOK'
  <2>1. /\ pc' \in [Workers -> WorkerPC] /\ unvisited' \in [Workers -> SUBSET Workers]
        /\ victim' \in [Workers -> Workers \cup {NULL}]
    <3>1. PICK v \in unvisited[w] :
            /\ unvisited' = [unvisited EXCEPT ![w] = unvisited[w] \ {v}]
            /\ \/ pc' = [pc EXCEPT ![w] = "lock"] /\ victim' = [victim EXCEPT ![w] = v]
               \/ UNCHANGED <<pc, victim>>
      BY <1>5 DEF ChooseVictim
    <3>2. v \in Workers
      BY DEF IInv, TypeOK
    <3>3. pc' \in [Workers -> WorkerPC]
      BY <3>1, <3>2 DEF IInv, TypeOK
    <3>4. victim' \in [Workers -> Workers \cup {NULL}]
      BY <3>1, <3>2 DEF IInv, TypeOK
    <3> QED BY <3>1, <3>3, <3>4 DEF IInv, TypeOK
  <2> QED BY <1>5, <2>1 DEF IInv, TypeOK, ChooseVictim
<1>6. ASSUME NEW w \in Workers, Probe(w) PROVE TypeOK'
  BY <1>6 DEF IInv, TypeOK, Probe, Goto
<1>7. ASSUME NEW w \in Workers, StealJob(w) PROVE TypeOK'
  <2>1. victim[w] \in Workers
    BY <1>7 DEF IInv, ThiefInv, StealJob, Goto
  <2>2. deque[victim[w]] \in Seq(Segs) /\ deque[victim[w]] # <<>>
    BY <1>7, <2>1, ElementFacts DEF IInv, TypeOK, StealJob
  <2>3. Tail(deque[victim[w]]) \in Seq(Segs) /\ Head(deque[victim[w]]) \in Segs
    BY <2>2, TailFacts
  <2> QED BY <1>7, <2>1, <2>3 DEF IInv, TypeOK, StealJob, Goto
<1>8. ASSUME NEW w \in Workers, StealNothing(w) PROVE TypeOK'
  BY <1>8 DEF IInv, TypeOK, StealNothing, Goto
<1>9. ASSUME NEW w \in Workers, RoundOver(w) PROVE TypeOK'
  BY <1>9 DEF IInv, TypeOK, RoundOver, Goto
<1>10. ASSUME NEW w \in Workers, Reschedule(w) PROVE TypeOK'
  <2>1. next_job[w] # NULL
    BY <1>10 DEF IInv, ControlInv, Control, Reschedule
  <2>2. pc' \in [Workers -> WorkerPC] /\ sp' \in [Workers -> Segs \cup {NULL}]
    BY <1>10, <2>1 DEF IInv, TypeOK, Reschedule
  <2>3. victim' \in [Workers -> Workers \cup {NULL}]
    BY <1>10, <2>1 DEF IInv, TypeOK, Reschedule
  <2>4. status' \in [Segs -> {"SPAWN", "RUNNING", "SYNC"}]
    <3>1. status' = [status EXCEPT ![next_job[w]] = "RUNNING"] \/ status' = status
      BY <1>10, <2>1 DEF IInv, TypeOK, Reschedule
    <3> QED BY <3>1 DEF IInv, TypeOK
  <2> QED BY <1>10, <2>1, <2>2, <2>3, <2>4 DEF IInv, TypeOK, Reschedule
<1>11. ASSUME NEW w \in Workers, ResetCurrent(w) PROVE TypeOK'
  <2>1. deque' \in [Workers -> Seq(Segs)]
    BY <1>11, AppendFacts DEF IInv, TypeOK, ResetCurrent
  <2> QED BY <1>11, <2>1 DEF IInv, TypeOK, ResetCurrent, Goto
<1>12. ASSUME NEW w \in Workers, Spawn(w) PROVE TypeOK'
  <2>1. PICK s \in Segs :
          /\ create_job(w, s)
          /\ next_job' = [next_job EXCEPT ![w] = s]
          /\ resume' = [resume EXCEPT ![s] = "routine", ![cur[w]] = "spawned"]
    BY <1>12 DEF Spawn
  <2>2. /\ mm' \in [Workers -> Seq(Segs)] /\ mapped' \in 0..Cardinality(Segs)
        /\ status' \in [Segs -> {"SPAWN", "RUNNING", "SYNC"}]
        /\ parent' \in [Segs -> Segs \cup {NULL}]
        /\ join_counter' \in [Segs -> Int]
        /\ awaited' \in [Segs -> SUBSET Segs]
    BY <2>1, CreateFacts
  <2>3. spawned' \in 0..MaxSpawns
    BY <1>12 DEF IInv, TypeOK, Spawn
  <2> QED BY <1>12, <2>1, <2>2, <2>3 DEF IInv, TypeOK, Spawn
<1>13. ASSUME NEW w \in Workers, CallSync(w) PROVE TypeOK'
  BY <1>13 DEF IInv, TypeOK, CallSync, Goto
<1>14. ASSUME NEW w \in Workers, Return(w) PROVE TypeOK'
  <2>1. awaited' \in [Segs -> SUBSET Segs]
    BY <1>14 DEF IInv, TypeOK, Return
  <2> QED BY <1>14, <2>1 DEF IInv, TypeOK, Return
<1>15. ASSUME NEW w \in Workers, SyncTest(w) PROVE TypeOK'
  BY <1>15 DEF IInv, TypeOK, SyncTest
<1>16. ASSUME NEW w \in Workers, Leave(w) PROVE TypeOK'
  <2>1. join_counter' \in [Segs -> Int] /\ sem' \in Nat /\ pc' \in [Workers -> WorkerPC]
    <3>1. join_counter' \in [Segs -> Int]
      <4>1. \/ join_counter' = [join_counter EXCEPT ![parent[cur[w]]] = join_counter[parent[cur[w]]] - 1]
            \/ join_counter' = join_counter
        BY <1>16 DEF Leave
      <4> QED BY <4>1 DEF IInv, TypeOK
    <3>2. (sem' = sem \/ sem' = sem + 1) /\ sem \in Nat
      BY <1>16 DEF IInv, TypeOK, Leave
    <3>3. pc' \in [Workers -> WorkerPC]
      <4>1. pc' = [pc EXCEPT ![w] = "check"] \/ pc' = [pc EXCEPT ![w] = "back"]
        BY <1>16 DEF Leave
      <4> QED BY <4>1 DEF IInv, TypeOK
    <3> QED BY <3>1, <3>2, <3>3
  <2> QED BY <1>16, <2>1 DEF IInv, TypeOK, Leave
<1>17. ASSUME NEW w \in Workers, CheckCounter(w) PROVE TypeOK'
  BY <1>17 DEF IInv, TypeOK, CheckCounter, Goto
<1>18. ASSUME NEW w \in Workers, SwitchBack(w) PROVE TypeOK'
  BY <1>18 DEF IInv, TypeOK, SwitchBack, Goto
<1>19. ASSUME NEW w \in Workers, FreeCurrent(w) PROVE TypeOK'
  <2>1. cur[w] \in Live
    BY <1>19, HeldIsLive DEF IInv, ControlInv, Control, OnJobPC, FreeCurrent, Goto
  <2>2. mm' \in [Workers -> Seq(Segs)] /\ mapped' = mapped
    BY <1>19, <2>1, FreeFacts DEF IInv, PlaceInv, FreeCurrent
  <2> QED BY <1>19, <2>2 DEF IInv, TypeOK, FreeCurrent, Goto
<1>20. CASE MasterReturn
  BY <1>20 DEF IInv, TypeOK, MasterReturn
<1>21. CASE UNCHANGED vars
  BY <1>21 DEF IInv, TypeOK, vars
<1> QED
  BY <1>1, <1>2, <1>3, <1>4, <1>5, <1>6, <1>7, <1>8, <1>9, <1>10, <1>11, <1>12, <1>13,
     <1>14, <1>15, <1>16, <1>17, <1>18, <1>19, <1>20, <1>21
  DEF Next, WorkerStep, PickStep, SwitchStep, JobStep

-----------------------------------------------------------------------------
(* What a step of one worker leaves alone. *)

\* A worker changes no other worker's place, current job, next job, stack or victim.
LEMMA OthersKeep ==
  ASSUME IInv, NEW w \in Workers, NEW u \in Workers, u # w, WorkerStep(w)
  PROVE  /\ pc'[u] = pc[u] /\ cur'[u] = cur[u] /\ next_job'[u] = next_job[u] /\ sp'[u] = sp[u]
         /\ unvisited'[u] = unvisited[u] /\ victim'[u] = victim[u]
<1> USE DEF IInv, TypeOK, wvars, jvars
<1>1. CASE StartWorker(w)
  BY <1>1 DEF StartWorker, Goto
<1>2. CASE BootMainJob(w)
  BY <1>2 DEF BootMainJob, Goto
<1>3. CASE PickOwn(w)
  BY <1>3 DEF PickOwn
<1>4. CASE PopOwn(w)
  BY <1>4 DEF PopOwn, Goto
<1>5. CASE ChooseVictim(w)
  BY <1>5 DEF ChooseVictim
<1>6. CASE Probe(w)
  BY <1>6 DEF Probe, Goto
<1>7. CASE StealJob(w)
  BY <1>7 DEF StealJob, Goto
<1>8. CASE StealNothing(w)
  BY <1>8 DEF StealNothing, Goto
<1>9. CASE RoundOver(w)
  BY <1>9 DEF RoundOver, Goto
<1>10. CASE Reschedule(w)
  BY <1>10 DEF Reschedule
<1>11. CASE ResetCurrent(w)
  BY <1>11 DEF ResetCurrent, Goto
<1>12. CASE Spawn(w)
  BY <1>12 DEF Spawn
<1>13. CASE CallSync(w)
  BY <1>13 DEF CallSync, Goto
<1>14. CASE Return(w)
  BY <1>14 DEF Return
<1>15. CASE SyncTest(w)
  BY <1>15 DEF SyncTest
<1>16. CASE Leave(w)
  BY <1>16 DEF Leave
<1>17. CASE CheckCounter(w)
  BY <1>17 DEF CheckCounter, Goto
<1>18. CASE SwitchBack(w)
  BY <1>18 DEF SwitchBack, Goto
<1>19. CASE FreeCurrent(w)
  BY <1>19 DEF FreeCurrent, Goto
<1> QED
  BY <1>1, <1>2, <1>3, <1>4, <1>5, <1>6, <1>7, <1>8, <1>9, <1>10, <1>11, <1>12, <1>13,
     <1>14, <1>15, <1>16, <1>17, <1>18, <1>19
  DEF WorkerStep, PickStep, SwitchStep, JobStep

\* A worker changes the jcb of no live job but its own; the parent of a job never changes.
LEMMA JobsKeep ==
  ASSUME IInv, NEW w \in Workers, WorkerStep(w), NEW s \in Live
  PROVE  parent'[s] = parent[s] /\ (s # cur[w] => resume'[s] = resume[s])
<1>0. s \in Segs
  BY LiveFacts
<1> USE <1>0 DEF IInv, TypeOK, wvars, jvars
<1>1. CASE BootMainJob(w) \/ Spawn(w)
  <2>1. PICK r \in Segs : create_job(w, r) /\ \/ resume' = [resume EXCEPT ![r] = "routine"]
                                              \/ resume' = [resume EXCEPT ![r] = "routine", ![cur[w]] = "spawned"]
    BY <1>1 DEF BootMainJob, Spawn
  <2>2. r \notin Live /\ \A b \in Segs : b # r => parent'[b] = parent[b]
    BY <2>1, CreateFacts
  <2> QED BY <2>1, <2>2
<1>2. CASE CallSync(w) \/ Return(w)
  BY <1>2 DEF CallSync, Return
<1>3. CASE SwitchStep(w) \/ SyncTest(w) \/ Leave(w) \/ CheckCounter(w) \/ SwitchBack(w) \/ FreeCurrent(w)
  BY <1>3 DEF SwitchStep, Reschedule, ResetCurrent, SyncTest, Leave, CheckCounter, SwitchBack, FreeCurrent
<1>4. CASE StartWorker(w) \/ PickStep(w)
  BY <1>4 DEF StartWorker, PickStep, PickOwn, PopOwn, ChooseVictim, Probe, StealJob, StealNothing, RoundOver
<1> QED
  BY <1>1, <1>2, <1>3, <1>4 DEF WorkerStep, JobStep

-----------------------------------------------------------------------------
(* Control *)

\* What a worker's place says about its job survives the steps of the others.
LEMMA ControlOthers ==
  ASSUME IInv, NEW w \in Workers, NEW u \in Workers, u # w, WorkerStep(w)
  PROVE  Control(u)'
<1>1. /\ pc'[u] = pc[u] /\ cur'[u] = cur[u] /\ next_job'[u] = next_job[u] /\ sp'[u] = sp[u]
  BY OthersKeep
<1>2. cur[u] # NULL => cur[u] \in Live /\ cur[u] # cur[w]
  BY HeldIsLive, LiveFacts DEF IInv, PlaceInv, HeldInv, HeldOnce, Holds, Kinds
<1>3. cur[u] # NULL => parent'[cur[u]] = parent[cur[u]] /\ resume'[cur[u]] = resume[cur[u]]
  BY <1>2, JobsKeep
<1>4. Control(u)
  BY DEF IInv, ControlInv
<1> QED
  BY <1>1, <1>3, <1>4 DEF Control, LookingPC, OnJobPC, JobPC, TailPC

\* The counters are cardinalities, so CheckCounter finds none below zero.
LEMMA CountersNotNegative ==
  ASSUME IInv
  PROVE  \A b \in Segs : IsFiniteSet(Children(b)) /\ join_counter[b] \in Nat
<1> SUFFICES ASSUME NEW b \in Segs
             PROVE  IsFiniteSet(Children(b)) /\ join_counter[b] \in Nat
  OBVIOUS
<1>1. Children(b) \in SUBSET Segs
  BY LiveFacts DEF Children, Unfinished
<1>2. IsFiniteSet(Children(b))
  BY <1>1, SegsFacts, FS_Subset
<1> QED
  BY <1>2, FS_CardinalityType DEF IInv, CountInv

\* What a worker's place says about its job holds again after its own step.
LEMMA ControlOwn ==
  ASSUME IInv, NEW w \in Workers, WorkerStep(w), Control(w)
  PROVE  Control(w)'
<1> USE DEF IInv, TypeOK, wvars, jvars, LookingPC, OnJobPC, JobPC, TailPC
<1>1. CASE StartWorker(w)
  BY <1>1 DEF StartWorker, Goto, Control
<1>2. CASE BootMainJob(w)
  BY <1>2 DEF BootMainJob, Goto, Control
<1>3. CASE PickOwn(w)
  BY <1>3 DEF PickOwn, Control
<1>4. CASE PopOwn(w)
  <2>1. deque[w][Len(deque[w])] \in Segs
    BY <1>4, PopFacts, FrontFacts
  <2> QED BY <1>4, <2>1, SegsFacts DEF PopOwn, Goto, Control
<1>5. CASE ChooseVictim(w)
  BY <1>5 DEF ChooseVictim, Control
<1>6. CASE Probe(w)
  BY <1>6 DEF Probe, Goto, Control
<1>7. CASE StealJob(w)
  <2>1. victim[w] \in Workers /\ deque[victim[w]] \in Seq(Segs) /\ Len(deque[victim[w]]) >= 2
    BY <1>7 DEF StealJob, Goto, ThiefInv
  <2>2. Head(deque[victim[w]]) \in Segs
    BY <2>1, ElementFacts, TailFacts
  <2> QED BY <1>7, <2>2, SegsFacts DEF StealJob, Goto, Control
<1>8. CASE StealNothing(w)
  BY <1>8 DEF StealNothing, Goto, Control
<1>9. CASE RoundOver(w)
  BY <1>9 DEF RoundOver, Goto, Control
<1>10. CASE Reschedule(w)
  BY <1>10 DEF Reschedule, Control
<1>11. CASE ResetCurrent(w)
  BY <1>11 DEF ResetCurrent, Goto, Control
<1>12. CASE Spawn(w)
  <2>1. PICK s \in Segs : next_job' = [next_job EXCEPT ![w] = s]
    BY <1>12 DEF Spawn
  <2> QED BY <1>12, <2>1, SegsFacts DEF Spawn, Control
<1>13. CASE CallSync(w)
  BY <1>13 DEF CallSync, Goto, Control
<1>14. CASE Return(w)
  BY <1>14 DEF Return, Control
<1>15. CASE SyncTest(w)
  BY <1>15 DEF SyncTest, Control
<1>16. CASE Leave(w)
  BY <1>16 DEF Leave, Control
<1>17. CASE CheckCounter(w)
  <2>1. parent[cur[w]] \in Segs
    BY <1>17 DEF CheckCounter, Goto, Control
  <2>2. ~(join_counter[parent[cur[w]]] < 0)
    BY <2>1, CountersNotNegative
  <2> QED BY <1>17, <2>2 DEF CheckCounter, Goto, Control
<1>18. CASE SwitchBack(w)
  BY <1>18 DEF SwitchBack, Goto, Control
<1>19. CASE FreeCurrent(w)
  BY <1>19 DEF FreeCurrent, Goto, Control
<1> QED
  BY <1>1, <1>2, <1>3, <1>4, <1>5, <1>6, <1>7, <1>8, <1>9, <1>10, <1>11, <1>12, <1>13,
     <1>14, <1>15, <1>16, <1>17, <1>18, <1>19
  DEF WorkerStep, PickStep, SwitchStep, JobStep

\* Every step keeps the control invariant of every worker.
LEMMA ControlStep ==
  ASSUME IInv, [Next]_vars
  PROVE  ControlInv'
<1>1. ASSUME NEW w \in Workers, WorkerStep(w), NEW u \in Workers PROVE Control(u)'
  BY <1>1, ControlOthers, ControlOwn DEF IInv, ControlInv
<1>2. ASSUME MasterReturn \/ UNCHANGED vars, NEW u \in Workers PROVE Control(u)'
  BY <1>2 DEF IInv, ControlInv, Control, MasterReturn, vars, wvars, jvars
<1> QED
  BY <1>1, <1>2 DEF Next, ControlInv

-----------------------------------------------------------------------------
(* Thieves *)

\* A step outside GetNodeFromHead leaves every prober alone.
LEMMA ProberKeeps ==
  ASSUME IInv, NEW w \in Workers, WorkerStep(w),
         ~Probe(w), ~StealJob(w), ~StealNothing(w)
  PROVE  prober' = prober /\ pc[w] # "probe" /\ pc'[w] # "probe"
<1> USE DEF IInv, TypeOK, wvars, jvars
<1>1. CASE StartWorker(w) \/ BootMainJob(w)
  BY <1>1 DEF StartWorker, BootMainJob, Goto
<1>2. CASE PickOwn(w) \/ PopOwn(w) \/ ChooseVictim(w) \/ RoundOver(w)
  BY <1>2 DEF PickOwn, PopOwn, ChooseVictim, RoundOver, Goto
<1>3. CASE SwitchStep(w)
  BY <1>3 DEF SwitchStep, Reschedule, ResetCurrent, Goto, JobPC
<1>4. CASE JobStep(w)
  BY <1>4 DEF JobStep, Spawn, CallSync, Return, SyncTest, Leave, CheckCounter, SwitchBack,
              FreeCurrent, Goto
<1> QED
  BY <1>1, <1>2, <1>3, <1>4 DEF WorkerStep, PickStep

\* What a thief has tried and where it is.
LEMMA VictimOwn ==
  ASSUME IInv, NEW w \in Workers, WorkerStep(w)
  PROVE  w \notin unvisited'[w] /\ (pc'[w] \in {"lock", "probe"} => victim'[w] \in Workers \ {w})
<1> USE DEF IInv, TypeOK, ThiefInv, wvars, jvars
<1>1. CASE StartWorker(w) \/ BootMainJob(w)
  BY <1>1 DEF StartWorker, BootMainJob, Goto
<1>2. CASE PickOwn(w)
  BY <1>2 DEF PickOwn
<1>3. CASE ChooseVictim(w)
  BY <1>3 DEF ChooseVictim
<1>4. CASE PopOwn(w) \/ Probe(w) \/ StealJob(w) \/ StealNothing(w) \/ RoundOver(w)
  BY <1>4 DEF PopOwn, Probe, StealJob, StealNothing, RoundOver, Goto
<1>5. CASE SwitchStep(w)
  BY <1>5 DEF SwitchStep, Reschedule, ResetCurrent, Goto, JobPC
<1>6. CASE JobStep(w)
  BY <1>6 DEF JobStep, Spawn, CallSync, Return, SyncTest, Leave, CheckCounter, SwitchBack,
              FreeCurrent, Goto
<1> QED
  BY <1>1, <1>2, <1>3, <1>4, <1>5, <1>6 DEF WorkerStep, PickStep

\* Every step keeps the thieves inside GetNodeFromHead on a live victim.
LEMMA ThiefStep ==
  ASSUME IInv, [Next]_vars
  PROVE  ThiefInv'
<1>1. ASSUME NEW w \in Workers, WorkerStep(w) PROVE ThiefInv'
  <2>1. ASSUME NEW u \in Workers
        PROVE  u \notin unvisited'[u] /\ (pc'[u] \in {"lock", "probe"} => victim'[u] \in Workers \ {u})
    BY <1>1, VictimOwn, OthersKeep DEF IInv, ThiefInv
  <2>2. ASSUME NEW u \in Workers, NEW v \in Workers
        PROVE  prober'[v] = u <=> pc'[u] = "probe" /\ victim'[u] = v
    <3>1. prober[v] = u <=> pc[u] = "probe" /\ victim[u] = v
      BY DEF IInv, ThiefInv
    <3>2. u # w => pc'[u] = pc[u] /\ victim'[u] = victim[u]
      BY <1>1, OthersKeep
    <3>3. CASE Probe(w)
      BY <3>1, <3>2, <3>3, SegsFacts DEF Probe, Goto, IInv, TypeOK, ThiefInv
    <3>4. CASE StealJob(w) \/ StealNothing(w)
      <4>1. /\ pc[w] = "probe" /\ pc'[w] # "probe" /\ victim[w] \in Workers
            /\ prober' = [prober EXCEPT ![victim[w]] = NULL]
        BY <3>4 DEF StealJob, StealNothing, Goto, IInv, TypeOK, ThiefInv
      <4>2. prober[victim[w]] = w
        BY <4>1 DEF IInv, ThiefInv
      <4> QED BY <3>1, <3>2, <4>1, <4>2, SegsFacts DEF IInv, TypeOK
    <3>5. CASE ~Probe(w) /\ ~StealJob(w) /\ ~StealNothing(w)
      BY <1>1, <3>1, <3>2, <3>5, ProberKeeps
    <3> QED BY <3>3, <3>4, <3>5
  <2> QED BY <2>1, <2>2 DEF ThiefInv
<1>2. CASE MasterReturn \/ UNCHANGED vars
  BY <1>2 DEF IInv, ThiefInv, MasterReturn, vars, wvars, jvars
<1> QED
  BY <1>1, <1>2 DEF Next

-----------------------------------------------------------------------------
(* The start, and what the owner finds in its deque *)

\* Every step keeps the main job the only one while gregor_main starts.
LEMMA BootStep ==
  ASSUME IInv, [Next]_vars
  PROVE  BootInv'
<1> USE DEF IInv, TypeOK, wvars, jvars
<1>1. ASSUME NEW w \in Workers, WorkerStep(w), pc'[Worker0] \in {"start", "boot"}
      PROVE  mapped' = 0 /\ sem' = 0 /\ master' = "waiting"
  <2>1. CASE w = Worker0
    <3>1. CASE StartWorker(w) \/ BootMainJob(w)
      BY <1>1, <2>1, <3>1 DEF StartWorker, BootMainJob, Goto, BootInv
    <3>2. CASE PickStep(w)
      BY <1>1, <2>1, <3>2 DEF PickStep, PickOwn, PopOwn, ChooseVictim, Probe, StealJob,
                              StealNothing, RoundOver, Goto, ControlInv, Control, LookingPC
    <3>3. CASE SwitchStep(w)
      BY <1>1, <2>1, <3>3 DEF SwitchStep, Reschedule, ResetCurrent, Goto, JobPC
    <3>4. CASE JobStep(w)
      BY <1>1, <2>1, <3>4 DEF JobStep, Spawn, CallSync, Return, SyncTest, Leave, CheckCounter,
                              SwitchBack, FreeCurrent, Goto
    <3> QED BY <1>1, <3>1, <3>2, <3>3, <3>4 DEF WorkerStep
  <2>2. CASE w # Worker0
    <3>1. mapped = 0 /\ sem = 0 /\ master = "waiting"
      BY <1>1, <2>2, OthersKeep, SchedAssumption DEF BootInv
    <3>2. \A s : s \notin Live
      <4> SUFFICES ASSUME NEW s \in Live PROVE FALSE
        OBVIOUS
      <4>1. s \in Segs /\ s <= 0
        BY <3>1, LiveFacts
      <4> QED BY <4>1, SegsFacts
    <3>3. cur[w] = NULL /\ next_job[w] = NULL /\ pc[w] \notin {"boot", "panic"}
      BY <2>2, <3>2, HeldIsLive DEF ControlInv, Control
    <3>4. ~BootMainJob(w) /\ ~JobStep(w)
      BY <3>3 DEF BootMainJob, JobStep, Spawn, CallSync, Return, SyncTest, Leave, CheckCounter,
                  SwitchBack, FreeCurrent, Goto, ControlInv, Control, OnJobPC, JobPC, TailPC
    <3>5. mapped' = mapped /\ sem' = sem /\ master' = master
      BY <1>1, <3>4 DEF WorkerStep, StartWorker, PickStep, PickOwn, PopOwn, ChooseVictim, Probe,
                        StealJob, StealNothing, RoundOver, SwitchStep, Reschedule, ResetCurrent
    <3> QED BY <3>1, <3>5
  <2> QED BY <2>1, <2>2
<1>2. CASE MasterReturn \/ UNCHANGED vars
  BY <1>2 DEF BootInv, MasterReturn, vars
<1> QED
  BY <1>1, <1>2 DEF Next, BootInv

\* A deque with a job in it keeps one: a thief never takes the last.
LEMMA PopStep ==
  ASSUME IInv, [Next]_vars
  PROVE  PopFindsWork'
<1> USE DEF IInv, TypeOK, wvars, jvars
<1>1. ASSUME NEW w \in Workers, WorkerStep(w), NEW u \in Workers, pc'[u] = "pop"
      PROVE  Len(deque'[u]) >= 1
  <2>1. \A v \in Workers : deque[v] \in Seq(Segs) /\ Len(deque[v]) \in Nat
    BY ElementFacts
  <2>2. CASE w = u
    <3>1. PickOwn(w) /\ ~isEmpty(w) /\ deque' = deque
      <4>1. CASE StartWorker(w) \/ BootMainJob(w)
        BY <1>1, <2>2, <4>1 DEF StartWorker, BootMainJob, Goto
      <4>2. CASE PickStep(w)
        BY <1>1, <2>2, <4>2 DEF PickStep, PickOwn, PopOwn, ChooseVictim, Probe, StealJob,
                                StealNothing, RoundOver, Goto
      <4>3. CASE SwitchStep(w)
        BY <1>1, <2>2, <4>3 DEF SwitchStep, Reschedule, ResetCurrent, Goto, JobPC
      <4>4. CASE JobStep(w)
        BY <1>1, <2>2, <4>4 DEF JobStep, Spawn, CallSync, Return, SyncTest, Leave, CheckCounter,
                                SwitchBack, FreeCurrent, Goto
      <4> QED BY <1>1, <4>1, <4>2, <4>3, <4>4 DEF WorkerStep
    <3> QED BY <2>1, <2>2, <3>1 DEF isEmpty
  <2>3. CASE w # u
    <3>1. Len(deque[u]) >= 1
      <4>1. pc[u] = "pop"
        BY <1>1, <2>3, OthersKeep
      <4> QED BY <2>1, <4>1, ElementFacts DEF PopFindsWork
    <3>2. deque'[u] = deque[u] \/ (Len(deque[u]) >= 2 /\ deque'[u] = Tail(deque[u]))
      <4>1. CASE StealJob(w)
        BY <4>1 DEF StealJob
      <4>2. CASE BootMainJob(w) \/ PopOwn(w) \/ ResetCurrent(w)
        BY <2>3, <4>2 DEF BootMainJob, PopOwn, ResetCurrent
      <4>3. CASE deque' = deque
        BY <4>3
      <4> QED BY <1>1, <4>1, <4>2, <4>3 DEF WorkerStep, StartWorker, PickStep, PickOwn,
                 ChooseVictim, Probe, StealNothing, RoundOver, SwitchStep, Reschedule, JobStep,
                 Spawn, CallSync, Return, SyncTest, Leave, CheckCounter, SwitchBack, FreeCurrent
    <3>3. CASE Len(deque[u]) >= 2 /\ deque'[u] = Tail(deque[u])
      <4>1. deque[u] # <<>>
        BY <2>1, <3>3, ElementFacts
      <4> QED BY <2>1, <3>3, <4>1, TailFacts
    <3> QED BY <3>1, <3>2, <3>3
  <2> QED BY <2>2, <2>3
<1>2. CASE MasterReturn \/ UNCHANGED vars
  BY <1>2 DEF PopFindsWork, MasterReturn, vars
<1>3. TypeOK'
  BY TypeStep
<1>4. ASSUME NEW w \in Workers, WorkerStep(w) PROVE PopFindsWork'
  <2> SUFFICES ASSUME NEW u \in Workers, pc'[u] = "pop" PROVE deque'[u] # <<>>
    BY DEF PopFindsWork
  <2>1. Len(deque'[u]) >= 1 /\ deque'[u] \in Seq(Segs)
    BY <1>1, <1>3, <1>4
  <2> QED BY <2>1, ElementFacts
<1> QED
  BY <1>2, <1>4 DEF Next

-----------------------------------------------------------------------------
(* Where the segments are.  For each action: the segments that move, and   *)
(* that the others are held as before.                                     *)

\* A segment is held as before, ...
LEMMA HeldAsBefore ==
  ASSUME NEW s \in Segs, HeldOnce(s), s \in Live' <=> s \in Live,
         \A w \in Workers, k \in Kinds : Holds(w, k, s)' <=> Holds(w, k, s)
  PROVE  HeldOnce(s)'
BY DEF HeldOnce

\* ... or at one new place.
LEMMA HeldAnew ==
  ASSUME NEW s \in Segs, s \in Live', NEW b \in Workers, NEW l \in Kinds,
         \A w \in Workers, k \in Kinds : Holds(w, k, s)' <=> w = b /\ k = l
  PROVE  HeldOnce(s)'
BY DEF HeldOnce

\* A segment taken out of the deque of v is held by w as its next job.
LEMMA TakenFromDeque ==
  ASSUME IInv, TypeOK', NEW w \in Workers, NEW v \in Workers, next_job[w] = NULL,
         NEW s \in InSeq(deque[v]), UNCHANGED <<cur, mm, mapped>>,
         Distinct(deque'[v]), InSeq(deque'[v]) = InSeq(deque[v]) \ {s},
         \A u \in Workers : u # v => deque'[u] = deque[u],
         next_job' = [next_job EXCEPT ![w] = s]
  PROVE  PlaceInv'
<1>1. FreeInv'
  BY DEF IInv, PlaceInv, FreeInv
<1>2. s \in Live /\ s \in Segs
  BY HeldIsLive, LiveFacts
<1>3. \A r : r \in Live' <=> r \in Live
  BY DEF Live, Free, InSeq
<1>4. next_job'[w] = s /\ \A u \in Workers : u # w => next_job'[u] = next_job[u]
  BY DEF IInv, TypeOK
<1>5. ASSUME NEW u \in Workers, NEW k \in Kinds, NEW r \in Segs
      PROVE  Holds(u, k, r)' <=> \/ k = "deque" /\ r \in InSeq(deque'[u])
                                 \/ k = "cur" /\ cur[u] = r
                                 \/ k = "next_job" /\ next_job'[u] = r
  BY DEF Holds, InSeq
<1>6. ASSUME NEW r \in Segs PROVE HeldOnce(r)'
  <2>1. HeldOnce(r)
    BY DEF IInv, PlaceInv, HeldInv
  <2>2. CASE r = s
    <3>1. "deque" \in Kinds /\ "next_job" \in Kinds /\ Holds(v, "deque", r)
      BY <2>2 DEF Holds, Kinds
    <3>2. \A u \in Workers, k \in Kinds : Holds(u, k, r) => u = v /\ k = "deque"
      BY <2>1, <3>1 DEF HeldOnce
    <3>3. ASSUME NEW u \in Workers, NEW k \in Kinds
          PROVE  Holds(u, k, r)' <=> u = w /\ k = "next_job"
      <4>1. k = "deque" \/ k = "cur" \/ k = "next_job"
        BY DEF Kinds
      <4>2. r \notin InSeq(deque'[u])
        BY <2>2, <3>1, <3>2 DEF Holds
      <4>3. cur[u] # r
        BY <3>2 DEF Holds, Kinds
      <4>4. next_job'[u] = r <=> u = w
        BY <1>4, <2>2, <3>2 DEF Holds, Kinds
      <4> QED BY <1>5, <4>1, <4>2, <4>3, <4>4
    <3>4. r \in Live' /\ "next_job" \in Kinds
      BY <1>2, <1>3, <2>2, <3>1
    <3> QED BY <3>3, <3>4, HeldAnew
  <2>3. CASE r # s
    <3>1. ASSUME NEW u \in Workers, NEW k \in Kinds PROVE Holds(u, k, r)' <=> Holds(u, k, r)
      <4>1. r \in InSeq(deque'[u]) <=> r \in InSeq(deque[u])
        BY <2>3
      <4>2. next_job'[u] = r <=> next_job[u] = r
        BY <1>4, <2>3, SegsFacts
      <4> QED BY <1>5, <4>1, <4>2 DEF Holds
    <3> QED BY <1>3, <2>1, <3>1, HeldAsBefore
  <2> QED BY <2>2, <2>3
<1>7. \A u \in Workers : Distinct(deque'[u])
  BY DEF IInv, PlaceInv, HeldInv
<1>8. HeldInv'
  BY <1>6, <1>7 DEF HeldInv, Distinct
<1> QED
  BY <1>1, <1>8 DEF PlaceInv

\* Nothing moves.
LEMMA NothingMoves ==
  ASSUME IInv, UNCHANGED <<deque, cur, next_job, mm, mapped>>
  PROVE  PlaceInv'
<1>1. FreeInv'
  BY DEF IInv, PlaceInv, FreeInv
<1>2. \A r : r \in Live' <=> r \in Live
  BY DEF Live, Free, InSeq
<1>3. ASSUME NEW r \in Segs PROVE HeldOnce(r)'
  <2>1. \A u \in Workers, k \in Kinds : Holds(u, k, r)' <=> Holds(u, k, r)
    BY DEF Holds, InSeq
  <2> QED BY <1>2, <2>1, HeldAsBefore DEF IInv, PlaceInv, HeldInv
<1>4. \A u \in Workers : Distinct(deque[u])'
  BY DEF IInv, PlaceInv, HeldInv
<1> QED
  BY <1>1, <1>3, <1>4 DEF PlaceInv, HeldInv

\* A new job is held by its creator: in its deque (the main job) or as its next job.
LEMMA NewJobHeld ==
  ASSUME IInv, NEW w \in Workers, NEW s \in Segs, create_job(w, s), cur' = cur,
         \/ deque' = [deque EXCEPT ![w] = Append(@, s)] /\ next_job' = next_job
         \/ next_job' = [next_job EXCEPT ![w] = s] /\ next_job[w] = NULL /\ deque' = deque
  PROVE  PlaceInv'
<1>1. FreeInv' /\ s \notin Live /\ Live' = Live \cup {s}
  BY CreateFacts
<1>2. /\ \A r \in Segs : HeldOnce(r)
      /\ \A u \in Workers : deque[u] \in Seq(Segs) /\ Distinct(deque[u])
      /\ deque \in [Workers -> Seq(Segs)] /\ next_job \in [Workers -> Segs \cup {NULL}]
  BY DEF IInv, PlaceInv, HeldInv, TypeOK
<1>3. \A u \in Workers, k \in Kinds : ~Holds(u, k, s)
  BY <1>1, <1>2 DEF HeldOnce
<1>4. PICK k0 \in Kinds :
        /\ \A u \in Workers : Distinct(deque'[u])
        /\ \A u \in Workers, k \in Kinds, r \in Segs :
             Holds(u, k, r)' <=> Holds(u, k, r) \/ (r = s /\ u = w /\ k = k0)
  <2>1. CASE deque' = [deque EXCEPT ![w] = Append(@, s)] /\ next_job' = next_job
    <3>1. s \notin InSeq(deque[w])
      BY <1>3 DEF Holds, Kinds
    <3>2. /\ InSeq(Append(deque[w], s)) = InSeq(deque[w]) \cup {s}
          /\ Distinct(Append(deque[w], s))
      BY <1>2, <3>1, AppendFacts
    <3>3. deque'[w] = Append(deque[w], s) /\ \A u \in Workers : u # w => deque'[u] = deque[u]
      BY <1>2, <2>1
    <3>4. \A u \in Workers : Distinct(deque'[u])
      BY <1>2, <3>2, <3>3
    <3>5. ASSUME NEW u \in Workers, NEW k \in Kinds, NEW r \in Segs
          PROVE  Holds(u, k, r)' <=> Holds(u, k, r) \/ (r = s /\ u = w /\ k = "deque")
      <4>1. r \in InSeq(deque'[u]) <=> r \in InSeq(deque[u]) \/ (r = s /\ u = w)
        BY <3>2, <3>3
      <4>2. Holds(u, k, r)' <=> \/ k = "deque" /\ r \in InSeq(deque'[u])
                                \/ k = "cur" /\ cur[u] = r
                                \/ k = "next_job" /\ next_job[u] = r
        BY <2>1 DEF Holds, InSeq
      <4> QED BY <4>1, <4>2 DEF Holds
    <3> QED BY <3>4, <3>5 DEF Kinds
  <2>2. CASE next_job' = [next_job EXCEPT ![w] = s] /\ next_job[w] = NULL /\ deque' = deque
    <3>1. next_job'[w] = s /\ \A u \in Workers : u # w => next_job'[u] = next_job[u]
      BY <1>2, <2>2
    <3>2. \A u \in Workers : Distinct(deque'[u])
      BY <1>2, <2>2
    <3>3. ASSUME NEW u \in Workers, NEW k \in Kinds, NEW r \in Segs
          PROVE  Holds(u, k, r)' <=> Holds(u, k, r) \/ (r = s /\ u = w /\ k = "next_job")
      <4>1. next_job'[u] = r <=> next_job[u] = r \/ (r = s /\ u = w)
        BY <2>2, <3>1, SegsFacts
      <4>2. Holds(u, k, r)' <=> \/ k = "deque" /\ r \in InSeq(deque[u])
                                \/ k = "cur" /\ cur[u] = r
                                \/ k = "next_job" /\ next_job'[u] = r
        BY <2>2 DEF Holds, InSeq
      <4> QED BY <4>1, <4>2 DEF Holds
    <3> QED BY <3>2, <3>3 DEF Kinds
  <2> QED BY <2>1, <2>2
<1>5. ASSUME NEW r \in Segs PROVE HeldOnce(r)'
  <2>1. CASE r = s
    <3>1. \A u \in Workers, k \in Kinds : Holds(u, k, r)' <=> u = w /\ k = k0
      BY <1>3, <1>4, <2>1
    <3>2. r \in Live'
      BY <1>1, <2>1
    <3> QED BY <3>1, <3>2, HeldAnew
  <2>2. CASE r # s
    <3>1. \A u \in Workers, k \in Kinds : Holds(u, k, r)' <=> Holds(u, k, r)
      BY <1>4, <2>2
    <3>2. r \in Live' <=> r \in Live
      BY <1>1, <2>2
    <3> QED BY <1>2, <3>1, <3>2, HeldAsBefore
  <2> QED BY <2>1, <2>2
<1>6. \A u \in Workers : Distinct(deque[u])'
  BY <1>4 DEF Distinct
<1> QED
  BY <1>1, <1>5, <1>6 DEF PlaceInv, HeldInv

\* do_reschedule_reset_current: the next job becomes the current one, and the
\* previous one, if any, the last in the deque.
LEMMA ResetMoves ==
  ASSUME IInv, NEW w \in Workers, ResetCurrent(w)
  PROVE  PlaceInv'
<1> DEFINE n == next_job[w]
           c == cur[w]
<1>0. /\ \A u \in Workers : deque[u] \in Seq(Segs) /\ Distinct(deque[u])
      /\ deque \in [Workers -> Seq(Segs)]
      /\ cur \in [Workers -> Segs \cup {NULL}] /\ next_job \in [Workers -> Segs \cup {NULL}]
      /\ \A r \in Segs : HeldOnce(r)
  BY DEF IInv, TypeOK, PlaceInv, HeldInv
<1>1. n \in Segs /\ n \in Live /\ (c # NULL => c \in Segs /\ c \in Live)
  BY <1>0, HeldIsLive DEF ResetCurrent, Goto, IInv, ControlInv, Control
<1>2. /\ cur'[w] = n /\ next_job'[w] = NULL /\ mm' = mm /\ mapped' = mapped
      /\ \A u \in Workers : u # w => cur'[u] = cur[u] /\ next_job'[u] = next_job[u]
      /\ deque'[w] = IF c = NULL THEN deque[w] ELSE Append(deque[w], c)
      /\ \A u \in Workers : u # w => deque'[u] = deque[u]
  BY <1>0 DEF ResetCurrent
<1>3. FreeInv' /\ \A r : r \in Live' <=> r \in Live
  <2>1. FreeInv'
    BY <1>2 DEF IInv, PlaceInv, FreeInv
  <2>2. \A r : r \in Live' <=> r \in Live
    BY <1>2 DEF Live, Free, InSeq
  <2> QED BY <2>1, <2>2
<1> HIDE DEF n, c
<1>4. /\ Holds(w, "next_job", n) /\ (c # NULL => Holds(w, "cur", c))
      /\ Kinds = {"deque", "cur", "next_job"}
  BY DEF Holds, Kinds, n, c
<1>5. /\ \A u \in Workers, k \in Kinds : Holds(u, k, n) => u = w /\ k = "next_job"
      /\ c # NULL => \A u \in Workers, k \in Kinds : Holds(u, k, c) => u = w /\ k = "cur"
  BY <1>0, <1>1, <1>4 DEF HeldOnce
<1>6. /\ \A u \in Workers : n \notin InSeq(deque[u])
      /\ c # NULL => \A u \in Workers : c \notin InSeq(deque[u])
      /\ c # n
  BY <1>4, <1>5, <1>1, SegsFacts DEF Holds
<1>7. /\ \A u \in Workers : Distinct(deque'[u])
      /\ \A u \in Workers, r \in Segs :
           r \in InSeq(deque'[u]) <=> r \in InSeq(deque[u]) \/ (u = w /\ r = c)
  <2>1. CASE c = NULL
    BY <1>0, <1>2, <2>1, SegsFacts
  <2>2. CASE c # NULL
    <3>1. /\ Distinct(Append(deque[w], c))
          /\ InSeq(Append(deque[w], c)) = InSeq(deque[w]) \cup {c}
      BY <1>0, <1>1, <1>6, <2>2, AppendFacts
    <3> QED BY <1>0, <1>2, <2>2, <3>1
  <2> QED BY <2>1, <2>2
<1>8. ASSUME NEW u \in Workers, NEW k \in Kinds, NEW r \in Segs
      PROVE  Holds(u, k, r)' <=> \/ k = "deque" /\ r \in InSeq(deque'[u])
                                 \/ k = "cur" /\ cur'[u] = r
                                 \/ k = "next_job" /\ next_job'[u] = r
  BY DEF Holds, InSeq
<1>9. ASSUME NEW r \in Segs PROVE HeldOnce(r)'
  <2>1. CASE r = n
    <3>1. ASSUME NEW u \in Workers, NEW k \in Kinds PROVE Holds(u, k, r)' <=> u = w /\ k = "cur"
      <4>1. r \notin InSeq(deque'[u])
        BY <1>6, <1>7, <2>1
      <4>2. cur'[u] = r <=> u = w
        BY <1>2, <1>4, <1>5, <2>1 DEF Holds
      <4>3. next_job'[u] # r
        BY <1>1, <1>2, <1>4, <1>5, <2>1, SegsFacts DEF Holds
      <4> QED BY <1>4, <1>8, <4>1, <4>2, <4>3
    <3>2. r \in Live' /\ "cur" \in Kinds
      BY <1>1, <1>3, <1>4, <2>1
    <3> QED BY <3>1, <3>2, HeldAnew
  <2>2. CASE r = c
    <3>0. c # NULL
      BY <2>2, SegsFacts
    <3>1. ASSUME NEW u \in Workers, NEW k \in Kinds PROVE Holds(u, k, r)' <=> u = w /\ k = "deque"
      <4>1. r \in InSeq(deque'[u]) <=> u = w
        BY <1>6, <1>7, <2>2, <3>0
      <4>2. cur'[u] # r
        BY <1>2, <1>4, <1>5, <1>6, <2>2, <3>0 DEF Holds
      <4>3. next_job'[u] # r
        BY <1>2, <1>4, <1>5, <2>2, <3>0, SegsFacts DEF Holds
      <4> QED BY <1>4, <1>8, <4>1, <4>2, <4>3
    <3>2. r \in Live' /\ "deque" \in Kinds
      BY <1>1, <1>3, <1>4, <2>2, <3>0
    <3> QED BY <3>1, <3>2, HeldAnew
  <2>3. CASE r # n /\ r # c
    <3>1. ASSUME NEW u \in Workers, NEW k \in Kinds PROVE Holds(u, k, r)' <=> Holds(u, k, r)
      <4>1. r \in InSeq(deque'[u]) <=> r \in InSeq(deque[u])
        BY <1>7, <2>3
      <4>2. cur'[u] = r <=> cur[u] = r
        BY <1>2, <2>3 DEF c
      <4>3. next_job'[u] = r <=> next_job[u] = r
        BY <1>2, <2>3, SegsFacts DEF n
      <4> QED BY <1>8, <4>1, <4>2, <4>3 DEF Holds
    <3> QED BY <1>0, <1>3, <3>1, HeldAsBefore
  <2> QED BY <2>1, <2>2, <2>3
<1>10. \A u \in Workers : Distinct(deque[u])'
  BY <1>7 DEF Distinct
<1> QED
  BY <1>3, <1>9, <1>10 DEF PlaceInv, HeldInv

\* free_current: the current job's segment goes into the worker's free list.
LEMMA FreeMoves ==
  ASSUME IInv, NEW w \in Workers, FreeCurrent(w)
  PROVE  PlaceInv'
<1>0. /\ cur \in [Workers -> Segs \cup {NULL}]
      /\ \A r \in Segs : HeldOnce(r)
  BY DEF IInv, TypeOK, PlaceInv, HeldInv
<1>1. cur[w] # NULL /\ cur[w] \in Segs /\ cur[w] \in Live
  BY <1>0, HeldIsLive DEF FreeCurrent, Goto, IInv, ControlInv, Control
<1>2. FreeInv' /\ Live' = Live \ {cur[w]}
  BY <1>1, FreeFacts DEF FreeCurrent, IInv, PlaceInv
<1>3. /\ cur'[w] = NULL /\ \A u \in Workers : u # w => cur'[u] = cur[u]
      /\ deque' = deque /\ next_job' = next_job
  BY <1>0 DEF FreeCurrent
<1>4. Holds(w, "cur", cur[w]) /\ "cur" \in Kinds
  BY DEF Holds, Kinds
<1>5. \A u \in Workers, k \in Kinds : Holds(u, k, cur[w]) => u = w /\ k = "cur"
  BY <1>0, <1>1, <1>4 DEF HeldOnce
<1>6. ASSUME NEW u \in Workers, NEW k \in Kinds, NEW r \in Segs
      PROVE  Holds(u, k, r)' <=> Holds(u, k, r) /\ r # cur[w]
  <2>1. Holds(u, k, r)' <=> \/ k = "deque" /\ r \in InSeq(deque[u])
                            \/ k = "cur" /\ cur'[u] = r
                            \/ k = "next_job" /\ next_job[u] = r
    BY <1>3 DEF Holds, InSeq
  <2>2. CASE u = w
    BY <1>1, <1>3, <1>5, <2>1, <2>2, SegsFacts DEF Holds, Kinds
  <2>3. CASE u # w
    BY <1>3, <1>5, <2>1, <2>3 DEF Holds
  <2> QED BY <2>2, <2>3
<1>7. ASSUME NEW r \in Segs PROVE HeldOnce(r)'
  <2>1. CASE r = cur[w]
    BY <1>2, <1>6, <2>1 DEF HeldOnce
  <2>2. CASE r # cur[w]
    BY <1>0, <1>2, <1>6, <2>2 DEF HeldOnce
  <2> QED BY <2>1, <2>2
<1>8. \A u \in Workers : Distinct(deque[u])'
  BY <1>3 DEF IInv, PlaceInv, HeldInv
<1> QED
  BY <1>2, <1>7, <1>8 DEF PlaceInv, HeldInv

\* Every step keeps each live job in one place: a deque, or a worker's hands.
LEMMA PlaceStep ==
  ASSUME IInv, [Next]_vars
  PROVE  PlaceInv'
<1> USE DEF wvars, jvars
<1>1. ASSUME NEW w \in Workers, BootMainJob(w) PROVE PlaceInv'
  BY <1>1, NewJobHeld DEF BootMainJob
<1>2. ASSUME NEW w \in Workers, PopOwn(w) PROVE PlaceInv'
  <2>1. deque[w] \in Seq(Segs) /\ Len(deque[w]) >= 1 /\ Distinct(deque[w])
    BY <1>2, PopFacts DEF IInv, PlaceInv, HeldInv
  <2>2. next_job[w] = NULL /\ deque \in [Workers -> Seq(Segs)]
    BY <1>2 DEF PopOwn, Goto, IInv, TypeOK, ControlInv, Control, LookingPC
  <2> DEFINE s == deque[w][Len(deque[w])]
             f == SubSeq(deque[w], 1, Len(deque[w]) - 1)
  <2>3. s \in InSeq(deque[w]) /\ Distinct(f) /\ InSeq(f) = InSeq(deque[w]) \ {s}
    BY <2>1, FrontFacts
  <2>4. /\ next_job' = [next_job EXCEPT ![w] = s] /\ deque' = [deque EXCEPT ![w] = f]
        /\ UNCHANGED <<cur, mm, mapped>>
    BY <1>2 DEF PopOwn
  <2> HIDE DEF s, f
  <2>5. deque'[w] = f /\ \A u \in Workers : u # w => deque'[u] = deque[u]
    BY <2>2, <2>4
  <2> QED BY <2>2, <2>3, <2>4, <2>5, TypeStep, TakenFromDeque
<1>3. ASSUME NEW w \in Workers, StealJob(w) PROVE PlaceInv'
  <2> DEFINE v == victim[w]
             s == Head(deque[v])
  <2>1. v \in Workers /\ next_job[w] = NULL /\ deque \in [Workers -> Seq(Segs)]
    BY <1>3 DEF StealJob, Goto, IInv, TypeOK, ThiefInv, ControlInv, Control, LookingPC
  <2>2. deque[v] \in Seq(Segs) /\ deque[v] # <<>> /\ Distinct(deque[v])
    BY <1>3, <2>1, ElementFacts DEF StealJob, IInv, PlaceInv, HeldInv
  <2>3. s \in InSeq(deque[v]) /\ Distinct(Tail(deque[v]))
        /\ InSeq(Tail(deque[v])) = InSeq(deque[v]) \ {s}
    BY <2>2, TailFacts
  <2>4. /\ next_job' = [next_job EXCEPT ![w] = s] /\ deque' = [deque EXCEPT ![v] = Tail(deque[v])]
        /\ UNCHANGED <<cur, mm, mapped>>
    BY <1>3 DEF StealJob
  <2> HIDE DEF s, v
  <2>5. deque'[v] = Tail(deque[v]) /\ \A u \in Workers : u # v => deque'[u] = deque[u]
    BY <2>1, <2>4
  <2> QED BY <2>1, <2>3, <2>4, <2>5, TypeStep, TakenFromDeque
<1>4. ASSUME NEW w \in Workers, Spawn(w) PROVE PlaceInv'
  <2>1. next_job[w] = NULL /\ cur' = cur /\ deque' = deque
    BY <1>4 DEF Spawn, IInv, ControlInv, Control, OnJobPC, JobPC
  <2> QED BY <1>4, <2>1, NewJobHeld DEF Spawn
<1>5. ASSUME NEW w \in Workers, ResetCurrent(w) PROVE PlaceInv'
  BY <1>5, ResetMoves
<1>6. ASSUME NEW w \in Workers, FreeCurrent(w) PROVE PlaceInv'
  BY <1>6, FreeMoves
<1>7. ASSUME NEW w \in Workers, StartWorker(w) \/ Reschedule(w) PROVE PlaceInv'
  BY <1>7, NothingMoves DEF StartWorker, Reschedule
<1>8. ASSUME NEW w \in Workers,
             PickOwn(w) \/ ChooseVictim(w) \/ Probe(w) \/ StealNothing(w) \/ RoundOver(w)
      PROVE  PlaceInv'
  BY <1>8, NothingMoves DEF PickOwn, ChooseVictim, Probe, StealNothing, RoundOver
<1>9. ASSUME NEW w \in Workers,
             CallSync(w) \/ Return(w) \/ SyncTest(w) \/ Leave(w) \/ CheckCounter(w) \/ SwitchBack(w)
      PROVE  PlaceInv'
  BY <1>9, NothingMoves DEF CallSync, Return, SyncTest, Leave, CheckCounter, SwitchBack
<1>10. CASE MasterReturn \/ UNCHANGED vars
  BY <1>10, NothingMoves DEF MasterReturn, vars
<1> QED
  BY <1>1, <1>2, <1>3, <1>4, <1>5, <1>6, <1>7, <1>8, <1>9, <1>10
  DEF Next, WorkerStep, PickStep, SwitchStep, JobStep

-----------------------------------------------------------------------------
(* The tree of unfinished jobs.  Only create_job adds one to it and only   *)
(* Leave takes one away.                                                   *)

\* A job is unfinished until it has counted itself off from its parent.
LEMMA UnfinishedFacts ==
  \A s : s \in Unfinished <=>
    s \in Live /\ \A u \in Workers : ~(cur[u] = s /\ pc[u] \in TailPC)
BY DEF Unfinished, CountedOff

\* A job that a worker holds is unfinished, until that worker counts it off.
LEMMA HeldIsUnfinished ==
  ASSUME IInv, NEW w \in Workers
  PROVE  /\ cur[w] # NULL /\ pc[w] \notin TailPC => cur[w] \in Unfinished
         /\ next_job[w] # NULL => next_job[w] \in Unfinished
         /\ \A s \in InSeq(deque[w]) : s \in Unfinished
<1>1. ASSUME NEW s \in Live, NEW k \in Kinds, Holds(w, k, s), NEW u \in Workers, cur[u] = s
      PROVE  u = w /\ k = "cur"
  <2>1. Holds(u, "cur", s) /\ "cur" \in Kinds /\ s \in Segs
    BY <1>1, LiveFacts DEF Holds, Kinds
  <2> QED BY <1>1, <2>1 DEF IInv, PlaceInv, HeldInv, HeldOnce
<1>2. /\ cur[w] # NULL => cur[w] \in Live
      /\ next_job[w] # NULL => next_job[w] \in Live
      /\ \A s \in InSeq(deque[w]) : s \in Live
  BY HeldIsLive
<1> QED
  BY <1>1, <1>2, UnfinishedFacts DEF Holds, Kinds

\* Two workers never have the same current job.
LEMMA CurDistinct ==
  ASSUME IInv, NEW w \in Workers, NEW u \in Workers, cur[w] # NULL, cur[w] = cur[u]
  PROVE  w = u
<1>1. cur[w] \in Segs
  BY HeldIsLive, LiveFacts
<1> QED
  BY <1>1 DEF IInv, PlaceInv, HeldInv, HeldOnce, Holds, Kinds

\* A job that is live as before, and whose standing with w is as before.
LEMMA UnfinishedKept ==
  ASSUME NEW w \in Workers, NEW s, s \in Live' <=> s \in Live,
         \A u \in Workers : u # w => cur'[u] = cur[u] /\ pc'[u] = pc[u],
         cur'[w] = s /\ pc'[w] \in TailPC <=> cur[w] = s /\ pc[w] \in TailPC
  PROVE  s \in Unfinished' <=> s \in Unfinished
<1>1. s \in Unfinished' <=>
        s \in Live' /\ \A u \in Workers : ~(cur'[u] = s /\ pc'[u] \in TailPC)
  BY DEF Unfinished, CountedOff
<1>2. \A u \in Workers : cur'[u] = s /\ pc'[u] \in TailPC <=> cur[u] = s /\ pc[u] \in TailPC
  OBVIOUS
<1> QED
  BY <1>1, <1>2, UnfinishedFacts

\* A step that neither creates a job nor counts one off.
LEMMA TreeKeeps ==
  ASSUME IInv, NEW w \in Workers, WorkerStep(w), ~BootMainJob(w), ~Spawn(w), ~Leave(w)
  PROVE  /\ \A s : s \in Unfinished' <=> s \in Unfinished
         /\ parent' = parent /\ join_counter' = join_counter
         /\ sem' = sem /\ master' = master
<1> USE DEF IInv, TypeOK, wvars, jvars, TailPC, JobPC
<1>1. /\ parent' = parent /\ join_counter' = join_counter /\ sem' = sem /\ master' = master
  <2>1. CASE StartWorker(w) \/ PickStep(w) \/ SwitchStep(w)
    BY <2>1 DEF StartWorker, PickStep, PickOwn, PopOwn, ChooseVictim, Probe, StealJob,
                StealNothing, RoundOver, SwitchStep, Reschedule, ResetCurrent
  <2>2. CASE JobStep(w)
    BY <2>2 DEF JobStep, CallSync, Return, SyncTest, CheckCounter, SwitchBack, FreeCurrent
  <2> QED BY <2>1, <2>2 DEF WorkerStep
<1>2. \A s : s \in Unfinished' <=>
        s \in Live' /\ \A u \in Workers : ~(cur'[u] = s /\ pc'[u] \in TailPC)
  BY DEF Unfinished, CountedOff
<1>3. \A u \in Workers : u # w => cur'[u] = cur[u] /\ pc'[u] = pc[u]
  BY OthersKeep
<1>4. CASE FreeCurrent(w)
  <2>1. pc[w] = "free" /\ pc'[w] = "pick" /\ cur[w] # NULL /\ cur[w] \in Live
    BY <1>4, HeldIsLive DEF FreeCurrent, Goto, ControlInv, Control
  <2>2. Live' = Live \ {cur[w]}
    BY <1>4, <2>1, FreeFacts DEF FreeCurrent, PlaceInv
  <2>4. pc[w] \in TailPC /\ pc'[w] \notin TailPC
    BY <2>1
  <2>5. ASSUME NEW s PROVE s \in Unfinished' <=> s \in Unfinished
    <3> USE ONLY <1>2, <1>3, <2>2, <2>4
    <3>1. CASE s = cur[w]
      BY <3>1, UnfinishedFacts
    <3>2. CASE s # cur[w]
      BY <3>2, UnfinishedKept
    <3> QED BY <3>1, <3>2
  <2> QED BY <1>1, <2>5
<1>5. CASE ~FreeCurrent(w)
  <2>1. UNCHANGED <<mm, mapped>>
    BY <1>5 DEF WorkerStep, StartWorker, PickStep, PickOwn, PopOwn, ChooseVictim, Probe,
                StealJob, StealNothing, RoundOver, SwitchStep, Reschedule, ResetCurrent, JobStep,
                CallSync, Return, SyncTest, CheckCounter, SwitchBack
  <2>2. \A s : s \in Live' <=> s \in Live
    BY <2>1 DEF Live, Free, InSeq
  <2>3. \/ cur'[w] = cur[w] /\ (pc'[w] \in TailPC <=> pc[w] \in TailPC)
        \/ pc'[w] \notin TailPC /\ pc[w] \notin TailPC
    <3>1. CASE StartWorker(w) \/ PickStep(w)
      BY <3>1 DEF StartWorker, PickStep, PickOwn, PopOwn, ChooseVictim, Probe, StealJob,
                  StealNothing, RoundOver, Goto
    <3>2. CASE SwitchStep(w)
      BY <3>2 DEF SwitchStep, Reschedule, ResetCurrent, Goto
    <3>3. CASE CallSync(w) \/ Return(w) \/ SyncTest(w)
      BY <3>3 DEF CallSync, Return, SyncTest, Goto
    <3>4. CASE CheckCounter(w)
      <4>1. ControlInv'
        BY ControlStep DEF Next
      <4>2. pc[w] = "check" /\ pc'[w] = "back" /\ cur' = cur
        BY <3>4, <4>1 DEF CheckCounter, Goto, ControlInv, Control
      <4> QED BY <4>2
    <3>5. CASE SwitchBack(w)
      BY <3>5 DEF SwitchBack, Goto
    <3> QED BY <1>5, <3>1, <3>2, <3>3, <3>4, <3>5 DEF WorkerStep, JobStep
  <2>4. ASSUME NEW s PROVE s \in Unfinished' <=> s \in Unfinished
    <3> USE ONLY <1>3, <2>2, <2>3
    <3> QED BY UnfinishedKept
  <2> QED BY <1>1, <2>4
<1> QED
  BY <1>1, <1>4, <1>5

\* A step that creates the job s: the main job while there is none, or a child
\* of the worker's current job, which is unfinished.
LEMMA TreeGrows ==
  ASSUME IInv, NEW w \in Workers, NEW s \in Segs, create_job(w, s),
         BootMainJob(w) \/ Spawn(w)
  PROVE  /\ s \notin Unfinished /\ Unfinished' = Unfinished \cup {s}
         /\ parent'[s] = cur[w] /\ \A r \in Unfinished : parent'[r] = parent[r]
         /\ \/ cur[w] \in Unfinished
            \/ cur[w] = NULL /\ Unfinished = {} /\ sem = 0 /\ master = "waiting"
         /\ sem' = sem /\ master' = master
<1> USE DEF IInv, TypeOK, wvars, jvars, TailPC, JobPC
<1>1. /\ s \notin Live /\ Live' = Live \cup {s}
      /\ parent'[s] = cur[w] /\ \A b \in Segs : b # s => parent'[b] = parent[b]
  BY CreateFacts
<1>2. /\ pc[w] \notin TailPC /\ pc'[w] \notin TailPC /\ cur' = cur
      /\ sem' = sem /\ master' = master
  BY DEF BootMainJob, Spawn, Goto
<1>3. \A u \in Workers : u # w => pc'[u] = pc[u]
  BY OthersKeep DEF WorkerStep, JobStep
<1>4. \A u \in Workers : cur[u] # s
  BY <1>1, HeldIsLive, SegsFacts
<1>5. \A r : r \in Unfinished' <=>
        r \in Live' /\ \A u \in Workers : ~(cur'[u] = r /\ pc'[u] \in TailPC)
  BY DEF Unfinished, CountedOff
<1>6. ASSUME NEW r PROVE r \in Unfinished' <=> r \in Unfinished \cup {s}
  <2> USE ONLY <1>1, <1>2, <1>3, <1>4, <1>5
  <2>1. CASE r = s
    BY <2>1
  <2>2. CASE r # s
    BY <2>2, UnfinishedKept
  <2> QED BY <2>1, <2>2
<1>7. \A r \in Unfinished : r \in Segs /\ r # s
  BY <1>1, UnfinishedFacts, LiveFacts
<1>8. \/ cur[w] \in Unfinished
      \/ cur[w] = NULL /\ Unfinished = {} /\ sem = 0 /\ master = "waiting"
  <2>1. CASE Spawn(w)
    BY <1>2, <2>1, HeldIsUnfinished DEF Spawn, ControlInv, Control, OnJobPC
  <2>2. CASE BootMainJob(w)
    <3>1. cur[w] = NULL /\ w = Worker0 /\ mapped = 0 /\ sem = 0 /\ master = "waiting"
      BY <2>2 DEF BootMainJob, Goto, ControlInv, Control, BootInv
    <3>2. ASSUME NEW r \in Unfinished PROVE FALSE
      <4>1. r \in Segs /\ r <= 0
        BY <3>1, UnfinishedFacts, LiveFacts
      <4> QED BY <4>1, SegsFacts
    <3> QED BY <3>1, <3>2
  <2> QED BY <2>1, <2>2
<1> QED
  BY <1>1, <1>2, <1>6, <1>7, <1>8

\* A step that counts the job c off: it has no children left.
LEMMA TreeShrinks ==
  ASSUME IInv, NEW w \in Workers, Leave(w)
  PROVE  /\ cur[w] \in Unfinished /\ Children(cur[w]) = {} /\ resume[cur[w]] = "cleanup"
         /\ \A s : s \in Unfinished' <=> s \in Unfinished /\ s # cur[w]
         /\ parent' = parent /\ cur' = cur /\ master' = master
<1> USE DEF IInv, TypeOK, wvars, jvars, TailPC, JobPC
<1>1. /\ pc[w] = "leave" /\ pc'[w] \in TailPC /\ parent' = parent /\ cur' = cur /\ master' = master
      /\ UNCHANGED <<mm, mapped>>
  BY DEF Leave
<1>2. cur[w] # NULL /\ resume[cur[w]] = "cleanup" /\ Children(cur[w]) = {}
  BY <1>1 DEF ControlInv, Control, OnJobPC, CountInv
<1>3. cur[w] \in Unfinished
  BY <1>1, <1>2, HeldIsUnfinished
<1>4. \A u \in Workers : u # w => pc'[u] = pc[u]
  BY OthersKeep DEF WorkerStep, JobStep
<1>5. \A s : s \in Live' <=> s \in Live
  BY <1>1 DEF Live, Free, InSeq
<1>6. \A s : s \in Unfinished' <=>
        s \in Live' /\ \A u \in Workers : ~(cur'[u] = s /\ pc'[u] \in TailPC)
  BY DEF Unfinished, CountedOff
<1>7. ASSUME NEW s PROVE s \in Unfinished' <=> s \in Unfinished /\ s # cur[w]
  <2> USE ONLY <1>1, <1>4, <1>5, <1>6
  <2>1. CASE s = cur[w]
    BY <2>1
  <2>2. CASE s # cur[w]
    BY <2>2, UnfinishedKept
  <2> QED BY <2>1, <2>2
<1> QED
  BY <1>1, <1>2, <1>3, <1>7

\* Every step keeps the tree of unfinished jobs.
LEMMA TreeStep ==
  ASSUME IInv, [Next]_vars
  PROVE  TreeInv'
<1> DEFINE Tree(U, p, busy) ==
      /\ \A s \in U : p[s] \in U \cup {NULL}
      /\ \A X \in SUBSET U : X # {} => \E s \in X : p[s] \notin X
      /\ \A s, r \in U : p[s] = NULL /\ p[r] = NULL => s = r
      /\ \A s \in U : p[s] = NULL => busy
<1>1. /\ Tree(Unfinished, parent, sem = 0 /\ master = "waiting")
      /\ TreeInv' <=> Tree(Unfinished', parent', sem' = 0 /\ master' = "waiting")
  BY DEF IInv, TreeInv
<1>2. Unfinished \subseteq Segs /\ NULL \notin Segs
  BY UnfinishedFacts, LiveFacts, SegsFacts
<1>3. ASSUME NEW w \in Workers, WorkerStep(w), ~BootMainJob(w), ~Spawn(w), ~Leave(w)
      PROVE  TreeInv'
  <2>1. /\ Unfinished' = Unfinished /\ parent' = parent /\ sem' = sem /\ master' = master
    BY <1>3, TreeKeeps
  <2> QED BY <1>1, <2>1
<1>4. ASSUME NEW w \in Workers, BootMainJob(w) \/ Spawn(w)
      PROVE  TreeInv'
  <2> DEFINE U == Unfinished
  <2>1. PICK s \in Segs : create_job(w, s)
    BY <1>4 DEF BootMainJob, Spawn
  <2>2. /\ s \notin U /\ Unfinished' = U \cup {s}
        /\ parent'[s] = cur[w] /\ \A r \in U : parent'[r] = parent[r]
        /\ \/ cur[w] \in U
           \/ cur[w] = NULL /\ U = {} /\ sem = 0 /\ master = "waiting"
        /\ sem' = sem /\ master' = master
    BY <1>4, <2>1, TreeGrows
  <2> HIDE DEF U
  <2>3. Tree(U, parent, sem = 0 /\ master = "waiting") /\ NULL \notin U /\ s # NULL
    BY <1>1, <1>2 DEF U
  <2>4. \A r \in U \cup {s} : parent'[r] \in U \cup {s} \cup {NULL}
    BY <2>2, <2>3
  <2>5. ASSUME NEW X \in SUBSET (U \cup {s}), X # {} PROVE \E r \in X : parent'[r] \notin X
    <3>1. CASE X = {s}
      BY <2>2, <2>3, <3>1
    <3>2. CASE X # {s}
      <4>1. X \ {s} \in SUBSET U /\ X \ {s} # {}
        BY <2>5, <3>2
      <4>2. PICK r \in X \ {s} : parent[r] \notin X \ {s}
        BY <2>3, <4>1
      <4>3. r \in U /\ parent'[r] = parent[r] /\ parent[r] # s
        BY <2>2, <2>3, <4>1
      <4> QED BY <4>2, <4>3
    <3> QED BY <3>1, <3>2
  <2>6. \A r, q \in U \cup {s} : parent'[r] = NULL /\ parent'[q] = NULL => r = q
    BY <2>2, <2>3
  <2>7. \A r \in U \cup {s} : parent'[r] = NULL => sem' = 0 /\ master' = "waiting"
    BY <2>2, <2>3
  <2>8. Tree(U \cup {s}, parent', sem' = 0 /\ master' = "waiting")
    BY <2>4, <2>5, <2>6, <2>7
  <2> QED BY <1>1, <2>2, <2>8
<1>5. ASSUME NEW w \in Workers, Leave(w)
      PROVE  TreeInv'
  <2> DEFINE U == Unfinished
             c == cur[w]
  <2>1. /\ c \in U /\ Unfinished' = U \ {c} /\ parent' = parent /\ master' = master
        /\ \A r \in U : parent[r] # c
    BY <1>5, TreeShrinks DEF Children
  <2>2. IF parent[c] # NULL THEN sem' = sem ELSE sem' = sem + 1
    BY <1>5 DEF Leave
  <2> HIDE DEF U, c
  <2>3. Tree(U, parent, sem = 0 /\ master = "waiting")
    BY <1>1 DEF U
  <2>4. /\ \A s \in U \ {c} : parent[s] \in (U \ {c}) \cup {NULL}
        /\ \A s, r \in U \ {c} : parent[s] = NULL /\ parent[r] = NULL => s = r
    BY <2>1, <2>3
  <2>5. \A X \in SUBSET (U \ {c}) : X # {} => \E s \in X : parent[s] \notin X
    BY <2>3
  <2>6. \A s \in U \ {c} : parent[s] = NULL => sem' = 0 /\ master = "waiting"
    BY <2>1, <2>2, <2>3
  <2>7. Tree(U \ {c}, parent', sem' = 0 /\ master' = "waiting")
    BY <2>1, <2>4, <2>5, <2>6
  <2> QED BY <1>1, <2>1, <2>7
<1>6. CASE MasterReturn
  <2>1. /\ UNCHANGED <<mm, mapped, cur, pc, parent>> /\ sem \in Nat /\ sem > 0
    BY <1>6 DEF MasterReturn, wvars, jvars, IInv, TypeOK
  <2>2. \A s : s \in Unfinished' <=> s \in Unfinished
    BY <2>1 DEF Unfinished, Live, Free, InSeq, CountedOff
  <2> QED BY <1>1, <2>1, <2>2
<1>7. CASE UNCHANGED vars
  <2>1. \A s : s \in Unfinished' <=> s \in Unfinished
    BY <1>7 DEF vars, wvars, jvars, Unfinished, Live, Free, InSeq, CountedOff
  <2>2. parent' = parent /\ sem' = sem /\ master' = master
    BY <1>7 DEF vars, jvars
  <2> QED BY <1>1, <2>1, <2>2
<1> QED
  BY <1>3, <1>4, <1>5, <1>6, <1>7 DEF Next

-----------------------------------------------------------------------------
(* The counters *)

\* Only SyncTest brings a worker to "leave", when the counter is zero.
LEMMA LeaveAfterTest ==
  ASSUME IInv, NEW w \in Workers, WorkerStep(w), pc'[w] = "leave"
  PROVE  SyncTest(w) /\ cur' = cur /\ Children(cur[w]) = {}
<1> USE DEF IInv, TypeOK, wvars, jvars, JobPC
<1>1. SyncTest(w)
  <2>1. CASE StartWorker(w) \/ BootMainJob(w)
    BY <2>1 DEF StartWorker, BootMainJob, Goto
  <2>2. CASE PickStep(w)
    BY <2>2 DEF PickStep, PickOwn, PopOwn, ChooseVictim, Probe, StealJob, StealNothing,
                RoundOver, Goto
  <2>3. CASE SwitchStep(w)
    BY <2>3 DEF SwitchStep, Reschedule, ResetCurrent, Goto
  <2>4. CASE Spawn(w) \/ CallSync(w) \/ Return(w) \/ Leave(w)
    BY <2>4 DEF Spawn, CallSync, Return, Leave, Goto
  <2>5. CASE CheckCounter(w) \/ SwitchBack(w) \/ FreeCurrent(w)
    BY <2>5 DEF CheckCounter, SwitchBack, FreeCurrent, Goto
  <2> QED BY <2>1, <2>2, <2>3, <2>4, <2>5 DEF WorkerStep, JobStep
<1>2. cur' = cur /\ cur[w] \in Segs /\ join_counter[cur[w]] = 0
  BY <1>1 DEF SyncTest, ControlInv, Control, OnJobPC
<1>3. IsFiniteSet(Children(cur[w])) /\ Cardinality(Children(cur[w])) = 0
  BY <1>2, CountersNotNegative DEF CountInv
<1> QED
  BY <1>1, <1>2, <1>3, FS_EmptySet

\* Every step keeps the join counters equal to the children not counted off.
LEMMA CountStep ==
  ASSUME IInv, [Next]_vars
  PROVE  CountInv'
<1>0. /\ \A b \in Segs : join_counter[b] = Cardinality(Children(b))
      /\ \A w \in Workers : pc[w] = "leave" => Children(cur[w]) = {}
      /\ \A b \in Segs : IsFiniteSet(Children(b))
      /\ \A s \in Unfinished : parent[s] \in Unfinished \cup {NULL}
      /\ Unfinished \subseteq Segs /\ NULL \notin Segs
  BY CountersNotNegative, UnfinishedFacts, LiveFacts, SegsFacts DEF IInv, CountInv, TreeInv
<1>1. ASSUME \A b \in Segs \cup {NULL} : Children(b)' = Children(b), join_counter' = join_counter,
             \A u \in Workers : \/ pc'[u] = "leave" => pc[u] = "leave" /\ cur'[u] = cur[u]
                                \/ cur'[u] = cur[u] /\ Children(cur[u]) = {},
             \A u \in Workers : cur[u] \in Segs \cup {NULL}
      PROVE  CountInv'
  BY <1>0, <1>1 DEF CountInv
<1>2. \A u \in Workers : cur[u] \in Segs \cup {NULL}
  BY DEF IInv, TypeOK
<1>3. ASSUME NEW w \in Workers, WorkerStep(w), ~BootMainJob(w), ~Spawn(w), ~Leave(w)
      PROVE  CountInv'
  <2>1. Unfinished' = Unfinished /\ parent' = parent /\ join_counter' = join_counter
    BY <1>3, TreeKeeps
  <2>2. \A b : Children(b)' = Children(b)
    BY <2>1 DEF Children
  <2>3. \A u \in Workers : u # w => pc'[u] = pc[u] /\ cur'[u] = cur[u]
    BY <1>3, OthersKeep
  <2>4. pc'[w] = "leave" => cur'[w] = cur[w] /\ Children(cur[w]) = {}
    BY <1>3, LeaveAfterTest
  <2> QED BY <1>1, <1>2, <2>1, <2>2, <2>3, <2>4
<1>4. ASSUME NEW w \in Workers, BootMainJob(w) \/ Spawn(w)
      PROVE  CountInv'
  <2>1. PICK s \in Segs : create_job(w, s)
    BY <1>4 DEF BootMainJob, Spawn
  <2>2. /\ s \notin Unfinished /\ Unfinished' = Unfinished \cup {s}
        /\ parent'[s] = cur[w] /\ \A r \in Unfinished : parent'[r] = parent[r]
        /\ cur[w] \in Unfinished \/ cur[w] = NULL
    BY <1>4, <2>1, TreeGrows
  <2>3. /\ join_counter'[s] = 0
        /\ \A b \in Segs : b # s =>
             join_counter'[b] = join_counter[b] + IF b = cur[w] THEN 1 ELSE 0
    BY <2>1, CreateFacts
  <2>4. \A b : Children(b)' = {r \in Unfinished' : parent'[r] = b}
    BY DEF Children
  <2>5. Children(s)' = {}
    BY <1>0, <2>2, <2>4
  <2>6. \A b \in Segs : b # s => Children(b)' = Children(b) \cup IF b = cur[w] THEN {s} ELSE {}
    BY <2>2, <2>4 DEF Children
  <2>7. ASSUME NEW b \in Segs PROVE join_counter'[b] = Cardinality(Children(b)')
    <3>1. CASE b = s
      BY <2>3, <2>5, <3>1, FS_EmptySet
    <3>2. CASE b # s /\ b = cur[w]
      <4>1. Children(b)' = Children(b) \cup {s} /\ s \notin Children(b)
        BY <2>2, <2>6, <3>2 DEF Children
      <4>2. Cardinality(Children(b) \cup {s}) = Cardinality(Children(b)) + 1
        BY <1>0, <4>1, FS_AddElement
      <4> QED BY <1>0, <2>3, <3>2, <4>1, <4>2
    <3>3. CASE b # s /\ b # cur[w]
      <4>1. Children(b)' = Children(b)
        BY <2>6, <3>3
      <4>2. join_counter'[b] = join_counter[b] + 0 /\ join_counter[b] \in Int
        BY <2>3, <3>3 DEF IInv, TypeOK
      <4> QED BY <1>0, <4>1, <4>2
    <3> QED BY <3>1, <3>2, <3>3
  <2>8. ASSUME NEW u \in Workers, pc'[u] = "leave" PROVE Children(cur[u])' = {}
    <3>1. WorkerStep(w) /\ ~SyncTest(w)
      BY <1>4 DEF WorkerStep, JobStep, BootMainJob, Spawn, SyncTest, Goto
    <3>2. u # w
      BY <2>8, <3>1, LeaveAfterTest
    <3>3. pc[u] = "leave" /\ cur'[u] = cur[u]
      BY <2>8, <3>1, <3>2, OthersKeep
    <3>4. cur[u] # NULL /\ cur[u] \in Segs
      BY <3>3 DEF IInv, ControlInv, Control, OnJobPC, TypeOK
    <3>5. cur[u] # s /\ cur[u] # cur[w]
      <4>1. cur[u] \in Unfinished
        BY <3>3, <3>4, HeldIsUnfinished DEF TailPC
      <4> QED BY <2>2, <3>2, <3>4, <4>1, CurDistinct
    <3>6. Children(cur[u])' = {r \in Unfinished' : parent'[r] = cur[u]}
      BY <3>3 DEF Children
    <3> QED BY <1>0, <2>4, <2>6, <3>3, <3>4, <3>5, <3>6
  <2> QED BY <2>7, <2>8 DEF CountInv
<1>5. ASSUME NEW w \in Workers, Leave(w)
      PROVE  CountInv'
  <2> DEFINE c == cur[w]
  <2>1. /\ c \in Unfinished /\ Children(c) = {} /\ Unfinished' = Unfinished \ {c}
        /\ parent' = parent /\ cur' = cur
    BY <1>5, TreeShrinks
  <2>2. parent[c] \in Segs \cup {NULL} /\ join_counter \in [Segs -> Int]
    BY <2>1, <1>0 DEF IInv, TypeOK
  <2>3. \A b \in Segs : join_counter'[b] = IF b = parent[c] THEN join_counter[b] - 1 ELSE join_counter[b]
    BY <1>0, <1>5, <2>2 DEF Leave
  <2>4. \A b : Children(b)' = Children(b) \ {c}
    BY <2>1 DEF Children
  <2>5. ASSUME NEW b \in Segs PROVE join_counter'[b] = Cardinality(Children(b)')
    <3>1. CASE b = parent[c]
      <4>1. c \in Children(b)
        BY <2>1, <3>1 DEF Children
      <4>2. Cardinality(Children(b) \ {c}) = Cardinality(Children(b)) - 1
        BY <1>0, <4>1, FS_RemoveElement
      <4> QED BY <1>0, <2>3, <2>4, <3>1, <4>2
    <3>2. CASE b # parent[c]
      <4>1. Children(b)' = Children(b)
        BY <2>4, <3>2 DEF Children
      <4> QED BY <1>0, <2>3, <3>2, <4>1
    <3> QED BY <3>1, <3>2
  <2>6. ASSUME NEW u \in Workers, pc'[u] = "leave" PROVE Children(cur[u])' = {}
    <3>1. u # w
      BY <1>5, <2>6 DEF Leave, IInv, TypeOK
    <3>2. pc[u] = "leave"
      BY <1>5, <2>6, <3>1 DEF Leave, IInv, TypeOK
    <3>3. Children(cur[u])' = {r \in Unfinished' : parent'[r] = cur[u]}
      BY <2>1 DEF Children
    <3> QED BY <1>0, <2>1, <3>2, <3>3 DEF Children
  <2> QED BY <2>5, <2>6 DEF CountInv
<1>6. CASE MasterReturn \/ UNCHANGED vars
  <2>1. UNCHANGED <<mm, mapped, cur, pc, parent, join_counter>>
    BY <1>6 DEF MasterReturn, vars, wvars, jvars
  <2>2. Unfinished' = Unfinished
    <3>1. \A s : s \in Unfinished' <=> s \in Unfinished
      BY <2>1 DEF Unfinished, Live, Free, InSeq, CountedOff
    <3> QED BY <3>1
  <2>3. \A b : Children(b)' = Children(b)
    BY <2>1, <2>2 DEF Children
  <2> QED BY <1>1, <1>2, <2>1, <2>3
<1> QED
  BY <1>3, <1>4, <1>5, <1>6 DEF Next

-----------------------------------------------------------------------------
(* The results that are still owed *)

\* Every step keeps the end of the program tied to the end of the main job.
LEMMA ResultStep ==
  ASSUME IInv, [Next]_vars
  PROVE  ResultInv'
<1>0. /\ \A b \in Segs : \A s \in awaited[b] : s \in Unfinished /\ parent[s] = b /\ resume[s] # "cleanup"
      /\ awaited \in [Segs -> SUBSET Segs]
      /\ resume \in [Segs -> {"routine", "spawned", "sync", "cleanup"}]
      /\ \A w \in Workers : cur[w] \in Segs \cup {NULL}
      /\ \A s \in Unfinished : s \in Segs /\ s \in Live
  BY UnfinishedFacts, LiveFacts DEF IInv, ResultInv, TypeOK
<1>1. ASSUME \A s : s \in Unfinished' <=> s \in Unfinished, parent' = parent,
             \A b \in Segs : \A s \in awaited'[b] : s \in awaited[b] /\ resume'[s] # "cleanup"
      PROVE  ResultInv'
  BY <1>0, <1>1 DEF ResultInv
<1>2. ASSUME NEW w \in Workers, WorkerStep(w), ~BootMainJob(w), ~Spawn(w), ~Leave(w)
      PROVE  ResultInv'
  <2>1. (\A s : s \in Unfinished' <=> s \in Unfinished) /\ parent' = parent
    BY <1>2, TreeKeeps
  <2>2. CASE Return(w)
    <3>1. \A b \in Segs : awaited'[b] = IF b = parent[cur[w]] THEN awaited[b] \ {cur[w]} ELSE awaited[b]
      BY <2>2 DEF Return
    <3>2. resume' = [resume EXCEPT ![cur[w]] = "cleanup"]
      BY <2>2 DEF Return
    <3>3. \A s \in Segs : s # cur[w] => resume'[s] = resume[s]
      BY <1>0, <3>2
    <3>4. ASSUME NEW b \in Segs, NEW s \in awaited'[b] PROVE s \in awaited[b] /\ resume'[s] # "cleanup"
      <4>0. awaited'[b] = IF b = parent[cur[w]] THEN awaited[b] \ {cur[w]} ELSE awaited[b]
        BY <3>1
      <4>1. s \in awaited[b] /\ s # cur[w]
        <5>1. CASE b = parent[cur[w]]
          BY <3>4, <4>0, <5>1
        <5>2. CASE b # parent[cur[w]]
          BY <1>0, <3>4, <4>0, <5>2
        <5> QED BY <5>1, <5>2
      <4> QED BY <1>0, <3>3, <4>1
    <3> QED BY <1>1, <2>1, <3>4
  <2>3. CASE CallSync(w)
    <3>1. awaited' = awaited /\ resume' = [resume EXCEPT ![cur[w]] = "sync"]
      BY <2>3 DEF CallSync
    <3>2. \A s \in Segs : resume'[s] = resume[s] \/ resume'[s] = "sync"
      BY <1>0, <3>1
    <3> QED BY <1>0, <1>1, <2>1, <3>1, <3>2
  <2>4. CASE ~Return(w) /\ ~CallSync(w)
    <3>1. awaited' = awaited /\ resume' = resume
      <4>1. CASE StartWorker(w) \/ PickStep(w) \/ SwitchStep(w)
        BY <4>1 DEF StartWorker, PickStep, PickOwn, PopOwn, ChooseVictim, Probe, StealJob,
                    StealNothing, RoundOver, SwitchStep, Reschedule, ResetCurrent, jvars
      <4>2. CASE SyncTest(w) \/ CheckCounter(w) \/ SwitchBack(w) \/ FreeCurrent(w)
        BY <4>2 DEF SyncTest, CheckCounter, SwitchBack, FreeCurrent, jvars
      <4> QED BY <1>2, <2>4, <4>1, <4>2 DEF WorkerStep, JobStep
    <3> QED BY <1>0, <1>1, <2>1, <3>1
  <2> QED BY <2>2, <2>3, <2>4
<1>3. ASSUME NEW w \in Workers, BootMainJob(w) \/ Spawn(w)
      PROVE  ResultInv'
  <2>1. PICK s \in Segs : create_job(w, s) /\ \/ resume' = [resume EXCEPT ![s] = "routine"]
                                              \/ resume' = [resume EXCEPT ![s] = "routine", ![cur[w]] = "spawned"]
    BY <1>3 DEF BootMainJob, Spawn
  <2>2. /\ s \notin Unfinished /\ Unfinished' = Unfinished \cup {s}
        /\ parent'[s] = cur[w] /\ \A r \in Unfinished : parent'[r] = parent[r]
    BY <1>3, <2>1, TreeGrows
  <2>3. /\ awaited'[s] = {}
        /\ \A b \in Segs : b # s => awaited'[b] = awaited[b] \cup IF b = cur[w] THEN {s} ELSE {}
    BY <2>1, CreateFacts
  <2>4. \A r \in Segs : resume'[r] = resume[r] \/ resume'[r] = "routine" \/ resume'[r] = "spawned"
    BY <1>0, <2>1
  <2>5. resume'[s] # "cleanup"
    BY <1>0, <2>1
  <2>6. ASSUME NEW b \in Segs, NEW r \in awaited'[b]
        PROVE  r \in Unfinished' /\ parent'[r] = b /\ resume'[r] # "cleanup"
    <3>1. b # s /\ (r \in awaited[b] \/ (r = s /\ b = cur[w]))
      BY <2>3, <2>6
    <3>2. CASE r = s /\ b = cur[w]
      BY <2>2, <2>5, <3>2
    <3>3. CASE r \in awaited[b]
      BY <1>0, <2>2, <2>4, <3>3
    <3> QED BY <3>1, <3>2, <3>3
  <2> QED BY <2>6 DEF ResultInv
<1>4. ASSUME NEW w \in Workers, Leave(w)
      PROVE  ResultInv'
  <2>1. /\ resume[cur[w]] = "cleanup" /\ parent' = parent
        /\ \A s : s \in Unfinished' <=> s \in Unfinished /\ s # cur[w]
    BY <1>4, TreeShrinks
  <2>2. awaited' = awaited /\ resume' = resume
    BY <1>4 DEF Leave
  <2> QED BY <1>0, <2>1, <2>2 DEF ResultInv
<1>5. CASE MasterReturn \/ UNCHANGED vars
  <2>1. UNCHANGED <<mm, mapped, cur, pc, parent, resume, awaited>>
    BY <1>5 DEF MasterReturn, vars, wvars, jvars
  <2>2. \A s : s \in Unfinished' <=> s \in Unfinished
    BY <2>1 DEF Unfinished, Live, Free, InSeq, CountedOff
  <2> QED BY <1>0, <1>1, <2>1, <2>2
<1> QED
  BY <1>2, <1>3, <1>4, <1>5 DEF Next

-----------------------------------------------------------------------------
(* The invariant *)

\* The invariant holds before the first job is created.
LEMMA InitInv == Init => IInv
<1> SUFFICES ASSUME Init PROVE IInv
  OBVIOUS
<1> USE DEF Init
<1>1. \A w \in Workers : /\ pc[w] = "start" /\ cur[w] = NULL /\ next_job[w] = NULL
                         /\ deque[w] = <<>> /\ mm[w] = <<>>
  OBVIOUS
<1>2. \A w \in Workers : /\ InSeq(mm[w]) = {} /\ InSeq(deque[w]) = {}
                         /\ Distinct(mm[w]) /\ Distinct(deque[w])
  <2>1. <<>> \in Seq(Segs) /\ Len(<<>>) = 0
    BY EmptySeq
  <2>2. InSeq(<<>>) = {} /\ Distinct(<<>>)
    BY <2>1 DEF InSeq, Distinct
  <2> QED BY <1>1, <2>2
<1>3. TypeOK
  <2>1. Cardinality(Segs) \in Nat /\ <<>> \in Seq(Segs)
    BY SegsFacts, EmptySeq
  <2>2. /\ deque \in [Workers -> Seq(Segs)] /\ mm \in [Workers -> Seq(Segs)]
        /\ pc \in [Workers -> WorkerPC] /\ mapped \in 0..Cardinality(Segs)
    BY <2>1 DEF WorkerPC
  <2> QED BY <2>2 DEF TypeOK
<1>4. ControlInv
  BY <1>1 DEF ControlInv, Control, LookingPC, OnJobPC, JobPC, TailPC
<1>5. ThiefInv
  BY <1>1, SegsFacts DEF ThiefInv
<1>6. PopFindsWork /\ BootInv
  BY <1>1 DEF PopFindsWork, BootInv
<1>7. \A s : s \notin Live
  <2> SUFFICES ASSUME NEW s \in Live PROVE FALSE
    OBVIOUS
  <2>1. s \in Segs /\ s <= 0
    BY LiveFacts
  <2> QED BY <2>1, SegsFacts
<1>8. PlaceInv
  <2>1. FreeInv
    BY <1>2 DEF FreeInv
  <2>2. HeldInv
    BY <1>1, <1>2, <1>7, SegsFacts DEF HeldInv, HeldOnce, Holds
  <2> QED BY <2>1, <2>2 DEF PlaceInv
<1>9. \A s : s \notin Unfinished
  BY <1>7, UnfinishedFacts
<1>10. TreeInv
  BY <1>9 DEF TreeInv
<1>11. CountInv
  <2>1. \A b : Children(b) = {}
    BY <1>9 DEF Children
  <2> QED BY <1>1, <2>1, FS_EmptySet DEF CountInv
<1>12. ResultInv
  BY DEF ResultInv
<1> QED
  BY <1>3, <1>4, <1>5, <1>6, <1>8, <1>10, <1>11, <1>12 DEF IInv

\* The invariant is inductive: the step lemmas of its conjuncts together.
LEMMA StepInv == IInv /\ [Next]_vars => IInv'
<1> SUFFICES ASSUME IInv, [Next]_vars PROVE IInv'
  OBVIOUS
<1>1. TypeOK' /\ ControlInv' /\ ThiefInv' /\ PopFindsWork' /\ BootInv'
  BY TypeStep, ControlStep, ThiefStep, PopStep, BootStep
<1>2. PlaceInv' /\ TreeInv' /\ CountInv' /\ ResultInv'
  BY PlaceStep, TreeStep, CountStep, ResultStep
<1> QED
  BY <1>1, <1>2 DEF IInv

\* The inductive invariant holds throughout.
LEMMA Invariance == Spec => []IInv
BY InitInv, StepInv, PTL DEF Spec

-----------------------------------------------------------------------------
(* The properties *)

\* Types; no list, deque or counter ever leaves its range.
THEOREM TypeCorrect == Spec => []TypeOK
<1>1. IInv => TypeOK
  BY DEF IInv
<1> QED
  BY <1>1, Invariance, PTL

\* The checks of do_reschedule (sched.c:38, "no next_job") and of __gregor_cleanup
\* (thread.c:188, "join_counter incorrect") never fail.
THEOREM NeverPanicsCorrect == Spec => []NeverPanics
<1>1. IInv => NeverPanics
  BY DEF IInv, ControlInv, Control, NeverPanics
<1> QED
  BY <1>1, Invariance, PTL

\* GetNodeFromTail returns a job to the owner that has seen one.
THEOREM PopFindsWorkCorrect == Spec => []PopFindsWork
<1>1. IInv => PopFindsWork
  BY DEF IInv
<1> QED
  BY <1>1, Invariance, PTL

\* No child counts itself off from a parent that is freed, nor stores its result there.
THEOREM ParentOutlivesChildCorrect == Spec => []ParentOutlivesChild
<1>1. ASSUME IInv PROVE ParentOutlivesChild
  BY <1>1, UnfinishedFacts DEF IInv, TreeInv, ParentOutlivesChild, CountedOff
<1> QED
  BY <1>1, Invariance, PTL

\* Every join_counter is the number of children that have not counted themselves off.
THEOREM JoinCounterExactCorrect == Spec => []JoinCounterExact
<1>1. ASSUME IInv PROVE JoinCounterExact
  <2>1. \A b : Pending(b) = Children(b)
    BY DEF Pending, Children, Unfinished
  <2> QED BY <1>1, <2>1, LiveFacts DEF IInv, CountInv, JoinCounterExact
<1> QED
  BY <1>1, Invariance, PTL

\* Two workers never execute on one stack, and none on one that is queued or free.
THEOREM StackExclusiveCorrect == Spec => []StackExclusive
<1>1. ASSUME IInv PROVE StackExclusive
  <2> SUFFICES ASSUME NEW w \in Workers, sp[w] # NULL, NEW v \in Workers
               PROVE  /\ sp[v] = sp[w] => v = w
                      /\ sp[w] \notin InSeq(deque[v]) /\ sp[w] \notin InSeq(mm[v])
    BY DEF StackExclusive
  <2>1. ASSUME NEW u \in Workers, sp[u] # NULL
        PROVE  sp[u] \in Live /\ \E k \in {"cur", "next_job"} : Holds(u, k, sp[u])
    <3>1. sp[u] = cur[u] \/ sp[u] = next_job[u]
      BY <1>1, <2>1 DEF IInv, ControlInv, Control, TypeOK, WorkerPC, LookingPC, OnJobPC, JobPC, TailPC
    <3> QED BY <1>1, <2>1, <3>1, HeldIsLive DEF Holds
  <2>2. sp[w] \in Segs /\ sp[w] \in Live /\ \A u \in Workers : sp[w] \notin InSeq(mm[u])
    BY <2>1, LiveFacts
  <2>3. HeldOnce(sp[w])
    BY <1>1, <2>2 DEF IInv, PlaceInv, HeldInv
  <2>4. PICK k \in {"cur", "next_job"} : Holds(w, k, sp[w])
    BY <2>1
  <2>5. sp[w] \notin InSeq(deque[v])
    <3>1. sp[w] \in InSeq(deque[v]) => Holds(v, "deque", sp[w])
      BY DEF Holds
    <3> QED BY <2>3, <2>4, <3>1 DEF HeldOnce, Kinds
  <2>6. sp[v] = sp[w] => v = w
    BY <2>1, <2>3, <2>4 DEF HeldOnce, Kinds
  <2> QED BY <2>2, <2>5, <2>6
<1> QED
  BY <1>1, Invariance, PTL

\* Unless the main job is unfinished there is no unfinished job at all.
LEMMA OnlyRootHoldsUp ==
  ASSUME IInv, \A s \in Unfinished : parent[s] # NULL
  PROVE  Unfinished = {}
BY DEF IInv, TreeInv

\* When gregor_main returns every job of the program has run to its end.
THEOREM NothingLeftToRunCorrect == Spec => []NothingLeftToRun
<1>1. ASSUME IInv PROVE NothingLeftToRun
  <2> SUFFICES ASSUME master = "returned", NEW w \in Workers
               PROVE  /\ deque[w] = <<>> /\ next_job[w] = NULL
                      /\ cur[w] # NULL => pc[w] \in TailPC
    BY DEF NothingLeftToRun
  <2>1. Unfinished = {}
    BY <1>1, OnlyRootHoldsUp DEF IInv, TreeInv
  <2>2. next_job[w] = NULL /\ (cur[w] # NULL => pc[w] \in TailPC) /\ InSeq(deque[w]) = {}
    BY <1>1, <2>1, HeldIsUnfinished
  <2>3. deque[w] \in Seq(Segs)
    BY <1>1 DEF IInv, TypeOK
  <2>4. deque[w] = <<>>
    <3>1. CASE Len(deque[w]) >= 1
      BY <2>2, <2>3, <3>1, FrontFacts
    <3>2. CASE ~(Len(deque[w]) >= 1)
      BY <2>3, <3>2, ElementFacts
    <3> QED BY <3>1, <3>2
  <2> QED BY <2>2, <2>4
<1> QED
  BY <1>1, Invariance, PTL

\* __gregor_sync lets a job go on only when every child has counted itself off
\* and stored its result.
THEOREM SyncJoinsCorrect == Spec => SyncJoins
<1>1. ASSUME IInv, [Next]_vars, NEW w \in Workers, pc[w] = "sync", pc'[w] \in {"routine", "leave"}
      PROVE  awaited[cur[w]] = {} /\ Pending(cur[w]) = {}
  <2>1. cur[w] \in Segs
    BY <1>1 DEF IInv, TypeOK, ControlInv, Control, OnJobPC, JobPC
  <2>2. join_counter[cur[w]] = 0
    <3>1. ~UNCHANGED vars /\ ~MasterReturn
      BY <1>1 DEF vars, MasterReturn
    <3>2. PICK u \in Workers : WorkerStep(u)
      BY <1>1, <3>1 DEF Next
    <3>3. u = w
      BY <1>1, <3>2, OthersKeep
    <3>4. SyncTest(w)
      BY <1>1, <3>2, <3>3 DEF WorkerStep, StartWorker, BootMainJob, PickStep, PickOwn, PopOwn,
         ChooseVictim, Probe, StealJob, StealNothing, RoundOver, SwitchStep, Reschedule,
         ResetCurrent, JobStep, Spawn, CallSync, Return, Leave, CheckCounter, SwitchBack,
         FreeCurrent, Goto
    <3> QED BY <1>1, <3>4 DEF SyncTest, IInv, TypeOK
  <2>3. Children(cur[w]) = {}
    BY <1>1, <2>1, <2>2, CountersNotNegative, FS_EmptySet DEF IInv, CountInv
  <2>4. Pending(cur[w]) = {}
    BY <2>3 DEF Pending, Children, Unfinished
  <2>5. awaited[cur[w]] = {}
    BY <1>1, <2>1, <2>3 DEF IInv, ResultInv, Children
  <2> QED BY <2>4, <2>5
<1>2. IInv /\ [Next]_vars =>
        [\A w \in Workers : pc[w] = "sync" /\ pc'[w] \in {"routine", "leave"}
           => awaited[cur[w]] = {} /\ Pending(cur[w]) = {}]_vars
  BY <1>1
<1> QED
  BY <1>2, Invariance, PTL DEF Spec, SyncJoins

-----------------------------------------------------------------------------
(* Places *)

\* A job in a deque or free list without repetitions has exactly one index there.
LEMMA SlotsFacts ==
  ASSUME NEW q \in Seq(Segs), NEW s, Distinct(q)
  PROVE  IF s \in InSeq(q) THEN \E i : Slots(q, s) = {i} ELSE Slots(q, s) = {}
<1>1. CASE s \in InSeq(q)
  <2>1. PICK i \in 1..Len(q) : q[i] = s
    BY <1>1 DEF InSeq
  <2>2. Slots(q, s) = {i}
    BY <2>1 DEF Slots, Distinct
  <2> QED BY <1>1, <2>2
<1>2. CASE s \notin InSeq(q)
  BY <1>2 DEF InSeq, Slots
<1> QED
  BY <1>1, <1>2

Where(k, w, s) == IF k = "mm" THEN Slots(mm[w], s)
                  ELSE IF k = "deque" THEN Slots(deque[w], s)
                  ELSE IF k = "cur" THEN Slots(<<cur[w]>>, s)
                  ELSE Slots(<<next_job[w]>>, s)

\* Places collects the indices of all free lists, deques and hands.
LEMMA PlacesFacts ==
  ASSUME NEW s, NEW p
  PROVE  p \in Places(s) <=> \E k \in {"mm"} \cup Kinds, w \in Workers :
                               \E i \in Where(k, w, s) : p = <<k, w, i>>
<1>1. ASSUME NEW k, NEW w, NEW S
      PROVE  p \in {k} \X {w} \X S <=> \E i \in S : p = <<k, w, i>>
  OBVIOUS
<1>2. p \in Places(s) <=> \E w \in Workers :
        \/ p \in {"mm"} \X {w} \X Slots(mm[w], s)
        \/ p \in {"deque"} \X {w} \X Slots(deque[w], s)
        \/ p \in {"cur"} \X {w} \X Slots(<<cur[w]>>, s)
        \/ p \in {"next_job"} \X {w} \X Slots(<<next_job[w]>>, s)
  BY DEF Places
<1>3. p \in Places(s) <=> \E w \in Workers :
        \/ \E i \in Where("mm", w, s) : p = <<"mm", w, i>>
        \/ \E i \in Where("deque", w, s) : p = <<"deque", w, i>>
        \/ \E i \in Where("cur", w, s) : p = <<"cur", w, i>>
        \/ \E i \in Where("next_job", w, s) : p = <<"next_job", w, i>>
  BY <1>1, <1>2 DEF Where
<1> QED
  BY <1>3 DEF Kinds

\* A segment fills one slot of each kind where it is held, and none elsewhere.
LEMMA WhereFacts ==
  ASSUME IInv, NEW w \in Workers, NEW s \in Segs
  PROVE  /\ IF s \in InSeq(mm[w]) THEN \E i : Where("mm", w, s) = {i} ELSE Where("mm", w, s) = {}
         /\ \A k \in Kinds : IF Holds(w, k, s) THEN \E i : Where(k, w, s) = {i} ELSE Where(k, w, s) = {}
<1>1. /\ mm[w] \in Seq(Segs) /\ Distinct(mm[w]) /\ deque[w] \in Seq(Segs) /\ Distinct(deque[w])
  BY DEF IInv, TypeOK, PlaceInv, FreeInv, HeldInv
<1>2. IF s \in InSeq(mm[w]) THEN \E i : Where("mm", w, s) = {i} ELSE Where("mm", w, s) = {}
  BY <1>1, SlotsFacts DEF Where
<1>3. IF s \in InSeq(deque[w]) THEN \E i : Where("deque", w, s) = {i} ELSE Where("deque", w, s) = {}
  BY <1>1, SlotsFacts DEF Where
<1>4. ASSUME NEW x
      PROVE  IF x = s THEN Slots(<<x>>, s) = {1} ELSE Slots(<<x>>, s) = {}
  BY DEF Slots
<1>5. IF cur[w] = s THEN \E i : Where("cur", w, s) = {i} ELSE Where("cur", w, s) = {}
  BY <1>4 DEF Where
<1>6. IF next_job[w] = s THEN \E i : Where("next_job", w, s) = {i} ELSE Where("next_job", w, s) = {}
  BY <1>4 DEF Where
<1> QED
  BY <1>2, <1>3, <1>5, <1>6 DEF Holds, Kinds

\* No job is lost, queued twice, run by two workers or freed while it can still run.
THEOREM JobInOnePlaceCorrect == Spec => []JobInOnePlace
<1>1. ASSUME IInv PROVE JobInOnePlace
  <2> SUFFICES ASSUME NEW s \in Segs
               PROVE  Cardinality(Places(s)) = IF s <= mapped THEN 1 ELSE 0
    BY DEF JobInOnePlace
  <2> DEFINE In(k, w) == IF k = "mm" THEN s \in InSeq(mm[w]) ELSE Holds(w, k, s)
             Every == {"mm"} \cup Kinds
  <2>0. "mm" \notin Kinds
    BY DEF Kinds
  <2>1. \A k \in Every, w \in Workers :
          IF In(k, w) THEN \E i : Where(k, w, s) = {i} ELSE Where(k, w, s) = {}
    BY <1>1, <2>0, WhereFacts
  <2>2. \A p : p \in Places(s) <=> \E k \in Every, w \in Workers :
                                     \E i \in Where(k, w, s) : p = <<k, w, i>>
    BY PlacesFacts
  <2>3. HeldOnce(s)
    BY <1>1 DEF IInv, PlaceInv, HeldInv
  <2>4. /\ \A w, v \in Workers : s \in InSeq(mm[w]) /\ s \in InSeq(mm[v]) => w = v
        /\ \A w \in Workers : s \in InSeq(mm[w]) => s <= mapped
    BY <1>1 DEF IInv, PlaceInv, FreeInv
  <2>5. \A k, l \in Every, w, v \in Workers : In(k, w) /\ In(l, v) => k = l /\ w = v
    BY <2>0, <2>3, <2>4, LiveFacts DEF HeldOnce
  <2>6. s <= mapped <=> \E k \in Every, w \in Workers : In(k, w)
    BY <2>0, <2>3, <2>4, LiveFacts DEF HeldOnce
  <2> HIDE DEF In, Every
  <2>7. CASE s <= mapped
    <3>1. PICK k \in Every, w \in Workers : In(k, w)
      BY <2>6, <2>7
    <3>2. PICK i : Where(k, w, s) = {i}
      BY <2>1, <3>1
    <3>3. \A p : p \in Places(s) <=> p = <<k, w, i>>
      BY <2>1, <2>2, <2>5, <3>1, <3>2
    <3>4. Places(s) = {<<k, w, i>>}
      BY <3>3
    <3> QED BY <2>7, <3>4, FS_Singleton
  <2>8. CASE ~(s <= mapped)
    <3>1. \A p : p \notin Places(s)
      BY <2>1, <2>2, <2>6, <2>8
    <3>2. Places(s) = {}
      BY <3>1
    <3> QED BY <2>8, <3>2, FS_EmptySet
  <2> QED BY <2>7, <2>8
<1> QED
  BY <1>1, Invariance, PTL
-----------------------------------------------------------------------------
(* The refinements.  What they need beyond IInv: how far status and resume *)
(* tell where a job is, and where the local victim of do_pick_work is set. *)

\* A worker on a routine is on a running job; no job that has a worker is new.
WorkerStatus(w) ==
  /\ pc[w] \in {"routine", "spawned"} => status[cur[w]] = "RUNNING"
  /\ cur[w] # NULL => status[cur[w]] # "SPAWN"
  /\ pc[w] = "reset" => status[next_job[w]] # "SPAWN"

\* The status SYNC is that of a job inside __gregor_sync, until sync returns to
\* the routine; resume is set with it, and outlives it.
JobStatus(s) ==
  /\ resume[s] \in {"routine", "spawned"} => status[s] # "SYNC"
  /\ resume[s] = "sync" /\ (\A w \in Workers : cur[w] = s => pc[w] # "routine") => status[s] = "SYNC"

StatusInv == /\ \A w \in Workers : WorkerStatus(w)
             /\ \A s \in Live : JobStatus(s)

\* What is in a deque has run before, or is the main job.
Known(s) == status[s] # "SPAWN" \/ parent[s] = NULL
QueuedInv == \A w \in Workers : \A s \in InSeq(deque[w]) : Known(s)

VictimInv == \A w \in Workers : /\ victim[w] # w
                                /\ pc[w] \notin {"lock", "probe", "resched"} => victim[w] = NULL

RInv == IInv /\ StatusInv /\ QueuedInv /\ VictimInv

-----------------------------------------------------------------------------
(* Which jobs a step touches *)

\* What w is running, what w is about to run and what is queued are different jobs.
LEMMA HeldApart ==
  ASSUME IInv, NEW w \in Workers, NEW u \in Workers
  PROVE  /\ cur[w] # NULL => cur[u] # cur[w] \/ u = w
         /\ cur[w] # NULL => next_job[u] # cur[w]
         /\ next_job[w] # NULL => next_job[u] # next_job[w] \/ u = w
         /\ \A s \in InSeq(deque[u]) : s # cur[w] /\ s # next_job[w]
<1>1. ASSUME NEW s \in Live
      PROVE  \A x, y \in Workers, k, l \in Kinds : Holds(x, k, s) /\ Holds(y, l, s) => x = y /\ k = l
  BY LiveFacts DEF IInv, PlaceInv, HeldInv, HeldOnce
<1>2. /\ cur[w] # NULL => cur[w] \in Live
      /\ next_job[w] # NULL => next_job[w] \in Live
      /\ \A s \in InSeq(deque[u]) : s \in Live
      /\ NULL \notin Live
  BY HeldIsLive, LiveFacts, SegsFacts
<1> QED
  BY <1>1, <1>2 DEF Holds, Kinds

\* The status of a live job is written only by the worker that runs it or is
\* switching to it.
LEMMA StatusOthers ==
  ASSUME IInv, NEW w \in Workers, WorkerStep(w), NEW s \in Live, s # cur[w], s # next_job[w]
  PROVE  status'[s] = status[s] /\ resume'[s] = resume[s] /\ parent'[s] = parent[s]
<1>0. s \in Segs /\ resume'[s] = resume[s] /\ parent'[s] = parent[s]
  BY LiveFacts, JobsKeep
<1> USE <1>0 DEF IInv, TypeOK, wvars, jvars
<1>1. CASE BootMainJob(w) \/ Spawn(w)
  <2>1. PICK r \in Segs : create_job(w, r)
    BY <1>1 DEF BootMainJob, Spawn
  <2>2. r \notin Live
    BY <2>1, CreateFacts
  <2> QED BY <2>1, <2>2 DEF create_job
<1>2. CASE CallSync(w) \/ Return(w) \/ SyncTest(w)
  BY <1>2 DEF CallSync, Return, SyncTest
<1>3. CASE SwitchStep(w) \/ Leave(w) \/ CheckCounter(w) \/ SwitchBack(w) \/ FreeCurrent(w)
  BY <1>3 DEF SwitchStep, Reschedule, ResetCurrent, Leave, CheckCounter, SwitchBack, FreeCurrent
<1>4. CASE StartWorker(w) \/ PickStep(w)
  BY <1>4 DEF StartWorker, PickStep, PickOwn, PopOwn, ChooseVictim, Probe, StealJob, StealNothing, RoundOver
<1> QED
  BY <1>1, <1>2, <1>3, <1>4 DEF WorkerStep, JobStep

\* What is added to a deque: a job its worker has left, or the main job.
LEMMA DequeGrows ==
  ASSUME IInv, NEW w \in Workers, WorkerStep(w), NEW u \in Workers, NEW s \in InSeq(deque'[u])
  PROVE  \/ s \in InSeq(deque[u])
         \/ ResetCurrent(w) /\ s = cur[w] /\ cur[w] # NULL
         \/ BootMainJob(w) /\ parent'[s] = NULL
<1> USE DEF IInv, TypeOK, wvars, jvars
<1>1. CASE BootMainJob(w)
  <2>1. PICK r \in Segs : create_job(w, r) /\ deque' = [deque EXCEPT ![w] = Append(@, r)]
    BY <1>1 DEF BootMainJob
  <2>2. parent'[r] = NULL
    BY <1>1, <2>1, CreateFacts DEF BootMainJob, Goto, ControlInv, Control
  <2>3. InSeq(Append(deque[w], r)) = InSeq(deque[w]) \cup {r}
    BY AppendFacts
  <2> QED BY <1>1, <2>1, <2>2, <2>3
<1>2. CASE PopOwn(w)
  <2>1. deque[w] \in Seq(Segs) /\ Len(deque[w]) >= 1 /\ Distinct(deque[w])
    BY <1>2, PopFacts DEF PlaceInv, HeldInv
  <2>2. InSeq(SubSeq(deque[w], 1, Len(deque[w]) - 1)) \subseteq InSeq(deque[w])
    BY <2>1, FrontFacts
  <2> QED BY <1>2, <2>2 DEF PopOwn
<1>3. CASE StealJob(w)
  <2>1. victim[w] \in Workers /\ deque[victim[w]] \in Seq(Segs) /\ Len(deque[victim[w]]) >= 2
        /\ Distinct(deque[victim[w]])
    BY <1>3 DEF StealJob, Goto, ThiefInv, PlaceInv, HeldInv
  <2>2. InSeq(Tail(deque[victim[w]])) \subseteq InSeq(deque[victim[w]])
    BY <2>1, ElementFacts, TailFacts
  <2> QED BY <1>3, <2>1, <2>2 DEF StealJob
<1>4. CASE ResetCurrent(w)
  <2>1. cur[w] # NULL => InSeq(Append(deque[w], cur[w])) = InSeq(deque[w]) \cup {cur[w]}
    BY AppendFacts
  <2> QED BY <1>4, <2>1 DEF ResetCurrent
<1>5. CASE deque' = deque
  BY <1>5
<1> QED BY <1>1, <1>2, <1>3, <1>4, <1>5 DEF WorkerStep, StartWorker, PickStep, PickOwn,
                 ChooseVictim, Probe, StealNothing, RoundOver, SwitchStep, Reschedule, JobStep,
                 Spawn, CallSync, Return, SyncTest, Leave, CheckCounter, SwitchBack, FreeCurrent

-----------------------------------------------------------------------------
(* RInv is inductive *)

\* Live jobs are never added to but by create_job.
LEMMA LiveStays ==
  ASSUME IInv, NEW w \in Workers, WorkerStep(w), ~BootMainJob(w), ~Spawn(w)
  PROVE  Live' \subseteq Live
<1>1. CASE FreeCurrent(w)
  <2>1. cur[w] \in Live
    BY <1>1, HeldIsLive DEF FreeCurrent, Goto, IInv, ControlInv, Control
  <2> QED BY <1>1, <2>1, FreeFacts DEF FreeCurrent, IInv, PlaceInv
<1>2. CASE mm' = mm /\ mapped' = mapped
  BY <1>2 DEF Live, Free, InSeq
<1> QED
  BY <1>1, <1>2 DEF WorkerStep, StartWorker, PickStep, PickOwn, PopOwn, ChooseVictim, Probe, StealJob,
     StealNothing, RoundOver, SwitchStep, Reschedule, ResetCurrent, JobStep, CallSync, Return,
     SyncTest, Leave, CheckCounter, SwitchBack, wvars

\* The other workers' jobs are as before.
LEMMA WorkerStatusOthers ==
  ASSUME RInv, NEW w \in Workers, WorkerStep(w), NEW u \in Workers, u # w
  PROVE  WorkerStatus(u)'
<1>1. pc'[u] = pc[u] /\ cur'[u] = cur[u] /\ next_job'[u] = next_job[u]
  BY OthersKeep DEF RInv
<1>2. /\ cur[u] # NULL => cur[u] \in Live /\ cur[u] # cur[w] /\ cur[u] # next_job[w]
      /\ next_job[u] # NULL => next_job[u] \in Live /\ next_job[u] # cur[w] /\ next_job[u] # next_job[w]
  BY HeldApart, HeldIsLive DEF RInv
<1>3. /\ cur[u] # NULL => status'[cur[u]] = status[cur[u]]
      /\ next_job[u] # NULL => status'[next_job[u]] = status[next_job[u]]
  BY <1>2, StatusOthers DEF RInv
<1>4. /\ pc[u] \in {"routine", "spawned"} => cur[u] # NULL
      /\ pc[u] = "reset" => next_job[u] # NULL
  BY DEF RInv, IInv, ControlInv, Control, OnJobPC, JobPC
<1> QED
  BY <1>1, <1>3, <1>4 DEF RInv, StatusInv, WorkerStatus

\* A job that the step does not touch is as before.
LEMMA JobStatusOthers ==
  ASSUME RInv, NEW w \in Workers, WorkerStep(w), NEW s \in Live, 
         status'[s] = status[s], resume'[s] = resume[s],
         cur[w] = s => pc[w] # "routine"
  PROVE  JobStatus(s)'
<1>1. JobStatus(s)
  BY DEF RInv, StatusInv
<1>2. ASSUME \A u \in Workers : cur'[u] = s => pc'[u] # "routine",
             NEW u \in Workers
      PROVE  cur[u] = s => pc[u] # "routine"
  BY <1>2, OthersKeep DEF RInv
<1> QED
  BY <1>1, <1>2 DEF JobStatus

\* A new job, queued by worker 0 or run by its parent.
LEMMA StatusCreate ==
  ASSUME RInv, NEW w \in Workers, BootMainJob(w) \/ Spawn(w)
  PROVE  StatusInv'
<1> USE DEF IInv, TypeOK
<1> IInv /\ WorkerStep(w) /\ WorkerStatus(w)
  BY DEF RInv, StatusInv, WorkerStep, JobStep
<1>1. PICK r \in Segs :
        /\ create_job(w, r)
        /\ \/ BootMainJob(w) /\ resume' = [resume EXCEPT ![r] = "routine"]
           \/ Spawn(w) /\ resume' = [resume EXCEPT ![r] = "routine", ![cur[w]] = "spawned"]
  BY DEF BootMainJob, Spawn
<1>2. r \notin Live /\ Live' = Live \cup {r} /\ status' = [status EXCEPT ![r] = "SPAWN"]
  BY <1>1, CreateFacts DEF create_job
<1>3. cur' = cur /\ cur[w] # r /\ (cur[w] # NULL => cur[w] \in Segs)
  BY <1>1, <1>2, HeldIsLive, SegsFacts DEF BootMainJob, Spawn
<1>4. pc'[w] \in {"pick", "resched"}
  BY DEF BootMainJob, Spawn, Goto
<1>5. WorkerStatus(w)'
  BY <1>2, <1>3, <1>4 DEF WorkerStatus
<1>6. ASSUME NEW s \in Live' PROVE JobStatus(s)'
  <2>1. CASE s = r
    <3>1. status'[s] = "SPAWN" /\ resume'[s] = "routine"
      BY <1>1, <1>2, <1>3, <2>1
    <3> QED BY <3>1 DEF JobStatus
  <2>2. CASE s = cur[w] /\ s # r
    <3>1. Spawn(w)
      <4>1. s \in Live /\ cur[w] # NULL
        BY <1>2, <2>2, LiveFacts, SegsFacts
      <4> QED BY <1>1, <4>1, <2>2 DEF BootMainJob, Goto, ControlInv, Control
    <3>2. status'[s] = "RUNNING" /\ resume'[s] = "spawned"
      <4>1. s \in Segs /\ pc[w] \in {"routine", "spawned"}
        BY <1>3, <2>2, <3>1 DEF Spawn, ControlInv, Control, OnJobPC, JobPC
      <4>2. ~BootMainJob(w)
        BY <4>1 DEF BootMainJob, Goto
      <4> QED BY <1>1, <1>2, <2>2, <4>1, <4>2 DEF WorkerStatus
    <3> QED BY <3>2 DEF JobStatus
  <2>3. CASE s # cur[w] /\ s # r
    <3>1. s \in Live /\ s \in Segs
      BY <1>2, <2>3, LiveFacts
    <3>2. status'[s] = status[s] /\ resume'[s] = resume[s]
      BY <1>1, <1>2, <2>3, <3>1
    <3> QED BY <2>3, <3>1, <3>2, JobStatusOthers
  <2> QED BY <2>1, <2>2, <2>3
<1> QED
  BY <1>5, <1>6, WorkerStatusOthers DEF StatusInv

\* The calls of __gregor_sync and its return.
LEMMA StatusSync ==
  ASSUME RInv, NEW w \in Workers, CallSync(w) \/ Return(w) \/ SyncTest(w)
  PROVE  StatusInv'
<1> USE DEF IInv, TypeOK
<1> DEFINE c == cur[w]
<1>0. IInv /\ WorkerStep(w) /\ WorkerStatus(w)
  BY DEF RInv, StatusInv, WorkerStep, JobStep
<1>1. c # NULL /\ c \in Segs /\ c \in Live /\ JobStatus(c) /\ cur' = cur /\ next_job' = next_job
  <2>1. c # NULL /\ cur' = cur /\ next_job' = next_job
    BY <1>0 DEF CallSync, Return, SyncTest, Goto, ControlInv, Control, OnJobPC, JobPC, wvars
  <2> QED BY <1>0, <2>1, HeldIsLive, LiveFacts DEF RInv, StatusInv
<1>2. Live' \subseteq Live
  BY DEF CallSync, Return, SyncTest, Live, Free, InSeq, wvars
<1>3. WorkerStatus(w)' /\ JobStatus(c)'
  <2>1. CASE CallSync(w)
    <3>1. status'[c] = "SYNC" /\ resume'[c] = "sync" /\ pc'[w] = "sync"
      BY <1>0, <1>1, <2>1 DEF CallSync, Goto
    <3> QED BY <1>1, <3>1 DEF WorkerStatus, JobStatus
  <2>2. CASE Return(w)
    <3>1. status'[c] = "SYNC" /\ resume'[c] = "cleanup" /\ pc'[w] = "sync"
      BY <1>0, <1>1, <2>2 DEF Return
    <3> QED BY <1>1, <3>1 DEF WorkerStatus, JobStatus
  <2>3. CASE SyncTest(w)
    <3>1. resume'[c] = resume[c] /\ resume[c] \in {"sync", "cleanup"} /\ pc[w] = "sync"
      BY <1>0, <1>1, <2>3 DEF SyncTest, jvars, ControlInv, Control
    <3>2. CASE pc'[w] = "pick" /\ status' = status
      <4>1. JobStatus(c)'
        BY <1>0, <1>1, <3>1, <3>2, JobStatusOthers
      <4> QED BY <1>0, <1>1, <3>2, <4>1 DEF WorkerStatus
    <3>3. CASE pc'[w] = (IF resume[c] = "cleanup" THEN "leave" ELSE "routine") /\ status'[c] = "RUNNING"
      BY <1>1, <3>1, <3>3 DEF WorkerStatus, JobStatus
    <3> QED BY <1>0, <1>1, <2>3, <3>2, <3>3 DEF SyncTest
  <2> QED BY <2>1, <2>2, <2>3
<1>4. ASSUME NEW s \in Live, s # c PROVE JobStatus(s)'
  <2>1. status'[s] = status[s] /\ resume'[s] = resume[s]
    BY <1>0, <1>1, <1>4, LiveFacts DEF CallSync, Return, SyncTest, jvars
  <2> QED BY <1>0, <1>4, <2>1, JobStatusOthers
<1>5. \A u \in Workers : WorkerStatus(u)'
  BY <1>0, <1>3, WorkerStatusOthers
<1>6. \A s \in Live' : JobStatus(s)'
  BY <1>1, <1>2, <1>3, <1>4 DEF JobStatus
<1> QED
  BY <1>5, <1>6 DEF StatusInv

\* The switch to the next job.
LEMMA StatusReschedule ==
  ASSUME RInv, NEW w \in Workers, Reschedule(w)
  PROVE  StatusInv'
<1> USE DEF IInv, TypeOK
<1> DEFINE n == next_job[w]
<1>0. IInv /\ WorkerStep(w) /\ WorkerStatus(w)
  BY DEF RInv, StatusInv, WorkerStep, SwitchStep
<1>1. n # NULL /\ n \in Segs /\ n \in Live /\ JobStatus(n) /\ cur' = cur /\ next_job' = next_job
  <2>1. n # NULL /\ cur' = cur /\ next_job' = next_job
    BY <1>0 DEF Reschedule, ControlInv, Control, wvars
  <2> QED BY <1>0, <2>1, HeldIsLive, LiveFacts DEF RInv, StatusInv
<1>2. /\ status' = [status EXCEPT ![n] = IF @ = "SPAWN" THEN "RUNNING" ELSE @]
      /\ resume' = resume /\ pc[w] = "resched" /\ pc'[w] = "reset"
  BY <1>0, <1>1 DEF Reschedule
<1>3. Live' \subseteq Live
  BY <1>0, LiveStays DEF BootMainJob, Spawn, Goto, Reschedule
<1>4. \A u \in Workers : cur[u] # n
  <2>1. \A u \in Workers : cur[u] # NULL => next_job[w] # cur[u]
    BY <1>0, HeldApart
  <2> QED BY <1>1, <2>1
<1>5. WorkerStatus(w)'
  <2>1. status'[n] # "SPAWN" /\ (cur[w] # NULL => status'[cur[w]] = status[cur[w]])
    BY <1>0, <1>1, <1>2, <1>4
  <2> QED BY <1>0, <1>1, <1>2, <2>1 DEF WorkerStatus
<1>6. JobStatus(n)'
  <2>1. status'[n] = IF status[n] = "SPAWN" THEN "RUNNING" ELSE status[n]
    BY <1>0, <1>1, <1>2
  <2> QED BY <1>1, <1>2, <1>4, <2>1 DEF JobStatus
<1>7. ASSUME NEW s \in Live, s # n PROVE JobStatus(s)'
  <2>1. status'[s] = status[s] /\ resume'[s] = resume[s]
    BY <1>0, <1>1, <1>2, <1>7, LiveFacts
  <2> QED BY <1>0, <1>2, <1>7, <2>1, JobStatusOthers
<1>8. \A u \in Workers : WorkerStatus(u)'
  BY <1>0, <1>5, WorkerStatusOthers
<1>9. \A s \in Live' : JobStatus(s)'
  BY <1>1, <1>3, <1>6, <1>7 DEF JobStatus
<1> QED
  BY <1>8, <1>9 DEF StatusInv

\* All other steps write no jcb, and only the switch reaches a routine.
LEMMA StatusRest ==
  ASSUME RInv, NEW w \in Workers,
         \/ StartWorker(w) \/ PickStep(w) \/ ResetCurrent(w)
         \/ Leave(w) \/ CheckCounter(w) \/ SwitchBack(w) \/ FreeCurrent(w)
  PROVE  StatusInv'
<1> USE DEF IInv, TypeOK, wvars, jvars
<1>0. IInv /\ WorkerStep(w) /\ WorkerStatus(w)
  BY DEF RInv, StatusInv, WorkerStep, SwitchStep, JobStep
<1>1. status' = status /\ resume' = resume /\ pc[w] \notin {"routine", "spawned"}
  BY <1>0 DEF StartWorker, PickStep, PickOwn, PopOwn, ChooseVictim, Probe, StealJob, StealNothing, RoundOver,
     ResetCurrent, Leave, CheckCounter, SwitchBack, FreeCurrent, Goto
<1>2. Live' \subseteq Live
  BY <1>0, LiveStays DEF BootMainJob, Spawn, Goto, StartWorker, PickStep, PickOwn, PopOwn, ChooseVictim,
     Probe, StealJob, StealNothing, RoundOver, ResetCurrent, Leave, CheckCounter, SwitchBack, FreeCurrent
<1>3. WorkerStatus(w)'
  <2>1. CASE ResetCurrent(w)
    <3>1. next_job[w] # NULL /\ next_job[w] \in Live /\ next_job[w] \in Segs
      BY <1>0, <2>1, HeldIsLive, LiveFacts DEF ResetCurrent, Goto, ControlInv, Control
    <3>2. JobStatus(next_job[w]) /\ status[next_job[w]] # "SPAWN"
      BY <1>0, <2>1, <3>1 DEF RInv, StatusInv, WorkerStatus, ResetCurrent, Goto
    <3>3. /\ cur'[w] = next_job[w]
          /\ pc'[w] = IF resume[next_job[w]] \in JobPC THEN resume[next_job[w]] ELSE "sync"
      BY <1>0, <2>1 DEF ResetCurrent, Goto
    <3>4. pc'[w] \in {"routine", "spawned"} => status[next_job[w]] = "RUNNING"
      BY <1>0, <3>1, <3>2, <3>3 DEF JobStatus
    <3> QED BY <1>1, <3>2, <3>3, <3>4 DEF WorkerStatus, JobPC
  <2>2. CASE ~ResetCurrent(w)
    <3>1. (cur'[w] = cur[w] \/ cur'[w] = NULL) /\ pc'[w] \notin {"routine", "spawned", "reset"}
      BY <1>0, <2>2 DEF StartWorker, PickStep, PickOwn, PopOwn, ChooseVictim, Probe, StealJob, StealNothing,
         RoundOver, Leave, CheckCounter, SwitchBack, FreeCurrent, Goto
    <3> QED BY <1>0, <1>1, <3>1 DEF WorkerStatus
  <2> QED BY <2>1, <2>2
<1>4. ASSUME NEW s \in Live PROVE JobStatus(s)'
  BY <1>0, <1>1, JobStatusOthers
<1> QED
  BY <1>0, <1>2, <1>3, <1>4, WorkerStatusOthers DEF StatusInv

\* Every step keeps the status of a job in line with the worker that holds it.
LEMMA StatusStep ==
  ASSUME RInv, [Next]_vars
  PROVE  StatusInv'
<1>1. ASSUME NEW w \in Workers, WorkerStep(w) PROVE StatusInv'
  BY <1>1, StatusCreate, StatusSync, StatusReschedule, StatusRest DEF WorkerStep, SwitchStep, JobStep
<1>2. CASE MasterReturn \/ UNCHANGED vars
  <2>1. UNCHANGED <<pc, cur, next_job, status, resume, mm, mapped>>
    BY <1>2 DEF MasterReturn, vars, wvars, jvars
  <2>2. Live' = Live
    BY <2>1 DEF Live, Free, InSeq
  <2> QED BY <2>1, <2>2 DEF RInv, StatusInv, WorkerStatus, JobStatus
<1> QED
  BY <1>1, <1>2 DEF Next

\* Every step keeps the jobs in deques resumable.
LEMMA QueuedStep ==
  ASSUME RInv, [Next]_vars
  PROVE  QueuedInv'
<1>1. ASSUME NEW w \in Workers, WorkerStep(w), NEW u \in Workers, NEW s \in InSeq(deque'[u])
      PROVE  status'[s] # "SPAWN" \/ parent'[s] = NULL
  <2>1. CASE s \in InSeq(deque[u])
    <3>1. s \in Live /\ s # cur[w] /\ s # next_job[w] /\ Known(s)
      BY <2>1, HeldIsLive, HeldApart DEF RInv, QueuedInv
    <3> QED BY <1>1, <3>1, StatusOthers DEF RInv, Known
  <2>2. CASE ResetCurrent(w) /\ s = cur[w] /\ cur[w] # NULL
    BY <2>2 DEF RInv, StatusInv, WorkerStatus, ResetCurrent, jvars
  <2> QED BY <1>1, <2>1, <2>2, DequeGrows DEF RInv
<1>2. ASSUME NEW w \in Workers, WorkerStep(w) PROVE QueuedInv'
  <2>1. ASSUME NEW u \in Workers, NEW s \in InSeq(deque[u])'
        PROVE  Known(s)'
    <3>1. s \in InSeq(deque'[u])
      BY DEF InSeq
    <3> QED BY <1>1, <1>2, <3>1 DEF Known
  <2> QED BY <2>1 DEF QueuedInv
<1>3. CASE MasterReturn \/ UNCHANGED vars
  <2>1. UNCHANGED <<deque, status, parent>>
    BY <1>3 DEF MasterReturn, vars, wvars, jvars
  <2> QED BY <2>1 DEF RInv, QueuedInv, Known, InSeq
<1> QED
  BY <1>2, <1>3 DEF Next

\* A worker's victim stays another worker, and is forgotten when the robbery is over.
LEMMA VictimStep ==
  ASSUME RInv, [Next]_vars
  PROVE  VictimInv'
<1>1. ASSUME NEW w \in Workers, WorkerStep(w)
      PROVE  victim'[w] # w /\ (pc'[w] \notin {"lock", "probe", "resched"} => victim'[w] = NULL)
  <2> USE DEF IInv, TypeOK, wvars, jvars
  <2>0. IInv /\ victim[w] # w /\ (pc[w] \notin {"lock", "probe", "resched"} => victim[w] = NULL)
    BY DEF RInv, VictimInv
  <2>1. CASE ChooseVictim(w)
    BY <2>0, <2>1, SegsFacts DEF ChooseVictim, ThiefInv
  <2>2. CASE Probe(w) \/ StealJob(w) \/ StealNothing(w)
    BY <2>0, <2>2, SegsFacts DEF Probe, StealJob, StealNothing, Goto
  <2>3. CASE Reschedule(w)
    BY <2>0, <2>3, SegsFacts DEF Reschedule, ControlInv, Control
  <2>4. CASE victim' = victim /\ pc[w] \notin {"lock", "probe", "resched"}
    BY <2>0, <2>4
  <2> QED
    BY <1>1, <2>0, <2>1, <2>2, <2>3, <2>4
    DEF WorkerStep, StartWorker, BootMainJob, PickStep, PickOwn, PopOwn, RoundOver, SwitchStep,
        ResetCurrent, JobStep, Spawn, CallSync, Return, SyncTest, Leave, CheckCounter, SwitchBack,
        FreeCurrent, Goto
<1>2. ASSUME NEW w \in Workers, WorkerStep(w) PROVE VictimInv'
  BY <1>1, <1>2, OthersKeep DEF RInv, VictimInv
<1>3. CASE MasterReturn \/ UNCHANGED vars
  BY <1>3 DEF RInv, VictimInv, MasterReturn, vars
<1> QED
  BY <1>2, <1>3 DEF Next

\* The invariant of the refinement holds initially.
LEMMA RInvInit == Init => RInv
<1> SUFFICES ASSUME Init PROVE RInv
  OBVIOUS
<1>1. IInv
  BY InitInv
<1>2. \A s : s \notin Live
  <2> SUFFICES ASSUME NEW s \in Live PROVE FALSE
    OBVIOUS
  <2>1. s \in Segs /\ s <= 0
    BY LiveFacts DEF Init
  <2> QED BY <2>1, SegsFacts
<1>3. StatusInv
  BY <1>2 DEF StatusInv, WorkerStatus, Init
<1>4. QueuedInv
  BY <1>1, <1>2, HeldIsLive DEF QueuedInv
<1>5. VictimInv
  BY SegsFacts DEF VictimInv, Init
<1> QED
  BY <1>1, <1>3, <1>4, <1>5 DEF RInv

\* The invariant of the refinement holds throughout.
LEMMA RInvariance == Spec => []RInv
<1>1. RInv /\ [Next]_vars => RInv'
  <2> SUFFICES ASSUME RInv, [Next]_vars PROVE RInv'
    OBVIOUS
  <2>1. IInv'
    BY StepInv DEF RInv
  <2> QED BY <2>1, StatusStep, QueuedStep, VictimStep DEF RInv
<1> QED
  BY <1>1, RInvInit, PTL DEF Spec

-----------------------------------------------------------------------------
(* Fork and join.  The mapped variables by name, and what they say in the  *)
(* terms of the proofs.                                                    *)

Phase == [s \in Segs |-> IF ~Running(s) THEN "none"
                         ELSE IF status[s] = "SYNC" /\ resume[s] = "sync" THEN "waiting"
                         ELSE "running"]
Par == [s \in Segs |-> IF Running(s) THEN parent[s] ELSE NULL]
Main == IF master = "returned" THEN "returned"
        ELSE IF sem > 0 THEN "done" ELSE IF mapped = 0 THEN "idle" ELSE "running"

Waiting(s) == status[s] = "SYNC" /\ resume[s] = "sync"

\* A program sees the unfinished jobs.
LEMMA ShownFacts ==
  ASSUME NEW s \in Segs
  PROVE  /\ Phase[s] = IF s \notin Unfinished THEN "none" ELSE IF Waiting(s) THEN "waiting" ELSE "running"
         /\ Par[s] = IF s \in Unfinished THEN parent[s] ELSE NULL
<1>1. Running(s) <=> s \in Unfinished
  BY DEF Running, Unfinished, Live, Free, InSeq
<1> QED
  BY <1>1 DEF Phase, Par, Waiting

\* The same after a step.
LEMMA ShownNext ==
  ASSUME NEW s \in Segs
  PROVE  /\ Phase'[s] = IF s \notin Unfinished' THEN "none"
                        ELSE IF status'[s] = "SYNC" /\ resume'[s] = "sync" THEN "waiting" ELSE "running"
         /\ Par'[s] = IF s \in Unfinished' THEN parent'[s] ELSE NULL
<1>1. Running(s)' <=> s \in Unfinished'
  BY DEF Running, Unfinished, Live, Free, InSeq
<1> QED
  BY <1>1 DEF Phase, Par

\* A job's kids in ForkJoin are its children.
LEMMA KidsAreChildren ==
  ASSUME IInv, NEW b \in Segs
  PROVE  Promise!Kids(b) = Children(b)
<1>1. ASSUME NEW s PROVE s \in {k \in Segs : Phase[k] # "none" /\ Par[k] = b} <=> s \in Children(b)
  <2>1. s \in Unfinished => s \in Segs
    BY UnfinishedFacts, LiveFacts
  <2>2. s \in Segs => (Phase[s] # "none" <=> s \in Unfinished)
    BY ShownFacts
  <2> QED BY <2>1, <2>2, ShownFacts DEF Children
<1>2. Promise!Kids(b) = {k \in Segs : Phase[k] # "none" /\ Par[k] = b}
  BY DEF Promise!Kids, Phase, Par
<1> QED
  BY <1>1, <1>2

\* A step that changes the view of one job, or of none.
LEMMA OneShown ==
  ASSUME NEW k \in Segs, NEW ph, NEW pa,
         \A s \in Segs : /\ Phase'[s] = IF s = k THEN ph ELSE Phase[s]
                         /\ Par'[s] = IF s = k THEN pa ELSE Par[s]
  PROVE  Phase' = [Phase EXCEPT ![k] = ph] /\ Par' = [Par EXCEPT ![k] = pa]
BY DEF Phase, Par

\* A step that changes no job's phase is a stutter of ForkJoin.
LEMMA NoneShown ==
  ASSUME \A s \in Segs : Phase'[s] = Phase[s] /\ Par'[s] = Par[s], Main' = Main
  PROVE  UNCHANGED Promise!fjvars
<1>1. Phase' = Phase /\ Par' = Par
  BY DEF Phase, Par
<1> QED
  BY <1>1 DEF Promise!fjvars, Phase, Par, Main

\* A step that neither creates nor counts off a job shows only in who is waiting.
LEMMA ShownByWaiting ==
  ASSUME IInv, NEW w \in Workers, WorkerStep(w), ~BootMainJob(w), ~Spawn(w), ~Leave(w)
  PROVE  /\ Main' = Main
         /\ \A s \in Segs : /\ Par'[s] = Par[s]
                            /\ (status'[s] = "SYNC" /\ resume'[s] = "sync" <=> Waiting(s)) => Phase'[s] = Phase[s]
<1>1. /\ \A s : s \in Unfinished' <=> s \in Unfinished
      /\ parent' = parent /\ sem' = sem /\ master' = master
  BY TreeKeeps
<1>2. mapped' = mapped
  BY DEF WorkerStep, StartWorker, PickStep, PickOwn, PopOwn, ChooseVictim, Probe, StealJob,
     StealNothing, RoundOver, SwitchStep, Reschedule, ResetCurrent, JobStep, CallSync, Return,
     SyncTest, CheckCounter, SwitchBack, FreeCurrent, FL!FreeMemory
<1> QED
  BY <1>1, <1>2, ShownFacts, ShownNext DEF Main

-----------------------------------------------------------------------------
(* The steps that a program sees *)

\* do_gregor_main_init starts the main job.
LEMMA BootIsStart ==
  ASSUME RInv, NEW w \in Workers, BootMainJob(w)
  PROVE  \E s \in Segs : Promise!Start(s)
<1> IInv
  BY DEF RInv
<1>1. w = Worker0 /\ cur[w] = NULL /\ mapped = 0 /\ sem = 0 /\ master = "waiting"
  BY DEF BootMainJob, Goto, IInv, ControlInv, Control, BootInv
<1>2. PICK r \in Segs : create_job(w, r) /\ resume' = [resume EXCEPT ![r] = "routine"]
  BY DEF BootMainJob
<1>3. r \notin Unfinished /\ Unfinished' = Unfinished \cup {r} /\ Unfinished = {}
      /\ parent'[r] = NULL /\ sem' = sem /\ master' = master
  <2>1. /\ r \notin Unfinished /\ Unfinished' = Unfinished \cup {r}
        /\ parent'[r] = NULL /\ sem' = sem /\ master' = master
    BY <1>1, <1>2, TreeGrows
  <2>2. \A s : s \notin Unfinished
    <3> SUFFICES ASSUME NEW s \in Unfinished PROVE FALSE
      OBVIOUS
    <3>1. s \in Segs /\ s <= 0
      BY <1>1, LiveFacts, UnfinishedFacts
    <3> QED BY <3>1, SegsFacts
  <2> QED BY <2>1, <2>2
<1>4. mapped' # 0
  <2>1. mapped' >= 1 /\ mapped' \in 0..Cardinality(Segs) /\ Cardinality(Segs) \in Nat
    BY <1>2, CreateFacts, SegsFacts
  <2> QED BY <2>1
<1>5. resume'[r] = "routine"
  BY <1>2 DEF IInv, TypeOK
<1>6. Phase[r] = "none" /\ \A s \in Segs : /\ Phase'[s] = IF s = r THEN "running" ELSE Phase[s]
                                           /\ Par'[s] = IF s = r THEN NULL ELSE Par[s]
  BY <1>3, <1>5, ShownFacts, ShownNext
<1>7. Main = "idle" /\ Main' = "running"
  BY <1>1, <1>3, <1>4 DEF Main
<1>8. Phase' = [Phase EXCEPT ![r] = "running"] /\ Par' = [Par EXCEPT ![r] = NULL]
  BY <1>6, OneShown
<1> QED
  BY <1>6, <1>7, <1>8 DEF Promise!Start, Promise!Begin, Phase, Par, Main

\* spawn adds a child of the current job.
LEMMA SpawnIsSpawn ==
  ASSUME RInv, NEW w \in Workers, Spawn(w)
  PROVE  \E j, k \in Segs : Promise!Spawn(j, k)
<1> IInv
  BY DEF RInv
<1>1. /\ cur[w] # NULL /\ cur[w] \in Unfinished /\ cur[w] \in Segs /\ cur[w] \in Live
      /\ status[cur[w]] = "RUNNING"
  <2>1. cur[w] # NULL /\ pc[w] \in {"routine", "spawned"}
    BY DEF Spawn, IInv, ControlInv, Control, OnJobPC, JobPC
  <2>2. cur[w] \in Unfinished
    BY <2>1, HeldIsUnfinished DEF TailPC
  <2> QED BY <2>1, <2>2, UnfinishedFacts, LiveFacts DEF RInv, StatusInv, WorkerStatus
<1>2. PICK r \in Segs : create_job(w, r)
                        /\ resume' = [resume EXCEPT ![r] = "routine", ![cur[w]] = "spawned"]
  BY DEF Spawn
<1>3. /\ r \notin Unfinished /\ Unfinished' = Unfinished \cup {r}
      /\ parent'[r] = cur[w] /\ \A s \in Unfinished : parent'[s] = parent[s]
      /\ sem' = sem /\ master' = master
  BY <1>2, TreeGrows
<1>4. mapped # 0 /\ mapped' # 0
  <2>1. mapped' >= 1 /\ mapped' \in 0..Cardinality(Segs) /\ Cardinality(Segs) \in Nat
    BY <1>2, CreateFacts, SegsFacts
  <2>2. 1 <= cur[w] /\ cur[w] <= mapped /\ cur[w] \in Nat /\ mapped \in Nat
    BY <1>1, LiveFacts, SegsFacts DEF IInv, TypeOK
  <2> QED BY <2>1, <2>2
<1>5. resume'[r] = "routine" /\ resume'[cur[w]] = "spawned"
  BY <1>1, <1>2, <1>3 DEF IInv, TypeOK
<1>6. ASSUME NEW s \in Segs, s # r, s # cur[w] PROVE resume'[s] = resume[s] /\ status'[s] = status[s]
  BY <1>2, <1>6 DEF IInv, TypeOK, create_job
<1>7. /\ Phase[r] = "none" /\ Phase[cur[w]] = "running"
      /\ \A s \in Segs : /\ Phase'[s] = IF s = r THEN "running" ELSE Phase[s]
                         /\ Par'[s] = IF s = r THEN cur[w] ELSE Par[s]
  <2>1. Phase[r] = "none" /\ Phase[cur[w]] = "running"
    BY <1>1, <1>3, ShownFacts DEF Waiting
  <2>2. ASSUME NEW s \in Segs
        PROVE  /\ Phase'[s] = IF s = r THEN "running" ELSE Phase[s]
               /\ Par'[s] = IF s = r THEN cur[w] ELSE Par[s]
    <3>1. CASE s = r
      BY <1>3, <1>5, <3>1, ShownNext
    <3>2. CASE s = cur[w] /\ s # r
      BY <1>1, <1>3, <1>5, <2>1, <3>2, ShownFacts, ShownNext
    <3>3. CASE s # cur[w] /\ s # r
      BY <1>3, <1>6, <3>3, ShownFacts, ShownNext DEF Waiting
    <3> QED BY <3>1, <3>2, <3>3
  <2> QED BY <2>1, <2>2
<1>8. Main' = Main
  BY <1>3, <1>4 DEF Main
<1>9. Phase' = [Phase EXCEPT ![r] = "running"] /\ Par' = [Par EXCEPT ![r] = cur[w]]
  BY <1>7, OneShown
<1> QED
  BY <1>1, <1>7, <1>8, <1>9 DEF Promise!Spawn, Promise!Begin, Phase, Par, Main

\* The call of __gregor_sync starts the wait ...
LEMMA CallSyncIsSync ==
  ASSUME RInv, NEW w \in Workers, CallSync(w)
  PROVE  \E j \in Segs : Promise!Sync(j)
<1> IInv /\ WorkerStep(w)
  BY DEF RInv, WorkerStep, JobStep
<1>1. /\ cur[w] # NULL /\ cur[w] \in Unfinished /\ cur[w] \in Segs
      /\ status[cur[w]] = "RUNNING"
  <2>1. cur[w] # NULL /\ pc[w] \in {"routine", "spawned"}
    BY DEF CallSync, Goto, IInv, ControlInv, Control, OnJobPC, JobPC
  <2>2. cur[w] \in Unfinished
    BY <2>1, HeldIsUnfinished DEF TailPC
  <2> QED BY <2>1, <2>2, UnfinishedFacts, LiveFacts DEF RInv, StatusInv, WorkerStatus
<1>2. /\ status'[cur[w]] = "SYNC" /\ resume'[cur[w]] = "sync"
      /\ \A s \in Segs : s # cur[w] => status'[s] = status[s] /\ resume'[s] = resume[s]
  BY <1>1 DEF CallSync, IInv, TypeOK
<1>3. ~BootMainJob(w) /\ ~Spawn(w) /\ ~Leave(w)
  <2>1. spawned' = spawned
    BY DEF CallSync
  <2> QED BY <2>1 DEF CallSync, Goto, BootMainJob, Spawn, Leave, IInv, TypeOK
<1>4. Main' = Main /\ \A s \in Segs : Par'[s] = Par[s] /\ (s # cur[w] => Phase'[s] = Phase[s])
  BY <1>2, <1>3, ShownByWaiting DEF Waiting
<1>5. Phase[cur[w]] = "running" /\ Phase'[cur[w]] = "waiting"
  <2>1. cur[w] \in Unfinished'
    BY <1>1, <1>3, TreeKeeps
  <2> QED BY <1>1, <1>2, <2>1, ShownFacts, ShownNext DEF Waiting
<1>6. Phase' = [Phase EXCEPT ![cur[w]] = "waiting"] /\ Par' = Par
  BY <1>1, <1>4, <1>5 DEF Phase, Par
<1> QED
  BY <1>1, <1>4, <1>5, <1>6 DEF Promise!Sync, Phase, Par, Main

\* ... and the test that finds the counter at zero ends it, when nobody is out.
LEMMA SyncTestIsReturn ==
  ASSUME RInv, NEW w \in Workers, SyncTest(w), pc'[w] = "routine"
  PROVE  \E j \in Segs : Promise!SyncReturn(j)
<1> IInv /\ WorkerStep(w)
  BY DEF RInv, WorkerStep, JobStep
<1>1. cur[w] # NULL /\ cur[w] \in Unfinished /\ cur[w] \in Live /\ cur[w] \in Segs /\ pc[w] = "sync"
  <2>1. cur[w] # NULL /\ pc[w] = "sync"
    BY DEF SyncTest, IInv, ControlInv, Control, OnJobPC, JobPC
  <2>2. cur[w] \in Unfinished
    BY <2>1, HeldIsUnfinished DEF TailPC
  <2> QED BY <2>1, <2>2, UnfinishedFacts, LiveFacts
<1>2. /\ join_counter[cur[w]] = 0 /\ resume[cur[w]] = "sync" /\ resume' = resume
      /\ status' = [status EXCEPT ![cur[w]] = "RUNNING"]
  BY <1>1 DEF SyncTest, jvars, IInv, TypeOK, ControlInv, Control
<1>3. Children(cur[w]) = {}
  BY <1>1, <1>2, CountersNotNegative, FS_EmptySet DEF IInv, CountInv
<1>4. status[cur[w]] = "SYNC"
  <2>1. \A u \in Workers : cur[u] = cur[w] => u = w
    BY <1>1, CurDistinct
  <2> QED BY <1>1, <1>2, <2>1 DEF RInv, StatusInv, JobStatus
<1>5. ~BootMainJob(w) /\ ~Spawn(w) /\ ~Leave(w)
  BY <1>1 DEF Goto, BootMainJob, Spawn, Leave
<1>6. status'[cur[w]] = "RUNNING" /\ \A s \in Segs : s # cur[w] => status'[s] = status[s]
  BY <1>1, <1>2 DEF IInv, TypeOK
<1>7. Main' = Main /\ \A s \in Segs : Par'[s] = Par[s] /\ (s # cur[w] => Phase'[s] = Phase[s])
  BY <1>2, <1>5, <1>6, ShownByWaiting DEF Waiting
<1>8. Phase[cur[w]] = "waiting" /\ Phase'[cur[w]] = "running"
  <2>1. cur[w] \in Unfinished'
    BY <1>1, <1>5, TreeKeeps
  <2> QED BY <1>1, <1>2, <1>4, <1>6, <2>1, ShownFacts, ShownNext DEF Waiting
<1>9. Phase' = [Phase EXCEPT ![cur[w]] = "running"] /\ Par' = Par
  BY <1>1, <1>7, <1>8 DEF Phase, Par
<1>10. Promise!Kids(cur[w]) = {}
  BY <1>1, <1>3, KidsAreChildren
<1> QED
  BY <1>1, <1>7, <1>8, <1>9, <1>10 DEF Promise!SyncReturn, Phase, Par, Main

\* do_cleanup's counting off is the end of the job.
LEMMA LeaveIsLeave ==
  ASSUME RInv, NEW w \in Workers, Leave(w)
  PROVE  \E j \in Segs : Promise!Leave(j)
<1> IInv
  BY DEF RInv
<1>1. /\ cur[w] \in Unfinished /\ cur[w] \in Segs /\ Children(cur[w]) = {}
      /\ resume[cur[w]] = "cleanup"
      /\ \A s : s \in Unfinished' <=> s \in Unfinished /\ s # cur[w]
      /\ parent' = parent /\ master' = master
  BY TreeShrinks, UnfinishedFacts, LiveFacts
<1>2. status' = status /\ resume' = resume /\ mapped' = mapped
  BY DEF Leave, wvars
<1>3. /\ Phase[cur[w]] = "running"
      /\ \A s \in Segs : /\ Phase'[s] = IF s = cur[w] THEN "none" ELSE Phase[s]
                         /\ Par'[s] = IF s = cur[w] THEN NULL ELSE Par[s]
  BY <1>1, <1>2, ShownFacts, ShownNext DEF Waiting
<1>4. Phase' = [Phase EXCEPT ![cur[w]] = "none"] /\ Par' = [Par EXCEPT ![cur[w]] = NULL]
  BY <1>1, <1>3, OneShown
<1>5. Par[cur[w]] = parent[cur[w]]
  BY <1>1, ShownFacts
<1>6. Main' = IF Par[cur[w]] = NULL THEN "done" ELSE Main
  <2>1. CASE parent[cur[w]] = NULL
    <3>1. sem = 0 /\ master = "waiting" /\ sem' = 1
      BY <1>1, <2>1 DEF IInv, TreeInv, Leave
    <3> QED BY <1>1, <1>5, <2>1, <3>1 DEF Main
  <2>2. CASE parent[cur[w]] # NULL
    BY <1>1, <1>2, <1>5, <2>2 DEF Main, Leave
  <2> QED BY <2>1, <2>2
<1>7. Promise!Kids(cur[w]) = {}
  BY <1>1, KidsAreChildren
<1> QED
  BY <1>1, <1>3, <1>4, <1>6, <1>7 DEF Promise!Leave, Phase, Par, Main

\* gregor_main returns.
LEMMA MasterIsMainReturn ==
  ASSUME RInv, MasterReturn
  PROVE  Promise!MainReturn
<1>1. UNCHANGED <<mm, mapped, cur, pc, status, resume, parent>>
  BY DEF MasterReturn, wvars, jvars
<1>2. \A s : Running(s)' <=> Running(s)
  BY <1>1 DEF Running, CountedOff
<1>3. Phase' = Phase /\ Par' = Par
  BY <1>1, <1>2 DEF Phase, Par
<1>4. Main = "done" /\ Main' = "returned"
  BY DEF MasterReturn, Main
<1> QED
  BY <1>3, <1>4 DEF Promise!MainReturn, Phase, Par, Main

\* All other steps are the scheduler's own affair.
LEMMA OthersHidden ==
  ASSUME RInv, NEW w \in Workers, WorkerStep(w), ~BootMainJob(w), ~Spawn(w), ~CallSync(w), ~Leave(w),
         ~(SyncTest(w) /\ pc'[w] = "routine")
  PROVE  UNCHANGED Promise!fjvars
<1> USE DEF IInv, TypeOK, jvars
<1>0. IInv /\ WorkerStatus(w)
  BY DEF RInv, StatusInv
<1>1. ASSUME NEW s \in Segs PROVE (status'[s] = "SYNC" /\ resume'[s] = "sync" <=> Waiting(s))
  <2>1. CASE Return(w)
    <3>1. cur[w] \in Segs /\ status[cur[w]] = "RUNNING"
      BY <1>0, <2>1 DEF Return, WorkerStatus, ControlInv, Control, OnJobPC, JobPC
    <3> QED BY <1>0, <2>1, <3>1 DEF Return, Waiting
  <2>2. CASE SyncTest(w)
    <3>1. cur[w] \in Segs /\ resume' = resume
      BY <1>0, <2>2 DEF SyncTest, ControlInv, Control, OnJobPC, JobPC
    <3>2. status' = status \/ (resume[cur[w]] = "cleanup" /\ status' = [status EXCEPT ![cur[w]] = "RUNNING"])
      BY <1>0, <2>2 DEF SyncTest
    <3> QED BY <1>0, <3>1, <3>2 DEF Waiting
  <2>3. CASE Reschedule(w)
    BY <1>0, <2>3 DEF Reschedule, Waiting, ControlInv, Control
  <2>4. CASE status' = status /\ resume' = resume
    BY <2>4 DEF Waiting
  <2> QED
    BY <2>1, <2>2, <2>3, <2>4
    DEF WorkerStep, StartWorker, PickStep, PickOwn, PopOwn, ChooseVictim, Probe, StealJob, StealNothing,
        RoundOver, SwitchStep, ResetCurrent, JobStep, CheckCounter, SwitchBack, FreeCurrent
<1> QED
  BY <1>0, <1>1, ShownByWaiting, NoneShown

\* The initial state of the runtime is the initial state promised.
LEMMA StartMaps == Init => Promise!Init
<1> SUFFICES ASSUME Init PROVE Promise!Init
  OBVIOUS
<1>1. \A s \in Segs : ~Running(s)
  BY SegsFacts DEF Running, Init
<1>2. Phase = [s \in Segs |-> "none"] /\ Par = [s \in Segs |-> NULL] /\ Main = "idle"
  BY <1>1 DEF Phase, Par, Main, Init
<1> QED
  BY <1>2 DEF Promise!Init, Phase, Par, Main

\* Every step of the runtime is a step of ForkJoin or a stutter.
LEMMA StepMaps == RInv /\ [Next]_vars => [Promise!Next]_(Promise!fjvars)
<1> SUFFICES ASSUME RInv, [Next]_vars PROVE [Promise!Next]_(Promise!fjvars)
  OBVIOUS
<1>1. ASSUME NEW w \in Workers, WorkerStep(w) PROVE [Promise!Next]_(Promise!fjvars)
  <2>1. CASE BootMainJob(w)
    BY <2>1, BootIsStart DEF Promise!Next
  <2>2. CASE Spawn(w)
    BY <2>2, SpawnIsSpawn DEF Promise!Next
  <2>3. CASE CallSync(w)
    BY <2>3, CallSyncIsSync DEF Promise!Next
  <2>4. CASE SyncTest(w) /\ pc'[w] = "routine"
    BY <2>4, SyncTestIsReturn DEF Promise!Next
  <2>5. CASE Leave(w)
    BY <2>5, LeaveIsLeave DEF Promise!Next
  <2> QED BY <1>1, <2>1, <2>2, <2>3, <2>4, <2>5, OthersHidden
<1>2. CASE MasterReturn
  BY <1>2, MasterIsMainReturn DEF Promise!Next
<1>3. CASE UNCHANGED vars
  <2>1. UNCHANGED <<mm, mapped, cur, pc, status, resume, parent, sem, master>>
    BY <1>3 DEF vars, wvars, jvars
  <2>2. \A s : Running(s)' <=> Running(s)
    BY <2>1 DEF Running, CountedOff
  <2> QED BY <2>1, <2>2 DEF Promise!fjvars
<1> QED
  BY <1>1, <1>2, <1>3 DEF Next

\* A program on the scheduler sees fork and join: a spawned job runs beside its
\* parent, sync and the end of a job wait for every child, and gregor_main
\* returns after the main job - whatever is stolen, switched and freed meanwhile.
THEOREM SchedRefinesForkJoin == Spec => ImplementsForkJoin
  BY StartMaps, StepMaps, RInvariance, PTL DEF Spec, ImplementsForkJoin, Promise!Spec

-----------------------------------------------------------------------------
(* The deques.  Hands(w): the jobs that workers have taken from the deque  *)
(* of w and not yet switched to.                                           *)

Hands(w) == [v \in Workers |-> IF FromDeque(w, v) THEN next_job[v] ELSE NULL]

\* What worker v has in hand from the deque of w, before and after a step.
LEMMA HandsFacts ==
  ASSUME NEW w \in Workers, NEW v \in Workers
  PROVE  /\ Hands(w)[v] = IF /\ pc[v] = "resched" /\ next_job[v] # NULL /\ Known(next_job[v])
                             /\ victim[v] = IF v = w THEN NULL ELSE w
                          THEN next_job[v] ELSE NULL
         /\ Hands(w)'[v] = IF /\ pc'[v] = "resched" /\ next_job'[v] # NULL
                              /\ status'[next_job'[v]] # "SPAWN" \/ parent'[next_job'[v]] = NULL
                              /\ victim'[v] = IF v = w THEN NULL ELSE w
                           THEN next_job'[v] ELSE NULL
BY DEF Hands, FromDeque, Known

\* What the others have in hand is as before.
LEMMA HandsOthers ==
  ASSUME IInv, NEW u \in Workers, WorkerStep(u), NEW w \in Workers, NEW v \in Workers, v # u
  PROVE  Hands(w)'[v] = Hands(w)[v]
<1>1. pc'[v] = pc[v] /\ next_job'[v] = next_job[v] /\ victim'[v] = victim[v]
  BY OthersKeep
<1>2. ASSUME next_job[v] # NULL
      PROVE  status'[next_job[v]] = status[next_job[v]] /\ parent'[next_job[v]] = parent[next_job[v]]
  <2>1. next_job[v] \in Live /\ next_job[v] # cur[u] /\ next_job[v] # next_job[u]
    BY <1>2, HeldIsLive, HeldApart
  <2> QED BY <2>1, StatusOthers
<1> QED
  BY <1>1, <1>2, HandsFacts DEF Known

\* A worker outside the switch has nothing in hand.
LEMMA HandsKeep ==
  ASSUME IInv, NEW u \in Workers, WorkerStep(u), pc[u] # "resched", pc'[u] # "resched", NEW w \in Workers
  PROVE  Hands(w)' = Hands(w)
<1>1. Hands(w)'[u] = Hands(w)[u]
  BY HandsFacts
<1>2. \A v \in Workers : Hands(w)'[v] = Hands(w)[v]
  BY <1>1, HandsOthers
<1> QED
  BY <1>2 DEF Hands

\* Nobody has in hand what is new or is another worker's current job.
LEMMA HandsApart ==
  ASSUME IInv, NEW w \in Workers, NEW v \in Workers, Hands(w)[v] # NULL
  PROVE  Hands(w)[v] \in Live /\ \A u \in Workers : Hands(w)[v] # cur[u]
<1>1. next_job[v] # NULL /\ Hands(w)[v] = next_job[v]
  BY HandsFacts
<1> QED
  BY <1>1, HeldIsLive, HeldApart

\* The steps that use a deque, one lemma for each operation: worker 0 and the
\* switch push, ...
LEMMA BootPushes ==
  ASSUME RInv, NEW u \in Workers, BootMainJob(u), NEW w \in Workers
  PROVE  DQ(w)!Next \/ UNCHANGED DQ(w)!vars
<1> IInv /\ WorkerStep(u)
  BY DEF RInv, WorkerStep
<1>1. PICK r \in Segs : create_job(u, r) /\ deque' = [deque EXCEPT ![u] = Append(@, r)]
  BY DEF BootMainJob
<1>2. prober' = prober /\ Hands(w)' = Hands(w)
  BY HandsKeep DEF BootMainJob, Goto, IInv, TypeOK
<1>3. CASE w = u
  <2>1. r \notin Live
    BY <1>1, CreateFacts
  <2>2. r \notin InSeq(deque[w]) /\ \A v \in Workers : Hands(w)[v] # r
    <3>1. \A v \in Workers : Hands(w)[v] # r
      BY <2>1, HandsApart, SegsFacts
    <3> QED BY <2>1, <3>1, HeldIsLive
  <2>3. deque'[w] = Append(deque[w], r)
    BY <1>1, <1>3 DEF IInv, TypeOK
  <2>4. DQ(w)!Push(r)
    BY <1>2, <2>2, <2>3 DEF DQ!Push, DQ!Queued, DQ!Procs, Hands, InSeq
  <2> QED BY <2>4 DEF DQ!Next
<1>4. CASE w # u
  BY <1>1, <1>2, <1>4 DEF DQ!vars, Hands, IInv, TypeOK
<1> QED
  BY <1>3, <1>4

\* Leaving a stack pushes the old job on the worker's own deque, or uses no deque.
LEMMA SwitchPushes ==
  ASSUME RInv, NEW u \in Workers, ResetCurrent(u), NEW w \in Workers
  PROVE  DQ(w)!Next \/ UNCHANGED DQ(w)!vars
<1> IInv /\ WorkerStep(u)
  BY DEF RInv, WorkerStep, SwitchStep
<1>1. deque' = [deque EXCEPT ![u] = IF cur[u] = NULL THEN @ ELSE Append(@, cur[u])]
  BY DEF ResetCurrent
<1>2. prober' = prober /\ Hands(w)' = Hands(w)
  BY HandsKeep DEF ResetCurrent, Goto, IInv, TypeOK, JobPC
<1>3. CASE w = u /\ cur[u] # NULL
  <2>1. cur[u] \in Segs
    BY <1>3 DEF IInv, TypeOK
  <2>2. cur[u] \notin InSeq(deque[w]) /\ \A v \in Workers : Hands(w)[v] # cur[u]
    BY <1>3, HandsApart, HeldApart
  <2>3. deque'[w] = Append(deque[w], cur[u])
    BY <1>1, <1>3 DEF IInv, TypeOK
  <2>4. \E r \in Segs : DQ(w)!Push(r)
    BY <1>2, <2>1, <2>2, <2>3 DEF DQ!Push, DQ!Queued, DQ!Procs, Hands, InSeq
  <2> QED BY <2>4 DEF DQ!Next
<1>4. CASE ~(w = u /\ cur[u] # NULL)
  BY <1>1, <1>2, <1>4 DEF DQ!vars, Hands, IInv, TypeOK
<1> QED
  BY <1>3, <1>4

\* ... do_pick_work pops ...
LEMMA PickPops ==
  ASSUME RInv, NEW u \in Workers, PopOwn(u), NEW w \in Workers
  PROVE  DQ(w)!Next \/ UNCHANGED DQ(w)!vars
<1> IInv /\ WorkerStep(u)
  BY DEF RInv, WorkerStep, PickStep
<1> DEFINE j == deque[u][Len(deque[u])]
<1>1. j \in InSeq(deque[u]) /\ j \in Segs
  BY PopFacts, FrontFacts DEF IInv
<1>2. /\ pc[u] = "pop" /\ pc'[u] = "resched" /\ next_job'[u] = j /\ victim'[u] = NULL
      /\ status' = status /\ parent' = parent
  BY SegsFacts DEF PopOwn, Goto, IInv, TypeOK, RInv, VictimInv, jvars
<1>3. /\ prober' = prober /\ deque'[u] = SubSeq(deque[u], 1, Len(deque[u]) - 1)
      /\ \A v \in Workers : v # u => deque'[v] = deque[v]
      /\ Len(deque[u]) >= 2 \/ (Len(deque[u]) = 1 /\ prober[u] = NULL)
  BY DEF PopOwn, IInv, TypeOK
<1>4. Known(j) /\ j # NULL
  BY <1>1, SegsFacts DEF RInv, QueuedInv
<1> HIDE DEF j
<1>5. Hands(w)[u] = NULL /\ Hands(w)'[u] = IF u = w THEN j ELSE NULL
  BY <1>2, <1>4, SegsFacts, HandsFacts DEF Known
<1>6. \A v \in Workers : v # u => Hands(w)'[v] = Hands(w)[v]
  BY HandsOthers
<1>7. CASE w = u
  <2>1. Hands(w)' = [Hands(w) EXCEPT ![w] = j]
    BY <1>5, <1>6, <1>7 DEF Hands
  <2>2. DQ(w)!Pop
    BY <1>3, <1>5, <1>7, <2>1 DEF DQ!Pop, Hands, j
  <2> QED BY <2>2 DEF DQ!Next
<1>8. CASE w # u
  <2>1. Hands(w)' = Hands(w)
    BY <1>5, <1>6, <1>8 DEF Hands
  <2> QED BY <1>3, <1>8, <2>1 DEF DQ!vars, Hands
<1> QED
  BY <1>7, <1>8

\* ... or steals, in turn with the other thieves, ...
LEMMA ThiefProbes ==
  ASSUME RInv, NEW u \in Workers, Probe(u) \/ StealNothing(u), NEW w \in Workers
  PROVE  DQ(w)!Next \/ UNCHANGED DQ(w)!vars
<1> IInv /\ WorkerStep(u)
  BY DEF RInv, WorkerStep, PickStep
<1>1. victim[u] \in Workers \ {u} /\ deque' = deque
  BY DEF Probe, StealNothing, Goto, IInv, ThiefInv
<1>2. Hands(w)' = Hands(w)
  BY HandsKeep DEF Probe, StealNothing, Goto, IInv, TypeOK
<1>3. CASE w = victim[u] /\ Probe(u)
  <2>1. Hands(w)[u] = NULL
    BY <1>3, HandsFacts DEF Probe, Goto
  <2>2. prober[w] = NULL /\ prober'[w] = u
    BY <1>3 DEF Probe, IInv, TypeOK
  <2>3. DQ(w)!Probe(u)
    BY <1>1, <1>2, <1>3, <2>1, <2>2 DEF DQ!Probe, Hands
  <2> QED BY <1>1, <1>3, <2>3 DEF DQ!Next
<1>4. CASE w = victim[u] /\ StealNothing(u)
  <2>1. prober[w] = u /\ prober'[w] = NULL
    BY <1>4 DEF StealNothing, Goto, IInv, TypeOK, ThiefInv
  <2>2. DQ(w)!Miss(u)
    BY <1>1, <1>2, <1>4, <2>1 DEF DQ!Miss, Hands
  <2> QED BY <1>1, <1>4, <2>2 DEF DQ!Next
<1>5. CASE w # victim[u]
  <2>1. prober'[w] = prober[w]
    BY <1>5 DEF Probe, StealNothing, IInv, TypeOK
  <2> QED BY <1>1, <1>2, <2>1 DEF DQ!vars, Hands
<1> QED
  BY <1>3, <1>4, <1>5

\* StealJob is a steal from the victim's deque and none from the others.
LEMMA ThiefSteals ==
  ASSUME RInv, NEW u \in Workers, StealJob(u), NEW w \in Workers
  PROVE  DQ(w)!Next \/ UNCHANGED DQ(w)!vars
<1> IInv /\ WorkerStep(u)
  BY DEF RInv, WorkerStep, PickStep
<1> DEFINE x == victim[u]
           j == Head(deque[x])
<1>1. x \in Workers \ {u} /\ deque[x] \in Seq(Segs) /\ Len(deque[x]) >= 2 /\ prober[x] = u
  BY DEF StealJob, Goto, IInv, TypeOK, ThiefInv
<1>2. j \in InSeq(deque[x]) /\ j \in Segs
  BY <1>1, ElementFacts, TailFacts
<1>3. /\ pc[u] = "probe" /\ pc'[u] = "resched" /\ next_job'[u] = j /\ victim' = victim
      /\ status' = status /\ parent' = parent
  BY DEF StealJob, Goto, IInv, TypeOK, jvars
<1>4. /\ prober'[x] = NULL /\ deque'[x] = Tail(deque[x])
      /\ \A v \in Workers : v # x => deque'[v] = deque[v] /\ prober'[v] = prober[v]
  BY <1>1 DEF StealJob, IInv, TypeOK
<1>5. Known(j) /\ j # NULL
  BY <1>1, <1>2, SegsFacts DEF RInv, QueuedInv
<1> HIDE DEF j
<1>6. Hands(w)[u] = NULL /\ Hands(w)'[u] = IF w = x THEN j ELSE NULL
  BY <1>1, <1>3, <1>5, SegsFacts, HandsFacts DEF Known
<1>7. \A v \in Workers : v # u => Hands(w)'[v] = Hands(w)[v]
  BY HandsOthers
<1>8. CASE w = x
  <2>1. Hands(w)' = [Hands(w) EXCEPT ![u] = j]
    BY <1>6, <1>7, <1>8 DEF Hands
  <2>2. DQ(w)!Steal(u)
    BY <1>1, <1>4, <1>8, <2>1 DEF DQ!Steal, Hands, j
  <2> QED BY <1>1, <1>8, <2>2 DEF DQ!Next
<1>9. CASE w # x
  <2>1. Hands(w)' = Hands(w)
    BY <1>6, <1>7, <1>9 DEF Hands
  <2> QED BY <1>4, <1>9, <2>1 DEF DQ!vars, Hands
<1> QED
  BY <1>8, <1>9

\* ... and the switch hands over what was taken.
LEMMA SwitchReturns ==
  ASSUME RInv, NEW u \in Workers, Reschedule(u), NEW w \in Workers
  PROVE  DQ(w)!Next \/ UNCHANGED DQ(w)!vars
<1> IInv /\ WorkerStep(u)
  BY DEF RInv, WorkerStep, SwitchStep
<1>1. deque' = deque /\ prober' = prober /\ pc'[u] # "resched"
  BY DEF Reschedule, wvars, IInv, TypeOK
<1>2. Hands(w)'[u] = NULL
  BY <1>1, HandsFacts
<1>3. \A v \in Workers : v # u => Hands(w)'[v] = Hands(w)[v]
  BY HandsOthers
<1>4. Hands(w)' = [Hands(w) EXCEPT ![u] = NULL]
  BY <1>2, <1>3 DEF Hands
<1>5. CASE Hands(w)[u] # NULL
  <2>1. DQ(w)!Return(u)
    BY <1>1, <1>4, <1>5 DEF DQ!Return, Hands
  <2> QED BY <2>1 DEF DQ!Next, DQ!Procs
<1>6. CASE Hands(w)[u] = NULL
  <2>1. Hands(w)' = Hands(w)
    BY <1>2, <1>3, <1>6 DEF Hands
  <2> QED BY <1>1, <2>1 DEF DQ!vars, Hands
<1> QED
  BY <1>5, <1>6

\* A job that is spawned is run at once and is in nobody's hands.
LEMMA SpawnUsesNone ==
  ASSUME RInv, NEW u \in Workers, Spawn(u), NEW w \in Workers
  PROVE  UNCHANGED DQ(w)!vars
<1> IInv /\ WorkerStep(u)
  BY DEF RInv, WorkerStep, JobStep
<1>1. cur[u] # NULL /\ pc[u] # "resched" /\ deque' = deque /\ prober' = prober
  BY DEF Spawn, IInv, ControlInv, Control, OnJobPC, JobPC
<1>2. PICK r \in Segs : create_job(u, r) /\ next_job'[u] = r
  BY DEF Spawn, IInv, TypeOK
<1>3. status'[r] = "SPAWN" /\ parent'[r] = cur[u]
  BY <1>2, CreateFacts DEF create_job, IInv, TypeOK
<1>4. Hands(w)[u] = NULL /\ Hands(w)'[u] = NULL
  BY <1>1, <1>2, <1>3, HandsFacts
<1>5. \A v \in Workers : Hands(w)'[v] = Hands(w)[v]
  BY <1>4, HandsOthers
<1>6. Hands(w)' = Hands(w)
  BY <1>5 DEF Hands
<1> QED
  BY <1>1, <1>6 DEF DQ!vars, Hands

\* No other step comes near a deque.
LEMMA OthersUseNone ==
  ASSUME RInv, NEW u \in Workers, NEW w \in Workers,
         \/ StartWorker(u) \/ PickOwn(u) \/ ChooseVictim(u) \/ RoundOver(u)
         \/ CallSync(u) \/ Return(u) \/ SyncTest(u) \/ Leave(u) \/ CheckCounter(u) \/ SwitchBack(u)
         \/ FreeCurrent(u)
  PROVE  UNCHANGED DQ(w)!vars
<1> IInv /\ WorkerStep(u)
  BY DEF RInv, WorkerStep, PickStep, JobStep
<1>1. deque' = deque /\ prober' = prober
  BY DEF StartWorker, PickOwn, ChooseVictim, RoundOver, CallSync, Return, SyncTest, Leave,
     CheckCounter, SwitchBack, FreeCurrent, wvars
<1>2. pc[u] # "resched" /\ pc'[u] # "resched"
  BY DEF StartWorker, PickOwn, ChooseVictim, RoundOver, CallSync, Return, SyncTest, Leave,
     CheckCounter, SwitchBack, FreeCurrent, Goto, IInv, TypeOK
<1>3. Hands(w)' = Hands(w)
  BY <1>2, HandsKeep
<1> QED
  BY <1>1, <1>3 DEF DQ!vars, Hands

\* The scheduler keeps to the protocol of its deques: one owner pushes and pops,
\* thieves take turns, no job is pushed that is still queued or in somebody's
\* hands.  DequeRefinesSpec (module DequeProofs) is about any use like this.
THEOREM DequesUsedCorrect == Spec => DequesUsedAsPromised
<1>1. ASSUME RInv, [Next]_vars, NEW w \in Workers
      PROVE  DQ(w)!Next \/ UNCHANGED DQ(w)!vars
  <2>1. ASSUME NEW u \in Workers, WorkerStep(u)
        PROVE  DQ(w)!Next \/ UNCHANGED DQ(w)!vars
    BY <1>1, <2>1, BootPushes, SwitchPushes, PickPops, ThiefProbes, ThiefSteals, SwitchReturns,
       SpawnUsesNone, OthersUseNone
    DEF WorkerStep, PickStep, SwitchStep, JobStep
  <2>2. CASE MasterReturn \/ UNCHANGED vars
    <3>1. UNCHANGED <<deque, prober, pc, next_job, victim, status, parent>>
      BY <2>2 DEF MasterReturn, vars, wvars, jvars
    <3> QED BY <3>1 DEF DQ!vars, FromDeque
  <2> QED BY <1>1, <2>1, <2>2 DEF Next
<1>2. RInv /\ [Next]_vars => [\A w \in Workers : DQ(w)!Next \/ UNCHANGED DQ(w)!vars]_vars
  BY <1>1
<1> QED
  BY <1>2, RInvariance, PTL DEF Spec, DequesUsedAsPromised
=============================================================================
