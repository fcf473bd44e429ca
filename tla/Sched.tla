------------------------------- MODULE Sched -------------------------------
(***************************************************************************)
(* The work-stealing scheduler: worker threads, jobs and their stacks      *)
(* (src/gregor.c, sched.c, thread.c, closure.S).  A job is identified with *)
(* the memory segment that holds its stack and, at its top, its jcb, so a  *)
(* segment that is freed and allocated again is the same identity, as it   *)
(* is for the pointers in the code.  Each worker's deque is the sequence   *)
(* of DequeSpec.  The routines of the program are any that spawn at most   *)
(* MaxSpawns jobs in all.                                                  *)
(***************************************************************************)
EXTENDS Integers, Sequences, FiniteSets

CONSTANTS Workers,    \* the worker threads
          Worker0,    \* the one with tid 0
          MaxSpawns,  \* bound on the calls of spawn, for model checking
          NULL

ASSUME SchedAssumption ==
  /\ Worker0 \in Workers
  /\ MaxSpawns \in Nat
  /\ NULL \notin Workers \cup Nat

SEGMENT == 2   \* segments per mmapped page

\* One page per job is the most the program can map.
Segs == 1..SEGMENT * (MaxSpawns + 1)

VARIABLES
  \* struct wstate, one per worker
  setup, deque, cur, next_job, mm,
  prober,      \* prober[w]: the thief undecided inside w's deque, or NULL
  \* the thread of each worker
  pc,          \* the code it executes
  sp,          \* the segment its esp points into; NULL: its own pthread stack
  unvisited, victim,   \* locals of do_pick_work
  \* struct jcb, and the stack, of each segment
  join_counter, status, parent,
  resume,      \* where the job goes on when it is switched to
  \* the process
  mapped,      \* number of segments obtained from mmap so far
  sem, master, \* mstate.sem and the thread that called gregor_main
  spawned,     \* calls of spawn so far
  awaited      \* history: children whose result the job's frame still lacks

wvars == <<setup, deque, cur, next_job, mm, prober>>
jvars == <<join_counter, status, parent, resume>>
vars == <<wvars, pc, sp, unvisited, victim, jvars, mapped, sem, master, spawned, awaited>>

\* Control points.  "spawned" is a routine that has spawned since its last sync.
JobPC  == {"routine", "spawned", "sync"}
TailPC == {"check", "back", "free"}    \* the end of do_cleanup
WorkerPC == {"start", "boot", "pick", "pop", "steal", "lock", "probe", "resched", "reset",
             "leave", "panic"} \cup JobPC \cup TailPC

Goto(w, from, to) == /\ pc[w] = from
                     /\ pc' = [pc EXCEPT ![w] = to]

-----------------------------------------------------------------------------
(* The memory managers, as FreeLists describes them; only the worker       *)
(* itself ever uses its list.                                              *)

FL == INSTANCE FreeLists WITH MaxBlocks <- Cardinality(Segs)

\* Mutant: the parent does not count the new child.
create_job_uncounted(w, s) ==
  /\ FL!AllocMemory(w, s)
  /\ status' = [status EXCEPT ![s] = "SPAWN"]
  /\ parent' = [parent EXCEPT ![s] = cur[w]]
  /\ join_counter' = [join_counter EXCEPT ![s] = 0]
  /\ awaited' = [b \in Segs |-> IF b = s THEN {}
                                ELSE awaited[b] \cup (IF b = cur[w] THEN {s} ELSE {})]

\* create_job: the jcb of s, a child of the worker's current job if it has one.
create_job(w, s) ==
  /\ FL!AllocMemory(w, s)
  /\ status' = [status EXCEPT ![s] = "SPAWN"]
  /\ parent' = [parent EXCEPT ![s] = cur[w]]
  /\ join_counter' = [b \in Segs |-> IF b = s THEN 0
                                     ELSE join_counter[b] + (IF b = cur[w] THEN 1 ELSE 0)]
  /\ awaited' = [b \in Segs |-> IF b = s THEN {}
                                ELSE awaited[b] \cup (IF b = cur[w] THEN {s} ELSE {})]

-----------------------------------------------------------------------------
(* Starting a worker *)

\* init_data_structure; the flag setup publishes the deque to thieves.
StartWorker(w) ==
  /\ Goto(w, "start", IF w = Worker0 THEN "boot" ELSE "pick")
  /\ setup' = [setup EXCEPT ![w] = TRUE]
  /\ UNCHANGED <<deque, cur, next_job, mm, prober, sp, unvisited, victim, jvars, mapped, sem,
                 master, spawned, awaited>>

\* do_gregor_main_init: worker 0 queues the main job, which has no parent.
BootMainJob(w) ==
  /\ Goto(w, "boot", "pick")
  /\ \E s \in Segs : /\ create_job(w, s)
                     /\ resume' = [resume EXCEPT ![s] = "routine"]
                     /\ deque' = [deque EXCEPT ![w] = Append(@, s)]
  /\ UNCHANGED <<setup, cur, next_job, prober, sp, unvisited, victim, sem, master, spawned>>

-----------------------------------------------------------------------------
(* do_pick_work, from __gregor_do_work_loop (no current job: tries until   *)
(* it has one) or from __gregor_sync (gives up after one round)            *)

\* isEmpty, with the transient increment of H that an undecided thief makes.
isEmpty(v) == Len(deque[v]) <= IF prober[v] = NULL THEN 0 ELSE 1

PickOwn(w) ==
  /\ pc[w] = "pick"
  /\ IF isEmpty(w)
       THEN /\ pc' = [pc EXCEPT ![w] = "steal"]
            /\ unvisited' = [unvisited EXCEPT ![w] = Workers \ {w}]
       ELSE /\ pc' = [pc EXCEPT ![w] = "pop"]
            /\ unvisited' = unvisited
  /\ UNCHANGED <<wvars, sp, victim, jvars, mapped, sem, master, spawned, awaited>>

\* Mutant: the slow path does not wait for the thief.
PopOwnUnderProbe(w) ==
  /\ Goto(w, "pop", "resched")
  /\ Len(deque[w]) >= 1
  /\ next_job' = [next_job EXCEPT ![w] = deque[w][Len(deque[w])]]
  /\ deque' = [deque EXCEPT ![w] = SubSeq(@, 1, Len(@) - 1)]
  /\ UNCHANGED <<setup, cur, mm, prober, sp, unvisited, victim, jvars, mapped, sem, master,
                 spawned, awaited>>

\* GetNodeFromTail, whose slow path waits for the thief, and set_next_job.  The
\* code has a branch for NULL (go on to steal); PopFindsWork shows it is not taken.
PopOwn(w) ==
  /\ Goto(w, "pop", "resched")
  /\ Len(deque[w]) >= 2 \/ (Len(deque[w]) = 1 /\ prober[w] = NULL)
  /\ next_job' = [next_job EXCEPT ![w] = deque[w][Len(deque[w])]]
  /\ deque' = [deque EXCEPT ![w] = SubSeq(@, 1, Len(@) - 1)]
  /\ UNCHANGED <<setup, cur, mm, prober, sp, unvisited, victim, jvars, mapped, sem, master,
                 spawned, awaited>>

\* What a thief may count out of v's deque because v is counting down T.
Popping(v) == IF pc[v] = "pop" THEN 1 ELSE 0

\* A random victim not tried in this round; work_steal looks before it locks.
\* It reads T and H one after the other: with another thief about to move H in
\* between, any deque may look empty.
ChooseVictim(w) ==
  /\ pc[w] = "steal"
  /\ \E v \in unvisited[w] :
       /\ unvisited' = [unvisited EXCEPT ![w] = @ \ {v}]
       /\ \/ /\ setup[v] /\ ~isEmpty(v)
             /\ pc' = [pc EXCEPT ![w] = "lock"]
             /\ victim' = [victim EXCEPT ![w] = v]
          \/ /\ \/ ~setup[v] \/ isEmpty(v) \/ Len(deque[v]) <= Popping(v)
                \/ Workers \ {v, w} # {}
             /\ UNCHANGED <<pc, victim>>
  /\ UNCHANGED <<wvars, sp, jvars, mapped, sem, master, spawned, awaited>>

\* GetNodeFromHead: in with the victim's mutex ...
Probe(w) ==
  /\ Goto(w, "lock", "probe")
  /\ prober[victim[w]] = NULL
  /\ prober' = [prober EXCEPT ![victim[w]] = w]
  /\ UNCHANGED <<setup, deque, cur, next_job, mm, sp, unvisited, victim, jvars, mapped, sem,
                 master, spawned, awaited>>

\* Mutant: a thief may take the last job.
StealLastJob(w) ==
  LET v == victim[w] IN
  /\ Goto(w, "probe", "resched")
  /\ Len(deque[v]) >= 1
  /\ next_job' = [next_job EXCEPT ![w] = Head(deque[v])]
  /\ deque' = [deque EXCEPT ![v] = Tail(@)]
  /\ prober' = [prober EXCEPT ![v] = NULL]
  /\ UNCHANGED <<setup, cur, mm, sp, unvisited, victim, jvars, mapped, sem, master, spawned,
                 awaited>>

\* ... out with the oldest job, never the last one ...
StealJob(w) ==
  LET v == victim[w] IN
  /\ Goto(w, "probe", "resched")
  /\ Len(deque[v]) >= 2
  /\ next_job' = [next_job EXCEPT ![w] = Head(deque[v])]
  /\ deque' = [deque EXCEPT ![v] = Tail(@)]
  /\ prober' = [prober EXCEPT ![v] = NULL]
  /\ UNCHANGED <<setup, cur, mm, sp, unvisited, victim, jvars, mapped, sem, master, spawned,
                 awaited>>

\* ... or with NULL, also when the owner has just counted down T.
StealNothing(w) ==
  /\ Goto(w, "probe", "steal")
  /\ Len(deque[victim[w]]) < 2 + Popping(victim[w])
  /\ prober' = [prober EXCEPT ![victim[w]] = NULL]
  /\ victim' = [victim EXCEPT ![w] = NULL]
  /\ UNCHANGED <<setup, deque, cur, next_job, mm, sp, unvisited, jvars, mapped, sem, master,
                 spawned, awaited>>

\* Every victim tried: the work loop starts over, sync returns to its test.
RoundOver(w) ==
  /\ Goto(w, "steal", IF cur[w] = NULL THEN "pick" ELSE "sync")
  /\ unvisited[w] = {}
  /\ UNCHANGED <<wvars, sp, unvisited, victim, jvars, mapped, sem, master, spawned, awaited>>

-----------------------------------------------------------------------------
(* Context switch *)

\* do_reschedule: esp moves to the next job's stack, the old one is saved.
\* (The local victim of do_pick_work is dead from here on.)
Reschedule(w) ==
  /\ pc[w] = "resched"
  /\ IF next_job[w] = NULL
       THEN /\ pc' = [pc EXCEPT ![w] = "panic"]
            /\ UNCHANGED <<status, sp, victim>>
       ELSE /\ pc' = [pc EXCEPT ![w] = "reset"]
            /\ status' = [status EXCEPT ![next_job[w]] = IF @ = "SPAWN" THEN "RUNNING" ELSE @]
            /\ sp' = [sp EXCEPT ![w] = next_job[w]]
            /\ victim' = [victim EXCEPT ![w] = NULL]
  /\ UNCHANGED <<wvars, unvisited, join_counter, parent, resume, mapped, sem, master,
                 spawned, awaited>>

\* Mutant: the previous job is queued without looking whether there is one.
ResetCurrentUntested(w) ==
  /\ Goto(w, "reset", IF resume[next_job[w]] \in JobPC THEN resume[next_job[w]] ELSE "sync")
  /\ cur' = [cur EXCEPT ![w] = next_job[w]]
  /\ next_job' = [next_job EXCEPT ![w] = NULL]
  /\ deque' = [deque EXCEPT ![w] = Append(@, cur[w])]
  /\ UNCHANGED <<setup, mm, prober, sp, unvisited, victim, jvars, mapped, sem, master, spawned,
                 awaited>>

\* do_reschedule_reset_current: only now is the previous job put in the deque.
ResetCurrent(w) ==
  /\ Goto(w, "reset", IF resume[next_job[w]] \in JobPC THEN resume[next_job[w]] ELSE "sync")
  /\ cur' = [cur EXCEPT ![w] = next_job[w]]
  /\ next_job' = [next_job EXCEPT ![w] = NULL]
  /\ deque' = [deque EXCEPT ![w] = IF cur[w] = NULL THEN @ ELSE Append(@, cur[w])]
  /\ UNCHANGED <<setup, mm, prober, sp, unvisited, victim, jvars, mapped, sem, master, spawned,
                 awaited>>

-----------------------------------------------------------------------------
(* What a job does *)

\* spawn: the child runs at once, the parent becomes what others can steal.
Spawn(w) ==
  /\ spawned < MaxSpawns
  /\ pc[w] \in {"routine", "spawned"}
  /\ pc' = [pc EXCEPT ![w] = "resched"]
  /\ \E s \in Segs : /\ create_job(w, s)
                     /\ next_job' = [next_job EXCEPT ![w] = s]
                     /\ resume' = [resume EXCEPT ![s] = "routine", ![cur[w]] = "spawned"]
  /\ spawned' = spawned + 1
  /\ UNCHANGED <<setup, deque, cur, prober, sp, unvisited, victim, sem, master>>

\* __gregor_sync, called by the routine (it has no effect when nothing was spawned).
CallSync(w) ==
  /\ Goto(w, "spawned", "sync")
  /\ status' = [status EXCEPT ![cur[w]] = "SYNC"]
  /\ resume' = [resume EXCEPT ![cur[w]] = "sync"]
  /\ UNCHANGED <<wvars, sp, unvisited, victim, join_counter, parent, mapped, sem, master, spawned,
                 awaited>>

\* Mutant: do_cleanup does not sync before it counts the job off.
ReturnWithoutSync(w) ==
  /\ pc[w] \in {"routine", "spawned"}
  /\ pc' = [pc EXCEPT ![w] = "leave"]
  /\ awaited' = [b \in Segs |-> IF b = parent[cur[w]] THEN awaited[b] \ {cur[w]} ELSE awaited[b]]
  /\ UNCHANGED <<wvars, sp, unvisited, victim, jvars, mapped, sem, master, spawned>>

\* The routine returns into cleanup, which stores the result in the parent's
\* frame and calls __gregor_sync for the children it has not waited for.
Return(w) ==
  /\ pc[w] \in {"routine", "spawned"}
  /\ pc' = [pc EXCEPT ![w] = "sync"]
  /\ awaited' = [b \in Segs |-> IF b = parent[cur[w]] THEN awaited[b] \ {cur[w]} ELSE awaited[b]]
  /\ status' = [status EXCEPT ![cur[w]] = "SYNC"]
  /\ resume' = [resume EXCEPT ![cur[w]] = "cleanup"]
  /\ UNCHANGED <<wvars, sp, unvisited, victim, join_counter, parent, mapped, sem, master, spawned>>

\* Mutant: the loop ends with one child still out.
SyncTestEarly(w) ==
  /\ pc[w] = "sync"
  /\ IF join_counter[cur[w]] > 1
       THEN /\ pc' = [pc EXCEPT ![w] = "pick"]
            /\ status' = status
       ELSE /\ pc' = [pc EXCEPT ![w] = IF resume[cur[w]] = "cleanup" THEN "leave" ELSE "routine"]
            /\ status' = [status EXCEPT ![cur[w]] = "RUNNING"]
  /\ UNCHANGED <<wvars, sp, unvisited, victim, join_counter, parent, resume, mapped, sem, master,
                 spawned, awaited>>

\* The test of __gregor_sync's loop.
SyncTest(w) ==
  /\ pc[w] = "sync"
  /\ IF join_counter[cur[w]] # 0
       THEN /\ pc' = [pc EXCEPT ![w] = "pick"]
            /\ status' = status
       ELSE /\ pc' = [pc EXCEPT ![w] = IF resume[cur[w]] = "cleanup" THEN "leave" ELSE "routine"]
            /\ status' = [status EXCEPT ![cur[w]] = "RUNNING"]
  /\ UNCHANGED <<wvars, sp, unvisited, victim, join_counter, parent, resume, mapped, sem, master,
                 spawned, awaited>>

\* Mutants: a child that counts itself off twice, or not at all.
LeaveTwice(w) ==
  /\ pc[w] = "leave"
  /\ IF parent[cur[w]] # NULL
       THEN /\ join_counter' = [join_counter EXCEPT ![parent[cur[w]]] = @ - 2]
            /\ pc' = [pc EXCEPT ![w] = "check"]
            /\ sem' = sem
       ELSE /\ sem' = sem + 1
            /\ pc' = [pc EXCEPT ![w] = "back"]
            /\ join_counter' = join_counter
  /\ UNCHANGED <<wvars, sp, unvisited, victim, status, parent, resume, mapped, master, spawned,
                 awaited>>

LeaveUncounted(w) ==
  /\ pc[w] = "leave"
  /\ sem' = IF parent[cur[w]] # NULL THEN sem ELSE sem + 1
  /\ pc' = [pc EXCEPT ![w] = "back"]
  /\ UNCHANGED <<wvars, sp, unvisited, victim, jvars, mapped, master, spawned, awaited>>

\* do_cleanup after its sync: a child counts itself off, the main job wakes
\* the thread that called gregor_main.
Leave(w) ==
  /\ pc[w] = "leave"
  /\ IF parent[cur[w]] # NULL
       THEN /\ join_counter' = [join_counter EXCEPT ![parent[cur[w]]] = @ - 1]
            /\ pc' = [pc EXCEPT ![w] = "check"]
            /\ sem' = sem
       ELSE /\ sem' = sem + 1
            /\ pc' = [pc EXCEPT ![w] = "back"]
            /\ join_counter' = join_counter
  /\ UNCHANGED <<wvars, sp, unvisited, victim, status, parent, resume, mapped, master, spawned,
                 awaited>>

\* It reads the counter again, of a parent that may be gone by now.
CheckCounter(w) ==
  /\ Goto(w, "check", IF join_counter[parent[cur[w]]] < 0 THEN "panic" ELSE "back")
  /\ UNCHANGED <<wvars, sp, unvisited, victim, jvars, mapped, sem, master, spawned, awaited>>

\* Mutant: the job's segment is freed while the worker still runs on it.
SwitchBackLate(w) ==
  /\ Goto(w, "back", "free")
  /\ UNCHANGED <<wvars, sp, unvisited, victim, jvars, mapped, sem, master, spawned, awaited>>

\* swicth_free_current: off the job's stack first ...
SwitchBack(w) ==
  /\ Goto(w, "back", "free")
  /\ sp' = [sp EXCEPT ![w] = NULL]
  /\ UNCHANGED <<wvars, unvisited, victim, jvars, mapped, sem, master, spawned, awaited>>

\* Mutant: the freed job stays current.
FreeCurrentKept(w) ==
  /\ Goto(w, "free", "pick")
  /\ FL!FreeMemory(w, cur[w])
  /\ UNCHANGED <<setup, deque, cur, next_job, prober, sp, unvisited, victim, jvars, sem, master,
                 spawned, awaited>>

\* ... then free_current, and back into the work loop.
FreeCurrent(w) ==
  /\ Goto(w, "free", "pick")
  /\ FL!FreeMemory(w, cur[w])
  /\ cur' = [cur EXCEPT ![w] = NULL]
  /\ UNCHANGED <<setup, deque, next_job, prober, sp, unvisited, victim, jvars, sem, master, spawned,
                 awaited>>

-----------------------------------------------------------------------------
\* do_gregor_main: sem_wait returns, and with it gregor_main.
MasterReturn ==
  /\ master = "waiting" /\ sem > 0
  /\ sem' = sem - 1
  /\ master' = "returned"
  /\ UNCHANGED <<wvars, pc, sp, unvisited, victim, jvars, mapped, spawned, awaited>>

Init ==
  /\ setup = [w \in Workers |-> FALSE]
  /\ deque = [w \in Workers |-> <<>>]
  /\ cur = [w \in Workers |-> NULL]
  /\ next_job = [w \in Workers |-> NULL]
  /\ mm = [w \in Workers |-> <<>>]
  /\ prober = [w \in Workers |-> NULL]
  /\ pc = [w \in Workers |-> "start"]
  /\ sp = [w \in Workers |-> NULL]
  /\ unvisited = [w \in Workers |-> {}]
  /\ victim = [w \in Workers |-> NULL]
  /\ join_counter = [s \in Segs |-> 0]
  /\ status = [s \in Segs |-> "SPAWN"]
  /\ parent = [s \in Segs |-> NULL]
  /\ resume = [s \in Segs |-> "routine"]
  /\ mapped = 0 /\ sem = 0 /\ master = "waiting" /\ spawned = 0
  /\ awaited = [s \in Segs |-> {}]

PickStep(w) == \/ PickOwn(w) \/ PopOwn(w) \/ ChooseVictim(w) \/ Probe(w)
               \/ StealJob(w) \/ StealNothing(w) \/ RoundOver(w)

SwitchStep(w) == Reschedule(w) \/ ResetCurrent(w)

JobStep(w) == \/ Spawn(w) \/ CallSync(w) \/ Return(w) \/ SyncTest(w)
              \/ Leave(w) \/ CheckCounter(w) \/ SwitchBack(w) \/ FreeCurrent(w)

WorkerStep(w) == StartWorker(w) \/ BootMainJob(w) \/ PickStep(w) \/ SwitchStep(w) \/ JobStep(w)

Next == MasterReturn \/ \E w \in Workers : WorkerStep(w)

Spec == Init /\ [][Next]_vars

\* Every worker is a thread of its own that the kernel keeps running.  Nothing is said
\* of who gets a mutex that several threads wait for.
FairSpec == Spec /\ WF_vars(MasterReturn) /\ \A w \in Workers : WF_vars(WorkerStep(w))
-----------------------------------------------------------------------------
(* Properties *)

TypeOK ==
  /\ setup \in [Workers -> BOOLEAN]
  /\ deque \in [Workers -> Seq(Segs)]
  /\ cur \in [Workers -> Segs \cup {NULL}]
  /\ next_job \in [Workers -> Segs \cup {NULL}]
  /\ mm \in [Workers -> Seq(Segs)]
  /\ prober \in [Workers -> Workers \cup {NULL}]
  /\ pc \in [Workers -> WorkerPC]
  /\ sp \in [Workers -> Segs \cup {NULL}]
  /\ unvisited \in [Workers -> SUBSET Workers]
  /\ victim \in [Workers -> Workers \cup {NULL}]
  /\ join_counter \in [Segs -> Int]
  /\ status \in [Segs -> {"SPAWN", "RUNNING", "SYNC"}]
  /\ parent \in [Segs -> Segs \cup {NULL}]
  /\ resume \in [Segs -> {"routine", "spawned", "sync", "cleanup"}]
  /\ mapped \in 0..Cardinality(Segs)
  /\ sem \in Nat
  /\ master \in {"waiting", "returned"}
  /\ spawned \in 0..MaxSpawns
  /\ awaited \in [Segs -> SUBSET Segs]

InSeq(q) == {q[i] : i \in 1..Len(q)}

Free == UNION {InSeq(mm[w]) : w \in Workers}
Live == {s \in Segs : s <= mapped} \ Free

\* Where a pointer to segment s is kept: a slot of a free list or of a deque,
\* the cur or the next_job of a worker.
Slots(q, s) == {i \in 1..Len(q) : q[i] = s}
Places(s) == UNION {  ({"mm"} \X {w} \X Slots(mm[w], s))
                 \cup ({"deque"} \X {w} \X Slots(deque[w], s))
                 \cup ({"cur"} \X {w} \X Slots(<<cur[w]>>, s))
                 \cup ({"next_job"} \X {w} \X Slots(<<next_job[w]>>, s)) : w \in Workers}

\* Every mapped segment is in exactly one place: no job is lost, queued twice,
\* run by two workers or freed while someone can still run it.
JobInOnePlace == \A s \in Segs : Cardinality(Places(s)) = IF s <= mapped THEN 1 ELSE 0

\* No two workers ever execute on the same stack, and nobody executes on the
\* stack of a job that others can take from a deque or on freed memory.
StackExclusive ==
  \A w \in Workers : sp[w] # NULL =>
    /\ \A v \in Workers : sp[v] = sp[w] => v = w
    /\ \A v \in Workers : sp[w] \notin InSeq(deque[v]) \cup InSeq(mm[v])

\* The children of b that have not counted themselves off yet.
CountedOff(s) == \E w \in Workers : cur[w] = s /\ pc[w] \in TailPC
Pending(b) == {s \in Live : parent[s] = b /\ ~CountedOff(s)}

\* A job's join_counter is the number of its children that are not finished.
JoinCounterExact == \A b \in Live : join_counter[b] = Cardinality(Pending(b))

\* A child never outlives the frame it stores its result in and the jcb it
\* counts itself off from.
ParentOutlivesChild ==
  \A s \in Live : parent[s] # NULL /\ ~CountedOff(s) => parent[s] \in Live

\* sync lets a job go on only when every result it waits for has been stored
\* and every child has counted itself off.
SyncJoins ==
  [][\A w \in Workers : pc[w] = "sync" /\ pc'[w] \in {"routine", "leave"}
       => awaited[cur[w]] = {} /\ Pending(cur[w]) = {}]_vars

\* The consistency checks of the code never fail, the one on a counter read
\* from a parent that may be freed and allocated again included.
NeverPanics == \A w \in Workers : pc[w] # "panic"

\* A worker that has seen work in its own deque finds it there, whatever
\* thieves do in between.
PopFindsWork == \A w \in Workers : pc[w] = "pop" => deque[w] # <<>>

\* When gregor_main returns no job of the program is left to run: workers at
\* most finish the end of do_cleanup.
NothingLeftToRun ==
  master = "returned" =>
    \A w \in Workers : /\ deque[w] = <<>> /\ next_job[w] = NULL
                       /\ cur[w] # NULL => pc[w] \in TailPC

\* What sched.c:101 says of a fruitless round of do_pick_work: "at this point, no
\* one has any work to do".  With one victim to try, the look at it ends the round;
\* a job that its owner is just about to take does not count.
NoOneHasWork ==
  [][\A w \in Workers :
       /\ pc[w] \in {"steal", "probe"} /\ pc'[w] = "steal" /\ unvisited'[w] = {}
       /\ <<unvisited[w], victim[w]>> # <<unvisited'[w], victim'[w]>>
       => \A v \in Workers : deque[v] = <<>> \/ pc[v] \in {"pick", "pop"}]_vars

\* A worker waits for ever for a mutex that others take again and again.
Starved(w) == <>[](pc[w] \in {"pop", "lock"})

\* A worker looks at its deque again and again while there is a job in it, and each time
\* the increment of H of some thief hides it.
Misled(w) == []<>(pc[w] = "pick" /\ deque[w] # <<>>) /\ <>[](pc[w] # "pop")

\* Threads that merely keep running bring every program whose routines terminate to its
\* end, through all suspended and stolen jobs, and gregor_main returns, unless a worker
\* is starved of a mutex or misled about its own deque for ever; nothing in the code
\* excludes these two.
FinishesUnlessStarved ==
  <>(master = "returned") \/ \E w \in Workers : Starved(w) \/ Misled(w)

-----------------------------------------------------------------------------
(* What the scheduler implements, and what it uses *)

Running(s) == /\ s <= mapped /\ ~CountedOff(s)
              /\ \A w \in Workers : \A i \in 1..Len(mm[w]) : mm[w][i] # s

Promise == INSTANCE ForkJoin WITH
  Jobs <- Segs,
  phase <- [s \in Segs |-> IF ~Running(s) THEN "none"
                           ELSE IF status[s] = "SYNC" /\ resume[s] = "sync" THEN "waiting"
                           ELSE "running"],
  parent <- [s \in Segs |-> IF Running(s) THEN parent[s] ELSE NULL],
  main <- IF master = "returned" THEN "returned"
          ELSE IF sem > 0 THEN "done" ELSE IF mapped = 0 THEN "idle" ELSE "running"

\* Whatever the workers, the deques and the stacks do, a program sees fork and join:
\* spawn, sync, do_cleanup and gregor_main are the only steps that show, in the
\* order ForkJoin promises.  A job is gone once it has counted itself off.
ImplementsForkJoin == Promise!Spec

\* w's deque as DequeSpec sees it; v's hands hold a job of this deque between its
\* removal and the context switch.
FromDeque(w, v) == /\ pc[v] = "resched" /\ next_job[v] # NULL
                   /\ status[next_job[v]] # "SPAWN" \/ parent[next_job[v]] = NULL
                   /\ victim[v] = IF v = w THEN NULL ELSE w

DQ(w) == INSTANCE DequeSpec WITH
  Jobs <- Segs, Owner <- w, Thieves <- Workers \ {w},
  items <- deque[w], prober <- prober[w],
  got <- [v \in Workers |-> IF FromDeque(w, v) THEN next_job[v] ELSE NULL]

\* The scheduler keeps to the protocol that Deque was shown to implement: one
\* owner pushes and pops, thieves take turns, and no job is queued that is still
\* queued or in the hands of somebody who has just removed it.
DequesUsedAsPromised == [][\A w \in Workers : DQ(w)!Next \/ UNCHANGED DQ(w)!vars]_vars
=============================================================================
