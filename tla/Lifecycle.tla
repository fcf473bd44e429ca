----------------------------- MODULE Lifecycle -----------------------------
(***************************************************************************)
(* Start and end of gregor_main, access by access (init.c, thread.c):      *)
(* worker_info comes from malloc and is filled in by many threads, whose   *)
(* creation may fail.  The program itself is one job, which goes from      *)
(* worker to worker.  Two of its addresses are on stacks of the master:    *)
(* main_arg, and the place of its result, in the caller of gregor_main.    *)
(***************************************************************************)
EXTENDS Integers

CONSTANTS NUM_WORKER, NULL

ASSUME LifecycleAssumption == NUM_WORKER \in Nat \ {0} /\ NULL \notin Nat

Tids == 0..NUM_WORKER - 1

VARIABLES
  master,    \* the thread in gregor_main: "init", "zero", "create", "main", "wait",
             \* "returned", or "error" (__gregor_error)
  next_tid,  \* the next worker whose thread init creates
  failed,    \* the workers whose pthread_create has failed
  setup,     \* worker_info[w].setup: "junk" is what malloc left there, "no", "yes"
  deque,     \* worker_info[w].deque: "junk" or "ready"
  thread,    \* per worker: "none", "cur", "deque", "mm", "setup", "boot", "loop"
  victim,    \* per worker: whose setup it has just found set, or NULL
  ma,        \* main_arg in do_gregor_main: "junk" or "filled"
  job,       \* the main job: "none", "queued", "running", "stored" (its result), "done"
  on,        \* the worker that runs it, or NULL
  sem

vars == <<master, next_tid, failed, setup, deque, thread, victim, ma, job, on, sem>>

-----------------------------------------------------------------------------
(* do_gregor_main and init *)

Malloc == /\ master = "init"
          /\ master' = "zero"
          /\ setup' = [w \in Tids |-> "junk"]
          /\ deque' = [w \in Tids |-> "junk"]
          /\ UNCHANGED <<next_tid, failed, thread, victim, ma, job, on, sem>>

ClearSetup == /\ master = "zero"
              /\ master' = "create"
              /\ setup' = [w \in Tids |-> "no"]
              /\ UNCHANGED <<next_tid, failed, deque, thread, victim, ma, job, on, sem>>

\* What pthread_create returns: 0, or a positive error number.
EAGAIN == 11

CreateThread(w, error) ==
  /\ thread' = [thread EXCEPT ![w] = IF error = 0 THEN "cur" ELSE "none"]
  /\ failed' = IF error = 0 THEN failed ELSE failed \cup {w}

\* Pthread_create looks for a negative number.
CreateHelper ==
  /\ master = "create" /\ next_tid < NUM_WORKER
  /\ \E error \in {0, EAGAIN} : /\ CreateThread(next_tid, error)
                                /\ master' = IF error < 0 THEN "error" ELSE "create"
  /\ next_tid' = next_tid + 1
  /\ UNCHANGED <<setup, deque, victim, ma, job, on, sem>>

FillMainArg ==
  /\ master = "create" /\ next_tid = NUM_WORKER
  /\ master' = "main"
  /\ ma' = "filled"
  /\ UNCHANGED <<next_tid, failed, setup, deque, thread, victim, job, on, sem>>

\* The thread of worker 0 is created without any test.
CreateMain ==
  /\ master = "main"
  /\ \E error \in {0, EAGAIN} : CreateThread(0, error)
  /\ master' = "wait"
  /\ UNCHANGED <<next_tid, setup, deque, victim, ma, job, on, sem>>

\* Mutant: sem_wait is interrupted by a signal.
ReturnInterrupted == /\ master = "wait"
                     /\ master' = "returned"
                     /\ UNCHANGED <<next_tid, failed, setup, deque, thread, victim, ma, job, on, sem>>

\* sem_wait returns; fini does nothing.
Return == /\ master = "wait" /\ sem > 0
          /\ sem' = sem - 1
          /\ master' = "returned"
          /\ UNCHANGED <<next_tid, failed, setup, deque, thread, victim, ma, job, on>>

-----------------------------------------------------------------------------
(* The worker threads *)

Goto(w, from, to) == thread[w] = from /\ thread' = [thread EXCEPT ![w] = to]

\* Mutant: the worker announces its deque before it has one.
InitCurAnnounces(w) == /\ Goto(w, "cur", "deque")
                       /\ setup' = [setup EXCEPT ![w] = "yes"]
                       /\ UNCHANGED <<master, next_tid, failed, deque, victim, ma, job, on, sem>>

\* init_data_structure; mm and the rest that only the worker itself uses is one step.
InitCur(w) == /\ Goto(w, "cur", "deque")
              /\ UNCHANGED <<master, next_tid, failed, setup, deque, victim, ma, job, on, sem>>

InitDeque(w) == /\ Goto(w, "deque", "mm")
                /\ deque' = [deque EXCEPT ![w] = "ready"]
                /\ UNCHANGED <<master, next_tid, failed, setup, victim, ma, job, on, sem>>

InitMemory(w) == /\ Goto(w, "mm", "setup")
                 /\ UNCHANGED <<master, next_tid, failed, setup, deque, victim, ma, job, on, sem>>

\* Mutant: worker 0 goes to work without having queued the main job.
InitSetupNoBoot(w) == /\ Goto(w, "setup", "loop")
                      /\ setup' = [setup EXCEPT ![w] = "yes"]
                      /\ UNCHANGED <<master, next_tid, failed, deque, victim, ma, job, on, sem>>

InitSetup(w) == /\ Goto(w, "setup", IF w = 0 THEN "boot" ELSE "loop")
                /\ setup' = [setup EXCEPT ![w] = "yes"]
                /\ UNCHANGED <<master, next_tid, failed, deque, victim, ma, job, on, sem>>

QueueMain == /\ Goto(0, "boot", "loop")
             /\ job' = "queued"
             /\ UNCHANGED <<master, next_tid, failed, setup, deque, victim, ma, on, sem>>

\* Nobody steals a last job: worker 0 starts the main job itself.
RunMain == /\ thread[0] = "loop" /\ job = "queued"
           /\ job' = "running" /\ on' = 0
           /\ UNCHANGED <<master, next_tid, failed, setup, deque, thread, victim, ma, sem>>

\* After a sync, the program's or the one in do_cleanup, another worker may have it.
ResumeMain(w) == /\ thread[w] = "loop" /\ job \in {"running", "stored"}
                 /\ on # w /\ on' = w
                 /\ UNCHANGED <<master, next_tid, failed, setup, deque, thread, victim, ma, job, sem>>

\* The program has ended; do_cleanup stores its result through ret_ptr ...
StoreMain(w) == /\ on = w /\ job = "running"
                /\ job' = "stored"
                /\ UNCHANGED <<master, next_tid, failed, setup, deque, thread, victim, ma, on, sem>>

\* ... and, when the last sync has returned, wakes the master.
PostMain(w) == /\ on = w /\ job = "stored"
               /\ job' = "done" /\ on' = NULL
               /\ sem' = sem + 1
               /\ UNCHANGED <<master, next_tid, failed, setup, deque, thread, victim, ma>>

\* work_steal reads setup ...
LookSetup(w) ==
  /\ thread[w] = "loop" /\ victim[w] = NULL
  /\ \E v \in Tids \ {w} : /\ setup[v] # "no"
                           /\ victim' = [victim EXCEPT ![w] = v]
  /\ UNCHANGED <<master, next_tid, failed, setup, deque, thread, ma, job, on, sem>>

\* ... and goes on to the deque.
LookDeque(w) ==
  /\ victim[w] # NULL
  /\ victim' = [victim EXCEPT ![w] = NULL]
  /\ UNCHANGED <<master, next_tid, failed, setup, deque, thread, ma, job, on, sem>>

WorkerStep(w) == \/ InitCur(w) \/ InitDeque(w) \/ InitMemory(w) \/ InitSetup(w)
                 \/ ResumeMain(w) \/ StoreMain(w) \/ PostMain(w)
                 \/ LookSetup(w) \/ LookDeque(w)

Init == /\ master = "init" /\ next_tid = 1 /\ failed = {}
        /\ setup = [w \in Tids |-> "junk"] /\ deque = [w \in Tids |-> "junk"]
        /\ thread = [w \in Tids |-> "none"] /\ victim = [w \in Tids |-> NULL]
        /\ ma = "junk" /\ job = "none" /\ on = NULL /\ sem = 0

MasterStep == Malloc \/ ClearSetup \/ CreateHelper \/ FillMainArg \/ CreateMain \/ Return

Next == MasterStep \/ QueueMain \/ RunMain \/ \E w \in Tids : WorkerStep(w)

\* Threads keep running; a program that has been started comes to its end.
Spec == /\ Init /\ [][Next]_vars
        /\ WF_vars(MasterStep) /\ WF_vars(QueueMain) /\ WF_vars(RunMain)
        /\ \A w \in Tids : /\ WF_vars(InitCur(w) \/ InitDeque(w) \/ InitMemory(w) \/ InitSetup(w))
                           /\ WF_vars(LookDeque(w))
        /\ WF_vars(\E w \in Tids : StoreMain(w) \/ PostMain(w))
-----------------------------------------------------------------------------
(* Properties *)

\* A thief never follows the deque pointer of a worker that has not set it, in
\* whatever order the threads start, or do not.
DequesReady == \A w \in Tids : victim[w] # NULL => deque[victim[w]] = "ready"

\* The two addresses on stacks of the master are good as long as a worker uses them.
\* Worker 0 reads main_arg when it has built its own structures, long after the thread
\* was created, and the result of the program is stored by whoever runs it at its end:
\* by then do_gregor_main has filled main_arg, and has not returned.
MasterStackAlive ==
  /\ thread[0] \in {"cur", "deque", "mm", "setup", "boot"} => ma = "filled" /\ master # "returned"
  /\ job \in {"queued", "running"} => master # "returned"

\* It does return, with fewer workers, if threads other than that of worker 0 cannot
\* be created.
Returns == <>(master = "returned" \/ 0 \in failed)
=============================================================================
