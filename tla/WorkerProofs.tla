---------------------------- MODULE WorkerProofs ----------------------------
(***************************************************************************)
(* Proofs about a worker outside of the scheduler.  Lifecycle: however the *)
(* threads start, and whichever of them do, no thief follows a deque       *)
(* pointer that is not set, and the frames of the master that a worker has *)
(* an address in outlive its last use.  Victims: as long as the workers    *)
(* fit into the bits of an int, a search leaves nobody out, whatever       *)
(* numbers are drawn.                                                      *)
(***************************************************************************)
EXTENDS Lifecycle, Victims, TLAPS

USE LifecycleAssumption

Stages == {"none", "cur", "deque", "mm", "setup", "boot", "loop"}

TypeOK == /\ master \in {"init", "zero", "create", "main", "wait", "returned"}
          /\ next_tid \in Nat \ {0}
          /\ failed \subseteq Nat
          /\ setup \in [Tids -> {"junk", "no", "yes"}]
          /\ deque \in [Tids -> {"junk", "ready"}]
          /\ thread \in [Tids -> Stages]
          /\ victim \in [Tids -> Tids \cup {NULL}]
          /\ ma \in {"junk", "filled"}
          /\ job \in {"none", "queued", "running", "stored", "done"}
          /\ on \in Tids \cup {NULL}
          /\ sem \in Nat

\* No thread exists before init has zeroed the flags, and none finds junk in a flag.
ZeroedFirst ==
  /\ master \in {"init", "zero"} => \A w \in Tids : thread[w] = "none" /\ victim[w] = NULL
  /\ master \notin {"init", "zero"} => \A w \in Tids : setup[w] # "junk"

\* A worker has its deque from the end of InitDeque on, before its flag says so.
DequeBeforeSetup ==
  \A w \in Tids : \/ deque[w] = "ready"
                  \/ setup[w] # "yes" /\ thread[w] \in {"none", "cur", "deque"}

\* Worker 0 is created last, by CreateMain, and queues the main job once;
\* main_arg is filled before.
MainJobOnce ==
  /\ master \in {"init", "zero", "create", "main"} => thread[0] = "none"
  /\ thread[0] # "loop" => job = "none"
  /\ master \in {"main", "wait", "returned"} => ma = "filled"

\* The semaphore is up only after the end of the main job.
SemaphoreCounts == sem > 0 \/ master = "returned" => job = "done"

IInv == TypeOK /\ ZeroedFirst /\ DequeBeforeSetup /\ DequesReady /\ MainJobOnce /\ SemaphoreCounts

-----------------------------------------------------------------------------
(* The invariant *)

\* It holds at the call of gregor_main.
LEMMA InitInv == Init => IInv
  BY DEF Init, IInv, TypeOK, Stages, ZeroedFirst, DequeBeforeSetup, DequesReady,
         MainJobOnce, SemaphoreCounts, Tids

\* Worker 0 exists.
LEMMA ZeroIsTid == 0 \in Tids
  BY DEF Tids

\* Types.
LEMMA TypeStep == TypeOK /\ [Next]_vars => TypeOK'
<1> SUFFICES ASSUME TypeOK, [Next]_vars PROVE TypeOK'
  OBVIOUS
<1> USE DEF TypeOK, Stages
<1>1. CASE UNCHANGED vars
  BY <1>1 DEF vars
<1>2. CASE MasterStep
  <2>1. CASE Malloc
    BY <2>1 DEF Malloc
  <2>2. CASE ClearSetup
    BY <2>2 DEF ClearSetup
  <2>3. CASE CreateHelper
    <3>1. failed' \subseteq failed \cup {next_tid} /\ thread' \in [Tids -> Stages]
      BY <2>3 DEF CreateHelper, CreateThread
    <3>2. master' = "create" /\ next_tid' \in Nat \ {0}
      BY <2>3 DEF CreateHelper, EAGAIN
    <3>3. UNCHANGED <<setup, deque, victim, ma, job, on, sem>>
      BY <2>3 DEF CreateHelper
    <3> QED BY <3>1, <3>2, <3>3
  <2>4. CASE CreateMain
    <3>1. failed' \subseteq failed \cup {0} /\ thread' \in [Tids -> Stages]
      BY <2>4 DEF CreateMain, CreateThread
    <3>2. master' = "wait" /\ UNCHANGED <<next_tid, setup, deque, victim, ma, job, on, sem>>
      BY <2>4 DEF CreateMain
    <3> QED BY <3>1, <3>2
  <2>5. CASE Return
    BY <2>5 DEF Return
  <2>6. CASE FillMainArg
    BY <2>6 DEF FillMainArg
  <2> QED BY <1>2, <2>1, <2>2, <2>3, <2>4, <2>5, <2>6 DEF MasterStep
<1>3. CASE QueueMain \/ RunMain
  BY <1>3, ZeroIsTid DEF QueueMain, RunMain, Goto
<1>4. ASSUME NEW w \in Tids, WorkerStep(w) PROVE TypeOK'
  <2>1. CASE InitCur(w) \/ InitDeque(w) \/ InitMemory(w) \/ InitSetup(w)
    BY <2>1 DEF InitCur, InitDeque, InitMemory, InitSetup, Goto
  <2>2. CASE ResumeMain(w)
    BY <2>2 DEF ResumeMain
  <2>4. CASE StoreMain(w)
    BY <2>4 DEF StoreMain
  <2>5. CASE PostMain(w)
    BY <2>5 DEF PostMain
  <2>3. CASE LookSetup(w) \/ LookDeque(w)
    BY <2>3 DEF LookSetup, LookDeque
  <2> QED BY <1>4, <2>1, <2>2, <2>3, <2>4, <2>5 DEF WorkerStep
<1> QED BY <1>1, <1>2, <1>3, <1>4 DEF Next

\* Until the flags are zeroed there are no threads, so that no thread sees them junk.
LEMMA ZeroedStep == TypeOK /\ ZeroedFirst /\ [Next]_vars => ZeroedFirst'
<1> SUFFICES ASSUME TypeOK, ZeroedFirst, [Next]_vars PROVE ZeroedFirst'
  OBVIOUS
<1> USE DEF TypeOK, ZeroedFirst
<1>1. CASE UNCHANGED vars
  BY <1>1 DEF vars
<1>2. CASE MasterStep
  <2>1. CASE Malloc \/ FillMainArg
    BY <2>1 DEF Malloc, FillMainArg
  <2>2. CASE ClearSetup
    BY <2>2 DEF ClearSetup
  <2>3. CASE CreateHelper
    BY <2>3 DEF CreateHelper, CreateThread, EAGAIN
  <2>4. CASE CreateMain
    BY <2>4 DEF CreateMain, CreateThread
  <2>5. CASE Return
    BY <2>5 DEF Return
  <2> QED BY <1>2, <2>1, <2>2, <2>3, <2>4, <2>5 DEF MasterStep
<1>3. CASE QueueMain \/ RunMain
  BY <1>3, ZeroIsTid DEF QueueMain, RunMain, Goto
<1>4. ASSUME NEW w \in Tids, WorkerStep(w) PROVE ZeroedFirst'
  <2>1. CASE InitCur(w) \/ InitDeque(w) \/ InitMemory(w) \/ InitSetup(w)
    BY <2>1 DEF InitCur, InitDeque, InitMemory, InitSetup, Goto
  <2>2. CASE ResumeMain(w) \/ StoreMain(w) \/ PostMain(w)
    BY <2>2 DEF ResumeMain, StoreMain, PostMain
  <2>3. CASE LookSetup(w) \/ LookDeque(w)
    BY <2>3 DEF LookSetup, LookDeque
  <2> QED BY <1>4, <2>1, <2>2, <2>3 DEF WorkerStep
<1> QED BY <1>1, <1>2, <1>3, <1>4 DEF Next

\* A deque is set before its flag, and stays; a second pthread_create would not matter.
LEMMA SetupStep ==
  TypeOK /\ ZeroedFirst /\ DequeBeforeSetup /\ [Next]_vars => DequeBeforeSetup'
<1> SUFFICES ASSUME TypeOK, ZeroedFirst, DequeBeforeSetup, [Next]_vars
             PROVE  DequeBeforeSetup'
  OBVIOUS
<1> USE DEF TypeOK, DequeBeforeSetup
<1>1. CASE UNCHANGED vars
  BY <1>1 DEF vars
<1>2. CASE MasterStep
  <2>1. CASE Malloc \/ ClearSetup \/ FillMainArg
    BY <2>1 DEF Malloc, ClearSetup, FillMainArg, ZeroedFirst
  <2>2. CASE CreateHelper
    BY <2>2 DEF CreateHelper, CreateThread
  <2>3. CASE CreateMain
    BY <2>3 DEF CreateMain, CreateThread
  <2>4. CASE Return
    BY <2>4 DEF Return
  <2> QED BY <1>2, <2>1, <2>2, <2>3, <2>4 DEF MasterStep
<1>3. CASE QueueMain \/ RunMain
  BY <1>3, ZeroIsTid DEF QueueMain, RunMain, Goto
<1>4. ASSUME NEW w \in Tids, WorkerStep(w) PROVE DequeBeforeSetup'
  <2>1. CASE InitCur(w) \/ InitDeque(w) \/ InitMemory(w) \/ InitSetup(w)
    BY <2>1 DEF InitCur, InitDeque, InitMemory, InitSetup, Goto
  <2>2. CASE ResumeMain(w) \/ StoreMain(w) \/ PostMain(w)
    BY <2>2 DEF ResumeMain, StoreMain, PostMain
  <2>3. CASE LookSetup(w) \/ LookDeque(w)
    BY <2>3 DEF LookSetup, LookDeque
  <2> QED BY <1>4, <2>1, <2>2, <2>3 DEF WorkerStep
<1> QED BY <1>1, <1>2, <1>3, <1>4 DEF Next

\* A thief that finds a flag set, which is never junk by then, finds the deque too.
LEMMA VictimStep ==
  TypeOK /\ ZeroedFirst /\ DequeBeforeSetup /\ DequesReady /\ [Next]_vars => DequesReady'
<1> SUFFICES ASSUME TypeOK, ZeroedFirst, DequeBeforeSetup, DequesReady, [Next]_vars
             PROVE  DequesReady'
  OBVIOUS
<1> USE DEF TypeOK, DequesReady
<1>1. CASE UNCHANGED vars
  BY <1>1 DEF vars
<1>2. CASE MasterStep
  BY <1>2 DEF MasterStep, Malloc, ClearSetup, CreateHelper, FillMainArg, CreateMain, Return,
              ZeroedFirst
<1>3. CASE QueueMain \/ RunMain
  BY <1>3 DEF QueueMain, RunMain
<1>4. ASSUME NEW w \in Tids, WorkerStep(w) PROVE DequesReady'
  <2>1. CASE InitCur(w) \/ InitMemory(w) \/ InitSetup(w) \/ ResumeMain(w) \/ StoreMain(w)
               \/ PostMain(w)
    BY <2>1 DEF InitCur, InitMemory, InitSetup, ResumeMain, StoreMain, PostMain
  <2>2. CASE InitDeque(w)
    BY <2>2 DEF InitDeque
  <2>3. CASE LookSetup(w)
    <3>1. PICK v \in Tids \ {w} : /\ setup[v] # "no"
                                  /\ victim' = [victim EXCEPT ![w] = v]
      BY <2>3 DEF LookSetup
    <3>2. setup[v] = "yes"
      BY <2>3, <3>1 DEF LookSetup, ZeroedFirst
    <3>3. deque[v] = "ready"
      BY <3>2 DEF DequeBeforeSetup
    <3> QED BY <2>3, <3>1, <3>3 DEF LookSetup
  <2>4. CASE LookDeque(w)
    BY <2>4 DEF LookDeque
  <2> QED BY <1>4, <2>1, <2>2, <2>3, <2>4 DEF WorkerStep
<1> QED BY <1>1, <1>2, <1>3, <1>4 DEF Next

\* The main job is queued by the only thread 0 there ever is.
LEMMA MainJobStep == TypeOK /\ MainJobOnce /\ [Next]_vars => MainJobOnce'
<1> SUFFICES ASSUME TypeOK, MainJobOnce, [Next]_vars PROVE MainJobOnce'
  OBVIOUS
<1> USE ZeroIsTid DEF TypeOK, MainJobOnce
<1>1. CASE UNCHANGED vars
  BY <1>1 DEF vars
<1>2. CASE MasterStep
  <2>1. CASE Malloc \/ ClearSetup \/ FillMainArg \/ Return
    BY <2>1 DEF Malloc, ClearSetup, FillMainArg, Return
  <2>2. CASE CreateHelper
    BY <2>2 DEF CreateHelper, CreateThread
  <2>3. CASE CreateMain
    BY <2>3 DEF CreateMain, CreateThread
  <2> QED BY <1>2, <2>1, <2>2, <2>3 DEF MasterStep
<1>3. CASE QueueMain \/ RunMain
  BY <1>3 DEF QueueMain, RunMain, Goto
<1>4. ASSUME NEW w \in Tids, WorkerStep(w) PROVE MainJobOnce'
  <2>1. CASE InitCur(w) \/ InitDeque(w) \/ InitMemory(w) \/ InitSetup(w)
    BY <2>1 DEF InitCur, InitDeque, InitMemory, InitSetup, Goto
  <2>2. CASE ResumeMain(w) \/ StoreMain(w) \/ PostMain(w)
    BY <2>2 DEF ResumeMain, StoreMain, PostMain
  <2>3. CASE LookSetup(w) \/ LookDeque(w)
    BY <2>3 DEF LookSetup, LookDeque
  <2> QED BY <1>4, <2>1, <2>2, <2>3 DEF WorkerStep
<1> QED BY <1>1, <1>2, <1>3, <1>4 DEF Next

\* A job that has ended is never queued or started again.
LEMMA SemaphoreStep ==
  TypeOK /\ MainJobOnce /\ SemaphoreCounts /\ [Next]_vars => SemaphoreCounts'
<1> SUFFICES ASSUME TypeOK, MainJobOnce, SemaphoreCounts, [Next]_vars
             PROVE  SemaphoreCounts'
  OBVIOUS
<1> USE DEF TypeOK, SemaphoreCounts
<1>1. CASE UNCHANGED vars
  BY <1>1 DEF vars
<1>2. CASE MasterStep
  BY <1>2 DEF MasterStep, Malloc, ClearSetup, CreateHelper, FillMainArg, CreateMain, Return, EAGAIN
<1>3. CASE QueueMain \/ RunMain
  BY <1>3 DEF QueueMain, RunMain, Goto, MainJobOnce
<1>4. ASSUME NEW w \in Tids, WorkerStep(w) PROVE SemaphoreCounts'
  BY <1>4 DEF WorkerStep, InitCur, InitDeque, InitMemory, InitSetup, ResumeMain, StoreMain,
              PostMain, LookSetup, LookDeque
<1> QED BY <1>1, <1>2, <1>3, <1>4 DEF Next

\* Every reachable state satisfies the invariant.
LEMMA Invariance == Spec => []IInv
<1>1. IInv /\ [Next]_vars => IInv'
  BY TypeStep, ZeroedStep, SetupStep, VictimStep, MainJobStep, SemaphoreStep DEF IInv
<1> QED BY InitInv, <1>1, PTL DEF Spec

-----------------------------------------------------------------------------
(* Theorems *)

\* work_steal, having found setup of a victim set, finds its deque set as well
\* (thread.c: init_data_structure sets deque before setup; init.c zeroes setup before it
\* creates a thread), for any number of workers and any pthread_create that fails.
THEOREM DequesReadyCorrect == Spec => []DequesReady
<1>1. IInv => DequesReady
  BY DEF IInv
<1> QED BY Invariance, <1>1, PTL

\* Worker 0 finds main_arg filled and the frame of do_gregor_main still there, and the
\* result of the program is stored before gregor_main returns to the frame it is
\* stored in (thread.c: do_gregor_main, do_gregor_main_init, do_cleanup).
THEOREM MasterStackAliveCorrect == Spec => []MasterStackAlive
<1>1. ASSUME IInv PROVE MasterStackAlive
  <2>1. thread[0] \in Stages /\ master \in {"init", "zero", "create", "main", "wait", "returned"}
    BY <1>1, ZeroIsTid DEF IInv, TypeOK
  <2>2. ASSUME thread[0] \in {"cur", "deque", "mm", "setup", "boot"}
        PROVE  ma = "filled" /\ master # "returned"
    BY <1>1, <2>1, <2>2 DEF IInv, MainJobOnce, SemaphoreCounts
  <2>3. ASSUME job \in {"queued", "running"} PROVE master # "returned"
    BY <1>1, <2>3 DEF IInv, SemaphoreCounts
  <2> QED BY <2>2, <2>3 DEF MasterStackAlive
<1> QED BY Invariance, <1>1, PTL
-----------------------------------------------------------------------------
(* The search for a victim, of one of so many workers *)

USE VictimsAssumption

Ids == 0..workers - 1

SearchTypeOK == /\ workers \in 1..MaxWorkers
                /\ tid \in Ids
                /\ rand \in Nat
                /\ pc \in {"own", "steal"}
                /\ tried \in [Ids -> Nat]

\* In a round the mask has the workers not yet tried, and never the worker itself.
MaskIsRest ==
  pc = "steal" => /\ unvisited \subseteq Ids \ {tid}
                  /\ \A v \in Ids : tried[v] = IF v = tid \/ v \in unvisited THEN 0 ELSE 1

SearchInv == SearchTypeOK /\ MaskIsRest

\* What a remainder is.
LEMMA ModRange == \A a \in Nat : \A n \in Nat \ {0} : a % n \in 0..n - 1
  OBVIOUS

\* A number below the modulus is its own remainder.
LEMMA ModSmall == \A n \in Nat \ {0} : \A a \in 0..n - 1 : a % n = a
  OBVIOUS

\* The generator returns natural numbers.
LEMMA RandType ==
  \A s \in Nat : gregor_rand(s) \in Nat /\ gregor_srand(s) \in Nat
<1> TAKE s \in Nat
<1>1. RNGMUL * s \in Nat /\ RNGMOD \in Nat \ {0}
  BY DEF gregor_rand
<1>2. (RNGMUL * s) % RNGMOD \in Nat /\ s % RNGMOD \in Nat
  BY <1>1, ModRange
<1> QED BY <1>2 DEF gregor_rand, gregor_srand

\* If the workers fit into an int, their bits are their numbers and all of them make
\* up the initial mask.
LEMMA MaskFacts ==
  ASSUME MaxWorkers < INT_WIDTH, workers \in 1..MaxWorkers
  PROVE  AllBits = Ids /\ \A v \in Ids : Bit(v) = v
<1>1. \A v \in 0..workers : Bit(v) = v
  BY ModSmall DEF Bit
<1> QED BY <1>1 DEF AllBits, Ids

\* The invariant holds before the first steal.
LEMMA InitSearch == ASSUME SearchInit PROVE SearchInv
<1>1. rand \in Nat
  BY RandType DEF SearchInit
<1> QED BY <1>1 DEF SearchInit, SearchInv, SearchTypeOK, MaskIsRest, Ids

\* Every step keeps the types.
LEMMA SearchTypeStep ==
  ASSUME SearchTypeOK, [SearchNext]_searchVars
  PROVE  SearchTypeOK'
<1> USE DEF SearchTypeOK, Ids
<1>1. CASE UNCHANGED searchVars
  BY <1>1 DEF searchVars
<1>2. CASE BeginRound
  BY <1>2 DEF BeginRound
<1>3. CASE TryVictim
  <2>1. rand' \in Nat /\ UNCHANGED <<workers, tid>>
    BY <1>3, RandType DEF TryVictim
  <2>2. pc' \in {"own", "steal"}
    BY <1>3 DEF TryVictim
  <2>3. \/ tried' = tried
        \/ \E v : tried' = [tried EXCEPT ![v] = @ + 1]
    BY <1>3 DEF TryVictim
  <2>4. tried' \in [Ids -> Nat]
    <3>1. tried \in [Ids -> Nat]
      OBVIOUS
    <3>2. ASSUME NEW v, tried' = [tried EXCEPT ![v] = @ + 1] PROVE tried' \in [Ids -> Nat]
      <4> HIDE DEF Ids
      <4>1. v \in Ids => tried[v] + 1 \in Nat
        BY <3>1
      <4> QED BY <3>1, <3>2, <4>1
    <3> QED BY <2>3, <3>1, <3>2
  <2> QED BY <2>1, <2>2, <2>4
<1>4. CASE EndRound
  BY <1>4 DEF EndRound
<1> QED BY <1>1, <1>2, <1>3, <1>4 DEF SearchNext

\* Every step keeps the mask the set of workers not tried yet.
LEMMA MaskStep ==
  ASSUME MaxWorkers < INT_WIDTH, SearchTypeOK, MaskIsRest, [SearchNext]_searchVars
  PROVE  MaskIsRest'
<1>0. /\ AllBits = Ids
      /\ \A v \in Ids : Bit(v) = v
      /\ tid \in Ids
  BY MaskFacts DEF SearchTypeOK
<1>1. CASE UNCHANGED searchVars
  BY <1>1 DEF searchVars, MaskIsRest, Ids
<1>2. CASE BeginRound
  <2>1. unvisited' = Ids \ {tid}
    BY <1>0, <1>2 DEF BeginRound
  <2>2. \A v \in Ids : tried'[v] = 0
    BY <1>2 DEF BeginRound, Ids
  <2>3. UNCHANGED <<tid, Ids>>
    BY <1>2 DEF BeginRound, Ids
  <2> QED BY <2>1, <2>2, <2>3 DEF MaskIsRest
<1>3. CASE TryVictim
  <2> DEFINE pick == gregor_rand(rand) % workers
             chosen == pick # tid /\ Bit(pick) \in unvisited
  <2>1. pick \in Ids
    <3>1. gregor_rand(rand) \in Nat /\ workers \in Nat \ {0}
      BY RandType DEF SearchTypeOK
    <3> QED BY <3>1, ModRange DEF Ids
  <2>2. Bit(pick) = pick
    BY <1>0, <2>1
  <2>3. UNCHANGED <<tid, Ids>> /\ pc = "steal"
    BY <1>3 DEF TryVictim, Ids
  <2>4. /\ unvisited' = IF chosen THEN unvisited \ {pick} ELSE unvisited
        /\ tried' = IF chosen THEN [tried EXCEPT ![pick] = @ + 1] ELSE tried
    BY <1>3, <2>2 DEF TryVictim
  <2> HIDE DEF pick
  <2>5. CASE chosen
    <3>1. \A v \in Ids : tried'[v] = IF v = pick THEN tried[v] + 1 ELSE tried[v]
      BY <2>4, <2>5 DEF SearchTypeOK
    <3>2. tried[pick] = 0
      BY <2>1, <2>2, <2>3, <2>5 DEF MaskIsRest
    <3> QED BY <2>1, <2>2, <2>3, <2>4, <2>5, <3>1, <3>2 DEF MaskIsRest
  <2>6. CASE ~chosen
    BY <2>3, <2>4, <2>6 DEF MaskIsRest
  <2> QED BY <2>5, <2>6
<1>4. CASE EndRound
  BY <1>4 DEF EndRound, MaskIsRest
<1> QED BY <1>1, <1>2, <1>3, <1>4 DEF SearchNext

\* pick_work and try_pick_work (sched.c) say that no one has any work only after every
\* other worker has been tried exactly once, for every seed and every generator, if
\* there are fewer workers than bits in an int.  (With as many or more it is false.)
THEOREM RoundTriesAllCorrect ==
  ASSUME MaxWorkers < INT_WIDTH
  PROVE  SearchSpec => []RoundTriesAll
<1>1. SearchInv /\ [SearchNext]_searchVars => SearchInv'
  BY SearchTypeStep, MaskStep DEF SearchInv
<1>2. SearchInv => RoundTriesAll
  BY DEF SearchInv, MaskIsRest, RoundTriesAll, Ids
<1>3. SearchInit => SearchInv
  BY InitSearch
<1> QED BY <1>1, <1>2, <1>3, PTL DEF SearchSpec
=============================================================================
