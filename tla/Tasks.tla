------------------------------- MODULE Tasks -------------------------------
(***************************************************************************)
(* A C program on top of ForkJoin: routines are given as sequences of      *)
(* instructions <<op, x>>, where op is one of                              *)
(*   "call"   call the routine x and go on after it                        *)
(*   "spawn"  spawn x as a job of its own                                  *)
(*   "sync"   __gregor_sync()                                              *)
(*   "do"     a piece x of sequential code that reads and writes the store *)
(* A piece is one step; the clients show that no other job can interfere   *)
(* with it, or have one for each access to what is shared                  *)
(* (OnlyCallTimeRaces).  A job is named by the call it was spawned for:    *)
(* the clients never have two jobs for the same call at once.              *)
(***************************************************************************)
EXTENDS Sequences

CONSTANTS NULL,
          Jobs,          \* Main and the calls that are spawned
          Body(_),       \* the instructions of the routine a call names
          Effect(_, _),  \* the store after a piece of code, from the one before
          Mains,         \* the calls gregor_main may make, one per program
          Store0(_)      \* the memory such a program starts with

VARIABLES program,              \* the call that gregor_main makes
          phase, parent, main,  \* as in ForkJoin
          todo,                 \* per job: the instructions left, next one first
          store                 \* the memory of the program

vars == <<program, phase, parent, main, todo, store>>

FJ == INSTANCE ForkJoin

Init == /\ FJ!Init
        /\ program \in Mains
        /\ todo = [j \in Jobs |-> <<>>]
        /\ store = Store0(program)

At(j, op) == phase[j] = "running" /\ todo[j] # <<>> /\ todo[j][1][1] = op

Arg(j) == todo[j][1][2]

StartMain == /\ FJ!Start(program)
             /\ todo' = [todo EXCEPT ![program] = Body(program)]
             /\ UNCHANGED <<program, store>>

CallRoutine(j) == /\ At(j, "call")
                  /\ todo' = [todo EXCEPT ![j] = Body(Arg(j)) \o Tail(@)]
                  /\ UNCHANGED <<program, phase, parent, main, store>>

SpawnRoutine(j) == /\ At(j, "spawn")
                   /\ FJ!Spawn(j, Arg(j))
                   /\ todo' = [todo EXCEPT ![j] = Tail(@), ![Arg(j)] = Body(Arg(j))]
                   /\ UNCHANGED <<program, store>>

EnterSync(j) == /\ At(j, "sync")
                /\ FJ!Sync(j)
                /\ todo' = [todo EXCEPT ![j] = Tail(@)]
                /\ UNCHANGED <<program, store>>

LeaveSync(j) == FJ!SyncReturn(j) /\ UNCHANGED <<program, todo, store>>

DoPiece(j) == /\ At(j, "do")
              /\ store' = Effect(store, Arg(j))
              /\ todo' = [todo EXCEPT ![j] = Tail(@)]
              /\ UNCHANGED <<program, phase, parent, main>>

\* The routine has returned.
Finish(j) == /\ todo[j] = <<>>
             /\ FJ!Leave(j)
             /\ UNCHANGED <<program, todo, store>>

ReturnMain == FJ!MainReturn /\ UNCHANGED <<program, todo, store>>

ControlStep(j) == CallRoutine(j) \/ SpawnRoutine(j) \/ EnterSync(j) \/ LeaveSync(j) \/ Finish(j)

Next == StartMain \/ ReturnMain \/ \E j \in Jobs : ControlStep(j) \/ DoPiece(j)

Spec == Init /\ [][Next]_vars

\* The pieces of code that may be executed next.
Ready == {j \in Jobs : At(j, "do")}

\* The conditions of the other steps of a job, and of any step.
CanControl(j) ==
  \/ At(j, "call") \/ At(j, "sync") \/ (At(j, "spawn") /\ phase[Arg(j)] = "none")
  \/ (phase[j] = "waiting" \/ (phase[j] = "running" /\ todo[j] = <<>>)) /\ FJ!Kids(j) = {}

CanStep == \/ main = "idle" /\ phase[program] = "none"
           \/ main = "done"
           \/ \E j \in Jobs : CanControl(j) \/ j \in Ready
-----------------------------------------------------------------------------
(* For model checking.  The steps of a job other than a piece of code do   *)
(* not touch the store and never disable a step of another job, so their   *)
(* order does not matter: under the action constraint ControlFirst TLC     *)
(* takes them first, one job at a time, and interleaves only the pieces.   *)

Moving == {j \in Jobs : CanControl(j)}

ControlFirst ==
  Moving # {} => LET j == CHOOSE k \in Moving : TRUE
                 IN <<phase'[j], todo'[j]>> # <<phase[j], todo[j]>>
=============================================================================
