------------------------------ MODULE ForkJoin ------------------------------
(***************************************************************************)
(* What the runtime promises to a program, without workers, stacks and     *)
(* deques: gregor_main starts one job, a job spawns children that run      *)
(* beside it, sync and the end of a job wait for all of its children, and  *)
(* gregor_main returns after the main job.  Names of jobs are used again.  *)
(***************************************************************************)
CONSTANTS Jobs, NULL

VARIABLES
  phase,   \* per job: "none", "running", or "waiting" in __gregor_sync
  parent,  \* per job: the one that spawned it, NULL for the main job
  main     \* gregor_main: "idle", "running", "done" (the main job is), "returned"

fjvars == <<phase, parent, main>>

\* Mutant: the siblings of a job count as its children.
KidsSiblings(j) == {k \in Jobs \ {j} : phase[k] # "none" /\ parent[k] \in {j, parent[j]}}

Kids(j) == {k \in Jobs : phase[k] # "none" /\ parent[k] = j}

Init == /\ phase = [j \in Jobs |-> "none"]
        /\ parent = [j \in Jobs |-> NULL]
        /\ main = "idle"

Begin(j, p) == /\ phase[j] = "none"
               /\ phase' = [phase EXCEPT ![j] = "running"]
               /\ parent' = [parent EXCEPT ![j] = p]

Start(j) == /\ main = "idle"
            /\ main' = "running"
            /\ Begin(j, NULL)

Spawn(j, k) == /\ phase[j] = "running"
               /\ Begin(k, j)
               /\ UNCHANGED main

Sync(j) == /\ phase[j] = "running"
           /\ phase' = [phase EXCEPT ![j] = "waiting"]
           /\ UNCHANGED <<parent, main>>

SyncReturn(j) == /\ phase[j] = "waiting"
                 /\ Kids(j) = {}
                 /\ phase' = [phase EXCEPT ![j] = "running"]
                 /\ UNCHANGED <<parent, main>>

\* do_cleanup waits for the children the routine did not wait for.
Leave(j) == /\ phase[j] = "running"
            /\ Kids(j) = {}
            /\ phase' = [phase EXCEPT ![j] = "none"]
            /\ parent' = [parent EXCEPT ![j] = NULL]
            /\ main' = IF parent[j] = NULL THEN "done" ELSE main

MainReturn == /\ main = "done"
              /\ main' = "returned"
              /\ UNCHANGED <<phase, parent>>

Next == \/ MainReturn
        \/ \E j \in Jobs : Start(j) \/ Sync(j) \/ SyncReturn(j) \/ Leave(j)
        \/ \E j, k \in Jobs : Spawn(j, k)

Spec == Init /\ [][Next]_fjvars
=============================================================================
