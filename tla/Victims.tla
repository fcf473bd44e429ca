------------------------------ MODULE Victims ------------------------------
(***************************************************************************)
(* How do_pick_work chooses victims (sched.c): a multiplicative generator  *)
(* and a bit mask of the workers not yet tried.  A mask is the set of its  *)
(* bits; shifts take their count modulo INT_WIDTH, as they do on x86.      *)
(***************************************************************************)
EXTENDS Integers

CONSTANTS MaxWorkers,      \* the number of workers is tried up to here
          INT_WIDTH,       \* bits of an int: 32
          RNGMOD, RNGMUL   \* in the code: the prime 2^32 - 5, and 69070, which
                           \* generates its multiplicative group

ASSUME VictimsAssumption ==
  /\ {MaxWorkers, INT_WIDTH} \subseteq Nat \ {0}
  /\ RNGMOD \in Nat /\ RNGMUL \in 1..RNGMOD - 1 /\ MaxWorkers < RNGMOD

VARIABLES
  workers, tid,     \* NUM_WORKER and the worker that searches, which stay as they are
  rand,             \* the worker's generator
  pc,               \* "own" deque or "steal"
  unvisited,        \* the mask
  tried             \* history: how often each worker was a victim in this round

searchVars == <<workers, tid, rand, pc, unvisited, tried>>

gregor_srand(seed) == IF seed % RNGMOD = 0 THEN 1 ELSE seed % RNGMOD

\* Mutant: one less than the modulus.
gregor_rand_off(state) == (RNGMUL * state) % (RNGMOD - 1)

gregor_rand(state) == (RNGMUL * state) % RNGMOD

Bit(v) == v % INT_WIDTH

\* Mutant: the last worker is left out.
AllBitsShort == {b \in 0..INT_WIDTH - 1 : b < Bit(workers) - 1}

\* (1 << NUM_WORKER) - 1
AllBits == {b \in 0..INT_WIDTH - 1 : b < Bit(workers)}

\* Nothing in the worker's own deque.
BeginRound ==
  /\ pc = "own"
  /\ pc' = "steal"
  /\ unvisited' = AllBits \ {Bit(tid)}
  /\ tried' = [v \in 0..workers - 1 |-> 0]
  /\ UNCHANGED <<workers, tid, rand>>

\* A number that names no victim, the worker itself or one tried before is thrown
\* away; work_steal may bring a job, which ends the search.
TryVictim ==
  LET pick == gregor_rand(rand) % workers
      chosen == pick # tid /\ Bit(pick) \in unvisited
  IN /\ pc = "steal" /\ unvisited # {}
     /\ rand' = gregor_rand(rand)
     /\ unvisited' = IF chosen THEN unvisited \ {Bit(pick)} ELSE unvisited
     /\ tried' = IF chosen THEN [tried EXCEPT ![pick] = @ + 1] ELSE tried
     /\ pc' \in IF chosen THEN {"own", "steal"} ELSE {"steal"}
     /\ UNCHANGED <<workers, tid>>

\* A fruitless round: pick_work sleeps and starts over, try_pick_work gives up until
\* it is called again.
EndRound ==
  /\ pc = "steal" /\ unvisited = {}
  /\ pc' = "own"
  /\ UNCHANGED <<workers, tid, rand, unvisited, tried>>

SearchInit == /\ workers \in 1..MaxWorkers
              /\ tid \in 0..workers - 1
              /\ rand = gregor_srand(tid + 1)
              /\ pc = "own"
              /\ unvisited = {}
              /\ tried = [v \in 0..workers - 1 |-> 0]

SearchNext == BeginRound \/ TryVictim \/ EndRound

\* Nothing in the loop waits for anybody.
SearchSpec == SearchInit /\ [][SearchNext]_searchVars /\ WF_searchVars(SearchNext)
-----------------------------------------------------------------------------
(* Properties *)

\* A round that finds nothing has tried every other worker, each once.
RoundTriesAll ==
  pc = "steal" /\ unvisited = {} =>
    \A v \in 0..workers - 1 : tried[v] = IF v = tid THEN 0 ELSE 1

\* Every round ends: the generator, although never random, reaches every victim that
\* is left from every state it can be in.
RoundEnds == pc = "steal" ~> pc = "own"
=============================================================================
