# A TLA+ development of Gregor

Gregor is a work-stealing fork-join runtime in C for i386 (`src/src`), with two
benchmarks ported from Cilk and a few tests. A program calls `gregor_main`; its
routines call `spawn` to run a child at once and leave the rest of themselves to be
stolen, and `__gregor_sync` to wait for their children.

## Inventory

| Component | State | Operations | What makes it correct |
|---|---|---|---|
| Job deque (`thread.c`, `thread.h`) | `H`, `T`, `queue_lock`, `head_node`, `tail_node`, `next`/`prev` in each jcb | `AddNodeToTail`, `GetNodeFromTail` (owner), `GetNodeFromHead` (thieves), `isEmpty` | each job is handed out once; the lock-free end and the locked end never meet; the owner never loses sight of its last job |
| Scheduler (`sched.c`, `closure.S`) | per worker `cur`, `next_job`, `setup`, `rand`; the stack `esp` is on | `do_pick_work`, `work_steal`, `do_reschedule`, `do_reschedule_reset_current`, the switches, `free_current` | a job is in one place; a stack is used by one worker; a job is published only after its stack was left |
| Jobs (`gregor.c`, `thread.c`) | `join_counter`, `status`, `parent`, saved `esp`, result pointer, the arguments on the job's stack | `create_job`, `spawn`, `__gregor_sync`, `do_cleanup` | sync returns when, and only when, all children are done and their results stored; parents outlive children; a routine finds its arguments, its parent the result |
| Memory manager (`thread.c`) | `head`, `availNum`, list through free segments | `AllocMemory`, `FreeMemory` | a segment is free or in use, never both |
| Start and end (`thread.c`, `init.c`) | `worker_info`, `mstate.sem`, `setup` | `do_gregor_main`, `do_gregor_main_init`, `__gregor_worker_init`, `init`, `fini` | no thief reads what a thread has not set up; `gregor_main` returns after the program, and only then; what workers use of the master's stack is there |
| Victim selection (`sched.c`) | `rand`, mask | `gregor_srand`, `gregor_rand` | every round tries every victim once |
| Matrix product (`magic_para.c`, `magic_serial.c`) | `C2`, `call_time` | `rec_matmul` | the result is that of `iter_matmul`; products that may run at once write different elements |
| LU (`lu_para.c`, `lu_serial.c`) | the matrix | `lu`, `schur`, `lower_solve`, `upper_solve`, the block kernels | the result decomposes the matrix; no kernel works on a block another one may be writing |
| Options (`getoptions.c`, `lu_para.c`) | `argv`, what is left of it | `get_options`, `invalid_input`, the start of `g_main` | options mean what they say, whatever their order; `lu` gets a matrix it can halve down to blocks |
| Cilk originals (`cilk/`), tests (`test*.c`, `fib_test.c`) | - | clients of Cilk and of Gregor | as the benchmarks; `fib` prints Fibonacci numbers |
| Error reporting (`gregor_error.c`) | - | print and exit | - |

Workers share memory only: each other's deques, the join counters, the jcbs a
stolen job brings along, and `mstate.sem`. Everything hard is an interleaving:
the owner's unlocked push and pop against a locked thief; a context switch, which
must leave a stack before anyone else may enter it; a child counting itself off
while its parent tests the counter. There are no messages, no persistence and no
timeouts. `PROJECT.json` lists the hazards with their lines.

## Modules

* `DequeSpec` - what a deque promises: an atomic sequence, pushed and popped at the
  tail, stolen from at the head, the last item never stolen. A thief inside
  `GetNodeFromHead` is visible as `prober`, because its increment of `H` is.
* `Deque` - `thread.c:212-331` with one action per access to shared memory. `pc`
  is the place in the code, `job` the local node, `items` a history variable: the
  jobs between their linearisation points (`PushCount`, `PopRead`, `StealRead`).
* `MCDeque` - instance for TLC.
* `Sched` - workers, jobs, stacks, memory and the end of the program, over deques
  that are sequences as in `DequeSpec`. A job is its memory segment, so a segment
  freed and allocated again is the same identity, like the pointers in the code.
  `resume` is where a suspended job goes on, `sp` the stack a worker is on.
  Routines are arbitrary: at every point they may spawn, sync or return.
  It uses `FreeLists` for the memory and implements `ForkJoin`.
* `ForkJoin` - what the runtime promises to a program: jobs that run, wait in sync
  and end, and who is whose parent. No workers, stacks or deques.
* `FreeLists` - what the memory managers promise to the scheduler: one sequence of
  free segments per worker.
* `Memory` - `thread.c:337-373`: the same lists threaded through the segments
  themselves, which are overwritten (`Use`) while they are a stack. `holders` is a
  history variable: how often a block is handed out.
* `Victims` - the generator and the bit mask of `do_pick_work`. `tried` is a history
  variable. Bits of a mask are a set; shift counts are taken modulo the width.
* `Marshal` - one job from `spawn` to `do_cleanup` on the level of words of its stack
  (arguments) and bytes of registers (results), for i386.
* `Lifecycle` - `init`, the creation of threads and its failures, the order in which
  a thread fills in its `worker_info`, and the end of `gregor_main`. The program is
  one job here, which moves between workers, stores its result and wakes the master;
  `Sched` has the rest.
* `Tasks` - a C program on top of `ForkJoin`: the calls of `gregor_main` start one of
  several programs; each job has a list of instructions (call, spawn, sync, a piece of sequential code) and all share a store.
* `LU`, `MatMul`, `Fib` - the routines of the LU and matrix programs, in their
  variants, and of `fib_test.c`: `Body` gives the instructions of a call, `Kernel` and
  `Effect` what a piece of code does to the store, `Written` and `Used` what it touches.
  A call of the parallel `rec_matmul` begins with two pieces, the load and the store of `++call_time`.
* `Programs` - `Tasks` with these routines. The initial state chooses one of six
  programs: `lu_serial`, `lu_para`, `lu_cilk`, `magic_serial`, `magic_para`, `fib_test`.
  `Below[d]` are the calls made d levels below a main, and `Jobs` those that are spawned
  within `Depth` levels, which are all there are: sizes are halved and fib counts down.
* `Options` - the command line of `lu`, from `argv` to the allocation, one step per
  argument that a loop of `get_options` looks at.

Each component with a run has an `MC` module, its instance for TLC. The theorems are in
modules of their own: `DequeProofs`, `SchedProofs`, `MemoryProofs`, `MarshalProofs`,
`OptionsProofs`, each for the module it extends; `WorkerProofs`, for `Lifecycle` and
`Victims`; `LUProofs`, for the blocks the calls of `LU` touch; and `ProgramsProofs`, which
uses it.

```
 LU  MatMul  Fib
    \  |  /
    Programs                            programs
       |
     Tasks -- ForkJoin                  what programs rely on
                 ^ implements
 Lifecycle ..  Sched ..  Victims, Marshal
             /      \
     FreeLists      DequeSpec           what the scheduler relies on
        ^ implements    ^ implements
     Memory           Deque
```

Operators whose comment starts with "Mutant" are not part of a specification: each
is a plausible bug in the action that follows it, which a property must detect.

### What an action stands for

The counters are changed by `lock incl`/`lock decl`, which on x86 also order the
plain stores around them; gcc keeps the stores of the list operations in program
order around those `volatile` asm statements. The owner alone writes `T`, and `H` is written under the
mutex only. So the models interleave single accesses and compare the two counters
in one step: one side of each comparison cannot change under the comparing
process. Writes to a node no one else can reach are merged (`PushCall`,
`PopClear`, `StealClear`). `tid` is in `ebx`, reserved by `-ffixed-ebx`.

In `Sched`:

* A thief's look at another deque (`isEmpty` in `work_steal`) has two racing reads.
  It is one step, `ChooseVictim`, whose second disjunct allows the outcomes the race
  adds: the owner has already counted down `T` (`Popping`), or a third worker
  moves `H` between the reads.
* `PopOwn` has no branch for NULL, which the code would answer by stealing.
  `PopFindsWork` and `OwnerMissesNothing`, both proved, are why.
* `__gregor_sync` without children has no effect and is left out, except in
  `do_cleanup`, where it is always called.
* `usleep` has no effect on the state; it matters for fairness.
* `mmap` does not fail. mmapped memory is never unmapped, as in the code.
* `Promise` maps `Sched` to `ForkJoin`: a job runs from its allocation until it counts
  itself off from its parent; it waits from `CallSync` on, a routine that returns
  included. `DequesUsedAsPromised` says every step of `Sched` is, for each deque, a
  step of `DequeSpec` or none; the items popped but not yet current still count as
  taken by the worker (`FromDeque`).

In `Marshal` words are `<<i, k>>`, the k-th word of argument i as pushed by the
caller, so a word that arrives in the wrong place is seen whatever its value. Chars
and shorts are pushed as ints and floats as doubles, by the C rules for variadic
calls. The alignment below the jcb is left out: it moves all arguments alike.

In `Tasks` a piece of sequential code is one step. That is sound as long as no two
pieces that may run at once touch the same data, which `OnlyCallTimeRaces` shows of
everything but `call_time` of `magic_para.c`; its increment is therefore two pieces. A job
is named by the call it was spawned for, because two jobs for the same call never
exist at once in these programs. In `LU` an element of the matrix is the set of
updates applied to it, *junk* after any update that is wrong or out of order; in
`MatMul` an element of `C` is the bag of products added up. So floating point is left
out, and the order of operations, which is what spawning changes, is kept.

In `Lifecycle` threads run as in a sequentially consistent machine, which on x86 the
stores of one thread seen by another are; only worker 0 can start the main job,
because a thief never takes a last one.

## Runs

| Run | Instance | Shows |
|---|---|---|
| `deque` | 4 jobs, 2 thieves, `MaxSteals` 3, fair | counters, reservations and links in every interleaving; `Deque` implements `DequeSpec`; the mutex is released |
| `sched` | 3 workers, `MaxSpawns` 3 | jobs, stacks, counters, the end of the program |
| `sched_refines` | 3 workers, `MaxSpawns` 2, fair | `Sched` implements `ForkJoin` and uses deques as `DequeSpec` allows; `gregor_main` returns, unless a worker is starved |
| `memory` | 2 workers, 4 blocks, `SEGMENT` 2 | no block twice, none lost; `Memory` implements `FreeLists` |
| `victims` | up to 7 workers, ints of 8 bits, generator modulo 31 | every round tries everyone once and ends |
| `marshal` | up to 3 arguments, all types of result | arguments and results arrive; the jcb is intact |
| `lifecycle` | 3 threads, each may fail, fair | deques are ready; `main_arg` and the place of the result are on a live stack; `gregor_main` returns |
| `programs` | LU of 8 x 8 blocks of 2 x 2 (Cilk: 4 x 4), products of 3 x 3 with the base case up to m + n + p = 6, fib of 4 | the results are right in every order, no race but that of `call_time`, nested syncs end |
| `options` | up to 4 words out of 12 | a command line means what it says; `lu` gets a power of two of blocks |
| `sched_round`, `victims_wide`, `marshal_longlong` | small | the findings below, each a violation |

Bounds. The margins of the deque are decided between 0 and 3 items; with 4 jobs an
owner can hold one in a call and still have a deque where the fast path is taken
beside a thief. Two thieves are enough for one to hold the mutex and one to wait.
`MaxSteals` bounds the starts of `StealCall` by `H`, which is otherwise unbounded.
`MaxSpawns` 3 with the main job gives four jobs: trees of depth three, a segment
freed by a thief and used again, a second mmapped page. Three workers give an
owner, a thief and a thief of the thief. Workers other than worker 0 are symmetric in
`sched`; symmetry is not used for liveness and refinement.
Two workers and two pages let a segment be allocated by one, freed by the other and
allocated again beside a page of the other's. Generators modulo 31 with a primitive
root share with the real one (modulo 2^32 - 5) that every state reaches every other;
which victim comes when does not matter to the properties. Three arguments put every
kind before, between and after every other. 8 x 8 blocks are three levels of
recursion, so every routine is called by every routine that calls it and by itself. The
Cilk version, which spawns whole groups of calls, has two levels. Blocks of 2 x 2 have
a diagonal, a lower and an upper element. The product of 3 x 3 is nine calls: it splits into unequal halves along
all three dimensions, so that `add` is both set and inherited, and its counts interleave. fib of 4 nests spawns four
deep. The words of `options` are the options, numbers that are zero, smaller than a
block, no power of two, a power of two and too large, and two lengths of a benchmark.

`programs` is checked under the action constraint `ControlFirst`: steps
of a job that are no piece of code touch only that job (and, on a spawn, a job that
did not exist), commute with the steps of all others and cannot disable one, so TLC
takes them first in one order and interleaves the pieces. States between are still
checked, and `OnlyCallTimeRaces` looks at the states where only pieces are left. The
programs make finitely many calls and every step of `Tasks` uses up an instruction, so no
run is infinite, and `NobodyStuck` says that none ends early: no fairness is needed. It is
stated with the guards of the steps (`CanStep` of `Tasks`) rather than `ENABLED`, so
that it can be proved. How far the real runtime keeps that promise is what
`FinishesUnlessStarved` of `Sched` shows.

Fairness. Workers are threads the kernel keeps running, so each has weak fairness
of its own; the owner never has to call an operation of the deque. Nothing more is
assumed of `Sched`, and with that `gregor_main` need not return. `FinishesUnlessStarved` says
that there are two ways only in which it does not. A worker may be *starved*: it
waits for a mutex that others take again and again, as pthread mutexes promise no one that
he gets it. Or a worker may be *misled*: it looks at its deque again and again while
there is a job in it, and each time a thief that probes has incremented `H`. The code
makes both unlikely, as a fruitless thief pauses (`sched.c:102-109`, `gregor.c:190-197`), and
excludes neither. `Lifecycle` has weak
fairness for each thread and for the end of the program. `Victims` and `Options`
are loops of one thread that waits for nobody.

## Findings

* `sched.c:101` says of a fruitless round "at this point, no one has any work to do".
  It need not be so (`sched_round`): the increment of `H` by a thief that will give up
  (`thread.c:311`) makes `isEmpty` (`thread.c:334`) true for an owner with one job, and
  the owner ends the round with that job in its own deque. Harmless for safety; the
  round is repeated.
* With 32 workers `1 << NUM_WORKER` (`sched.c:87`) has a shift count as large as an int,
  the mask is empty on x86 and nobody is ever robbed (`victims_wide`).
* The case of `LONG_LONG_INT` in `create_job` falls through into that of `DOUBLE`
  (`gregor.c:118-123`): the argument is copied twice, the second time over the jcb
  (`marshal_longlong`). Without long long arguments everything arrives (`marshal`).

Observations without a run of their own, met while modelling:

* `Pthread_create` tests for a negative result (`thread.c:27`); failures are positive
  and go unnoticed. The runtime still works with fewer threads
  (`Returns`, `lifecycle`), unless the missing one is that of worker 0, whose creation
  (`thread.c:46`) is not tested at all: then `gregor_main` never returns.
* `++call_time` (`magic_para.c:107`) is a plain increment by jobs on several workers, the only
  race of the programs (`OnlyCallTimeRaces`). Two jobs may load the same count; the
  "[SPAWN TIME]" printed at line 222 is then less than the number of spawns. Nothing else
  reads it.
* `getoptions.h:16` says a boolarg "is set to 1 if the specifier appears in the option list".
  That is not so: `-n` and `-benchmark` take the next word for their value whatever it is
  (`getoptions.c:26-28`, `80`), so `lu -n -o` prints nothing and `lu -benchmark -h` shows no
  help. `OptionsAsGiven` therefore speaks of command lines without an option where a value
  belongs (`WellFormed`), and of others it would be false.
* `getoptions.h:15` says "-benchmark long returns 2"; `get_options` sets 3, which is what
  the callers expect.
* `malloc(n * n * sizeof(double))` (`lu_para.c:543`) multiplies two ints first: `-n 65536`
  asks for nothing.
* Because of the transient `H`, a worker in sync can find its non-empty deque "empty",
  steal, and so queue the waiting job *above* older jobs of its own. "A waiting job never
  buries runnable ones" fails with three workers and four spawns.

## Proofs

What the runs show of small instances, these theorems state for all values of the
constants: any set of workers, jobs, thieves and blocks, any `MaxSteals`, `MaxSpawns`
and `SEGMENT`, any number of arguments, matrices, blocks and base cases of any size, fib
of any number.

| Module | Theorem | Property |
|---|---|---|
| `DequeProofs` | `TypeCorrect` | `TypeOK` |
| | `MutexCorrect`, `CountersCorrect`, `ItemsReserved` | `LockInv`, `CountInv`, `ReserveInv` |
| | `EndsApart` | `NeverAdjacent` |
| | `OwnerMissesNothing` | `PopNullOnlyWhenEmpty` |
| | `NoNullNode` | a node being unlinked is a job, never NULL |
| | `ListIntact` | `LinksSpellItems` |
| | `DequeRefinesSpec` | `ImplementsDequeSpec` |
| `SchedProofs` | `TypeCorrect` | `TypeOK` |
| | `JobInOnePlaceCorrect`, `StackExclusiveCorrect` | `JobInOnePlace`, `StackExclusive` |
| | `JoinCounterExactCorrect`, `ParentOutlivesChildCorrect` | `JoinCounterExact`, `ParentOutlivesChild` |
| | `SyncJoinsCorrect` (an action property) | `SyncJoins` |
| | `NeverPanicsCorrect`, `PopFindsWorkCorrect` | `NeverPanics`, `PopFindsWork` |
| | `NothingLeftToRunCorrect` | `NothingLeftToRun` |
| | `SchedRefinesForkJoin`, `DequesUsedCorrect` | `ImplementsForkJoin`, `DequesUsedAsPromised` |
| `MemoryProofs` | `EveryBlockOnceCorrect`, `MemoryRefinesFreeLists` | `EveryBlockOnce`, `ImplementsFreeLists` |
| `MarshalProofs` | `ArgsDeliveredCorrect`, `JcbIntactCorrect` | `ArgsDelivered`, `JcbIntact`, if no argument is a long long |
| | `ResultDeliveredCorrect` | `ResultDelivered` |
| `WorkerProofs` | `DequesReadyCorrect`, `MasterStackAliveCorrect` | `DequesReady`, `MasterStackAlive` |
| | `RoundTriesAllCorrect` | `RoundTriesAll`, if `MaxWorkers < INT_WIDTH` |
| `OptionsProofs` | `OptionsAsGivenCorrect`, `SizeDecomposableCorrect` | `OptionsAsGiven`, `SizeDecomposable` |
| `ProgramsProofs` | `JobsApart` | siblings that may run at once touch different data, but for `call_time` |
| | `OneRace` | `OnlyCallTimeRaces` |
| | `JobsFormTree` | every live job but the main job has a live parent, whose call is larger |
| | `NeverStuck` | `NobodyStuck` |
| | `FibRight` | `PrintsFib` |
| | `SumsGrowInOrder` | an element of `C2` is always the sum of the first products |
| | `ProductRight` | `SameAsIterMatmul` |

Every module with constants has one named assumption, which TLC evaluates in its runs:
that names are apart and numbers are in range. The two hypotheses in the table are not
assumptions of the modules, because the code does not ensure them: the runs
`marshal_longlong` and `victims_wide` are what happens without.

### The arguments

Each component has an inductive invariant (`IInv`; `RInv` for the refinements of `Sched`,
`ArgsInv` and `ResultInv` for `Marshal`, `SearchInv` for `Victims`; `RInv`, `TreeInv`,
`FibInv` and `ProdInv`, one on top of the other, for `Programs`), the conjunction of named
parts, lemmas that every step keeps each part, and theorems that follow from the invariant
alone. Each was checked with TLC on the instance of a run.

`Deque`. `CountInv` says that `T - H` is the number of items up to increments
on trial, so a check that succeeds under the margins *reserves* an item
(`ReserveInv`): the owner without the mutex sees at least two items plus the one a
thief may be taking. This part needs the counters and the mutex only. That a
reserved item is the node really found at `tail_node` or `head_node` needs the
links, and the links stay right only because the two ends are apart; so `IInv` is
both, the links cut into pieces (between items, at the owner's end, at the thieves'
end) that one action disturbs at a time. `ListIntact` puts the pieces
together again along the concatenations in `LinksSpellItems`. For the refinement
`PushCount`, `PopRead` and `StealRead` are the steps of the sequence, the increment of
`H` and its undoing are `Probe` and `Miss`, and everything else is a stutter; what a call
has in hand (`got`) is a function of the place in the code (`TookPC`).

`Sched`. The properties are not inductive alone, but support each other:

* `ControlInv` - what each place in the code knows of `cur`, `next_job`, `sp` and `resume`.
* `ThiefInv` - a thief is where its victim's `prober` says, and never robs itself.
* `PopFindsWork` - the last item of a deque is never stolen; needed for `do_pick_work`.
* `PlaceInv` - the free lists are disjoint and without repetitions, and a mapped segment
  is on none of them exactly if one worker holds it in one way. This is why a switch
  finds its stack free, and a freed segment is in no one's hands.
* `TreeInv` - the unfinished jobs are a tree. That there is no cycle is stated without
  recursion: every non-empty set of them has a member whose parent is outside. It is
  needed at the end: the main job ends when it has no unfinished child, and if another
  job were unfinished, the set of those would have no way out (`OnlyRootHoldsUp`).
* `CountInv` - the join counter of every segment, freed ones included, is the number of
  unfinished children. Freed ones matter because the check in `do_cleanup` reads the
  counter of a parent that may be gone, or allocated again: it is never negative, so
  the check passes in any case (`NeverPanics`). And a job at the end
  of its last sync has no children, so it can be freed (`ParentOutlivesChild`).
* `ResultInv` - a result still missing is owed by an unfinished child; with `CountInv`
  this makes a counter of zero mean that all results are stored (`SyncJoins`).

For the refinements, `RInv` adds how the `status` of a job, which `do_reschedule` decides by, goes
with its place (`StatusInv`), that jobs in deques have run before or are the main job
(`QueuedInv`), and when a worker has a victim (`VictimInv`). Then each action is one step
of `ForkJoin` or none: `CallSync` enters `Sync`, `SyncTest` leaves it, counting off is
`Leave`, and switching stacks, stealing and freeing are invisible, because `Phase` and
`Par` depend on the job and not on who holds it.

`Memory`. `mm`, the refinement mapping, is computed by a recursive function along `next`.
`ListsAre` characterizes it: the one sequence whose elements are linked in order and
number `availNum`. With this the steps of the code are steps on sequences, if no block
is on two lists (`OnceInv`), none in use on any (`FreeInv`) and none on no list (`AllInv`).
Otherwise `Use`, which overwrites the link of a block in use, would change a list.

`Marshal`. The loops of `create_job` are followed through all arguments: where an
argument begins among the words pushed and among those copied are two running sums
(`Begins`), the first loop computes the last of one (`SumIs`), and the copy of argument i
leaves everything outside its own words as it was (`CopyIs`, `CopyStep`).

`Lifecycle`: a flag a thief reads is junk only before `init` zeroes it (`ZeroedFirst`), and
a worker has its deque before its flag says so (`DequeBeforeSetup`); worker 0, created
last, when `main_arg` is filled, queues the main job once, and the semaphore is raised only at
its end, so the master still waits when the result is stored. `Victims`: the mask is the set of
those not tried, while shifts stay inside an int. `Options`: on a command
line without an option in the place of a value, the words blanked so far are exactly the options
whose loop has passed them and their values (`Blanked`), and an option has the value of the
last place its loop has passed (`ValuesMeant`). When
`invalid_input` halves, the size is the part left times a power of two.

`Programs`. A call has a *footprint* (`Foot`): the blocks, elements or results it and all
calls below it may write, and may use; `call_time`, which all share, is not in it.
`BodyOfGood` goes through every routine in every variant: the calls and pieces in it stay in the footprint of the routine and are smaller
(`Height`), and what is spawned is apart from all that follows up to the next sync. That
is where the code could be wrong, and where `LUProofs` does the geometry: squares of
blocks inside squares, quarters apart, and the factors of a Schur complement apart from
the block it updates. `RInv` carries it over to jobs in any order: two jobs are apart,
or one is below a child of the other (`Covers`) and then the other, until it has
waited, has nothing left that touches what that child may touch. A job that reaches a
piece of code thus goes before all whose memory it could touch (`RunsFirst`). The names of jobs are the calls,
so `RInv` also gives that no call is spawned while a job of that name runs, and with
`TreeInv` - the parent of a job lives, and is larger - that the smallest job is never waiting:
`NeverStuck`.

For `fib_test`, `FibInv` lists the places where a job can be (`Stage`), each with which of its
results are stored and which are still to come from a child that runs (`Coming`); a child that ends
leaves the Fibonacci number it was called for. For the products, a *term* `<<x, y, u>>` is the
product of A's element (x, u) and B's (u, y), and `Work` of a job the terms its instructions still
have to add up. `ProdInv` says that for every x and y the terms left are those for
u = t, ..., n - 1 and the element of `C2` is the sum of the first t, for some t; that instructions
have their terms in order, and that a smaller job comes before a larger one wherever they
share an element. So the piece of code that is next for an element continues its sum, or starts it if
t = 0, and only there does the code overwrite (`add` false). When all jobs are done, t = n.

Induction. The library's induction rules take an operator, which the provers here cannot
instantiate. `MemoryProofs`, `MarshalProofs`, `LUProofs` and `ProgramsProofs` use induction
over sets instead: the set
of numbers where a statement fails has no least element (`LeastElement`), or the set where it holds has 0 and
successors (`SetInduction`). For the same reason loops are recursive functions
or steps of their own, not folds.

### Only model-checked

* Liveness (`LockReleased`, `FinishesUnlessStarved`, `RoundEnds`, `Returns`, `Decides`): fairness is out
  of the prover's reach.
* `PrintsTrue`, that the matrix of `lu` is decomposed. It holds for the sizes that can be halved
  down to blocks only, which is a fact about powers of two to be carried through every
  routine, and the kernels of `LU` are loops over sequences of updates, whose value for every
  `BLOCK_SIZE` is an induction with an operator. What is proved of `lu`, for every size, is that its calls
  never interfere (`OneRace`), so that the parallel variants differ from the serial one
  only in the order of operations on different blocks.

## Not modelled

* Registers and the layout of stack frames beyond what `Marshal` has: a context switch
  is which stack a worker is on. Stack depth (`gregor.c:31`).
* Wrap-around of `H` and `T` after 2^31 steals (`thread.c:248`): the proofs about the
  deque count in Nat.
* The x87 stack from job to job: a float result with `ret_ptr` NULL is never popped
  (`thread.c:109`); `Marshal` shows the register left full, but follows one job only.
* A second `gregor_main`: `fini` is empty, so the threads of the first go on with
  `worker_info` replaced under them. No program in the repository does it.
* `sem_wait` interrupted by a signal, which the code's own warning names
  (`thread.c:48`), and the missing `sem_init`, which a zeroed global does not need on Linux.
* Timing, random filling and printing of matrices; floating point.
* `DOUBLEARG`, `LONGARG`, `STRINGARG` of `get_options`, which nothing uses.
* `cilk/magic.c`: its recursion is `Gregor` of `MatMul`. `test.c`, `test_case.c`,
  `test_char.c`, `test_float.c`: one spawn each of a routine with some types.
* `gregor_error.c` prints and exits.

## Plan

Done: all modules, their runs and the theorems above. What is left is `PrintsTrue` for every power
of two: with kernels as recursive functions, the updates still to be made to each
element, in order, as `ProdInv` has them for the products.
