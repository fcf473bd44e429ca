------------------------------ MODULE Programs ------------------------------
(***************************************************************************)
(* The benchmarks and the Fibonacci test, run as the runtime promises:     *)
(* Tasks with the routines of LU, MatMul and Fib.  The program that is run *)
(* is chosen in the initial state; its calls are tagged with its name.     *)
(***************************************************************************)
EXTENDS Integers, Sequences, FiniteSets

CONSTANTS nBlocks,      \* blocks per side in lu_serial and lu_para
          nBlocksCilk,  \* and in cilk/lu.c
          BLOCK_SIZE,   \* elements per side of a block
          n, BASE,      \* as in MatMul
          Arg0,         \* as in Fib
          NULL

\* BASE is at least the sum of the dimensions of a product that cannot be halved.
ASSUME ProgramsAssumption ==
  /\ {nBlocks, nBlocksCilk, BLOCK_SIZE, n, Arg0} \subseteq Nat \ {0}
  /\ BASE \in Nat /\ BASE >= 3

VARIABLES program, phase, parent, main, todo, store

LUBlocks == INSTANCE LU
LUCilk == INSTANCE LU WITH nBlocks <- nBlocksCilk
Product == INSTANCE MatMul
Sums == INSTANCE Fib

Variant(p) == CASE p \in {"lu_serial", "magic_serial"} -> "serial"
                [] p \in {"lu_para", "magic_para"} -> "gregor"
                [] p = "lu_cilk" -> "cilk"

\* A program and one of its calls; its instructions are tagged as well.
Body(x) ==
  LET p == x[1]
      b == CASE p \in {"lu_serial", "lu_para"} -> LUBlocks!Body(Variant(p), x[2])
             [] p = "lu_cilk" -> LUCilk!Body(Variant(p), x[2])
             [] p \in {"magic_serial", "magic_para"} -> Product!Body(Variant(p), x[2])
             [] p = "fib_test" -> Sums!Body(x[2])
  IN [i \in DOMAIN b |-> <<b[i][1], <<p, b[i][2]>>>>]

Effect(s, x) ==
  CASE x[1] \in {"lu_serial", "lu_para"} -> LUBlocks!Kernel(s, x[2])
    [] x[1] = "lu_cilk" -> LUCilk!Kernel(s, x[2])
    [] x[1] \in {"magic_serial", "magic_para"} -> Product!Effect(s, x[2])
    [] x[1] = "fib_test" -> Sums!Effect(s, x[2])

Store0(x) ==
  CASE x[1] \in {"lu_serial", "lu_para"} -> LUBlocks!init_matrix
    [] x[1] = "lu_cilk" -> LUCilk!init_matrix
    [] x[1] \in {"magic_serial", "magic_para"} -> Product!memory
    [] x[1] = "fib_test" -> [s \in Sums!Slots |-> NULL]

Mains == {"lu_serial", "lu_para", "lu_cilk", "magic_serial", "magic_para", "fib_test"}
           \X {<<"g_main">>}

\* The calls and spawns among the instructions of the calls X.
Made(X, ops) ==
  UNION {{Body(x)[i][2] : i \in {k \in DOMAIN Body(x) : Body(x)[k][1] \in ops}} : x \in X}

\* The calls that are made d calls and spawns below a main.
Below[d \in Nat] == IF d = 0 THEN Mains ELSE Made(Below[d - 1], {"call", "spawn"})

\* No call is nested deeper: sizes are halved, fib counts down.
Depth == 2 * nBlocks + 2 * nBlocksCilk + 3 * n + Arg0 + 2

Reachable == UNION {Below[d] : d \in 0..Depth}

\* The mains and the calls that are spawned.
Jobs == Mains \cup Made(Reachable, {"spawn"})

\* NULL is no result and no job.
ASSUME NullAssumption == NULL \notin Nat /\ NULL \notin Jobs

Run == INSTANCE Tasks

Init == Run!Init
Next == Run!Next
Spec == Run!Spec
ControlFirst == Run!ControlFirst
-----------------------------------------------------------------------------
Over == main \in {"done", "returned"}

\* Whatever order the runtime runs the jobs in, the decomposition that lu_serial, lu_para
\* and the Cilk original print is the one their test_result accepts.
PrintsTrue ==
  Over => /\ program[1] \in {"lu_serial", "lu_para"} => LUBlocks!test_result(store)
          /\ program[1] = "lu_cilk" => LUCilk!test_result(store)

\* C2 of the recursive product equals C1 of iter_matmul, each product added once.
SameAsIterMatmul ==
  Over /\ program[1] \in {"magic_serial", "magic_para"} => store.C2 = Product!iter_matmul

\* fib_test prints the Fibonacci number: no result is used before its job has stored it.
PrintsFib ==
  Over /\ program[1] = "fib_test" => store[<<>>] = Sums!Fibonacci[Arg0]

\* Two pieces of code that may run at the same time never touch the same memory with one
\* of them writing, but for the count of calls in magic_para: spawns and syncs order every
\* block, element and result, and nothing orders ++call_time.
OnlyCallTimeRaces ==
  \A j, k \in Run!Ready :
    LET x == todo[j][1][2][2]
        y == todo[k][1][2][2]
    IN j # k =>
         CASE program[1] \in {"lu_serial", "lu_para"} ->
                LUBlocks!Written(x) \cap LUBlocks!Used(y) = {}
           [] program[1] = "lu_cilk" -> LUCilk!Written(x) \cap LUCilk!Used(y) = {}
           [] program[1] \in {"magic_serial", "magic_para"} ->
                Product!Written(x) \cap Product!Used(y) \subseteq {Product!call_time}
           [] program[1] = "fib_test" -> Sums!Written(x) \cap Sums!Used(y) = {}

\* No program gets stuck with jobs waiting for each other before gregor_main returns.
NobodyStuck == main # "returned" => Run!CanStep
=============================================================================
