------------------------------- MODULE Options -------------------------------
(***************************************************************************)
(* The command line of lu: get_options goes over argv once for each        *)
(* option, in the order of specifiers, and blanks what it has taken;       *)
(* g_main then settles the matrix size (getoptions.c, lu_para.c).          *)
(***************************************************************************)
EXTENDS Integers, Sequences

CONSTANTS Numbers,   \* the numbers that may be typed, as strings ...
          atoi(_),   \* ... and their values; 0 for any other word
          MaxArgs    \* arguments given at most

BLOCK_SIZE == 16
DEFAULT_SIZE == 16 * BLOCK_SIZE

specifiers == <<"-n", "-o", "-c", "-benchmark", "-h">>
opt_types == <<"INTARG", "BOOLARG", "BOOLARG", "BENCHMARK", "BOOLARG">>

Options == {specifiers[k] : k \in 1..5}
Words == Options \cup Numbers \cup {"short", "long"}

JUNK == -1   \* what a variable of g_main holds that it does not initialize

\* atoi returns an int.
INT_MAX == 2147483647

ASSUME OptionsAssumption ==
  /\ MaxArgs \in Nat
  /\ "" \notin Numbers
  /\ \A w \in Words \cup {""} : atoi(w) \in -INT_MAX - 1..INT_MAX

VARIABLES
  given,   \* argv[1..argc-1] as typed
  argv,    \* the same with the arguments taken so far blanked ("")
  value,   \* per option: n, print, test, benchmark, help
  option,  \* the option looked for, an index of specifiers
  i,       \* the argument looked at, 0 before the loop
  pc,      \* "options", "size", "halve", "usage", "allocate"
  n,       \* of g_main
  v        \* of invalid_input

vars == <<given, argv, value, option, i, pc, n, v>>

-----------------------------------------------------------------------------
(* get_options: one step per argument looked at *)

Looking == pc = "options" /\ option <= Len(specifiers)

\* Mutant: the last argument is never looked at, as if every option took a value.
LastShort == Len(argv) - 1

\* An option with a number is not looked for in the last argument.
Last == IF opt_types[option] = "INTARG" THEN Len(argv) - 1 ELSE Len(argv)

SetValue(x) == value' = [value EXCEPT ![specifiers[option]] = x]

\* The matrix size keeps its default; the other values are reset.
BeginOption == /\ Looking /\ i = 0
               /\ i' = 1
               /\ IF opt_types[option] = "INTARG" THEN UNCHANGED value ELSE SetValue(0)
               /\ UNCHANGED <<given, argv, option, pc, n, v>>

LookAt(type) == /\ Looking /\ opt_types[option] = type
                /\ i \in 1..Last
                /\ i' = i + 1
                /\ UNCHANGED <<given, option, pc, n, v>>

Here == argv[i] = specifiers[option]

\* What is taken is blanked.
Take(taken) == argv' = [k \in DOMAIN argv |-> IF k \in taken THEN "" ELSE argv[k]]

PassBy == ~Here /\ UNCHANGED <<argv, value>>

\* The value is the next argument, whatever it is.
IntArg == /\ LookAt("INTARG")
          /\ \/ Here /\ Take({i, i + 1}) /\ SetValue(atoi(argv[i + 1]))
             \/ PassBy

BoolArg == /\ LookAt("BOOLARG")
           /\ \/ Here /\ Take({i}) /\ SetValue(1)
              \/ PassBy

\* The next argument goes, whether it is a length or not.
Benchmark ==
  LET next == IF i < Len(argv) THEN argv[i + 1] ELSE ""
  IN /\ LookAt("BENCHMARK")
     /\ \/ /\ Here /\ Take({i, i + 1})
           /\ SetValue(IF next = "short" THEN 1 ELSE IF next = "long" THEN 3 ELSE 2)
        \/ PassBy

NextOption == /\ Looking /\ i > Last /\ i > 0
              /\ option' = option + 1 /\ i' = 0
              /\ UNCHANGED <<given, argv, value, pc, n, v>>

-----------------------------------------------------------------------------
(* g_main and invalid_input *)

Benchmarked == CASE value["-benchmark"] = 0 -> value["-n"]
                 [] value["-benchmark"] = 1 -> 16
                 [] value["-benchmark"] = 2 -> DEFAULT_SIZE
                 [] value["-benchmark"] = 3 -> 2048

ChooseSize == /\ pc = "options" /\ option > Len(specifiers)
              /\ pc' = IF value["-h"] # 0 THEN "usage" ELSE "size"
              /\ n' = IF value["-h"] # 0 THEN n ELSE Benchmarked
              /\ UNCHANGED <<given, argv, value, option, i, v>>

\* Mutant: only a negative size is refused here.
CompareBlockNegative == /\ pc = "size"
                        /\ pc' = IF n < 0 THEN "usage" ELSE "halve"
                        /\ v' = n
                        /\ UNCHANGED <<given, argv, value, option, i, n>>

CompareBlock == /\ pc = "size"
                /\ pc' = IF n < BLOCK_SIZE THEN "usage" ELSE "halve"
                /\ v' = n
                /\ UNCHANGED <<given, argv, value, option, i, n>>

\* while (!(v & 1)) v >>= 1;
Halve == /\ pc = "halve" /\ v % 2 = 0
         /\ v' = v \div 2
         /\ UNCHANGED <<given, argv, value, option, i, pc, n>>

CompareOne == /\ pc = "halve" /\ v % 2 = 1
              /\ pc' = IF v # 1 THEN "usage" ELSE "allocate"
              /\ UNCHANGED <<given, argv, value, option, i, n, v>>

nBlocks == n \div BLOCK_SIZE

Init == /\ given \in UNION {[1..k -> Words] : k \in 0..MaxArgs}
        /\ argv = given
        /\ value = [o \in Options |-> CASE o = "-n" -> DEFAULT_SIZE
                                       [] o \in {"-o", "-c"} -> 0
                                       [] OTHER -> JUNK]
        /\ option = 1 /\ i = 0
        /\ pc = "options" /\ n = 0 /\ v = 0

Next == \/ BeginOption \/ IntArg \/ BoolArg \/ Benchmark \/ NextOption
        \/ ChooseSize \/ CompareBlock \/ Halve \/ CompareOne

\* A sequential program: it keeps running.
Spec == Init /\ [][Next]_vars /\ WF_vars(Next)
-----------------------------------------------------------------------------
(* Properties *)

Done == option > Len(specifiers)

\* No option stands where "-n" or "-benchmark" look for their value.
WellFormed == \A k \in 2..Len(given) : given[k - 1] \in {"-n", "-benchmark"} => given[k] \notin Options

\* Where option o was given; "-n" counts only with a value.
Places(o) == {k \in 1..Len(given) : given[k] = o /\ (o = "-n" => k < Len(given))}

After(k) == IF k < Len(given) THEN given[k + 1] ELSE ""

\* What it asks for there, and what holds without it.
Meaning(o, k) == CASE o = "-n" -> atoi(After(k))
                   [] o = "-benchmark" /\ After(k) = "short" -> 1
                   [] o = "-benchmark" /\ After(k) = "long" -> 3
                   [] o = "-benchmark" /\ After(k) \notin {"short", "long"} -> 2
                   [] OTHER -> 1

Default(o) == IF o = "-n" THEN DEFAULT_SIZE ELSE 0

\* Although the passes over argv blank words under each other's eyes, a command line
\* without an option in the place of a value means what it says: every option has the
\* value of the last place it was given at, or its default if there is none, and exactly
\* the words that are neither an option nor the value of one are reported as invalid.
\* Of other command lines it is not true, although getoptions.h:16 makes no exception: "a
\* boolarg is set to 1 if the specifier appears", but in "-n -o" -o is the matrix size.
OptionsAsGiven ==
  Done /\ WellFormed =>
    /\ \A o \in Options :
         /\ Places(o) = {} => value[o] = Default(o)
         /\ \A k \in Places(o) : (\A j \in Places(o) : j <= k) => value[o] = Meaning(o, k)
    /\ \A k \in 1..Len(given) :
         argv[k] = IF \/ \E o \in Options : k \in Places(o)
                      \/ k - 1 \in Places("-n") \cup Places("-benchmark")
                   THEN "" ELSE given[k]

\* The powers of two that are ints.
Power[k \in 0..30] == IF k = 0 THEN 1 ELSE 2 * Power[k - 1]

\* lu halves a matrix until it is one block: the blocks it is given are a power of two.
SizeDecomposable ==
  pc = "allocate" => \E k \in 0..30 : nBlocks = Power[k] /\ n = Power[k] * BLOCK_SIZE

\* invalid_input halves until it finds an odd number, and it finds one.
Decides == <>(pc \in {"usage", "allocate"})
=============================================================================
