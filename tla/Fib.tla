-------------------------------- MODULE Fib --------------------------------
(***************************************************************************)
(* fib_test.c: results of spawned jobs.  A call is <<n, slot>>: fib(n),    *)
(* whose result do_cleanup stores in a local variable of the job that      *)
(* spawned it.  A slot is named by its path from g_main: x is 1, y is 2.   *)
(***************************************************************************)
EXTENDS Integers, Sequences

CONSTANTS Arg0,   \* the n that g_main is called with
          NULL

\* Mutant: no sync between the spawns and the sum.
fibNoSync(m, s) ==
  IF m < 2 THEN <<<<"do", <<"return", s, m>>>>>>
  ELSE <<<<"spawn", <<m - 1, s \o <<1>>>>>>, <<"spawn", <<m - 2, s \o <<2>>>>>>,
         <<"do", <<"add", s>>>>>>

fib(m, s) ==
  IF m < 2 THEN <<<<"do", <<"return", s, m>>>>>>
  ELSE <<<<"spawn", <<m - 1, s \o <<1>>>>>>, <<"spawn", <<m - 2, s \o <<2>>>>>>, <<"sync", 0>>,
         <<"do", <<"add", s>>>>>>

g_main == <<<<"spawn", <<Arg0, <<1>>>>>>, <<"sync", 0>>, <<"do", <<"print", <<>>>>>>>>

Body(c) == IF c = <<"g_main">> THEN g_main ELSE fib(c[1], c[2])

Slots == UNION {[1..k -> {1, 2}] : k \in 0..Arg0 + 1}

\* A slot holds NULL until a result is stored; the sum of one that holds NULL is NULL.
Effect(s, i) ==
  CASE i[1] = "return" -> [s EXCEPT ![i[2]] = i[3]]
    [] i[1] = "add" -> LET x == s[i[2] \o <<1>>]
                           y == s[i[2] \o <<2>>]
                       IN [s EXCEPT ![i[2]] = IF NULL \in {x, y} THEN NULL ELSE x + y]
    [] i[1] = "print" -> [s EXCEPT ![<<>>] = s[<<1>>]]

Fibonacci[m \in Nat] == IF m < 2 THEN m ELSE Fibonacci[m - 1] + Fibonacci[m - 2]

\* The slots an instruction writes, and those it reads or writes.
Written(i) == {i[2]}
Used(i) == CASE i[1] = "return" -> {i[2]}
             [] i[1] = "add" -> {i[2], i[2] \o <<1>>, i[2] \o <<2>>}
             [] i[1] = "print" -> {i[2], <<1>>}
=============================================================================
