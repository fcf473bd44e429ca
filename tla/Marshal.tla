------------------------------ MODULE Marshal ------------------------------
(***************************************************************************)
(* How spawn hands arguments to a routine and do_cleanup its result back   *)
(* (gregor.c, thread.c, closure.S, on i386).  Arguments are words: <<i, k>>*)
(* is the k-th word of argument i as the caller pushed it.  The jcb of the *)
(* job starts at address 0, its stack is below.  Results are bytes.        *)
(***************************************************************************)
EXTENDS Integers, Sequences, SequencesExt, FiniteSets

CONSTANTS ArgTypes,  \* the types of arguments tried
          MaxArgs    \* and the number of them

Chars == {"SIGNED_CHAR", "UNSIGNED_CHAR", "CHAR"}
Shorts == {"SHORT_INT", "SIGNED_SHORT", "UNSIGNED_SHORT_INT"}
Words == {"INT", "UNSIGNED_INT", "LONG_INT", "UNSIGNED_LONG_INT", "PTR"}
LongLongs == {"LONG_LONG_INT", "UNSIGNED_LONG_LONG_INT"}
Floats == {"FLOAT", "DOUBLE", "LONG_DOUBLE"}

\* enum type
Types == {"VOID"} \cup Chars \cup Shorts \cup Words \cup LongLongs \cup Floats

ASSUME MarshalAssumption == ArgTypes \subseteq Types /\ MaxArgs \in Nat

VARIABLES
  stage,   \* "spawn", "ready", "routine", "cleanup", "done"
  types,   \* of the arguments
  ret_type,
  ret_ptr, \* "NULL" or "result"
  mem,     \* the job's stack and jcb
  sp,      \* esp of the worker, once it runs the job
  eax, edx, \* bytes of the registers
  st0,     \* the top of the FPU stack, 80 bits for every type: "empty" or "result"
  result   \* bytes at ret_ptr in the parent's frame

vars == <<stage, types, ret_type, ret_ptr, mem, sp, eax, edx, st0, result>>

\* The words of struct jcb that create_job sets, from address 0 on.
jcb(esp) == <<"join_counter", esp, "mmap_addr", "mmap_size", "status", "ret_type", "ret_ptr",
              "parent", "prev", "next">>
Addresses == -(3 * MaxArgs + 3)..9

-----------------------------------------------------------------------------
(* create_job *)

\* What the caller pushed: chars and shorts as ints, floats as doubles.
Pushed(t) == CASE t = "VOID" -> 0
               [] t \in {"FLOAT", "DOUBLE"} \cup LongLongs -> 2
               [] t = "LONG_DOUBLE" -> 3
               [] OTHER -> 1

caller == FlattenSeq([i \in DOMAIN types |-> [k \in 1..Pushed(types[i]) |-> <<i, k>>]])

Caller(k) == IF k <= Len(caller) THEN caller[k] ELSE "junk"

\* (float) of the double at k.
Narrow(k) == IF /\ k < Len(caller)
                /\ types[caller[k][1]] \in {"FLOAT", "DOUBLE"}
                /\ caller[k][2] = 1
             THEN <<caller[k][1], "float">> ELSE "junk"

\* The first pass adds up the sizes of the arguments.
sizeShort(t) == CASE t = "VOID" -> 0
                  [] t \in LongLongs \cup {"DOUBLE", "LONG_DOUBLE"} -> 2
                  [] OTHER -> 1

size(t) == CASE t = "VOID" -> 0
             [] t \in LongLongs \cup {"DOUBLE"} -> 2
             [] t = "LONG_DOUBLE" -> 3
             [] OTHER -> 1

sum == LET s[i \in 0..Len(types)] == IF i = 0 THEN 0 ELSE s[i - 1] + size(types[i])
       IN s[Len(types)]

\* The second pass copies; c is [mem, dst, src].
Copy(c, n) == [mem |-> [a \in Addresses |-> IF a - c.dst \in 0..n - 1
                                            THEN Caller(c.src + a - c.dst) ELSE c.mem[a]],
               dst |-> c.dst + n,
               src |-> c.src + n]

\* Mutant: a float is taken for one word of the caller's.
copyFloatAsWord(c, t) ==
  CASE t = "VOID" -> c
    [] t = "FLOAT" -> [mem |-> [c.mem EXCEPT ![c.dst] = Narrow(c.src)],
                       dst |-> c.dst + 1, src |-> c.src + 1]
    [] t \in LongLongs -> Copy(Copy(c, 2), 2)
    [] t = "DOUBLE" -> Copy(c, 2)
    [] t = "LONG_DOUBLE" -> Copy(c, 3)
    [] OTHER -> Copy(c, 1)

\* The case of long long has no break and goes on with that of double.
copy(c, t) ==
  CASE t = "VOID" -> c
    [] t = "FLOAT" -> [mem |-> [c.mem EXCEPT ![c.dst] = Narrow(c.src)],
                       dst |-> c.dst + 1, src |-> c.src + 2]
    [] t \in LongLongs -> Copy(Copy(c, 2), 2)
    [] t = "DOUBLE" -> Copy(c, 2)
    [] t = "LONG_DOUBLE" -> Copy(c, 3)
    [] OTHER -> Copy(c, 1)

copied(block, top) ==
  LET c[i \in 0..Len(types)] == IF i = 0 THEN [mem |-> block, dst |-> top, src |-> 1]
                                ELSE copy(c[i - 1], types[i])
  IN c[Len(types)].mem

create_job ==
  LET top == -1 - sum
      block == [a \in Addresses |-> IF a >= 0 THEN jcb("old esp")[a + 1] ELSE "junk"]
  IN /\ stage = "spawn"
     /\ stage' = "ready"
     /\ mem' = [copied(block, top) EXCEPT ![top - 1] = "cleanup", ![top - 2] = "routine",
                                          ![1] = top - 2]
     /\ UNCHANGED <<types, ret_type, ret_ptr, sp, eax, edx, st0, result>>

-----------------------------------------------------------------------------
(* The job runs *)

\* switch_context_to_new: esp from the jcb, ret to the routine.
switch_context_to_new ==
  /\ stage = "ready" /\ mem[mem[1]] = "routine"
  /\ stage' = "routine"
  /\ sp' = mem[1] + 1
  /\ UNCHANGED <<types, ret_type, ret_ptr, mem, eax, edx, st0, result>>

\* The number of bytes of a value.
Bytes(t) == CASE t = "VOID" -> 0
              [] t \in Chars -> 1
              [] t \in Shorts -> 2
              [] t \in Words \cup {"FLOAT"} -> 4
              [] t \in LongLongs \cup {"DOUBLE"} -> 8
              [] t = "LONG_DOUBLE" -> 10

\* The routine leaves its result where the calling convention says and returns to
\* cleanup; the other registers, and what a small result leaves of eax, are junk.
routine_returns ==
  /\ stage = "routine" /\ mem[sp] = "cleanup"
  /\ stage' = "cleanup"
  /\ sp' = sp + 1
  /\ LET v(b) == IF b <= Bytes(ret_type) THEN <<"result", b>> ELSE "junk"
         float == ret_type \in Floats
     IN /\ eax' = [b \in 1..4 |-> IF float THEN "junk" ELSE v(b)]
        /\ edx' = [b \in 1..4 |-> IF float THEN "junk" ELSE v(b + 4)]
        /\ st0' = IF float THEN "result" ELSE "empty"
  /\ UNCHANGED <<types, ret_type, ret_ptr, mem, result>>

\* fstp converts the 80 bits to a format of so many bytes, of which these are stored.
fstp(bytes) == [b \in 1..bytes |-> IF st0 = "result" THEN <<"x87", bytes, b>> ELSE "junk"]

\* Mutant: a float is stored as a double.
storedFloatAsDouble == CASE ret_type = "VOID" -> <<>>
                         [] ret_type \in Chars -> SubSeq(eax, 1, 1)
                         [] ret_type \in Shorts -> SubSeq(eax, 1, 2)
                         [] ret_type \in Words -> eax
                         [] ret_type \in LongLongs -> eax \o edx
                         [] ret_type \in {"FLOAT", "DOUBLE"} -> fstp(8)
                         [] ret_type = "LONG_DOUBLE" -> fstp(10)

\* What do_cleanup stores: al, ax, eax, edx behind eax; fstps, fstpl, fstpt.
stored == CASE ret_type = "VOID" -> <<>>
            [] ret_type \in Chars -> SubSeq(eax, 1, 1)
            [] ret_type \in Shorts -> SubSeq(eax, 1, 2)
            [] ret_type \in Words -> eax
            [] ret_type \in LongLongs -> eax \o edx
            [] ret_type = "FLOAT" -> fstp(4)
            [] ret_type = "DOUBLE" -> fstp(8)
            [] ret_type = "LONG_DOUBLE" -> fstp(10)

do_cleanup ==
  /\ stage = "cleanup"
  /\ stage' = "done"
  /\ IF ret_ptr = "NULL" THEN UNCHANGED <<result, st0>>
     ELSE /\ result' = [b \in DOMAIN result |-> IF b <= Len(stored) THEN stored[b] ELSE result[b]]
          /\ st0' = "empty"   \* popped, if it was stored
  /\ UNCHANGED <<types, ret_type, ret_ptr, mem, sp, eax, edx>>

Init == /\ stage = "spawn"
        /\ types \in UNION {[1..k -> ArgTypes] : k \in 0..MaxArgs}
        /\ ret_type \in Types
        /\ ret_ptr \in {"NULL", "result"}
        /\ mem = [a \in Addresses |-> "junk"]
        /\ sp = 0
        /\ eax = [b \in 1..4 |-> "junk"] /\ edx = eax /\ st0 = "empty"
        /\ result = [b \in 1..12 |-> "other"]

Next == create_job \/ switch_context_to_new \/ routine_returns \/ do_cleanup

Spec == Init /\ [][Next]_vars
-----------------------------------------------------------------------------
(* Properties *)

\* An argument as its routine expects it: a float is one word.
Formal(i) == IF types[i] = "FLOAT" THEN <<<<i, "float">>>>
             ELSE [k \in 1..Pushed(types[i]) |-> <<i, k>>]

\* The routine finds its arguments, in order, directly above its return address.
ArgsDelivered ==
  stage = "routine" =>
    LET formals == FlattenSeq([i \in DOMAIN types |-> Formal(i)])
    IN \A k \in DOMAIN formals : mem[sp + k] = formals[k]

\* Building the stack leaves the jcb above it alone, join_counter first.
JcbIntact == stage # "spawn" => \A a \in 0..9 : mem[a] = jcb(mem[1])[a + 1]

\* Byte b of the value returned, in the format of its type.
Value(b) == IF ret_type \in Floats THEN <<"x87", Bytes(ret_type), b>> ELSE <<"result", b>>

\* The parent's variable has the value returned, if it asked for it, in the format of its
\* type, and its neighbours are untouched.
ResultDelivered ==
  stage = "done" => \A b \in DOMAIN result :
    result[b] = IF ret_ptr # "NULL" /\ b <= Bytes(ret_type) THEN Value(b) ELSE "other"
=============================================================================
