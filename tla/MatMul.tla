------------------------------- MODULE MatMul -------------------------------
(***************************************************************************)
(* The rectangular matrix product benchmarks: magic_para.c on the runtime  *)
(* and magic_serial.c.  An array is given by the offset of a piece of it;  *)
(* an element of C2 is the bag of the products A[a] * B[b] added up in it. *)
(* In magic_para.c every call also counts itself in the global call_time,  *)
(* with no lock: it loads the count and stores one more.                   *)
(***************************************************************************)
EXTENDS Integers, Sequences, Bags

CONSTANTS n,     \* the matrices are n x n
          BASE   \* m + n + p up to which rec_matmul multiplies itself: 64

\* A call <<"rec_matmul", A, B, C, m, n, p, ld, add>>
rec_matmul(A, B, C, m, q, p, ld, add) == <<"rec_matmul", A, B, C, m, q, p, ld, add>>

\* The two halves of a product, and how they are joined: "apart" when they write
\* different parts of C, "then" when the second adds to what the first has written.
SplitM(c) ==
  LET m == c[5]  m1 == m \div 2  ld == c[8]
  IN [join |-> "apart",
      first |-> rec_matmul(c[2], c[3], c[4], m1, c[6], c[7], ld, c[9]),
      second |-> rec_matmul(c[2] + m1 * ld, c[3], c[4] + m1 * ld, m - m1, c[6], c[7], ld, c[9])]

\* Mutant: the second half overwrites instead of adding.
SplitNOverwrites(c) ==
  LET q == c[6]  n1 == q \div 2  ld == c[8]
  IN [join |-> "then",
      first |-> rec_matmul(c[2], c[3], c[4], c[5], n1, c[7], ld, c[9]),
      second |-> rec_matmul(c[2] + n1, c[3] + n1 * ld, c[4], c[5], q - n1, c[7], ld, c[9])]

SplitN(c) ==
  LET q == c[6]  n1 == q \div 2  ld == c[8]
  IN [join |-> "then",
      first |-> rec_matmul(c[2], c[3], c[4], c[5], n1, c[7], ld, c[9]),
      second |-> rec_matmul(c[2] + n1, c[3] + n1 * ld, c[4], c[5], q - n1, c[7], ld, TRUE)]

SplitP(c) ==
  LET p == c[7]  p1 == p \div 2
  IN [join |-> "apart",
      first |-> rec_matmul(c[2], c[3], c[4], c[5], c[6], p1, c[8], c[9]),
      second |-> rec_matmul(c[2], c[3] + p1, c[4] + p1, c[5], c[6], p - p1, c[8], c[9])]

\* The largest dimension is halved.
Halves(c) == IF c[5] >= c[6] /\ c[6] >= c[7] THEN SplitM(c)
             ELSE IF c[6] >= c[5] /\ c[6] >= c[7] THEN SplitN(c)
             ELSE SplitP(c)

Serial(h) == <<<<"call", h.first>>, <<"call", h.second>>>>

Gregor(h) == IF h.join = "then"
             THEN <<<<"spawn", h.first>>, <<"sync", 0>>, <<"spawn", h.second>>>>
             ELSE <<<<"spawn", h.first>>, <<"spawn", h.second>>>>

\* ++call_time
Count(c) == <<<<"do", <<"load", c>>>>, <<"do", <<"add", c>>>>>>

g_main(variant) == LET c == rec_matmul(0, 0, 0, n, n, n, n, FALSE)
                   IN IF variant = "serial" THEN <<<<"call", c>>>>
                      ELSE <<<<"spawn", c>>, <<"sync", 0>>>>

\* After the count a base case multiplies, any other call halves.
Rest(variant, c) == IF c[5] + c[6] + c[7] <= BASE THEN <<<<"do", c>>>>
                    ELSE IF variant = "serial" THEN Serial(Halves(c))
                    ELSE Gregor(Halves(c))

Body(variant, c) == IF c = <<"g_main">> THEN g_main(variant)
                    ELSE IF variant = "serial" THEN Rest(variant, c)
                    ELSE Count(c) \o Rest(variant, c)

\* The part of C that the product c writes.
Cells(c) == {c[4] + i * c[8] + k : i \in 0..c[5] - 1, k \in 0..c[7] - 1}

\* The base case.
Multiply(C, c) ==
  LET ld == c[8]
      Sum(e) == LET i == (e - c[4]) \div ld
                    k == (e - c[4]) % ld
                IN SetToBag({<<c[2] + i * ld + j, c[3] + j * ld + k>> : j \in 0..c[6] - 1})
  IN [e \in DOMAIN C |-> IF e \in Cells(c)
                         THEN IF c[9] THEN C[e] (+) Sum(e) ELSE Sum(e)
                         ELSE C[e]]

\* A piece of code: the load and the store of ++call_time in a call c, <<"load", c>> and
\* <<"add", c>>, or the base case c.  loaded has what calls have loaded and not yet stored.
Effect(s, x) ==
  CASE x[1] = "load" -> [s EXCEPT !.loaded = @ \cup {<<x[2], s.call_time>>}]
    [] x[1] = "add" -> LET l == CHOOSE l \in s.loaded : l[1] = x[2]
                       IN [s EXCEPT !.call_time = l[2] + 1, !.loaded = @ \ {l}]
    [] OTHER -> [s EXCEPT !.C2 = Multiply(@, x)]

\* The address of call_time; the elements of C2 are at 0 and above.
call_time == -1

\* What a piece writes, and what it reads or writes of that.
Written(x) == CASE x[1] = "load" -> {}
                [] x[1] = "add" -> {call_time}
                [] OTHER -> Cells(x)

Used(x) == IF x[1] = "load" THEN {call_time} ELSE Written(x)

zero == [e \in 0..n * n - 1 |-> EmptyBag]

memory == [C2 |-> zero, call_time |-> 0, loaded |-> {}]

iter_matmul ==
  [e \in 0..n * n - 1 |->
     SetToBag({<<(e \div n) * n + j, j * n + (e % n)>> : j \in 0..n - 1})]
=============================================================================
