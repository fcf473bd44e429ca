--------------------------- MODULE ProgramsProofs ---------------------------
(***************************************************************************)
(* Proofs about Programs.  In whatever order the runtime runs their jobs   *)
(*   - the benchmarks and the Fibonacci test have no data race but that of *)
(*     the counter call_time in magic_para (OneRace),                      *)
(*   - they never get stuck (NeverStuck),                                  *)
(*   - fib_test prints the Fibonacci number (FibRight), and                *)
(*   - the recursive product is that of iter_matmul (ProductRight).        *)
(***************************************************************************)
EXTENDS Programs, TLAPS

LUB == INSTANCE LUProofs
LUC == INSTANCE LUProofs WITH nBlocks <- nBlocksCilk

Size == Nat \ {0}

\* What is assumed about the constants.
LEMMA Constants ==
  /\ nBlocks \in Size /\ nBlocksCilk \in Size /\ BLOCK_SIZE \in Size /\ n \in Size /\ Arg0 \in Size
  /\ BASE \in Nat /\ BASE >= 3
  BY ProgramsAssumption DEF Size
-----------------------------------------------------------------------------
(* Footprints: what a piece of code or a call, with all that it calls and  *)
(* spawns, may write (w), and what it may read or write (u).               *)

Apart(f, g) == f.w \cap g.u = {} /\ g.w \cap f.u = {}
Within(f, g) == f.w \subseteq g.w /\ f.u \subseteq g.u

\* Products by the row, inner index and column where they start: an element of C has row
\* and column, and the first terms of a sum overwrite it.
Cell(r, k) == r * n + k

Prod(r, a, k, m, q, p) ==
  Product!rec_matmul(Cell(r, a), Cell(a, k), Cell(r, k), m, q, p, n, a # 0)

Inside(r, a, k, m, q, p) == /\ r \in Nat /\ a \in Nat /\ k \in Nat
                            /\ m \in Size /\ q \in Size /\ p \in Size
                            /\ r + m <= n /\ a + q <= n /\ k + p <= n

\* The product that g_main asks for.
Whole == Product!rec_matmul(0, 0, 0, n, n, n, n, FALSE)

\* The slots of a call of fib and of the calls below it.
Beneath(s) == {t \in Sums!Slots : DOMAIN s \subseteq DOMAIN t /\ \A i \in DOMAIN s : t[i] = s[i]}

\* The calls of each program.
GoodProd(c) ==
  c = <<"g_main">> \/ \E r, a, k, m, q, p \in Nat : Inside(r, a, k, m, q, p) /\ c = Prod(r, a, k, m, q, p)

GoodFib(c) ==
  c = <<"g_main">> \/ \E m \in Nat, s \in Sums!Slots : s # <<>> /\ m + Len(s) <= Arg0 + 1 /\ c = <<m, s>>

FootProd(c) == LET b == Product!Cells(IF c = <<"g_main">> THEN Whole ELSE c)
               IN [w |-> b, u |-> b]

FootFib(c) == LET b == IF c = <<"g_main">> THEN Sums!Slots ELSE Beneath(c[2])
              IN [w |-> b, u |-> b]

HeightProd(c) == IF c = <<"g_main">> THEN 3 * n + 1 ELSE c[5] + c[6] + c[7]
HeightFib(c) == IF c = <<"g_main">> THEN Arg0 + 1 ELSE c[1]

Lus == {"lu_serial", "lu_para"}
Products == {"magic_serial", "magic_para"}
Names == Lus \cup {"lu_cilk"} \cup Products \cup {"fib_test"}

\* A call that is made, its footprint, and how deep the calls below it can be nested.
Good(x) == /\ x = <<x[1], x[2]>>
           /\ x[1] \in Names
           /\ x[1] \in Lus => LUB!Good(x[2])
           /\ x[1] = "lu_cilk" => LUC!Good(x[2])
           /\ x[1] \in Products => GoodProd(x[2])
           /\ x[1] = "fib_test" => GoodFib(x[2])

FootCall(x) == CASE x[1] \in Lus -> LUB!Foot(x[2])
                 [] x[1] = "lu_cilk" -> LUC!Foot(x[2])
                 [] x[1] \in Products -> FootProd(x[2])
                 [] x[1] = "fib_test" -> FootFib(x[2])

Height(x) == CASE x[1] \in Lus -> LUB!Height(x[2])
               [] x[1] = "lu_cilk" -> LUC!Height(x[2])
               [] x[1] \in Products -> HeightProd(x[2])
               [] x[1] = "fib_test" -> HeightFib(x[2])

\* The footprint of a piece of code, as OnlyCallTimeRaces has it: call_time is not counted.
FootPiece(x) ==
  CASE x[1] \in Lus -> [w |-> LUBlocks!Written(x[2]), u |-> LUBlocks!Used(x[2])]
    [] x[1] = "lu_cilk" -> [w |-> LUCilk!Written(x[2]), u |-> LUCilk!Used(x[2])]
    [] x[1] \in Products -> [w |-> Product!Written(x[2]) \ {Product!call_time},
                             u |-> Product!Used(x[2]) \ {Product!call_time}]
    [] x[1] = "fib_test" -> [w |-> Sums!Written(x[2]), u |-> Sums!Used(x[2])]

\* The footprint of an instruction that is not a sync.
Foot(q) == IF q[1] = "do" THEN FootPiece(q[2]) ELSE FootCall(q[2])

\* Routines that are called, and not spawned, neither spawn nor sync.
Plain(x) == \/ x[1] \in {"lu_serial", "magic_serial"}
            \/ x[1] = "lu_para" /\ x[2][1] \notin {"g_main", "lu"}

\* What a routine called as x may do next.
FitsIn(q, x) ==
  /\ q[2][1] = x[1]
  /\ \/ q[1] = "sync"
     \/ q[1] = "do" /\ Within(Foot(q), FootCall(x))
     \/ /\ q[1] \in {"call", "spawn"}
        /\ Good(q[2]) /\ Within(Foot(q), FootCall(x)) /\ Height(q[2]) < Height(x)
        /\ q[1] = "call" => Plain(q[2])

\* What is spawned is apart from what follows before the next sync.
Ordered(s) ==
  \A i, j \in DOMAIN s :
    /\ i < j /\ s[i][1] = "spawn" /\ \A l \in i + 1..j : s[l][1] # "sync"
    => Apart(Foot(s[i]), Foot(s[j]))

\* The instructions, as a set.
ProdCalls == {"rec_matmul"} \X Nat \X Nat \X Nat \X Nat \X Nat \X Nat \X Nat \X BOOLEAN

Args == LUB!Calls \cup LUC!Calls \cup {0} \cup {<<"g_main">>}
        \cup ProdCalls \cup ({"load", "add"} \X ProdCalls)
        \cup (Nat \X Sums!Slots) \cup ({"return"} \X Sums!Slots \X Nat) \cup ({"add", "print"} \X Sums!Slots)

Code == {"call", "spawn", "sync", "do"} \X (Names \X Args)

BodyOK(x) ==
  /\ Body(x) \in Seq(Code)
  /\ \A i \in DOMAIN Body(x) : FitsIn(Body(x)[i], x)
  /\ Ordered(Body(x))
  /\ Plain(x) => \A i \in DOMAIN Body(x) : Body(x)[i][1] \notin {"spawn", "sync"}

Tag(p, b) == [i \in DOMAIN b |-> <<b[i][1], <<p, b[i][2]>>>>]
-----------------------------------------------------------------------------
(* Rows of n elements *)

\* Rows of a matrix do not overlap.
LEMMA RowsApart ==
  ASSUME n \in Size, NEW r \in Nat, NEW s \in Nat, r < s
  PROVE  r * n + n <= s * n
<1> DEFINE d == s - r - 1
<1>1. d \in Nat /\ s = r + 1 + d
  OBVIOUS
<1>2. d * n \in Nat /\ r * n \in Nat
  BY <1>1 DEF Size
<1> HIDE DEF d
<1>3. s * n = r * n + n + d * n
  BY <1>1 DEF Size
<1> QED BY <1>2, <1>3 DEF Size

\* An offset names one row and column.
LEMMA RowMajor ==
  ASSUME n \in Size
  PROVE  \A r, s \in Nat : \A k, l \in 0..n - 1 : Cell(r, k) = Cell(s, l) => r = s /\ k = l
<1> SUFFICES ASSUME NEW r \in Nat, NEW s \in Nat, NEW k \in 0..n - 1, NEW l \in 0..n - 1,
                    Cell(r, k) = Cell(s, l)
             PROVE  r = s /\ k = l
  OBVIOUS
<1>1. r * n \in Nat /\ s * n \in Nat
  BY DEF Size
<1>2. ~(r < s)
  BY <1>1, RowsApart DEF Size, Cell
<1>3. ~(s < r)
  BY <1>1, RowsApart DEF Size, Cell
<1> QED BY <1>2, <1>3, <1>1 DEF Size, Cell
-----------------------------------------------------------------------------
(* LU *)

\* The bodies of LU in Programs are those its lemmas are about.
LEMMA SameBodyLU == \A v, c : LUBlocks!Body(v, c) = LUB!Body(v, c)
<1>1. \A M, nb : LUBlocks!lu(M, nb) = LUB!lu(M, nb)
  BY DEF LUBlocks!lu, LUB!lu, LUBlocks!MATRIX, LUB!MATRIX
<1>2. \A M, V, W, nb : LUBlocks!schur(M, V, W, nb) = LUB!schur(M, V, W, nb)
  BY DEF LUBlocks!schur, LUB!schur, LUBlocks!MATRIX, LUB!MATRIX
<1>3. \A M, L, nb : LUBlocks!lower_solve(M, L, nb) = LUB!lower_solve(M, L, nb)
  BY DEF LUBlocks!lower_solve, LUB!lower_solve, LUBlocks!MATRIX, LUB!MATRIX
<1>4. \A M, U, nb : LUBlocks!upper_solve(M, U, nb) = LUB!upper_solve(M, U, nb)
  BY DEF LUBlocks!upper_solve, LUB!upper_solve, LUBlocks!MATRIX, LUB!MATRIX
<1>5. \A A, B, L, nb : LUBlocks!aux_lower_solve(A, B, L, nb) = LUB!aux_lower_solve(A, B, L, nb)
  BY DEF LUBlocks!aux_lower_solve, LUB!aux_lower_solve, LUBlocks!MATRIX, LUB!MATRIX
<1>6. \A A, B, U, nb : LUBlocks!aux_upper_solve(A, B, U, nb) = LUB!aux_upper_solve(A, B, U, nb)
  BY DEF LUBlocks!aux_upper_solve, LUB!aux_upper_solve, LUBlocks!MATRIX, LUB!MATRIX
<1>7. \A c : LUBlocks!Groups(c) = LUB!Groups(c)
  BY <1>1, <1>2, <1>3, <1>4, <1>5, <1>6 DEF LUBlocks!Groups, LUB!Groups
<1>8. \A s : LUBlocks!Concat(s) = LUB!Concat(s)
  BY DEF LUBlocks!Concat, LUB!Concat
<1>9. \A v, g : LUBlocks!Schedule(v, g) = LUB!Schedule(v, g)
  BY <1>8 DEF LUBlocks!Schedule, LUB!Schedule, LUBlocks!Serial, LUB!Serial, LUBlocks!Gregor, LUB!Gregor, LUBlocks!Cilk, LUB!Cilk
<1>10. \A c : LUBlocks!IsBlock(c) <=> LUB!IsBlock(c)
  BY DEF LUBlocks!IsBlock, LUB!IsBlock
<1> QED BY <1>7, <1>8, <1>9, <1>10 DEF LUBlocks!Body, LUB!Body

\* And the same for the Cilk original with its own number of blocks.
LEMMA SameBodyCilk == \A v, c : LUCilk!Body(v, c) = LUC!Body(v, c)
<1>1. \A M, nb : LUCilk!lu(M, nb) = LUC!lu(M, nb)
  BY DEF LUCilk!lu, LUC!lu, LUCilk!MATRIX, LUC!MATRIX
<1>2. \A M, V, W, nb : LUCilk!schur(M, V, W, nb) = LUC!schur(M, V, W, nb)
  BY DEF LUCilk!schur, LUC!schur, LUCilk!MATRIX, LUC!MATRIX
<1>3. \A M, L, nb : LUCilk!lower_solve(M, L, nb) = LUC!lower_solve(M, L, nb)
  BY DEF LUCilk!lower_solve, LUC!lower_solve, LUCilk!MATRIX, LUC!MATRIX
<1>4. \A M, U, nb : LUCilk!upper_solve(M, U, nb) = LUC!upper_solve(M, U, nb)
  BY DEF LUCilk!upper_solve, LUC!upper_solve, LUCilk!MATRIX, LUC!MATRIX
<1>5. \A A, B, L, nb : LUCilk!aux_lower_solve(A, B, L, nb) = LUC!aux_lower_solve(A, B, L, nb)
  BY DEF LUCilk!aux_lower_solve, LUC!aux_lower_solve, LUCilk!MATRIX, LUC!MATRIX
<1>6. \A A, B, U, nb : LUCilk!aux_upper_solve(A, B, U, nb) = LUC!aux_upper_solve(A, B, U, nb)
  BY DEF LUCilk!aux_upper_solve, LUC!aux_upper_solve, LUCilk!MATRIX, LUC!MATRIX
<1>7. \A c : LUCilk!Groups(c) = LUC!Groups(c)
  BY <1>1, <1>2, <1>3, <1>4, <1>5, <1>6 DEF LUCilk!Groups, LUC!Groups
<1>8. \A s : LUCilk!Concat(s) = LUC!Concat(s)
  BY DEF LUCilk!Concat, LUC!Concat
<1>9. \A v, g : LUCilk!Schedule(v, g) = LUC!Schedule(v, g)
  BY <1>8 DEF LUCilk!Schedule, LUC!Schedule, LUCilk!Serial, LUC!Serial, LUCilk!Gregor, LUC!Gregor, LUCilk!Cilk, LUC!Cilk
<1>10. \A c : LUCilk!IsBlock(c) <=> LUC!IsBlock(c)
  BY DEF LUCilk!IsBlock, LUC!IsBlock
<1> QED BY <1>7, <1>8, <1>9, <1>10 DEF LUCilk!Body, LUC!Body


\* The body of a call of lu_serial or lu_para is as BodyOK asks.
LEMMA BodyOfLU ==
  ASSUME NEW x, Good(x), x[1] \in Lus
  PROVE  BodyOK(x)
<1> DEFINE p == x[1]  c == x[2]  v == Variant(p)  b == LUB!Body(v, c)
<1>1. p \in Lus /\ LUB!Good(c) /\ v \in LUB!Variants /\ p \in Names
  BY DEF Good, Variant, LUB!Variants, Lus
<1>2. b \in LUB!Fragments(v, c)
  BY <1>1, Constants, LUB!BodyCorrect DEF LUB!Size, Size
<1>3. /\ b \in Seq(LUB!Instrs) /\ LUB!Ordered(b)
      /\ \A i \in DOMAIN b : LUB!Step(v, c, b[i])
  BY <1>2 DEF LUB!Fragments
<1>4. Body(x) = Tag(p, b)
  BY <1>1, SameBodyLU DEF Body, Tag, Lus
<1>5. v = "serial" <=> p = "lu_serial"
  BY <1>1 DEF Variant, Lus
<1>6. v = "gregor" <=> p = "lu_para"
  BY <1>1 DEF Variant, Lus
<1> HIDE DEF b, v
<1> DEFINE B == Tag(p, b)
<1>7. DOMAIN B = DOMAIN b /\ \A i \in DOMAIN b : B[i] = <<b[i][1], <<p, b[i][2]>>>>
  BY DEF Tag
<1>8. Len(b) \in Nat /\ DOMAIN b = 1..Len(b) /\ \A i \in DOMAIN b : b[i] \in LUB!Instrs
  BY <1>3
<1>9. \A i \in DOMAIN b : b[i][1] \in {"call", "spawn", "sync", "do"} /\ b[i][2] \in Args
  BY <1>8 DEF LUB!Instrs, Args
<1>10. B \in Seq(Code)
  <2>1. \A i \in 1..Len(b) : B[i] \in Code
    BY <1>1, <1>7, <1>8, <1>9 DEF Code
  <2>2. B = [i \in 1..Len(b) |-> B[i]]
    BY <1>7, <1>8 DEF Tag
  <2> HIDE DEF B
  <2> QED BY <1>8, <2>1, <2>2
<1> HIDE DEF B
<1>11. FootCall(x) = LUB!Foot(c) /\ Height(x) = LUB!Height(c)
  BY <1>1 DEF FootCall, Height, Lus, Products
<1>12. \A y : FootCall(<<p, y>>) = LUB!Foot(y) /\ Height(<<p, y>>) = LUB!Height(y)
  BY <1>1 DEF FootCall, Height, Lus, Products
<1>13. \A y : LUB!Good(y) => Good(<<p, y>>)
  BY <1>1 DEF Good, Lus, Products
<1>14. ASSUME NEW i \in DOMAIN B PROVE FitsIn(B[i], x)
  <2> DEFINE o == b[i][1]  y == b[i][2]  q == <<o, <<p, y>>>>
  <2>1. B[i] = q /\ LUB!Step(v, c, <<o, y>>)
    <3>1. b[i] = <<o, y>>
      BY <1>7, <1>8 DEF LUB!Instrs
    <3> QED BY <1>3, <1>7, <3>1
  <2> HIDE DEF o, y
  <2>2. q[1] = o /\ q[2] = <<p, y>> /\ q[2][1] = p
    OBVIOUS
  <2>3. CASE o = "sync"
    BY <2>1, <2>2, <2>3 DEF FitsIn
  <2>4. CASE o = "do"
    <3>1. y = c /\ LUB!IsBlock(c)
      BY <2>1, <2>4 DEF LUB!Step
    <3>2. LUB!Written(c) \subseteq LUB!Foot(c).w /\ LUB!Used(c) \subseteq LUB!Foot(c).u
      BY <1>1, <3>1, Constants, LUB!KernelInFoot DEF LUB!Size, Size
    <3>3. Foot(q) = [w |-> LUB!Written(c), u |-> LUB!Used(c)]
      BY <1>1, <2>4, <3>1 DEF Foot, FootPiece, Lus, Products, LUBlocks!Written, LUB!Written, LUBlocks!Used, LUB!Used
    <3> QED BY <1>11, <2>1, <2>2, <2>4, <3>2, <3>3 DEF FitsIn, Within
  <2>5. CASE o \in {"call", "spawn"}
    <3>1. LUB!Made(c, y) /\ (o = "spawn" <=> v = "cilk" \/ (v = "gregor" /\ y[1] = "lu")) /\ ~LUB!IsBlock(c)
      BY <2>1, <2>5 DEF LUB!Step
    <3>2. /\ LUB!Good(y) /\ LUB!Within(LUB!Foot(y), LUB!Foot(c)) /\ LUB!Height(y) < LUB!Height(c)
      BY <3>1 DEF LUB!Made
    <3>3. Foot(q) = LUB!Foot(y) /\ Height(q[2]) = LUB!Height(y) /\ Good(q[2])
      BY <1>12, <1>13, <2>5, <3>2 DEF Foot
    <3>4. Within(Foot(q), FootCall(x))
      BY <1>11, <3>2, <3>3 DEF Within, LUB!Within
    <3>5. o = "call" => Plain(q[2])
      <4>1. y[1] # "g_main"
        BY <3>1 DEF LUB!Made
      <4>2. q[2][1] = p /\ q[2][2] = y
        OBVIOUS
      <4>3. o = "call" => ~(o = "spawn")
        OBVIOUS
      <4> QED BY <1>1, <1>5, <1>6, <3>1, <4>1, <4>2, <4>3 DEF Plain, Lus
    <3> QED BY <1>11, <2>1, <2>2, <2>5, <3>2, <3>3, <3>4, <3>5 DEF FitsIn
  <2> QED BY <1>7, <1>9, <2>3, <2>4, <2>5 DEF o
<1>15. Ordered(B)
  <2> SUFFICES ASSUME NEW i \in DOMAIN B, NEW j \in DOMAIN B, i < j, B[i][1] = "spawn",
                      \A l \in i + 1..j : B[l][1] # "sync"
               PROVE  Apart(Foot(B[i]), Foot(B[j]))
    BY DEF Ordered
  <2>1. \A l \in DOMAIN B : B[l][1] = b[l][1] /\ B[l][2] = <<p, b[l][2]>>
    BY <1>7
  <2>2. \A l \in i + 1..j : b[l][1] # "sync"
    <3> TAKE l \in i + 1..j
    <3>1. l \in DOMAIN B
      BY <1>7, <1>8
    <3> QED BY <2>1, <3>1
  <2>3. LUB!Apart(LUB!Foot(b[i][2]), LUB!Foot(b[j][2]))
    BY <1>3, <1>7, <2>1, <2>2 DEF LUB!Ordered
  <2>4. b[i][1] # "do" /\ b[j][1] # "do"
    <3>1. LUB!Step(v, c, b[i]) /\ LUB!Step(v, c, b[j])
      BY <1>3, <1>7
    <3>2. ~LUB!IsBlock(c)
      BY <3>1, <2>1, <1>7 DEF LUB!Step
    <3> QED BY <3>1, <3>2 DEF LUB!Step
  <2>5. Foot(B[i]) = LUB!Foot(b[i][2]) /\ Foot(B[j]) = LUB!Foot(b[j][2])
    BY <1>12, <2>1, <2>4 DEF Foot
  <2> QED BY <2>3, <2>5 DEF Apart, LUB!Apart
<1>16. ASSUME Plain(x), NEW i \in DOMAIN B PROVE B[i][1] \notin {"spawn", "sync"}
  <2>1. B[i][1] = b[i][1] /\ LUB!Step(v, c, b[i])
    BY <1>3, <1>7
  <2>2. v # "cilk"
    BY <1>1 DEF Variant, Lus, v
  <2>3. v = "gregor" => c[1] \notin {"g_main", "lu"}
    BY <1>6, <1>16 DEF Plain
  <2> QED BY <2>1, <2>2, <2>3 DEF LUB!Step, LUB!Made
<1>17. Body(x) = B
  BY <1>4 DEF B
<1> QED BY <1>10, <1>14, <1>15, <1>16, <1>17 DEF BodyOK

\* The body of a call of lu_cilk is as BodyOK asks.
LEMMA BodyOfCilk ==
  ASSUME NEW x, Good(x), x[1] = "lu_cilk"
  PROVE  BodyOK(x)
<1> DEFINE p == x[1]  c == x[2]  v == Variant(p)  b == LUC!Body(v, c)
<1>1. p = "lu_cilk" /\ LUC!Good(c) /\ v \in LUC!Variants /\ p \in Names
  BY DEF Good, Variant, LUC!Variants, Lus
<1>2. b \in LUC!Fragments(v, c)
  BY <1>1, Constants, LUC!BodyCorrect DEF LUC!Size, Size
<1>3. /\ b \in Seq(LUC!Instrs) /\ LUC!Ordered(b)
      /\ \A i \in DOMAIN b : LUC!Step(v, c, b[i])
  BY <1>2 DEF LUC!Fragments
<1>4. Body(x) = Tag(p, b)
  BY <1>1, SameBodyCilk DEF Body, Tag, Lus
<1>5. v = "cilk"
  BY <1>1 DEF Variant
<1> HIDE DEF b, v
<1> DEFINE B == Tag(p, b)
<1>7. DOMAIN B = DOMAIN b /\ \A i \in DOMAIN b : B[i] = <<b[i][1], <<p, b[i][2]>>>>
  BY DEF Tag
<1>8. Len(b) \in Nat /\ DOMAIN b = 1..Len(b) /\ \A i \in DOMAIN b : b[i] \in LUC!Instrs
  BY <1>3
<1>9. \A i \in DOMAIN b : b[i][1] \in {"call", "spawn", "sync", "do"} /\ b[i][2] \in Args
  BY <1>8 DEF LUC!Instrs, Args
<1>10. B \in Seq(Code)
  <2>1. \A i \in 1..Len(b) : B[i] \in Code
    BY <1>1, <1>7, <1>8, <1>9 DEF Code
  <2>2. B = [i \in 1..Len(b) |-> B[i]]
    BY <1>7, <1>8 DEF Tag
  <2> HIDE DEF B
  <2> QED BY <1>8, <2>1, <2>2
<1> HIDE DEF B
<1>11. FootCall(x) = LUC!Foot(c) /\ Height(x) = LUC!Height(c)
  BY <1>1 DEF FootCall, Height, Lus, Products
<1>12. \A y : FootCall(<<p, y>>) = LUC!Foot(y) /\ Height(<<p, y>>) = LUC!Height(y)
  BY <1>1 DEF FootCall, Height, Lus, Products
<1>13. \A y : LUC!Good(y) => Good(<<p, y>>)
  BY <1>1 DEF Good, Lus, Products
<1>14. ASSUME NEW i \in DOMAIN B PROVE FitsIn(B[i], x)
  <2> DEFINE o == b[i][1]  y == b[i][2]  q == <<o, <<p, y>>>>
  <2>1. B[i] = q /\ LUC!Step(v, c, <<o, y>>)
    <3>1. b[i] = <<o, y>>
      BY <1>7, <1>8 DEF LUC!Instrs
    <3> QED BY <1>3, <1>7, <3>1
  <2> HIDE DEF o, y
  <2>2. q[1] = o /\ q[2] = <<p, y>> /\ q[2][1] = p
    OBVIOUS
  <2>3. CASE o = "sync"
    BY <2>1, <2>2, <2>3 DEF FitsIn
  <2>4. CASE o = "do"
    <3>1. y = c /\ LUC!IsBlock(c)
      BY <2>1, <2>4 DEF LUC!Step
    <3>2. LUC!Written(c) \subseteq LUC!Foot(c).w /\ LUC!Used(c) \subseteq LUC!Foot(c).u
      BY <1>1, <3>1, Constants, LUC!KernelInFoot DEF LUC!Size, Size
    <3>3. Foot(q) = [w |-> LUC!Written(c), u |-> LUC!Used(c)]
      BY <1>1, <2>4, <3>1 DEF Foot, FootPiece, Lus, Products, LUCilk!Written, LUC!Written, LUCilk!Used, LUC!Used
    <3> QED BY <1>11, <2>1, <2>2, <2>4, <3>2, <3>3 DEF FitsIn, Within
  <2>5. CASE o \in {"call", "spawn"}
    <3>1. LUC!Made(c, y) /\ (o = "spawn" <=> v = "cilk" \/ (v = "gregor" /\ y[1] = "lu")) /\ ~LUC!IsBlock(c)
      BY <2>1, <2>5 DEF LUC!Step
    <3>2. /\ LUC!Good(y) /\ LUC!Within(LUC!Foot(y), LUC!Foot(c)) /\ LUC!Height(y) < LUC!Height(c)
      BY <3>1 DEF LUC!Made
    <3>3. Foot(q) = LUC!Foot(y) /\ Height(q[2]) = LUC!Height(y) /\ Good(q[2])
      BY <1>12, <1>13, <2>5, <3>2 DEF Foot
    <3>4. Within(Foot(q), FootCall(x))
      BY <1>11, <3>2, <3>3 DEF Within, LUC!Within
    <3>5. o # "call"
      BY <1>5, <3>1
    <3> QED BY <1>11, <2>1, <2>2, <2>5, <3>2, <3>3, <3>4, <3>5 DEF FitsIn
  <2> QED BY <1>7, <1>9, <2>3, <2>4, <2>5 DEF o
<1>15. Ordered(B)
  <2> SUFFICES ASSUME NEW i \in DOMAIN B, NEW j \in DOMAIN B, i < j, B[i][1] = "spawn",
                      \A l \in i + 1..j : B[l][1] # "sync"
               PROVE  Apart(Foot(B[i]), Foot(B[j]))
    BY DEF Ordered
  <2>1. \A l \in DOMAIN B : B[l][1] = b[l][1] /\ B[l][2] = <<p, b[l][2]>>
    BY <1>7
  <2>2. \A l \in i + 1..j : b[l][1] # "sync"
    <3> TAKE l \in i + 1..j
    <3>1. l \in DOMAIN B
      BY <1>7, <1>8
    <3> QED BY <2>1, <3>1
  <2>3. LUC!Apart(LUC!Foot(b[i][2]), LUC!Foot(b[j][2]))
    BY <1>3, <1>7, <2>1, <2>2 DEF LUC!Ordered
  <2>4. b[i][1] # "do" /\ b[j][1] # "do"
    <3>1. LUC!Step(v, c, b[i]) /\ LUC!Step(v, c, b[j])
      BY <1>3, <1>7
    <3>2. ~LUC!IsBlock(c)
      BY <3>1, <2>1, <1>7 DEF LUC!Step
    <3> QED BY <3>1, <3>2 DEF LUC!Step
  <2>5. Foot(B[i]) = LUC!Foot(b[i][2]) /\ Foot(B[j]) = LUC!Foot(b[j][2])
    BY <1>12, <2>1, <2>4 DEF Foot
  <2> QED BY <2>3, <2>5 DEF Apart, LUC!Apart
<1>16. ~Plain(x)
  BY <1>1 DEF Plain
<1>17. Body(x) = B
  BY <1>4 DEF B
<1> QED BY <1>10, <1>14, <1>15, <1>16, <1>17 DEF BodyOK
-----------------------------------------------------------------------------
(* The rectangular product *)

\* Offsets of elements.
LEMMA CellFacts ==
  /\ \A r, k, i \in Nat : Cell(r, k) + i * n = Cell(r + i, k)
  /\ \A r, k, i \in Nat : Cell(r, k) + i = Cell(r, k + i)
  /\ \A r, k \in Nat : Cell(r, k) \in Nat
<1>1. n \in Nat
  BY Constants DEF Size
<1>2. \A r, i \in Nat : (r + i) * n = r * n + i * n /\ r * n \in Nat /\ i * n \in Nat
  BY <1>1
<1> QED BY <1>1, <1>2 DEF Cell

\* The m x p elements from row r and column k on.
Box(r, k, m, p) == {Cell(r + i, k + j) : i \in 0..m - 1, j \in 0..p - 1}

\* The elements that a product writes, by row and column.
LEMMA WrittenCells ==
  \A r, a, k \in Nat, m, q, p \in Size : Product!Cells(Prod(r, a, k, m, q, p)) = Box(r, k, m, p)
<1> TAKE r, a, k \in Nat, m, q, p \in Size
<1> DEFINE c == Prod(r, a, k, m, q, p)
<1>1. c[4] = Cell(r, k) /\ c[5] = m /\ c[7] = p /\ c[8] = n
  BY DEF Prod, Product!rec_matmul
<1> HIDE DEF c
<1>2. \A i \in 0..m - 1, j \in 0..p - 1 : c[4] + i * c[8] + j = Cell(r + i, k + j)
  <2> TAKE i \in 0..m - 1, j \in 0..p - 1
  <2> DEFINE s == r + i
  <2>1. i \in Nat /\ j \in Nat /\ s \in Nat
    BY DEF Size
  <2>2. Cell(r, k) + i * n = Cell(s, k)
    BY <2>1, CellFacts
  <2> HIDE DEF s
  <2>3. Cell(s, k) + j = Cell(s, k + j)
    BY <2>1, CellFacts
  <2>4. c[4] + i * c[8] + j = Cell(s, k + j)
    BY <1>1, <2>2, <2>3
  <2> QED BY <2>4 DEF s
<1>3. Product!Cells(c) = {c[4] + i * c[8] + j : i \in 0..m - 1, j \in 0..p - 1}
  BY <1>1 DEF Product!Cells
<1> QED BY <1>2, <1>3 DEF c, Box

\* A part of a product.
Part(c, y) == /\ y \in ProdCalls
              /\ GoodProd(y) /\ y # <<"g_main">>
              /\ Product!Cells(y) \subseteq Product!Cells(c)
              /\ HeightProd(y) < c[5] + c[6] + c[7]

\* A product for an inner block of C is a part.
LEMMA PartOfProduct ==
  ASSUME NEW r \in Nat, NEW a \in Nat, NEW k \in Nat, NEW m \in Size, NEW q \in Size, NEW p \in Size,
         NEW rr \in Nat, NEW aa \in Nat, NEW kk \in Nat,
         NEW m1 \in Size, NEW q1 \in Size, NEW p1 \in Size, r <= rr, k <= kk, a <= aa,
         Inside(r, a, k, m, q, p), rr + m1 <= r + m, aa + q1 <= a + q, kk + p1 <= k + p,
         m1 + q1 + p1 < m + q + p
  PROVE  Part(Prod(r, a, k, m, q, p), Prod(rr, aa, kk, m1, q1, p1))
<1> DEFINE i == rr - r  j == kk - k  c == Prod(r, a, k, m, q, p)  y == Prod(rr, aa, kk, m1, q1, p1)
<1>0. /\ i \in Nat /\ j \in Nat /\ n \in Nat
      /\ m \in Nat /\ q \in Nat /\ p \in Nat /\ m1 \in Nat /\ q1 \in Nat /\ p1 \in Nat
  BY Constants DEF Size
<1>1. Inside(rr, aa, kk, m1, q1, p1)
  BY <1>0 DEF Inside, Size
<1>2. \A I \in 0..m1 - 1, J \in 0..p1 - 1 :
        /\ i + I \in 0..m - 1 /\ j + J \in 0..p - 1
        /\ rr + I = r + (i + I) /\ kk + J = k + (j + J)
  BY DEF Size
<1>3. c[5] + c[6] + c[7] = m + q + p
  BY DEF Prod, Product!rec_matmul
<1>4. Product!Cells(c) = Box(r, k, m, p)
  BY WrittenCells
<1>5. Product!Cells(Prod(rr, aa, kk, m1, q1, p1)) = Box(rr, kk, m1, p1)
  BY WrittenCells
<1>6. /\ y \in ProdCalls
      /\ y # <<"g_main">> /\ HeightProd(y) = m1 + q1 + p1
  <2>1. Cell(rr, aa) \in Nat /\ Cell(aa, kk) \in Nat /\ Cell(rr, kk) \in Nat /\ (aa # 0) \in BOOLEAN
    BY <1>0, CellFacts
  <2> QED BY <1>0, <2>1 DEF Prod, Product!rec_matmul, HeightProd, ProdCalls
<1>7. GoodProd(y) /\ Product!Cells(y) = Box(rr, kk, m1, p1)
  BY <1>0, <1>1, <1>5 DEF GoodProd
<1> HIDE DEF c, y
<1>8. Product!Cells(y) \subseteq Product!Cells(c)
  <2> SUFFICES ASSUME NEW I \in 0..m1 - 1, NEW J \in 0..p1 - 1
               PROVE  Cell(rr + I, kk + J) \in Product!Cells(c)
    BY <1>7 DEF Box
  <2> DEFINE II == i + I  JJ == j + J
  <2>1. II \in 0..m - 1 /\ JJ \in 0..p - 1 /\ Cell(rr + I, kk + J) = Cell(r + II, k + JJ)
    BY <1>2
  <2> HIDE DEF II, JJ
  <2> QED BY <1>4, <2>1 DEF Box
<1>9. Part(c, y)
  BY <1>3, <1>6, <1>7, <1>8 DEF Part
<1> QED BY <1>9 DEF c, y

\* Products that write different elements.
Clear(y, z) == Product!Cells(y) \cap Product!Cells(z) = {}

\* Parts in other rows or columns of C write other elements.
LEMMA PartsOfC ==
  ASSUME NEW r \in Nat, NEW a \in Nat, NEW k \in Nat, NEW m \in Size, NEW q \in Size, NEW p \in Size,
         NEW s \in Nat, NEW b \in Nat, NEW l \in Nat, NEW m1 \in Size, NEW q1 \in Size, NEW p1 \in Size,
         k + p <= n, l + p1 <= n, r + m <= s \/ k + p <= l
  PROVE  Clear(Prod(r, a, k, m, q, p), Prod(s, b, l, m1, q1, p1))
<1>1. ASSUME NEW i \in 0..m - 1, NEW j \in 0..p - 1, NEW I \in 0..m1 - 1, NEW J \in 0..p1 - 1
      PROVE  Cell(r + i, k + j) # Cell(s + I, l + J)
  <2> DEFINE x == r + i  y == k + j  X == s + I  Y == l + J
  <2>1. n \in Size
    BY Constants
  <2>2. x \in Nat /\ X \in Nat /\ y \in 0..n - 1 /\ Y \in 0..n - 1 /\ ~(x = X /\ y = Y)
    BY Constants DEF Size
  <2> HIDE DEF x, y, X, Y
  <2>3. Cell(x, y) = Cell(X, Y) => x = X /\ y = Y
    BY <2>1, <2>2, RowMajor DEF Cell
  <2>4. Cell(x, y) # Cell(X, Y)
    BY <2>2, <2>3
  <2> QED BY <2>4 DEF x, y, X, Y
<1>2. Product!Cells(Prod(r, a, k, m, q, p)) = Box(r, k, m, p)
  BY WrittenCells
<1>3. Product!Cells(Prod(s, b, l, m1, q1, p1)) = Box(s, l, m1, p1)
  BY WrittenCells
<1> QED BY <1>1, <1>2, <1>3 DEF Box, Clear

\* The halves of a product that is not a base case.
HalvesOK(c, h) ==
  /\ h.join \in {"apart", "then"}
  /\ Part(c, h.first) /\ Part(c, h.second)
  /\ h.join = "apart" => Clear(h.first, h.second)

\* Halving the rows: the halves are parts and write different elements.
LEMMA SplitMOK ==
  ASSUME NEW r \in Nat, NEW a \in Nat, NEW k \in Nat, NEW m \in Size, NEW q \in Size, NEW p \in Size,
         Inside(r, a, k, m, q, p), m >= 2
  PROVE  HalvesOK(Prod(r, a, k, m, q, p), Product!SplitM(Prod(r, a, k, m, q, p)))
<1> DEFINE c == Prod(r, a, k, m, q, p)  h == Product!SplitM(c)  m1 == m \div 2  m2 == m - m1  s == r + m1
<1>1. m1 \in Size /\ m2 \in Size /\ s \in Nat /\ m1 + m2 = m /\ m1 \in Nat /\ m2 \in Nat
  BY DEF Size
<1> HIDE DEF m2, s
<1>2. h.join = "apart" /\ h.first = Prod(r, a, k, m1, q, p)
  BY DEF Product!SplitM, Prod, Product!rec_matmul
<1>3. h.second = Prod(s, a, k, m2, q, p)
  <2>1. Cell(r, a) + m1 * n = Cell(s, a) /\ Cell(r, k) + m1 * n = Cell(s, k)
    BY <1>1, CellFacts DEF s
  <2> QED BY <2>1 DEF Product!SplitM, Prod, Product!rec_matmul, m2
<1> HIDE DEF m1
<1>4. /\ r <= r /\ k <= k /\ a <= a /\ r <= s /\ r + m1 <= s /\ r + m1 <= r + m /\ s + m2 <= r + m
      /\ a + q <= a + q /\ k + p <= k + p /\ m1 + q + p < m + q + p /\ m2 + q + p < m + q + p
  BY <1>1 DEF s, Size
<1>5. k + p <= n
  BY DEF Inside
<1> HIDE DEF c, h
<1>6. Part(c, h.first)
  <2>1. Part(Prod(r, a, k, m, q, p), Prod(r, a, k, m1, q, p))
    BY <1>1, <1>4, PartOfProduct
  <2> QED BY <1>2, <2>1 DEF c
<1>7. Part(c, h.second)
  <2>1. Part(Prod(r, a, k, m, q, p), Prod(s, a, k, m2, q, p))
    BY <1>1, <1>4, PartOfProduct
  <2> QED BY <1>3, <2>1 DEF c
<1>8. Clear(h.first, h.second)
  <2>1. Clear(Prod(r, a, k, m1, q, p), Prod(s, a, k, m2, q, p))
    BY <1>1, <1>4, <1>5, PartsOfC
  <2> QED BY <1>2, <1>3, <2>1
<1>9. HalvesOK(c, h)
  BY <1>2, <1>6, <1>7, <1>8 DEF HalvesOK
<1> QED BY <1>9 DEF c, h

\* Halving the columns: the halves are parts and write different elements.
LEMMA SplitPOK ==
  ASSUME NEW r \in Nat, NEW a \in Nat, NEW k \in Nat, NEW m \in Size, NEW q \in Size, NEW p \in Size,
         Inside(r, a, k, m, q, p), p >= 2
  PROVE  HalvesOK(Prod(r, a, k, m, q, p), Product!SplitP(Prod(r, a, k, m, q, p)))
<1> DEFINE c == Prod(r, a, k, m, q, p)  h == Product!SplitP(c)  p1 == p \div 2  p2 == p - p1  l == k + p1
<1>1. p1 \in Size /\ p2 \in Size /\ l \in Nat /\ p1 + p2 = p /\ p1 \in Nat /\ p2 \in Nat
  BY DEF Size
<1> HIDE DEF p2, l
<1>2. h.join = "apart" /\ h.first = Prod(r, a, k, m, q, p1)
  BY DEF Product!SplitP, Prod, Product!rec_matmul
<1>3. h.second = Prod(r, a, l, m, q, p2)
  <2>1. Cell(a, k) + p1 = Cell(a, l) /\ Cell(r, k) + p1 = Cell(r, l)
    BY <1>1, CellFacts DEF l
  <2> QED BY <2>1 DEF Product!SplitP, Prod, Product!rec_matmul, p2
<1> HIDE DEF p1
<1>4. /\ r <= r /\ k <= k /\ a <= a /\ k <= l /\ k + p1 <= l /\ k + p1 <= k + p /\ l + p2 <= k + p
      /\ a + q <= a + q /\ r + m <= r + m /\ m + q + p1 < m + q + p /\ m + q + p2 < m + q + p
  BY <1>1 DEF l, Size
<1>5. k + p1 <= n /\ l + p2 <= n
  <2>1. k + p <= n /\ n \in Nat
    BY Constants DEF Inside, Size
  <2> QED BY <1>1, <1>4, <2>1 DEF Size
<1> HIDE DEF c, h
<1>6. Part(c, h.first)
  <2>1. Part(Prod(r, a, k, m, q, p), Prod(r, a, k, m, q, p1))
    BY <1>1, <1>4, PartOfProduct
  <2> QED BY <1>2, <2>1 DEF c
<1>7. Part(c, h.second)
  <2>1. Part(Prod(r, a, k, m, q, p), Prod(r, a, l, m, q, p2))
    BY <1>1, <1>4, PartOfProduct
  <2> QED BY <1>3, <2>1 DEF c
<1>8. Clear(h.first, h.second)
  <2>1. Clear(Prod(r, a, k, m, q, p1), Prod(r, a, l, m, q, p2))
    BY <1>1, <1>4, <1>5, PartsOfC
  <2> QED BY <1>2, <1>3, <2>1
<1>9. HalvesOK(c, h)
  BY <1>2, <1>6, <1>7, <1>8 DEF HalvesOK
<1> QED BY <1>9 DEF c, h

\* Halving the inner dimension: the halves are parts, the second after the first.
LEMMA SplitNOK ==
  ASSUME NEW r \in Nat, NEW a \in Nat, NEW k \in Nat, NEW m \in Size, NEW q \in Size, NEW p \in Size,
         Inside(r, a, k, m, q, p), q >= 2
  PROVE  HalvesOK(Prod(r, a, k, m, q, p), Product!SplitN(Prod(r, a, k, m, q, p)))
<1> DEFINE c == Prod(r, a, k, m, q, p)  h == Product!SplitN(c)  q1 == q \div 2  q2 == q - q1  b == a + q1
<1>1. q1 \in Size /\ q2 \in Size /\ b \in Nat /\ q1 + q2 = q /\ q1 \in Nat /\ q2 \in Nat /\ b # 0
  BY DEF Size
<1> HIDE DEF q2, b
<1>2. h.join = "then" /\ h.first = Prod(r, a, k, m, q1, p)
  BY DEF Product!SplitN, Prod, Product!rec_matmul
<1>3. h.second = Prod(r, b, k, m, q2, p)
  <2>1. Cell(r, a) + q1 = Cell(r, b) /\ Cell(a, k) + q1 * n = Cell(b, k)
    BY <1>1, CellFacts DEF b
  <2>2. (b # 0) = TRUE
    BY <1>1
  <2> QED BY <2>1, <2>2 DEF Product!SplitN, Prod, Product!rec_matmul, q2
<1> HIDE DEF q1
<1>4. /\ r <= r /\ k <= k /\ a <= a /\ a <= b /\ a + q1 <= a + q /\ b + q2 <= a + q
      /\ r + m <= r + m /\ k + p <= k + p /\ m + q1 + p < m + q + p /\ m + q2 + p < m + q + p
  BY <1>1 DEF b, Size
<1> HIDE DEF c, h
<1>6. Part(c, h.first)
  <2>1. Part(Prod(r, a, k, m, q, p), Prod(r, a, k, m, q1, p))
    BY <1>1, <1>4, PartOfProduct
  <2> QED BY <1>2, <2>1 DEF c
<1>7. Part(c, h.second)
  <2>1. Part(Prod(r, a, k, m, q, p), Prod(r, b, k, m, q2, p))
    BY <1>1, <1>4, PartOfProduct
  <2> QED BY <1>3, <2>1 DEF c
<1>9. HalvesOK(c, h)
  BY <1>2, <1>6, <1>7 DEF HalvesOK
<1> QED BY <1>9 DEF c, h

\* Halving the largest dimension of a product that is larger than BASE.
LEMMA HalvesCorrect ==
  ASSUME NEW r \in Nat, NEW a \in Nat, NEW k \in Nat, NEW m \in Size, NEW q \in Size, NEW p \in Size,
         Inside(r, a, k, m, q, p), m + q + p > BASE
  PROVE  HalvesOK(Prod(r, a, k, m, q, p), Product!Halves(Prod(r, a, k, m, q, p)))
<1> DEFINE c == Prod(r, a, k, m, q, p)
<1>1. c[5] = m /\ c[6] = q /\ c[7] = p
  BY DEF Prod, Product!rec_matmul
<1>2. BASE \in Nat /\ BASE >= 3
  BY Constants
<1> HIDE DEF c
<1>3. CASE m >= q /\ q >= p
  <2>1. m >= 2 /\ Product!Halves(c) = Product!SplitM(c)
    BY <1>1, <1>2, <1>3 DEF Product!Halves, Size
  <2> QED BY <2>1, SplitMOK DEF c
<1>4. CASE ~(m >= q /\ q >= p) /\ q >= m /\ q >= p
  <2>1. q >= 2 /\ Product!Halves(c) = Product!SplitN(c)
    BY <1>1, <1>2, <1>4 DEF Product!Halves, Size
  <2> QED BY <2>1, SplitNOK DEF c
<1>5. CASE ~(m >= q /\ q >= p) /\ ~(q >= m /\ q >= p)
  <2>1. p >= 2 /\ Product!Halves(c) = Product!SplitP(c)
    BY <1>1, <1>2, <1>5 DEF Product!Halves, Size
  <2> QED BY <2>1, SplitPOK DEF c
<1> QED BY <1>3, <1>4, <1>5
-----------------------------------------------------------------------------
(* Bodies that are written out *)

\* A call y that is made by x.
Child(x, y) == /\ y \in Args /\ Good(<<x[1], y>>)
               /\ Within(FootCall(<<x[1], y>>), FootCall(x))
               /\ Height(<<x[1], y>>) < Height(x)

ItemOK(x, o) ==
  /\ o \in {"call", "spawn", "sync", "do"} \X Args
  /\ \/ o[1] = "sync"
     \/ o[1] = "do" /\ Within(FootPiece(<<x[1], o[2]>>), FootCall(x))
     \/ o[1] = "spawn" /\ Child(x, o[2])
     \/ o[1] = "call" /\ Child(x, o[2]) /\ Plain(<<x[1], o[2]>>)

\* Ordered before the instructions are tagged.
OrderedIn(p, b) ==
  \A i, j \in DOMAIN b :
    /\ i < j /\ b[i][1] = "spawn" /\ \A l \in i + 1..j : b[l][1] # "sync"
    => Apart(Foot(<<b[i][1], <<p, b[i][2]>>>>), Foot(<<b[j][1], <<p, b[j][2]>>>>))

\* What is to be shown of the instructions of a routine.
Fits(x, b) ==
  /\ b \in Seq({"call", "spawn", "sync", "do"} \X Args)
  /\ \A i \in DOMAIN b : ItemOK(x, b[i])
  /\ OrderedIn(x[1], b)
  /\ Plain(x) => \A i \in DOMAIN b : b[i][1] \notin {"spawn", "sync"}

\* It is all there is to show.
LEMMA TaggedBody ==
  ASSUME NEW x, x[1] \in Names, NEW b, Fits(x, b), Body(x) = Tag(x[1], b)
  PROVE  BodyOK(x)
<1> DEFINE p == x[1]  B == Tag(p, b)
<1>0. /\ b \in Seq({"call", "spawn", "sync", "do"} \X Args)
      /\ \A i \in DOMAIN b : ItemOK(x, b[i])
      /\ OrderedIn(x[1], b)
      /\ Plain(x) => \A i \in DOMAIN b : b[i][1] \notin {"spawn", "sync"}
  BY DEF Fits
<1>1. /\ DOMAIN B = DOMAIN b /\ Len(b) \in Nat /\ DOMAIN b = 1..Len(b)
      /\ \A i \in DOMAIN b : B[i] = <<b[i][1], <<p, b[i][2]>>>>
  BY <1>0 DEF Tag
<1>2. B \in Seq(Code)
  <2>1. \A i \in 1..Len(b) : B[i] \in Code
    BY <1>0, <1>1 DEF Code, ItemOK
  <2>2. B = [i \in 1..Len(b) |-> B[i]]
    BY <1>1 DEF Tag
  <2> HIDE DEF B
  <2> QED BY <1>1, <2>1, <2>2
<1> HIDE DEF B
<1>3. ASSUME NEW i \in DOMAIN B PROVE FitsIn(B[i], x)
  <2> DEFINE o == b[i][1]  y == b[i][2]  q == <<o, <<p, y>>>>
  <2>1. B[i] = q /\ ItemOK(x, b[i])
    BY <1>0, <1>1
  <2> HIDE DEF o, y
  <2>2. q[1] = o /\ q[2] = <<p, y>> /\ q[2][1] = p
    OBVIOUS
  <2>3. CASE o = "sync"
    BY <2>1, <2>2, <2>3 DEF FitsIn
  <2>4. CASE o = "do"
    BY <2>1, <2>2, <2>4 DEF FitsIn, ItemOK, Foot, o, y
  <2>5. CASE o \in {"call", "spawn"}
    <3>1. Child(x, y) /\ (o = "call" => Plain(q[2]))
      BY <2>1, <2>2, <2>5 DEF ItemOK, o, y
    <3>2. Foot(q) = FootCall(q[2])
      BY <2>2, <2>5 DEF Foot
    <3> QED BY <2>1, <2>2, <2>5, <3>1, <3>2 DEF FitsIn, Child
  <2> QED BY <2>1, <2>3, <2>4, <2>5 DEF ItemOK, o
<1>4. Ordered(B)
  <2> SUFFICES ASSUME NEW i \in DOMAIN B, NEW j \in DOMAIN B, i < j, B[i][1] = "spawn",
                      \A l \in i + 1..j : B[l][1] # "sync"
               PROVE  Apart(Foot(B[i]), Foot(B[j]))
    BY DEF Ordered
  <2>1. \A l \in i + 1..j : b[l][1] # "sync"
    <3> TAKE l \in i + 1..j
    <3>1. l \in DOMAIN B
      BY <1>1
    <3> QED BY <1>1, <3>1
  <2>2. i \in DOMAIN b /\ j \in DOMAIN b /\ b[i][1] = "spawn"
    BY <1>1
  <2>3. Apart(Foot(<<b[i][1], <<p, b[i][2]>>>>), Foot(<<b[j][1], <<p, b[j][2]>>>>))
    BY <1>0, <2>1, <2>2 DEF OrderedIn
  <2> QED BY <1>1, <2>2, <2>3
<1>5. ASSUME Plain(x), NEW i \in DOMAIN B PROVE B[i][1] \notin {"spawn", "sync"}
  BY <1>0, <1>1, <1>5
<1>6. Body(x) = B
  BY DEF B
<1> QED BY <1>2, <1>3, <1>4, <1>5, <1>6 DEF BodyOK

\* The shapes of the routines that are written out.
LEMMA OneItem ==
  ASSUME NEW x, x[1] \in Names, NEW o, o # "spawn", o # "sync", NEW y, ItemOK(x, <<o, y>>)
  PROVE  Fits(x, <<<<o, y>>>>)
<1> DEFINE b == <<<<o, y>>>>
<1>1. b \in Seq({"call", "spawn", "sync", "do"} \X Args) /\ DOMAIN b = 1..1 /\ b[1] = <<o, y>>
  BY DEF ItemOK
<1> HIDE DEF b
<1>3. \A i \in DOMAIN b : i = 1
  BY <1>1
<1>4. OrderedIn(x[1], b)
  BY <1>3 DEF OrderedIn
<1>5. \A i \in DOMAIN b : ItemOK(x, b[i]) /\ b[i][1] \notin {"spawn", "sync"}
  <2>1. <<o, y>>[1] = o /\ b[1] = <<o, y>>
    BY <1>1
  <2> QED BY <1>3, <2>1
<1>6. Fits(x, b)
  BY <1>1, <1>4, <1>5 DEF Fits
<1> QED BY <1>6 DEF b

\* A routine that calls two others.
LEMMA TwoCalls ==
  ASSUME NEW x, x[1] \in Names, NEW y, NEW z, ItemOK(x, <<"call", y>>), ItemOK(x, <<"call", z>>)
  PROVE  Fits(x, <<<<"call", y>>, <<"call", z>>>>)
<1> DEFINE b == <<<<"call", y>>, <<"call", z>>>>
<1>1. /\ b \in Seq({"call", "spawn", "sync", "do"} \X Args) /\ DOMAIN b = 1..2
      /\ b[1] = <<"call", y>> /\ b[2] = <<"call", z>>
  BY DEF ItemOK
<1> HIDE DEF b
<1>3. \A i \in DOMAIN b : i = 1 \/ i = 2
  BY <1>1
<1>5. \A i \in DOMAIN b : ItemOK(x, b[i]) /\ b[i][1] \notin {"spawn", "sync"}
  <2>1. <<"call", y>>[1] = "call" /\ b[1] = <<"call", y>> /\ <<"call", z>>[1] = "call" /\ b[2] = <<"call", z>>
    BY <1>1
  <2> QED BY <1>3, <2>1
<1>4. OrderedIn(x[1], b)
  BY <1>5 DEF OrderedIn
<1>6. Fits(x, b)
  BY <1>1, <1>4, <1>5 DEF Fits
<1> QED BY <1>6 DEF b

\* A routine that spawns one job and waits for it.
LEMMA SpawnAndSync ==
  ASSUME NEW x, x[1] \in Names, ~Plain(x), NEW y, ItemOK(x, <<"spawn", y>>)
  PROVE  Fits(x, <<<<"spawn", y>>, <<"sync", 0>>>>)
<1> DEFINE b == <<<<"spawn", y>>, <<"sync", 0>>>>
<1>0. ItemOK(x, <<"sync", 0>>)
  BY DEF ItemOK, Args
<1>1. /\ b \in Seq({"call", "spawn", "sync", "do"} \X Args) /\ DOMAIN b = 1..2
      /\ b[1] = <<"spawn", y>> /\ b[2] = <<"sync", 0>>
  BY <1>0 DEF ItemOK
<1> HIDE DEF b
<1>3. \A i \in DOMAIN b : i = 1 \/ i = 2
  BY <1>1
<1>4. OrderedIn(x[1], b)
  <2> SUFFICES ASSUME NEW i \in DOMAIN b, NEW j \in DOMAIN b, i < j, b[i][1] = "spawn",
                      \A l \in i + 1..j : b[l][1] # "sync"
               PROVE  FALSE
    BY DEF OrderedIn
  <2>1. i = 1 /\ 2 \in i + 1..j
    BY <1>1, <1>3
  <2> QED BY <1>1, <2>1
<1>6. Fits(x, b)
  BY <1>0, <1>1, <1>3, <1>4 DEF Fits
<1> QED BY <1>6 DEF b

\* A routine that spawns two jobs that are apart, and returns.
LEMMA TwoSpawns ==
  ASSUME NEW x, x[1] \in Names, ~Plain(x), NEW y, NEW z, ItemOK(x, <<"spawn", y>>), ItemOK(x, <<"spawn", z>>),
         Apart(FootCall(<<x[1], y>>), FootCall(<<x[1], z>>))
  PROVE  Fits(x, <<<<"spawn", y>>, <<"spawn", z>>>>)
<1> DEFINE b == <<<<"spawn", y>>, <<"spawn", z>>>>
<1>1. /\ b \in Seq({"call", "spawn", "sync", "do"} \X Args) /\ DOMAIN b = 1..2
      /\ b[1] = <<"spawn", y>> /\ b[2] = <<"spawn", z>>
  BY DEF ItemOK
<1> HIDE DEF b
<1>3. \A i \in DOMAIN b : i = 1 \/ i = 2
  BY <1>1
<1>4. OrderedIn(x[1], b)
  <2>1. \A w : Foot(<<"spawn", <<x[1], w>>>>) = FootCall(<<x[1], w>>)
    BY DEF Foot
  <2> QED BY <1>1, <1>3, <2>1 DEF OrderedIn
<1>6. Fits(x, b)
  BY <1>1, <1>3, <1>4 DEF Fits
<1> QED BY <1>6 DEF b

\* A routine that spawns two jobs, the second after the first has ended.
LEMMA SpawnSyncSpawn ==
  ASSUME NEW x, x[1] \in Names, ~Plain(x), NEW y, NEW z, ItemOK(x, <<"spawn", y>>), ItemOK(x, <<"spawn", z>>)
  PROVE  Fits(x, <<<<"spawn", y>>, <<"sync", 0>>, <<"spawn", z>>>>)
<1> DEFINE b == <<<<"spawn", y>>, <<"sync", 0>>, <<"spawn", z>>>>
<1>0. ItemOK(x, <<"sync", 0>>)
  BY DEF ItemOK, Args
<1>1. /\ b \in Seq({"call", "spawn", "sync", "do"} \X Args) /\ DOMAIN b = 1..3
      /\ b[1] = <<"spawn", y>> /\ b[2] = <<"sync", 0>> /\ b[3] = <<"spawn", z>>
  BY <1>0 DEF ItemOK
<1> HIDE DEF b
<1>3. \A i \in DOMAIN b : i = 1 \/ i = 2 \/ i = 3
  BY <1>1
<1>4. OrderedIn(x[1], b)
  <2> SUFFICES ASSUME NEW i \in DOMAIN b, NEW j \in DOMAIN b, i < j, b[i][1] = "spawn",
                      \A l \in i + 1..j : b[l][1] # "sync"
               PROVE  FALSE
    BY DEF OrderedIn
  <2>1. i = 1 /\ 2 \in i + 1..j
    BY <1>1, <1>3
  <2> QED BY <1>1, <2>1
<1>6. Fits(x, b)
  BY <1>0, <1>1, <1>3, <1>4 DEF Fits
<1> QED BY <1>6 DEF b

\* A routine that spawns two jobs that are apart, waits, and goes on.
LEMMA TwoSpawnsSyncDo ==
  ASSUME NEW x, x[1] \in Names, ~Plain(x), NEW y, NEW z, NEW w,
         ItemOK(x, <<"spawn", y>>), ItemOK(x, <<"spawn", z>>), ItemOK(x, <<"do", w>>),
         Apart(FootCall(<<x[1], y>>), FootCall(<<x[1], z>>))
  PROVE  Fits(x, <<<<"spawn", y>>, <<"spawn", z>>, <<"sync", 0>>, <<"do", w>>>>)
<1> DEFINE b == <<<<"spawn", y>>, <<"spawn", z>>, <<"sync", 0>>, <<"do", w>>>>
<1>0. ItemOK(x, <<"sync", 0>>)
  BY DEF ItemOK, Args
<1>1. /\ b \in Seq({"call", "spawn", "sync", "do"} \X Args) /\ DOMAIN b = 1..4
      /\ b[1] = <<"spawn", y>> /\ b[2] = <<"spawn", z>> /\ b[3] = <<"sync", 0>> /\ b[4] = <<"do", w>>
  BY <1>0 DEF ItemOK
<1> HIDE DEF b
<1>3. \A i \in DOMAIN b : i = 1 \/ i = 2 \/ i = 3 \/ i = 4
  BY <1>1
<1>4. OrderedIn(x[1], b)
  <2> SUFFICES ASSUME NEW i \in DOMAIN b, NEW j \in DOMAIN b, i < j, b[i][1] = "spawn",
                      \A l \in i + 1..j : b[l][1] # "sync"
               PROVE  Apart(Foot(<<b[i][1], <<x[1], b[i][2]>>>>), Foot(<<b[j][1], <<x[1], b[j][2]>>>>))
    BY DEF OrderedIn
  <2>1. i = 1 \/ i = 2
    BY <1>1, <1>3
  <2>2. ~(3 \in i + 1..j)
    BY <1>1
  <2>3. i = 1 /\ j = 2
    BY <1>3, <2>1, <2>2
  <2>4. \A v : Foot(<<"spawn", <<x[1], v>>>>) = FootCall(<<x[1], v>>)
    BY DEF Foot
  <2> QED BY <1>1, <2>3, <2>4
<1>5. \A i \in DOMAIN b : ItemOK(x, b[i])
  BY <1>0, <1>1, <1>3
<1>6. Fits(x, b)
  BY <1>1, <1>4, <1>5 DEF Fits
<1> QED BY <1>6 DEF b

\* A routine that spawns one job, waits, and goes on.
LEMMA SpawnSyncDo ==
  ASSUME NEW x, x[1] \in Names, ~Plain(x), NEW y, NEW w,
         ItemOK(x, <<"spawn", y>>), ItemOK(x, <<"do", w>>)
  PROVE  Fits(x, <<<<"spawn", y>>, <<"sync", 0>>, <<"do", w>>>>)
<1> DEFINE b == <<<<"spawn", y>>, <<"sync", 0>>, <<"do", w>>>>
<1>0. ItemOK(x, <<"sync", 0>>)
  BY DEF ItemOK, Args
<1>1. /\ b \in Seq({"call", "spawn", "sync", "do"} \X Args) /\ DOMAIN b = 1..3
      /\ b[1] = <<"spawn", y>> /\ b[2] = <<"sync", 0>> /\ b[3] = <<"do", w>>
  BY <1>0 DEF ItemOK
<1> HIDE DEF b
<1>3. \A i \in DOMAIN b : i = 1 \/ i = 2 \/ i = 3
  BY <1>1
<1>4. OrderedIn(x[1], b)
  <2> SUFFICES ASSUME NEW i \in DOMAIN b, NEW j \in DOMAIN b, i < j, b[i][1] = "spawn",
                      \A l \in i + 1..j : b[l][1] # "sync"
               PROVE  FALSE
    BY DEF OrderedIn
  <2>1. i = 1 /\ 2 \in i + 1..j
    BY <1>1, <1>3
  <2> QED BY <1>1, <2>1
<1>5. \A i \in DOMAIN b : ItemOK(x, b[i])
  BY <1>0, <1>1, <1>3
<1>6. Fits(x, b)
  BY <1>1, <1>4, <1>5 DEF Fits
<1> QED BY <1>6 DEF b

\* Two sequences, one after the other.
LEMMA Joined ==
  ASSUME NEW S, NEW d \in Seq(S), NEW b \in Seq(S)
  PROVE  LET s == d \o b
             D == Len(d)
         IN /\ D \in Nat /\ DOMAIN d = 1..D /\ DOMAIN b \subseteq Nat /\ DOMAIN s \subseteq Nat /\ 0 \notin DOMAIN s
            /\ \A i \in DOMAIN d : i \in DOMAIN s /\ s[i] = d[i]
            /\ \A i \in DOMAIN b : D + i \in DOMAIN s /\ s[D + i] = b[i]
            /\ \A i \in DOMAIN s : i <= D \/ (i - D \in DOMAIN b /\ s[i] = b[i - D])
  OBVIOUS

\* The routine s counts its call before it does b.
Counted(s, c, b) ==
  /\ DOMAIN s \subseteq Nat /\ DOMAIN b \subseteq Nat /\ 1 \in DOMAIN s /\ 2 \in DOMAIN s
  /\ s[1] = <<"do", <<"load", c>>>> /\ s[2] = <<"do", <<"add", c>>>>
  /\ \A i \in DOMAIN b : i + 2 \in DOMAIN s /\ s[i + 2] = b[i]
  /\ \A i \in DOMAIN s : i = 1 \/ i = 2 \/ (i > 2 /\ i - 2 \in DOMAIN b /\ s[i] = b[i - 2])

\* The routines of magic_para do.
LEMMA CountFirst ==
  ASSUME NEW S, NEW b \in Seq(S), NEW c
  PROVE  Counted(Product!Count(c) \o b, c, b)
<1> DEFINE d == Product!Count(c)  s == d \o b  D == Len(d)
<1>1. /\ d \in Seq({d[1], d[2]}) /\ D = 2
      /\ d[1] = <<"do", <<"load", c>>>> /\ d[2] = <<"do", <<"add", c>>>>
  BY DEF Product!Count
<1> HIDE DEF d
<1> DEFINE T == S \cup {d[1], d[2]}
<1>2. d \in Seq(T) /\ b \in Seq(T)
  BY <1>1
<1> HIDE DEF T
<1>3. /\ D \in Nat /\ DOMAIN d = 1..D /\ DOMAIN b \subseteq Nat /\ DOMAIN s \subseteq Nat /\ 0 \notin DOMAIN s
      /\ \A i \in DOMAIN d : i \in DOMAIN s /\ s[i] = d[i]
      /\ \A i \in DOMAIN b : D + i \in DOMAIN s /\ s[D + i] = b[i]
      /\ \A i \in DOMAIN s : i <= D \/ (i - D \in DOMAIN b /\ s[i] = b[i - D])
  BY <1>2, Joined
<1> HIDE DEF s, D
<1>4. 1 \in DOMAIN d /\ 2 \in DOMAIN d
  BY <1>1, <1>3
<1>5. \A i \in DOMAIN b : i + 2 \in DOMAIN s /\ s[i + 2] = b[i]
  <2> TAKE i \in DOMAIN b
  <2>1. i + 2 = D + i
    BY <1>1, <1>3
  <2> QED BY <1>3, <2>1
<1>6. \A i \in DOMAIN s : i = 1 \/ i = 2 \/ (i > 2 /\ i - 2 \in DOMAIN b /\ s[i] = b[i - 2])
  <2> TAKE i \in DOMAIN s
  <2>1. i \in Nat /\ i # 0 /\ D = 2
    BY <1>1, <1>3
  <2>2. CASE i <= 2
    BY <2>1, <2>2
  <2>3. CASE i > 2
    <3>1. PICK k : k = i - D
      OBVIOUS
    <3>2. k \in DOMAIN b /\ s[i] = b[k]
      BY <1>3, <2>1, <2>3, <3>1
    <3>3. k = i - 2
      BY <2>1, <3>1
    <3> QED BY <2>3, <3>2, <3>3
  <2> QED BY <2>1, <2>2, <2>3
<1>7. Counted(s, c, b)
  BY <1>1, <1>3, <1>4, <1>5, <1>6 DEF Counted
<1> QED BY <1>7 DEF s, d

\* Such a routine is as it should be if b is.
LEMMA CountedFits ==
  ASSUME NEW x, NEW b, Fits(x, b), NEW c,
         ItemOK(x, <<"do", <<"load", c>>>>), ItemOK(x, <<"do", <<"add", c>>>>)
  PROVE  Fits(x, Product!Count(c) \o b)
<1> DEFINE Raw == {"call", "spawn", "sync", "do"} \X Args  s == Product!Count(c) \o b
<1>1. /\ b \in Seq(Raw) /\ OrderedIn(x[1], b) /\ \A i \in DOMAIN b : ItemOK(x, b[i])
      /\ Plain(x) => \A i \in DOMAIN b : b[i][1] \notin {"spawn", "sync"}
  BY DEF Fits
<1>2. s \in Seq(Raw)
  <2>1. Product!Count(c) \in Seq(Raw)
    BY DEF Product!Count, ItemOK
  <2> HIDE DEF Raw
  <2> QED BY <1>1, <2>1
<1> HIDE DEF Raw
<1>8. Counted(s, c, b)
  BY <1>1, CountFirst
<1> HIDE DEF s
<1>3. /\ DOMAIN s \subseteq Nat /\ DOMAIN b \subseteq Nat
      /\ s[1] = <<"do", <<"load", c>>>> /\ s[2] = <<"do", <<"add", c>>>>
      /\ \A i \in DOMAIN b : i + 2 \in DOMAIN s /\ s[i + 2] = b[i]
      /\ \A i \in DOMAIN s : i = 1 \/ i = 2 \/ (i > 2 /\ i - 2 \in DOMAIN b /\ s[i] = b[i - 2])
  BY <1>8 DEF Counted
<1>4. s[1][1] = "do" /\ s[2][1] = "do"
  BY <1>3
<1>5. \A i \in DOMAIN s : ItemOK(x, s[i]) /\ (Plain(x) => s[i][1] \notin {"spawn", "sync"})
  BY <1>1, <1>3, <1>4
<1>6. OrderedIn(x[1], s)
  <2> SUFFICES ASSUME NEW i \in DOMAIN s, NEW j \in DOMAIN s, i < j, s[i][1] = "spawn",
                      \A l \in i + 1..j : s[l][1] # "sync"
               PROVE  Apart(Foot(<<s[i][1], <<x[1], s[i][2]>>>>), Foot(<<s[j][1], <<x[1], s[j][2]>>>>))
    BY DEF OrderedIn
  <2>1. i \in Nat /\ j \in Nat /\ i > 2 /\ j > 2
    BY <1>3, <1>4
  <2>2. PICK a, d \in DOMAIN b : a + 2 = i /\ d + 2 = j /\ s[i] = b[a] /\ s[j] = b[d]
    <3>1. i - 2 \in DOMAIN b /\ j - 2 \in DOMAIN b /\ s[i] = b[i - 2] /\ s[j] = b[j - 2]
      BY <1>3, <2>1
    <3> QED BY <1>3, <2>1, <3>1
  <2>3. \A l \in a + 1..d : l \in DOMAIN b
    BY <1>1, <1>3
  <2>4. \A l \in a + 1..d : l + 2 \in i + 1..j
    BY <1>3, <2>2
  <2>5. \A l \in a + 1..d : b[l][1] # "sync"
    <3> TAKE l \in a + 1..d
    <3>1. s[l + 2] = b[l]
      BY <1>3, <2>3
    <3>2. l + 2 \in i + 1..j
      BY <2>4
    <3> QED BY <3>1, <3>2
  <2>6. a < d
    BY <1>3, <2>2
  <2> QED BY <1>1, <2>2, <2>5, <2>6 DEF OrderedIn
<1>7. Fits(x, s)
  BY <1>2, <1>5, <1>6 DEF Fits, Raw
<1> QED BY <1>7 DEF s

\* The footprints of the pieces of a product: the counter is left out.
LEMMA PieceOfProduct ==
  ASSUME NEW x, x[1] \in Products
  PROVE  /\ x[2][1] \in {"load", "add"} => FootPiece(x) = [w |-> {}, u |-> {}]
         /\ x[2][1] \notin {"load", "add"} =>
              LET b == Product!Cells(x[2]) \ {Product!call_time} IN FootPiece(x) = [w |-> b, u |-> b]
<1>1. FootPiece(x) = [w |-> Product!Written(x[2]) \ {Product!call_time},
                      u |-> Product!Used(x[2]) \ {Product!call_time}]
  BY DEF FootPiece, Products, Lus
<1>2. CASE x[2][1] = "load"
  BY <1>1, <1>2 DEF Product!Written, Product!Used
<1>3. CASE x[2][1] = "add"
  BY <1>1, <1>3 DEF Product!Written, Product!Used
<1>4. CASE x[2][1] \notin {"load", "add"}
  BY <1>1, <1>4 DEF Product!Written, Product!Used
<1> QED BY <1>2, <1>3, <1>4

\* The body of a call of magic_serial or magic_para is as BodyOK asks.
LEMMA BodyOfProduct ==
  ASSUME NEW x, Good(x), x[1] \in Products
  PROVE  BodyOK(x)
<1> DEFINE p == x[1]  c == x[2]  v == Variant(p)
<1>1. p \in Products /\ GoodProd(c) /\ p \in Names /\ x = <<p, c>>
  BY DEF Good
<1>2. (v = "serial" <=> p = "magic_serial") /\ (v # "serial" <=> ~Plain(x))
  BY <1>1 DEF Variant, Products, Plain
<1>3. Body(x) = Tag(p, Product!Body(v, c))
  BY <1>1 DEF Body, Tag, Products
<1>4. \A y : /\ FootCall(<<p, y>>) = FootProd(y) /\ Height(<<p, y>>) = HeightProd(y)
             /\ Foot(<<"spawn", <<p, y>>>>) = FootProd(y)
  BY <1>1 DEF FootCall, Height, Foot, Products, Lus
<1>6. \A y : GoodProd(y) => Good(<<p, y>>)
  BY <1>1 DEF Good, Products, Lus
<1>7. \A y : v = "serial" => Plain(<<p, y>>)
  BY <1>2 DEF Plain
<1> HIDE DEF p, c, v
<1>8. ASSUME NEW y, y # <<"g_main">>, GoodProd(y),
             y \in ProdCalls,
             Product!Cells(y) \subseteq FootProd(c).w, HeightProd(y) < HeightProd(c)
      PROVE  ItemOK(x, <<"spawn", y>>) /\ (v = "serial" => ItemOK(x, <<"call", y>>))
  <2>1. y \in Args
    BY <1>8 DEF Args
  <2>2. Within(FootProd(y), FootProd(c))
    BY <1>8 DEF Within, FootProd
  <2>3. Child(x, y)
    BY <1>1, <1>4, <1>6, <1>8, <2>1, <2>2 DEF Child, p
  <2>4. v = "serial" => Plain(<<x[1], y>>)
    BY <1>7 DEF p
  <2> QED BY <2>1, <2>3, <2>4 DEF ItemOK
<1>9. CASE c = <<"g_main">>
  <2>1. FootProd(c) = [w |-> Product!Cells(Whole), u |-> Product!Cells(Whole)] /\ HeightProd(c) = 3 * n + 1
    BY <1>9 DEF FootProd, HeightProd
  <2>2. n \in Size /\ n \in Nat
    BY Constants DEF Size
  <2>3. Whole = Prod(0, 0, 0, n, n, n) /\ Inside(0, 0, 0, n, n, n)
    <3>1. Cell(0, 0) = 0 /\ (0 # 0) = FALSE
      BY <2>2 DEF Cell
    <3>2. Whole = Prod(0, 0, 0, n, n, n)
      BY <3>1 DEF Whole, Prod
    <3> QED BY <2>2, <3>2 DEF Inside
  <2>4. /\ Whole # <<"g_main">> /\ HeightProd(Whole) = 3 * n
        /\ Whole \in ProdCalls
    <3>1. Whole = <<"rec_matmul", 0, 0, 0, n, n, n, n, FALSE>>
      BY DEF Whole, Product!rec_matmul
    <3>2. Whole # <<"g_main">> /\ Whole[5] = n /\ Whole[6] = n /\ Whole[7] = n
      BY <3>1
    <3>3. HeightProd(Whole) = 3 * n
      BY <2>2, <3>2 DEF HeightProd
    <3> QED BY <2>2, <3>1, <3>2, <3>3 DEF ProdCalls
  <2>5. GoodProd(Whole)
    BY <2>2, <2>3 DEF GoodProd
  <2>6. ItemOK(x, <<"spawn", Whole>>) /\ (v = "serial" => ItemOK(x, <<"call", Whole>>))
    BY <1>8, <2>1, <2>2, <2>4, <2>5
  <2>7. CASE v = "serial"
    <3>1. Body(x) = Tag(x[1], <<<<"call", Whole>>>>)
      BY <1>3, <1>9, <2>7 DEF Product!Body, Product!g_main, Whole, p
    <3> QED BY <1>1, <2>6, <2>7, <3>1, OneItem, TaggedBody DEF p
  <2>8. CASE v # "serial"
    <3>1. Body(x) = Tag(x[1], <<<<"spawn", Whole>>, <<"sync", 0>>>>)
      BY <1>3, <1>9, <2>8 DEF Product!Body, Product!g_main, Whole, p
    <3> QED BY <1>1, <1>2, <2>6, <2>8, <3>1, SpawnAndSync, TaggedBody DEF p
  <2> QED BY <2>7, <2>8
<1>10. CASE c # <<"g_main">>
  <2>1. PICK r, a, k, m, q, s \in Nat : Inside(r, a, k, m, q, s) /\ c = Prod(r, a, k, m, q, s)
    BY <1>1, <1>10 DEF GoodProd
  <2>2. c[5] = m /\ c[6] = q /\ c[7] = s /\ HeightProd(c) = m + q + s
    BY <2>1, <1>10 DEF Prod, Product!rec_matmul, HeightProd
  <2>3. FootProd(c) = [w |-> Product!Cells(c), u |-> Product!Cells(c)]
    BY <1>10 DEF FootProd
  <2>4. m \in Size /\ q \in Size /\ s \in Size /\ BASE \in Nat
    BY <2>1, Constants DEF Inside
  <2> DEFINE b == Product!Rest(v, c)
  <2>5. c \in ProdCalls /\ c[1] = "rec_matmul"
    <3>1. Cell(r, a) \in Nat /\ Cell(a, k) \in Nat /\ Cell(r, k) \in Nat /\ (a # 0) \in BOOLEAN /\ n \in Nat
      BY CellFacts, Constants DEF Size
    <3> QED BY <2>1, <3>1 DEF ProdCalls, Prod, Product!rec_matmul
  <2>6. Fits(x, b)
    <3>1. CASE m + q + s <= BASE
      <4>1. b = <<<<"do", c>>>>
        BY <2>2, <3>1 DEF Product!Rest
      <4>2. LET w == Product!Cells(c) \ {Product!call_time} IN FootPiece(<<x[1], c>>) = [w |-> w, u |-> w]
        BY <1>1, <2>5, PieceOfProduct DEF p
      <4>3. Within(FootPiece(<<x[1], c>>), FootCall(x))
        BY <1>1, <1>4, <2>3, <4>2 DEF p, Within
      <4>4. ItemOK(x, <<"do", c>>)
        BY <2>5, <4>3 DEF ItemOK, Args
      <4> HIDE DEF b
      <4> QED BY <1>1, <4>1, <4>4, OneItem DEF p
    <3>2. CASE ~(m + q + s <= BASE)
      <4> DEFINE h == Product!Halves(c)  y == h.first  z == h.second
      <4>1. m + q + s > BASE
        BY <2>4, <3>2 DEF Size
      <4>2. HalvesOK(c, h)
        BY <2>1, <2>4, <4>1, HalvesCorrect
      <4> HIDE DEF h
      <4>3. /\ ItemOK(x, <<"spawn", y>>) /\ (v = "serial" => ItemOK(x, <<"call", y>>))
            /\ ItemOK(x, <<"spawn", z>>) /\ (v = "serial" => ItemOK(x, <<"call", z>>))
        <5>1. Part(c, y) /\ Part(c, z)
          BY <4>2 DEF HalvesOK
        <5> HIDE DEF y, z
        <5>2. ASSUME NEW w, Part(c, w)
              PROVE  ItemOK(x, <<"spawn", w>>) /\ (v = "serial" => ItemOK(x, <<"call", w>>))
          <6>1. /\ w # <<"g_main">> /\ GoodProd(w)
                /\ w \in ProdCalls
                /\ Product!Cells(w) \subseteq FootProd(c).w /\ HeightProd(w) < HeightProd(c)
            BY <2>2, <2>3, <5>2 DEF Part
          <6> QED BY <6>1, <1>8
        <5> QED BY <5>1, <5>2
      <4>4. h.join # "then" => Apart(FootCall(<<x[1], y>>), FootCall(<<x[1], z>>))
        <5>1. h.join # "then" => Product!Cells(y) \cap Product!Cells(z) = {}
          BY <4>2 DEF HalvesOK, Clear
        <5>2. /\ FootProd(y) = [w |-> Product!Cells(y), u |-> Product!Cells(y)]
              /\ FootProd(z) = [w |-> Product!Cells(z), u |-> Product!Cells(z)]
          BY <4>2 DEF HalvesOK, Part, FootProd
        <5> QED BY <1>4, <5>1, <5>2 DEF Apart, p
      <4>5. b = IF v = "serial" THEN Product!Serial(h) ELSE Product!Gregor(h)
        BY <2>2, <3>2 DEF Product!Rest, h
      <4> HIDE DEF b
      <4>6. CASE v = "serial"
        <5>1. b = <<<<"call", y>>, <<"call", z>>>>
          BY <4>5, <4>6 DEF Product!Serial
        <5> QED BY <1>1, <4>3, <4>6, <5>1, TwoCalls DEF p
      <4>7. CASE v # "serial" /\ h.join = "then"
        <5>1. b = <<<<"spawn", y>>, <<"sync", 0>>, <<"spawn", z>>>>
          BY <4>5, <4>7 DEF Product!Gregor
        <5> QED BY <1>1, <1>2, <4>3, <4>7, <5>1, SpawnSyncSpawn DEF p
      <4>8. CASE v # "serial" /\ h.join # "then"
        <5>1. b = <<<<"spawn", y>>, <<"spawn", z>>>>
          BY <4>5, <4>8 DEF Product!Gregor
        <5> QED BY <1>1, <1>2, <4>3, <4>4, <4>8, <5>1, TwoSpawns DEF p
      <4> QED BY <4>6, <4>7, <4>8
    <3> QED BY <3>1, <3>2
  <2> HIDE DEF b
  <2>7. CASE v = "serial"
    <3>1. Body(x) = Tag(x[1], b)
      BY <1>3, <1>10, <2>7 DEF Product!Body, p, b
    <3> QED BY <1>1, <2>6, <3>1, TaggedBody DEF p
  <2>8. CASE v # "serial"
    <3>1. Body(x) = Tag(x[1], Product!Count(c) \o b)
      BY <1>3, <1>10, <2>8 DEF Product!Body, p, b
    <3>2. ASSUME NEW o \in {"load", "add"} PROVE ItemOK(x, <<"do", <<o, c>>>>)
      <4>1. <<o, c>> \in Args
        BY <2>5 DEF Args
      <4>2. FootPiece(<<x[1], <<o, c>>>>) = [w |-> {}, u |-> {}]
        BY <1>1, PieceOfProduct DEF p
      <4> QED BY <4>1, <4>2 DEF ItemOK, Within
    <3>3. Fits(x, Product!Count(c) \o b)
      BY <2>6, <3>2, CountedFits
    <3> QED BY <1>1, <3>1, <3>3, TaggedBody DEF p
  <2> QED BY <2>7, <2>8
<1> QED BY <1>9, <1>10
-----------------------------------------------------------------------------
(* Fibonacci *)

\* Slots are paths of 1s and 2s.
LEMMA SlotFacts ==
  /\ Arg0 \in Nat
  /\ \A s : s \in Sums!Slots <=> s \in Seq({1, 2}) /\ Len(s) <= Arg0 + 1
<1>1. Arg0 \in Nat
  BY Constants DEF Size
<1>2. ASSUME NEW s \in Sums!Slots PROVE s \in Seq({1, 2}) /\ Len(s) <= Arg0 + 1
  <2>1. PICK k \in 0..Arg0 + 1 : s \in [1..k -> {1, 2}]
    BY DEF Sums!Slots
  <2> QED BY <1>1, <2>1
<1>3. ASSUME NEW s \in Seq({1, 2}), Len(s) <= Arg0 + 1 PROVE s \in Sums!Slots
  <2>1. Len(s) \in 0..Arg0 + 1 /\ s \in [1..Len(s) -> {1, 2}]
    BY <1>1, <1>3
  <2> QED BY <2>1 DEF Sums!Slots
<1> QED BY <1>1, <1>2, <1>3

\* The slot of a local variable.
LEMMA LocalSlot ==
  ASSUME NEW s \in Sums!Slots, Len(s) <= Arg0, NEW a \in {1, 2}
  PROVE  /\ s \o <<a>> \in Sums!Slots /\ Len(s \o <<a>>) = Len(s) + 1 /\ s \o <<a>> # <<>>
         /\ s \o <<a>> \in Beneath(s) /\ Beneath(s \o <<a>>) \subseteq Beneath(s)
<1> DEFINE t == s \o <<a>>
<1>1. s \in Seq({1, 2}) /\ Arg0 \in Nat /\ Len(s) \in Nat /\ DOMAIN s = 1..Len(s)
  BY SlotFacts
<1>2. /\ t \in Seq({1, 2}) /\ Len(t) = Len(s) + 1 /\ DOMAIN t = 1..Len(s) + 1
      /\ \A i \in DOMAIN s : t[i] = s[i]
  BY <1>1
<1> HIDE DEF t
<1>3. t \in Sums!Slots /\ t # <<>>
  BY <1>1, <1>2, SlotFacts
<1>4. DOMAIN s \subseteq DOMAIN t
  BY <1>1, <1>2
<1>5. t \in Beneath(s) /\ Beneath(t) \subseteq Beneath(s)
  BY <1>2, <1>3, <1>4 DEF Beneath
<1> QED BY <1>2, <1>3, <1>5 DEF t

\* Two local variables, and the slots beneath them, are apart.
LEMMA LocalsApart ==
  ASSUME NEW s \in Sums!Slots
  PROVE  Beneath(s \o <<1>>) \cap Beneath(s \o <<2>>) = {}
<1>1. s \in Seq({1, 2}) /\ Len(s) \in Nat
  BY SlotFacts
<1>2. /\ Len(s) + 1 \in DOMAIN (s \o <<1>>) /\ (s \o <<1>>)[Len(s) + 1] = 1
      /\ Len(s) + 1 \in DOMAIN (s \o <<2>>) /\ (s \o <<2>>)[Len(s) + 1] = 2
  BY <1>1
<1> QED BY <1>2 DEF Beneath

\* The call of fib for m with slot s may be made by c.
MayCall(c, m, s) == /\ m \in Nat /\ s \in Sums!Slots /\ s # <<>> /\ m + Len(s) <= Arg0 + 1
                    /\ Beneath(s) \subseteq FootFib(c).w /\ Beneath(s) \subseteq FootFib(c).u
                    /\ m < HeightFib(c)

\* The body of a call of fib_test is as BodyOK asks.
LEMMA BodyOfFib ==
  ASSUME NEW x, Good(x), x[1] = "fib_test"
  PROVE  BodyOK(x)
<1> DEFINE p == x[1]  c == x[2]
<1>1. p = "fib_test" /\ GoodFib(c) /\ p \in Names /\ x = <<p, c>> /\ ~Plain(x)
  BY DEF Good, Names, Plain
<1>2. Body(x) = Tag(p, Sums!Body(c))
  BY <1>1 DEF Body, Tag
<1>3. \A y : FootCall(<<p, y>>) = FootFib(y) /\ Height(<<p, y>>) = HeightFib(y)
  BY <1>1 DEF FootCall, Height, Products, Lus
<1>4. \A y : FootPiece(<<p, y>>) = [w |-> Sums!Written(y), u |-> Sums!Used(y)]
  BY <1>1 DEF FootPiece, Products, Lus
<1>5. \A y : GoodFib(y) => Good(<<p, y>>)
  BY <1>1 DEF Good, Products, Lus
<1> HIDE DEF p, c
<1>6. ASSUME NEW m, NEW s, MayCall(c, m, s)
      PROVE  ItemOK(x, <<"spawn", <<m, s>>>>)
  <2> DEFINE y == <<m, s>>
  <2>1. y \in Args /\ GoodFib(y) /\ y # <<"g_main">>
    BY <1>6 DEF Args, GoodFib, MayCall
  <2>2. FootFib(y) = [w |-> Beneath(s), u |-> Beneath(s)] /\ HeightFib(y) = m
    BY <2>1 DEF FootFib, HeightFib
  <2> HIDE DEF y
  <2>3. Within(FootFib(y), FootFib(c))
    BY <1>6, <2>2 DEF Within, MayCall
  <2>4. Child(x, y)
    BY <1>1, <1>3, <1>5, <1>6, <2>1, <2>2, <2>3 DEF Child, MayCall, p
  <2>5. ItemOK(x, <<"spawn", y>>)
    BY <2>1, <2>4 DEF ItemOK
  <2> QED BY <2>5 DEF y
<1>7. ASSUME NEW y \in Args, Sums!Written(y) \subseteq FootFib(c).w, Sums!Used(y) \subseteq FootFib(c).u
      PROVE  ItemOK(x, <<"do", y>>)
  <2>1. FootPiece(<<x[1], y>>) = [w |-> Sums!Written(y), u |-> Sums!Used(y)] /\ FootCall(x) = FootFib(c)
    BY <1>1, <1>3, <1>4 DEF p
  <2>2. Within(FootPiece(<<x[1], y>>), FootCall(x))
    BY <1>7, <2>1 DEF Within
  <2> QED BY <2>2 DEF ItemOK
<1>8. CASE c = <<"g_main">>
  <2>1. FootFib(c) = [w |-> Sums!Slots, u |-> Sums!Slots] /\ HeightFib(c) = Arg0 + 1
    BY <1>8 DEF FootFib, HeightFib
  <2>2. Arg0 \in Nat /\ <<1>> \in Sums!Slots /\ <<>> \in Sums!Slots /\ <<1>> # <<>> /\ Len(<<1>>) = 1
    <3>1. Arg0 \in Nat /\ Len(<<1>>) = 1 /\ <<1>> \in Seq({1, 2}) /\ <<>> \in Seq({1, 2}) /\ Len(<<>>) = 0
      BY SlotFacts
    <3>2. Len(<<1>>) <= Arg0 + 1 /\ Len(<<>>) <= Arg0 + 1
      BY <3>1
    <3>3. <<1>> \in Sums!Slots
      BY <3>1, <3>2, SlotFacts
    <3>4. <<>> \in Sums!Slots
      BY <3>1, <3>2, SlotFacts
    <3> QED BY <3>1, <3>3, <3>4
  <2>3. ItemOK(x, <<"spawn", <<Arg0, <<1>>>>>>)
    <3>1. Beneath(<<1>>) \subseteq Sums!Slots
      BY DEF Beneath
    <3>2. MayCall(c, Arg0, <<1>>)
      BY <2>1, <2>2, <3>1 DEF MayCall
    <3> QED BY <1>6, <3>2
  <2>4. ItemOK(x, <<"do", <<"print", <<>>>>>>)
    <3> DEFINE y == <<"print", <<>>>>
    <3>1. y \in Args /\ Sums!Written(y) = {<<>>} /\ Sums!Used(y) = {<<>>, <<1>>}
      BY <2>2 DEF Args, Sums!Written, Sums!Used
    <3> HIDE DEF y
    <3>2. ItemOK(x, <<"do", y>>)
      BY <1>7, <2>1, <2>2, <3>1
    <3> QED BY <3>2 DEF y
  <2>5. Body(x) = Tag(x[1], <<<<"spawn", <<Arg0, <<1>>>>>>, <<"sync", 0>>, <<"do", <<"print", <<>>>>>>>>)
    BY <1>2, <1>8 DEF Sums!Body, Sums!g_main, p
  <2> QED BY <1>1, <2>3, <2>4, <2>5, SpawnSyncDo, TaggedBody DEF p
<1>9. CASE c # <<"g_main">>
  <2>1. PICK m \in Nat, s \in Sums!Slots : s # <<>> /\ m + Len(s) <= Arg0 + 1 /\ c = <<m, s>>
    BY <1>1, <1>9 DEF GoodFib
  <2>2. FootFib(c) = [w |-> Beneath(s), u |-> Beneath(s)] /\ HeightFib(c) = m
    BY <1>9, <2>1 DEF FootFib, HeightFib
  <2>3. s \in Beneath(s) /\ Len(s) \in Nat /\ Arg0 \in Nat
    BY SlotFacts DEF Beneath
  <2>4. Body(x) = Tag(x[1], Sums!fib(m, s))
    BY <1>2, <1>9, <2>1 DEF Sums!Body, p
  <2>5. CASE m < 2
    <3> DEFINE y == <<"return", s, m>>
    <3>1. y \in Args /\ Sums!Written(y) = {s} /\ Sums!Used(y) = {s}
      BY DEF Args, Sums!Written, Sums!Used
    <3>2. Body(x) = Tag(x[1], <<<<"do", y>>>>)
      BY <2>4, <2>5 DEF Sums!fib
    <3> HIDE DEF y
    <3>3. ItemOK(x, <<"do", y>>)
      BY <1>7, <2>2, <2>3, <3>1
    <3> QED BY <1>1, <3>2, <3>3, OneItem, TaggedBody DEF p
  <2>6. CASE ~(m < 2)
    <3> DEFINE y == <<m - 1, s \o <<1>>>>  z == <<m - 2, s \o <<2>>>>  w == <<"add", s>>
    <3>1. Len(s) <= Arg0 /\ m - 1 \in Nat /\ m - 2 \in Nat /\ m - 1 < m /\ m - 2 < m
      BY <2>1, <2>3, <2>6
    <3>2. /\ s \o <<1>> \in Sums!Slots /\ Len(s \o <<1>>) = Len(s) + 1 /\ s \o <<1>> # <<>>
          /\ s \o <<1>> \in Beneath(s) /\ Beneath(s \o <<1>>) \subseteq Beneath(s)
      BY <3>1, LocalSlot
    <3>3. /\ s \o <<2>> \in Sums!Slots /\ Len(s \o <<2>>) = Len(s) + 1 /\ s \o <<2>> # <<>>
          /\ s \o <<2>> \in Beneath(s) /\ Beneath(s \o <<2>>) \subseteq Beneath(s)
      BY <3>1, LocalSlot
    <3>4. ItemOK(x, <<"spawn", y>>)
      <4>1. (m - 1) + Len(s \o <<1>>) <= Arg0 + 1
        BY <2>1, <2>3, <3>2
      <4>2. MayCall(c, m - 1, s \o <<1>>)
        BY <2>2, <3>1, <3>2, <4>1 DEF MayCall
      <4> QED BY <1>6, <4>2
    <3>5. ItemOK(x, <<"spawn", z>>)
      <4>1. (m - 2) + Len(s \o <<2>>) <= Arg0 + 1
        BY <2>1, <2>3, <3>3
      <4>2. MayCall(c, m - 2, s \o <<2>>)
        BY <2>2, <3>1, <3>3, <4>1 DEF MayCall
      <4> QED BY <1>6, <4>2
    <3>6. ItemOK(x, <<"do", w>>)
      <4>1. w \in Args /\ Sums!Written(w) = {s} /\ Sums!Used(w) = {s, s \o <<1>>, s \o <<2>>}
        BY DEF Args, Sums!Written, Sums!Used
      <4> HIDE DEF w
      <4>2. Sums!Written(w) \subseteq FootFib(c).w /\ Sums!Used(w) \subseteq FootFib(c).u
        BY <2>2, <2>3, <3>2, <3>3, <4>1
      <4> QED BY <1>7, <4>1, <4>2
    <3>7. Apart(FootCall(<<x[1], y>>), FootCall(<<x[1], z>>))
      <4>1. y # <<"g_main">> /\ z # <<"g_main">>
        OBVIOUS
      <4>2. FootFib(y) = [w |-> Beneath(s \o <<1>>), u |-> Beneath(s \o <<1>>)]
        BY <4>1 DEF FootFib
      <4>3. FootFib(z) = [w |-> Beneath(s \o <<2>>), u |-> Beneath(s \o <<2>>)]
        BY <4>1 DEF FootFib
      <4>4. FootCall(<<x[1], y>>) = FootFib(y) /\ FootCall(<<x[1], z>>) = FootFib(z)
        BY <1>3 DEF p
      <4>5. Beneath(s \o <<1>>) \cap Beneath(s \o <<2>>) = {}
        BY LocalsApart
      <4> DEFINE A == Beneath(s \o <<1>>)  B == Beneath(s \o <<2>>)
                 f == FootCall(<<x[1], y>>)  g == FootCall(<<x[1], z>>)
      <4>6. f = [w |-> A, u |-> A] /\ g = [w |-> B, u |-> B] /\ A \cap B = {}
        BY <4>2, <4>3, <4>4, <4>5
      <4> HIDE DEF A, B, f, g
      <4>7. Apart(f, g)
        BY <4>6 DEF Apart
      <4> QED BY <4>7 DEF f, g
    <3>8. Body(x) = Tag(x[1], <<<<"spawn", y>>, <<"spawn", z>>, <<"sync", 0>>, <<"do", w>>>>)
      BY <2>4, <2>6 DEF Sums!fib
    <3> HIDE DEF y, z, w
    <3> QED BY <1>1, <3>4, <3>5, <3>6, <3>7, <3>8, TwoSpawnsSyncDo, TaggedBody DEF p
  <2> QED BY <2>5, <2>6
<1> QED BY <1>8, <1>9

\* Every body.
LEMMA BodyOfGood == \A x : Good(x) => BodyOK(x)
  BY BodyOfLU, BodyOfCilk, BodyOfProduct, BodyOfFib DEF Good, Names
-----------------------------------------------------------------------------
(* What is reachable *)

\* Below up to m.
Upto(f, m) == [d \in 0..m |-> IF d = 0 THEN Mains ELSE Made(f[d - 1], {"call", "spawn"})]

\* Below is a function, and so has the values its definition says.
LEMMA BelowDef ==
  /\ Below[0] = Mains
  /\ \A d \in Nat : Below[d + 1] = Made(Below[d], {"call", "spawn"})
<1> DEFINE Round(f, d) == IF d = 0 THEN Mains ELSE Made(f[d - 1], {"call", "spawn"})
           S == {m \in Nat : \E f : f = Upto(f, m)}
<1>1. 0 \in S
  <2> DEFINE f == [d \in 0..0 |-> Mains]
  <2>1. f = Upto(f, 0)
    BY DEF Upto
  <2> QED BY <2>1
<1>2. \A m \in Nat : m \in S => m + 1 \in S
  <2> SUFFICES ASSUME NEW m \in Nat, m \in S PROVE \E g : g = Upto(g, m + 1)
    OBVIOUS
  <2>1. PICK f : f = Upto(f, m)
    OBVIOUS
  <2> DEFINE g == [d \in 0..m + 1 |-> IF d = m + 1 THEN Round(f, d) ELSE f[d]]
  <2>2. \A d \in 0..m : f[d] = Round(f, d)
    BY <2>1 DEF Upto
  <2>3. \A d \in 0..m + 1 : g[d] = Round(g, d)
    <3> SUFFICES ASSUME NEW d \in 0..m + 1 PROVE g[d] = Round(g, d)
      OBVIOUS
    <3>1. d # 0 => d - 1 \in 0..m /\ g[d - 1] = f[d - 1]
      OBVIOUS
    <3>2. Round(g, d) = Round(f, d)
      BY <3>1
    <3>3. CASE d = m + 1
      BY <3>2, <3>3
    <3>4. CASE d # m + 1
      <4>1. d \in 0..m
        BY <3>4
      <4> QED BY <2>2, <3>2, <3>4, <4>1
    <3> QED BY <3>3, <3>4
  <2>4. g = Upto(g, m + 1)
    <3>1. g = [d \in 0..m + 1 |-> g[d]]
      OBVIOUS
    <3> HIDE DEF g
    <3> QED BY <2>3, <3>1 DEF Upto
  <2> QED BY <2>4
<1> HIDE DEF S
<1>3. \A m \in Nat : m \in S
  BY <1>1, <1>2, LUB!SetInduction
<1>4. \A m \in Nat : \E f : f = Upto(f, m)
  BY <1>3 DEF S
\* Two of them agree.
<1>5. ASSUME NEW m \in Nat, NEW k \in Nat, NEW f, NEW g, f = Upto(f, m), g = Upto(g, k)
      PROVE  \A d \in Nat : d <= m /\ d <= k => f[d] = g[d]
  <2> DEFINE A == {d \in Nat : d <= m /\ d <= k => f[d] = g[d]}
  <2>1. \A d \in 0..m : f[d] = Round(f, d)
    BY <1>5 DEF Upto
  <2>2. \A d \in 0..k : g[d] = Round(g, d)
    BY <1>5 DEF Upto
  <2>3. 0 \in A
    BY <2>1, <2>2
  <2>4. \A d \in Nat : d \in A => d + 1 \in A
    <3> SUFFICES ASSUME NEW d \in Nat, d \in A, d + 1 <= m, d + 1 <= k PROVE f[d + 1] = g[d + 1]
      OBVIOUS
    <3>1. f[d] = g[d] /\ (d + 1) - 1 = d /\ d + 1 \in 0..m /\ d + 1 \in 0..k /\ d + 1 # 0
      OBVIOUS
    <3>2. Round(f, d + 1) = Round(g, d + 1)
      BY <3>1
    <3> HIDE DEF Round
    <3> QED BY <2>1, <2>2, <3>1, <3>2
  <2> HIDE DEF A
  <2>5. \A d \in Nat : d \in A
    BY <2>3, <2>4, LUB!SetInduction
  <2> QED BY <2>5 DEF A
<1> DEFINE Up(m) == CHOOSE f : f = Upto(f, m)
           F == [d \in Nat |-> Up(d)[d]]
<1>6. \A m \in Nat : Up(m) = Upto(Up(m), m)
  BY <1>4
<1> HIDE DEF Up
<1>7. \A d \in Nat : F[d] = Round(F, d)
  <2> TAKE d \in Nat
  <2>1. Up(d)[d] = Round(Up(d), d)
    <3>1. \A i \in 0..d : Upto(Up(d), d)[i] = Round(Up(d), i)
      BY DEF Upto
    <3>2. d \in 0..d
      OBVIOUS
    <3> HIDE DEF Round
    <3> QED BY <1>6, <3>1, <3>2
  <2>2. d # 0 => Up(d)[d - 1] = F[d - 1]
    <3> SUFFICES ASSUME d # 0 PROVE Up(d)[d - 1] = Up(d - 1)[d - 1]
      OBVIOUS
    <3> DEFINE e == d - 1
    <3>1. e \in Nat /\ e <= d /\ e <= e
      OBVIOUS
    <3> HIDE DEF e
    <3>2. Up(d)[e] = Up(e)[e]
      BY <1>5, <1>6, <3>1
    <3> QED BY <3>2 DEF e
  <2>3. Round(Up(d), d) = Round(F, d)
    BY <2>2
  <2> QED BY <2>1, <2>3
<1>8. F = [d \in Nat |-> IF d = 0 THEN Mains ELSE Made(F[d - 1], {"call", "spawn"})]
  <2>1. F = [d \in Nat |-> F[d]]
    OBVIOUS
  <2> HIDE DEF F
  <2> QED BY <1>7, <2>1
<1> HIDE DEF F
<1>9. Below = [d \in Nat |-> IF d = 0 THEN Mains ELSE Made(Below[d - 1], {"call", "spawn"})]
  BY <1>8 DEF Below
<1> HIDE DEF Round
<1>10. \A d \in Nat : Below[d] = IF d = 0 THEN Mains ELSE Made(Below[d - 1], {"call", "spawn"})
  BY <1>9
<1>11. \A d \in Nat : d + 1 \in Nat /\ d + 1 # 0 /\ (d + 1) - 1 = d
  OBVIOUS
<1> QED BY <1>10, <1>11

\* x is made by calls and spawns from a main, few enough that what it makes is as well.
InReach(x) == \E d \in 0..Depth : x \in Below[d] /\ Height(x) + d <= Depth

\* What the runtime has to know of a call or a spawn.
CallOK(q) == /\ q[1] \in {"call", "spawn"} => InReach(q[2])
             /\ q[1] = "spawn" => q[2] \in Jobs

\* A footprint is not empty, and what is written is counted as used.
LEMMA FootFacts ==
  ASSUME NEW x, Good(x)
  PROVE  FootCall(x).w # {} /\ FootCall(x).w \subseteq FootCall(x).u /\ Height(x) \in Nat
<1> DEFINE p == x[1]  c == x[2]
<1>1. CASE p \in Lus
  <2>1. LUB!Good(c) /\ FootCall(x) = LUB!Foot(c) /\ Height(x) = LUB!Height(c)
    BY <1>1 DEF Good, FootCall, Height, Lus, Products
  <2> HIDE DEF p, c
  <2> QED BY <2>1, Constants, LUB!FootFacts DEF LUB!Size, Size
<1>2. CASE p = "lu_cilk"
  <2>1. LUC!Good(c) /\ FootCall(x) = LUC!Foot(c) /\ Height(x) = LUC!Height(c)
    BY <1>2 DEF Good, FootCall, Height, Lus, Products
  <2> HIDE DEF p, c
  <2> QED BY <2>1, Constants, LUC!FootFacts DEF LUC!Size, Size
<1>3. CASE p \in Products
  <2>1. GoodProd(c) /\ FootCall(x) = FootProd(c) /\ Height(x) = HeightProd(c)
    BY <1>3 DEF Good, FootCall, Height, Lus, Products
  <2> HIDE DEF p, c
  <2>2. n \in Size /\ n \in Nat
    BY Constants DEF Size
  <2>3. CASE c = <<"g_main">>
    <3>1. 0 \in Nat /\ Whole = Prod(0, 0, 0, n, n, n)
      <4>1. Cell(0, 0) = 0 /\ (0 # 0) = FALSE
        BY <2>2 DEF Cell
      <4> QED BY <4>1 DEF Whole, Prod
    <3>2. Product!Cells(Whole) = Box(0, 0, n, n)
      BY <2>2, <3>1, WrittenCells
    <3>3. Cell(0 + 0, 0 + 0) \in Box(0, 0, n, n)
      BY <2>2 DEF Box, Size
    <3>4. FootProd(c) = [w |-> Product!Cells(Whole), u |-> Product!Cells(Whole)]
      BY <2>3 DEF FootProd
    <3>5. HeightProd(c) = 3 * n + 1
      BY <2>3 DEF HeightProd
    <3> QED BY <2>1, <2>2, <3>2, <3>3, <3>4, <3>5
  <2>4. CASE c # <<"g_main">>
    <3>1. PICK r, a, k, m, q, s \in Nat : Inside(r, a, k, m, q, s) /\ c = Prod(r, a, k, m, q, s)
      BY <2>1, <2>4 DEF GoodProd
    <3>2. m \in Size /\ q \in Size /\ s \in Size
      BY <3>1 DEF Inside
    <3>3. Product!Cells(c) = Box(r, k, m, s)
      BY <3>1, <3>2, WrittenCells
    <3>4. Cell(r + 0, k + 0) \in Box(r, k, m, s)
      BY <3>2 DEF Box, Size
    <3>5. FootProd(c) = [w |-> Product!Cells(c), u |-> Product!Cells(c)]
      BY <2>4 DEF FootProd
    <3>6. HeightProd(c) = m + q + s
      BY <2>4, <3>1 DEF HeightProd, Prod, Product!rec_matmul
    <3> QED BY <2>1, <3>2, <3>3, <3>4, <3>5, <3>6 DEF Size
  <2> QED BY <2>3, <2>4
<1>4. CASE p = "fib_test"
  <2>1. GoodFib(c) /\ FootCall(x) = FootFib(c) /\ Height(x) = HeightFib(c)
    BY <1>4 DEF Good, FootCall, Height, Lus, Products
  <2> HIDE DEF p, c
  <2>2. CASE c = <<"g_main">>
    <3>1. Arg0 \in Nat
      BY SlotFacts
    <3>2. <<>> \in Sums!Slots
      <4>1. <<>> \in Seq({1, 2}) /\ Len(<<>>) <= Arg0 + 1
        BY <3>1
      <4> QED BY <4>1, SlotFacts
    <3> QED BY <2>1, <2>2, <3>1, <3>2 DEF FootFib, HeightFib
  <2>3. CASE c # <<"g_main">>
    <3>1. PICK m \in Nat, s \in Sums!Slots : c = <<m, s>>
      BY <2>1, <2>3 DEF GoodFib
    <3>2. s \in Beneath(s)
      BY DEF Beneath
    <3> QED BY <2>1, <2>3, <3>1, <3>2 DEF FootFib, HeightFib
  <2> QED BY <2>2, <2>3
<1> QED BY <1>1, <1>2, <1>3, <1>4 DEF Good, Names

\* The mains are where it starts.
LEMMA MainsGood ==
  \A x \in Mains : Good(x) /\ InReach(x)
<1> SUFFICES ASSUME NEW x \in Mains PROVE Good(x) /\ InReach(x)
  OBVIOUS
<1> DEFINE p == x[1]  c == x[2]
<1>1. x = <<p, c>> /\ p \in Names /\ c = <<"g_main">>
  BY DEF Mains, Names, Lus, Products
<1> HIDE DEF p, c
<1>2. Good(x)
  <2>1. LUB!Good(c) /\ LUC!Good(c) /\ GoodProd(c) /\ GoodFib(c)
    BY <1>1 DEF LUB!Good, LUC!Good, GoodProd, GoodFib
  <2> QED BY <1>1, <2>1 DEF Good, p, c
<1>3. /\ nBlocks \in Nat /\ nBlocksCilk \in Nat /\ n \in Nat /\ Arg0 \in Nat
  BY Constants DEF Size
<1>4. Height(x) \in {2 * nBlocks + 1, 2 * nBlocksCilk + 1, 3 * n + 1, Arg0 + 1}
  <2>1. LUB!Height(c) = 2 * nBlocks + 1 /\ LUC!Height(c) = 2 * nBlocksCilk + 1
    BY <1>1 DEF LUB!Height, LUC!Height
  <2>2. HeightProd(c) = 3 * n + 1 /\ HeightFib(c) = Arg0 + 1
    BY <1>1 DEF HeightProd, HeightFib
  <2> QED BY <1>1, <2>1, <2>2 DEF Height, Names, p, c
<1>5. Height(x) + 0 <= Depth /\ 0 \in 0..Depth
  BY <1>3, <1>4 DEF Depth
<1>6. x \in Below[0]
  BY BelowDef
<1> QED BY <1>2, <1>5, <1>6 DEF InReach

\* What a reachable call makes is reachable, and a job if it is spawned.
LEMMA ReachMade ==
  ASSUME NEW x, Good(x), InReach(x), NEW i \in DOMAIN Body(x)
  PROVE  CallOK(Body(x)[i])
<1> DEFINE q == Body(x)[i]  y == q[2]
<1>1. FitsIn(q, x)
  BY BodyOfGood DEF BodyOK
<1>2. PICK d \in 0..Depth : x \in Below[d] /\ Height(x) + d <= Depth
  BY DEF InReach
<1>3. SUFFICES ASSUME q[1] \in {"call", "spawn"}
               PROVE  InReach(y) /\ (q[1] = "spawn" => y \in Jobs)
  BY DEF CallOK
<1>4. Good(y) /\ Height(y) < Height(x)
  BY <1>1, <1>3 DEF FitsIn
<1>5. Height(y) \in Nat /\ Height(x) \in Nat /\ Depth \in Int
  <2>1. Depth \in Int
    BY Constants DEF Depth, Size
  <2> QED BY <1>4, <2>1, FootFacts
<1>6. d \in Nat /\ d + 1 \in 0..Depth /\ Height(y) + (d + 1) <= Depth
  BY <1>2, <1>4, <1>5
<1>7. y \in Made(Below[d], {"call", "spawn"})
  BY <1>2, <1>3 DEF Made
<1>8. InReach(y)
  <2>1. y \in Below[d + 1]
    BY <1>6, <1>7, BelowDef
  <2> HIDE DEF y
  <2> QED BY <1>6, <2>1 DEF InReach
<1>9. q[1] = "spawn" => y \in Jobs
  <2>1. x \in Reachable
    BY <1>2 DEF Reachable
  <2> QED BY <2>1 DEF Jobs, Made
<1> QED BY <1>8, <1>9
-----------------------------------------------------------------------------
(* The jobs that run at the same time *)

\* Code that goes on with s is apart from f until its next sync.
Free(f, s) ==
  \A l \in DOMAIN s : (\A h \in 1..l : s[h][1] # "sync") => Apart(f, Foot(s[l]))

\* Instructions that a routine called as x may have left.
Left(s, x) == \A i \in DOMAIN s : FitsIn(s[i], x) /\ CallOK(s[i])

\* k is the child i of j or below it.
Between(j, i, k) == /\ i = k \/ (Within(FootCall(k), FootCall(i)) /\ Height(k) < Height(i))
                    /\ Within(FootCall(i), FootCall(j)) /\ Height(i) < Height(j)

Live(j) == phase[j] # "none"

Kids(j) == {k \in Jobs : phase[k] # "none" /\ parent[k] = j}

\* k is below a child of j that still runs, and j keeps off the memory of that child until
\* it has waited for it.
Covers(j, k) == \E i \in Kids(j) : /\ Between(j, i, k)
                                   /\ phase[j] = "running" => Free(FootCall(i), todo[j])

Pair(j, k) == Apart(FootCall(j), FootCall(k)) \/ Covers(j, k) \/ Covers(k, j)

TypeR == /\ program \in Mains
         /\ phase \in [Jobs -> {"none", "running", "waiting"}]
         /\ parent \in [Jobs -> Jobs \cup {NULL}]
         /\ main \in {"idle", "running", "done", "returned"}
         /\ todo \in [Jobs -> Seq(Code)]

JobOK(j) == /\ j[1] = program[1] /\ Good(j) /\ InReach(j)
            /\ Left(todo[j], j) /\ Ordered(todo[j])

\* The inductive invariant.
RInv == /\ TypeR
        /\ main = "idle" => \A j \in Jobs : ~Live(j)
        /\ \A j \in Jobs : Live(j) => JobOK(j)
        /\ \A j, k \in Jobs : Live(j) /\ Live(k) /\ j # k => Pair(j, k)

\* Footprints.
LEMMA WithinTrans == \A f, g, h : Within(f, g) /\ Within(g, h) => Within(f, h)
  BY DEF Within

\* What is within a footprint is apart from all that the footprint is apart from.
LEMMA ApartWithin == \A f, g, h : Apart(f, g) /\ Within(h, g) => Apart(f, h) /\ Apart(h, f)
  BY DEF Apart, Within

\* Footprints are apart from each other.
LEMMA ApartSym == \A f, g : Apart(f, g) => Apart(g, f)
  BY DEF Apart

\* The rest of a sequence.
LEMMA TailFacts ==
  ASSUME NEW s \in Seq(Code), s # <<>>
  PROVE  /\ Tail(s) \in Seq(Code) /\ 1 \in DOMAIN s
         /\ \A i \in DOMAIN Tail(s) : i + 1 \in DOMAIN s /\ Tail(s)[i] = s[i + 1] /\ i \in Nat /\ i # 0
  OBVIOUS

\* The sequence when a routine is called.
LEMMA CallFacts ==
  ASSUME NEW s \in Seq(Code), s # <<>>, NEW b \in Seq(Code), NEW i \in DOMAIN (b \o Tail(s))
  PROVE  /\ i \in Nat /\ i # 0
         /\ i <= Len(b) => i \in DOMAIN b /\ (b \o Tail(s))[i] = b[i]
         /\ ~(i <= Len(b)) => /\ i - Len(b) + 1 \in DOMAIN s /\ i - Len(b) \in Nat /\ i - Len(b) # 0
                              /\ (b \o Tail(s))[i] = s[i - Len(b) + 1]
  OBVIOUS

\* What holds of a sequence of instructions holds of the rest of it.
LEMMA RestOK ==
  ASSUME NEW s \in Seq(Code), s # <<>>, NEW x, Left(s, x), Ordered(s)
  PROVE  Left(Tail(s), x) /\ Ordered(Tail(s))
<1> DEFINE t == Tail(s)
<1>1. \A i \in DOMAIN t : i + 1 \in DOMAIN s /\ t[i] = s[i + 1] /\ i \in Nat /\ i # 0
  BY TailFacts
<1>2. t \in Seq(Code) /\ \A i \in Nat : i # 0 /\ i + 1 \in DOMAIN s => i \in DOMAIN t
  OBVIOUS
<1> HIDE DEF t
<1>3. Left(t, x)
  BY <1>1 DEF Left
<1>4. Ordered(t)
  <2> SUFFICES ASSUME NEW i \in DOMAIN t, NEW j \in DOMAIN t, i < j, t[i][1] = "spawn",
                      \A l \in i + 1..j : t[l][1] # "sync"
               PROVE  Apart(Foot(t[i]), Foot(t[j]))
    BY DEF Ordered
  <2> DEFINE a == i + 1  c == j + 1
  <2>1. a \in DOMAIN s /\ c \in DOMAIN s /\ t[i] = s[a] /\ t[j] = s[c] /\ a < c /\ a \in Nat /\ c \in Nat
    BY <1>1
  <2>2. \A l \in a + 1..c : s[l][1] # "sync"
    <3> TAKE l \in a + 1..c
    <3> DEFINE e == l - 1
    <3>1. e \in i + 1..j /\ e + 1 = l /\ e \in Nat
      BY <1>1
    <3>2. e \in DOMAIN t
      <4>1. DOMAIN t = 1..Len(t) /\ Len(t) \in Nat
        BY <1>2
      <4> QED BY <1>1, <3>1, <4>1
    <3> HIDE DEF e
    <3> QED BY <1>1, <3>1, <3>2
  <2> HIDE DEF a, c
  <2> QED BY <2>1, <2>2 DEF Ordered
<1> QED BY <1>3, <1>4 DEF t

\* What is kept free until the next sync is kept free by the rest of the code.
LEMMA FreeRest ==
  ASSUME NEW s \in Seq(Code), s # <<>>, s[1][1] # "sync", NEW f, Free(f, s)
  PROVE  Free(f, Tail(s))
<1> DEFINE t == Tail(s)
<1>1. \A i \in DOMAIN t : i + 1 \in DOMAIN s /\ t[i] = s[i + 1] /\ i \in Nat /\ i # 0
  BY TailFacts
<1>2. t \in Seq(Code)
  OBVIOUS
<1> HIDE DEF t
<1>3. Free(f, t)
  <2> SUFFICES ASSUME NEW l \in DOMAIN t, \A h \in 1..l : t[h][1] # "sync"
               PROVE  Apart(f, Foot(t[l]))
    BY DEF Free
  <2> DEFINE c == l + 1
  <2>1. c \in DOMAIN s /\ t[l] = s[c] /\ l \in Nat
    BY <1>1
  <2>2. \A h \in 1..c : s[h][1] # "sync"
    <3> TAKE h \in 1..c
    <3>1. CASE h = 1
      BY <3>1
    <3>2. CASE h # 1
      <4> DEFINE e == h - 1
      <4>1. e \in 1..l /\ e + 1 = h
        BY <2>1, <3>2
      <4>2. e \in DOMAIN t
        <5>1. DOMAIN t = 1..Len(t) /\ Len(t) \in Nat
          BY <1>2
        <5> QED BY <2>1, <4>1, <5>1
      <4> HIDE DEF e
      <4> QED BY <1>1, <4>1, <4>2
    <3> QED BY <3>1, <3>2
  <2> HIDE DEF c
  <2> QED BY <2>1, <2>2 DEF Free
<1> QED BY <1>3 DEF t

\* A routine that is called keeps to the footprint of its call.
LEMMA CallKeeps ==
  ASSUME NEW s \in Seq(Code), s # <<>>, NEW x, NEW a, s[1] = <<"call", a>>,
         Left(s, x), Ordered(s), Good(x)
  PROVE  /\ Body(a) \o Tail(s) \in Seq(Code)
         /\ Left(Body(a) \o Tail(s), x) /\ Ordered(Body(a) \o Tail(s))
         /\ \A f : Free(f, s) => Free(f, Body(a) \o Tail(s))
<1> DEFINE b == Body(a)  t == b \o Tail(s)  m == Len(b)
<1>1. 1 \in DOMAIN s /\ FitsIn(s[1], x) /\ CallOK(s[1]) /\ s[1][1] = "call" /\ s[1][2] = a
  BY TailFacts DEF Left
<1>2. /\ Good(a) /\ InReach(a) /\ Within(FootCall(a), FootCall(x)) /\ Height(a) < Height(x) /\ Plain(a)
      /\ a[1] = x[1]
  BY <1>1 DEF FitsIn, CallOK, Foot
<1>3. /\ b \in Seq(Code) /\ \A i \in DOMAIN b : FitsIn(b[i], a) /\ b[i][1] \notin {"spawn", "sync"}
  BY <1>2, BodyOfGood DEF BodyOK
<1>4. \A i \in DOMAIN b : CallOK(b[i])
  BY <1>2, ReachMade
<1> HIDE DEF b
<1>5. t \in Seq(Code) /\ m \in Nat
  BY <1>3
<1>6. \A i \in DOMAIN t : /\ i \in Nat /\ i # 0
                          /\ i <= m => i \in DOMAIN b /\ t[i] = b[i]
                          /\ ~(i <= m) => /\ i - m + 1 \in DOMAIN s /\ i - m \in Nat /\ i - m # 0
                                          /\ t[i] = s[i - m + 1]
  BY <1>3, CallFacts
<1>7. DOMAIN t = 1..Len(t) /\ Len(t) \in Nat /\ DOMAIN s = 1..Len(s) /\ Len(s) \in Nat
  BY <1>5
<1>8. Height(a) \in Nat /\ Height(x) \in Nat
  BY <1>2, FootFacts
<1> HIDE DEF t, m
<1>9. \A i \in DOMAIN b : FitsIn(b[i], x) /\ (b[i][1] = "do" \/ b[i][1] = "call")
                          /\ Within(Foot(b[i]), FootCall(a))
  <2> TAKE i \in DOMAIN b
  <2>1. FitsIn(b[i], a) /\ b[i][1] \notin {"spawn", "sync"}
    BY <1>3
  <2>2. CASE b[i][1] = "do"
    <3>1. Within(Foot(b[i]), FootCall(a)) /\ b[i][2][1] = x[1]
      BY <1>2, <2>1, <2>2 DEF FitsIn
    <3>2. Within(Foot(b[i]), FootCall(x))
      BY <1>2, <3>1, WithinTrans
    <3> QED BY <2>2, <3>1, <3>2 DEF FitsIn
  <2>3. CASE b[i][1] = "call"
    <3>1. /\ Within(Foot(b[i]), FootCall(a)) /\ b[i][2][1] = x[1] /\ Good(b[i][2])
          /\ Height(b[i][2]) < Height(a) /\ Plain(b[i][2])
      BY <1>2, <2>1, <2>3 DEF FitsIn
    <3>2. Within(Foot(b[i]), FootCall(x))
      BY <1>2, <3>1, WithinTrans
    <3>3. Height(b[i][2]) < Height(x)
      <4>1. Height(b[i][2]) \in Nat
        BY <3>1, FootFacts
      <4> QED BY <1>2, <1>8, <3>1, <4>1
    <3> QED BY <2>3, <3>1, <3>2, <3>3 DEF FitsIn
  <2> QED BY <2>1, <2>2, <2>3 DEF FitsIn
<1>10. Left(t, x)
  BY <1>4, <1>6, <1>9 DEF Left
<1>11. Ordered(t)
  <2> SUFFICES ASSUME NEW i \in DOMAIN t, NEW j \in DOMAIN t, i < j, t[i][1] = "spawn",
                      \A l \in i + 1..j : t[l][1] # "sync"
               PROVE  Apart(Foot(t[i]), Foot(t[j]))
    BY DEF Ordered
  <2>1. ~(i <= m) /\ ~(j <= m) /\ i \in Nat /\ j \in Nat
    <3>1. ~(i <= m) /\ i \in Nat /\ j \in Nat
      BY <1>3, <1>6
    <3> QED BY <1>5, <3>1
  <2> DEFINE c == i - m + 1  d == j - m + 1
  <2>2. c \in DOMAIN s /\ d \in DOMAIN s /\ t[i] = s[c] /\ t[j] = s[d]
    BY <1>6, <2>1
  <2>3. c < d
    BY <1>5, <2>1
  <2>4. \A l \in c + 1..d : s[l][1] # "sync"
    <3> TAKE l \in c + 1..d
    <3> DEFINE e == l + m - 1
    <3>1. e \in i + 1..j /\ e - m + 1 = l /\ e \in Nat /\ ~(e <= m)
      <4>1. l \in Int /\ i - m + 2 <= l /\ l <= j - m + 1 /\ m \in Nat
        BY <1>5, <2>1
      <4> HIDE DEF c, d
      <4> QED BY <2>1, <4>1
    <3>2. e \in DOMAIN t
      BY <1>7, <2>1, <3>1
    <3> HIDE DEF e
    <3> QED BY <1>6, <3>1, <3>2
  <2> HIDE DEF c, d
  <2> QED BY <2>2, <2>3, <2>4 DEF Ordered
<1>12. ASSUME NEW f, Free(f, s) PROVE Free(f, t)
  <2> SUFFICES ASSUME NEW l \in DOMAIN t, \A h \in 1..l : t[h][1] # "sync"
               PROVE  Apart(f, Foot(t[l]))
    BY DEF Free
  <2>1. \A h \in 1..1 : s[h][1] # "sync"
    BY <1>1
  <2>2. Apart(f, FootCall(a))
    <3>1. Apart(f, Foot(s[1]))
      BY <1>1, <1>12, <2>1 DEF Free
    <3> QED BY <1>1, <3>1 DEF Foot
  <2>3. CASE l <= m
    BY <1>6, <1>9, <2>2, <2>3, ApartWithin
  <2>4. CASE ~(l <= m)
    <3> DEFINE c == l - m + 1
    <3>1. c \in DOMAIN s /\ t[l] = s[c] /\ l \in Nat /\ l - m \in Nat /\ l - m # 0
      BY <1>6, <2>4
    <3>2. \A h \in 1..c : s[h][1] # "sync"
      <4> TAKE h \in 1..c
      <4>1. CASE h = 1
        BY <1>1, <4>1
      <4>2. CASE h # 1
        <5> DEFINE e == h + m - 1
        <5>1. e \in 1..l /\ e - m + 1 = h /\ ~(e <= m) /\ e \in Nat
          BY <1>5, <3>1, <4>2
        <5>2. e \in DOMAIN t
          BY <1>7, <3>1, <5>1
        <5> HIDE DEF e
        <5> QED BY <1>6, <5>1, <5>2
      <4> QED BY <4>1, <4>2
    <3> HIDE DEF c
    <3> QED BY <1>12, <3>1, <3>2 DEF Free
  <2> QED BY <2>3, <2>4
<1> QED BY <1>5, <1>10, <1>11, <1>12 DEF t, b

\* What is spawned first is apart from the rest up to a sync.
LEMMA SpawnedFree ==
  ASSUME NEW s \in Seq(Code), s # <<>>, s[1][1] = "spawn", Ordered(s)
  PROVE  Free(Foot(s[1]), Tail(s))
<1> DEFINE t == Tail(s)
<1>1. 1 \in DOMAIN s /\ \A i \in DOMAIN t : i + 1 \in DOMAIN s /\ t[i] = s[i + 1] /\ i \in Nat /\ i # 0
  BY TailFacts
<1>2. t \in Seq(Code)
  OBVIOUS
<1> HIDE DEF t
<1>3. Free(Foot(s[1]), t)
  <2> SUFFICES ASSUME NEW l \in DOMAIN t, \A h \in 1..l : t[h][1] # "sync"
               PROVE  Apart(Foot(s[1]), Foot(t[l]))
    BY DEF Free
  <2> DEFINE c == l + 1
  <2>1. c \in DOMAIN s /\ t[l] = s[c] /\ l \in Nat /\ 1 < c
    BY <1>1
  <2>2. \A h \in 1 + 1..c : s[h][1] # "sync"
    <3> TAKE h \in 1 + 1..c
    <3> DEFINE e == h - 1
    <3>1. e \in 1..l /\ e + 1 = h
      BY <2>1
    <3>2. e \in DOMAIN t
      <4>1. DOMAIN t = 1..Len(t) /\ Len(t) \in Nat
        BY <1>2
      <4> QED BY <2>1, <3>1, <4>1
    <3> HIDE DEF e
    <3> QED BY <1>1, <3>1, <3>2
  <2> HIDE DEF c
  <2> QED BY <1>1, <2>1, <2>2 DEF Ordered
<1> QED BY <1>3 DEF t
-----------------------------------------------------------------------------
(* The invariant *)

\* The names of Tasks and ForkJoin.
LEMMA SameKids == \A j : Run!FJ!Kids(j) = Kids(j)
  BY DEF Run!FJ!Kids, Kids

\* A live job and its code.
LEMMA JobFacts ==
  ASSUME RInv, NEW j \in Jobs, Live(j)
  PROVE  /\ JobOK(j) /\ todo[j] \in Seq(Code) /\ Good(j) /\ Height(j) \in Nat
         /\ main # "idle"
  BY FootFacts DEF RInv, TypeR, JobOK

\* A step of j alone, whose children stay the same: it goes on with other code.
Quiet(j) ==
  /\ program' = program /\ parent' = parent /\ main' = main
  /\ phase' \in [Jobs -> {"none", "running", "waiting"}]
  /\ todo' \in [Jobs -> Seq(Code)]
  /\ phase[j] # "none" /\ phase'[j] # "none"
  /\ \A m \in Jobs \ {j} : phase'[m] = phase[m] /\ todo'[m] = todo[m]
  /\ Left(todo'[j], j) /\ Ordered(todo'[j])
  /\ \/ phase'[j] = "waiting"
     \/ Kids(j) = {}
     \/ /\ phase[j] = "running"
        /\ \A f : Free(f, todo[j]) => Free(f, todo'[j])

\* Such a step preserves the invariant.
LEMMA QuietStep ==
  ASSUME RInv, NEW j \in Jobs, Quiet(j)
  PROVE  RInv'
<1>1. TypeR'
  BY DEF RInv, TypeR, Quiet
<1>2. \A m \in Jobs : Live(m)' <=> Live(m)
  BY DEF Live, Quiet
<1>3. (main = "idle" => \A m \in Jobs : ~Live(m))'
  BY <1>2 DEF RInv, Quiet
<1>4. \A m \in Jobs : Live(m)' => JobOK(m)'
  BY <1>2 DEF RInv, JobOK, Quiet
<1>5. \A m : Kids(m)' = Kids(m)
  BY <1>2 DEF Kids, Live, Quiet
<1>6. ASSUME NEW m \in Jobs, NEW k \in Jobs, Covers(m, k) PROVE Covers(m, k)'
  <2>1. PICK i \in Kids(m) : /\ Between(m, i, k)
                             /\ phase[m] = "running" => Free(FootCall(i), todo[m])
    BY <1>6 DEF Covers
  <2>2. i \in Kids(m)'
    BY <1>5
  <2>3. phase'[m] = "running" => Free(FootCall(i), todo'[m])
    <3>1. CASE m # j
      BY <2>1, <3>1 DEF Quiet
    <3>2. CASE m = j
      BY <2>1, <3>2 DEF Quiet
    <3> QED BY <3>1, <3>2
  <2> QED BY <2>1, <2>2, <2>3 DEF Covers
<1>7. \A m, k \in Jobs : Live(m)' /\ Live(k)' /\ m # k => Pair(m, k)'
  <2> SUFFICES ASSUME NEW m \in Jobs, NEW k \in Jobs, Live(m)', Live(k)', m # k PROVE Pair(m, k)'
    OBVIOUS
  <2>1. Pair(m, k)
    BY <1>2 DEF RInv
  <2> QED BY <1>6, <2>1 DEF Pair
<1> QED BY <1>1, <1>3, <1>4, <1>7 DEF RInv

\* The first instruction of a running job.
LEMMA AtFacts ==
  ASSUME RInv, NEW j \in Jobs, NEW op, Run!At(j, op)
  PROVE  /\ phase[j] = "running" /\ Live(j) /\ todo[j] # <<>> /\ todo[j] \in Seq(Code)
         /\ todo[j][1] = <<op, Run!Arg(j)>> /\ 1 \in DOMAIN todo[j]
<1>1. phase[j] = "running" /\ todo[j] # <<>> /\ todo[j][1][1] = op
  BY DEF Run!At
<1>2. Live(j)
  BY <1>1 DEF Live
<1>3. todo[j] \in Seq(Code)
  BY DEF RInv, TypeR
<1>4. 1 \in DOMAIN todo[j] /\ todo[j][1] \in Code
  BY <1>1, <1>3
<1>5. todo[j][1] = <<todo[j][1][1], todo[j][1][2]>>
  BY <1>4 DEF Code
<1> QED BY <1>1, <1>2, <1>3, <1>4, <1>5 DEF Run!Arg

\* A routine that is called takes the place of the call.
LEMMA CallKeepsRInv ==
  ASSUME RInv, NEW j \in Jobs, Run!CallRoutine(j)
  PROVE  RInv'
<1> DEFINE a == Run!Arg(j)  s == todo[j]  t == Body(a) \o Tail(s)
<1>1. /\ phase[j] = "running" /\ Live(j) /\ s # <<>> /\ s \in Seq(Code) /\ s[1] = <<"call", a>>
  BY AtFacts DEF Run!CallRoutine
<1>2. JobOK(j) /\ Good(j)
  BY <1>1, JobFacts
<1>3. t \in Seq(Code) /\ Left(t, j) /\ Ordered(t) /\ \A f : Free(f, s) => Free(f, t)
  BY <1>1, <1>2, CallKeeps DEF JobOK
<1>4. todo' = [todo EXCEPT ![j] = t] /\ program' = program /\ phase' = phase /\ parent' = parent /\ main' = main
  BY DEF Run!CallRoutine
<1>5. phase \in [Jobs -> {"none", "running", "waiting"}] /\ todo \in [Jobs -> Seq(Code)]
  BY DEF RInv, TypeR
<1> HIDE DEF a, t
<1>6. todo' \in [Jobs -> Seq(Code)] /\ todo'[j] = t /\ \A m \in Jobs \ {j} : todo'[m] = todo[m]
  BY <1>3, <1>4, <1>5
<1>7. Quiet(j)
  BY <1>1, <1>3, <1>4, <1>5, <1>6 DEF Quiet
<1> QED BY <1>7, QuietStep

\* A piece of code is done.
LEMMA PieceKeepsRInv ==
  ASSUME RInv, NEW j \in Jobs, Run!DoPiece(j)
  PROVE  RInv'
<1> DEFINE s == todo[j]  t == Tail(s)
<1>1. /\ phase[j] = "running" /\ Live(j) /\ s # <<>> /\ s \in Seq(Code) /\ s[1][1] = "do"
  BY AtFacts DEF Run!DoPiece
<1>2. Left(s, j) /\ Ordered(s)
  BY <1>1, JobFacts DEF JobOK
<1>3. t \in Seq(Code) /\ Left(t, j) /\ Ordered(t) /\ \A f : Free(f, s) => Free(f, t)
  BY <1>1, <1>2, TailFacts, RestOK, FreeRest
<1>4. todo' = [todo EXCEPT ![j] = t] /\ program' = program /\ phase' = phase /\ parent' = parent /\ main' = main
  BY DEF Run!DoPiece
<1>5. phase \in [Jobs -> {"none", "running", "waiting"}] /\ todo \in [Jobs -> Seq(Code)]
  BY DEF RInv, TypeR
<1> HIDE DEF t
<1>6. todo' \in [Jobs -> Seq(Code)] /\ todo'[j] = t /\ \A m \in Jobs \ {j} : todo'[m] = todo[m]
  BY <1>3, <1>4, <1>5
<1>7. Quiet(j)
  BY <1>1, <1>3, <1>4, <1>5, <1>6 DEF Quiet
<1> QED BY <1>7, QuietStep

\* A job starts to wait for its children.
LEMMA EnterKeepsRInv ==
  ASSUME RInv, NEW j \in Jobs, Run!EnterSync(j)
  PROVE  RInv'
<1> DEFINE s == todo[j]  t == Tail(s)
<1>1. /\ phase[j] = "running" /\ Live(j) /\ s # <<>> /\ s \in Seq(Code)
  BY AtFacts DEF Run!EnterSync
<1>2. Left(s, j) /\ Ordered(s)
  BY <1>1, JobFacts DEF JobOK
<1>3. t \in Seq(Code) /\ Left(t, j) /\ Ordered(t)
  BY <1>1, <1>2, TailFacts, RestOK
<1>4. /\ todo' = [todo EXCEPT ![j] = t] /\ program' = program /\ parent' = parent /\ main' = main
      /\ phase' = [phase EXCEPT ![j] = "waiting"]
  BY DEF Run!EnterSync, Run!FJ!Sync
<1>5. phase \in [Jobs -> {"none", "running", "waiting"}] /\ todo \in [Jobs -> Seq(Code)]
  BY DEF RInv, TypeR
<1> HIDE DEF t
<1>6. todo' \in [Jobs -> Seq(Code)] /\ todo'[j] = t /\ \A m \in Jobs \ {j} : todo'[m] = todo[m]
  BY <1>3, <1>4, <1>5
<1>7. /\ phase' \in [Jobs -> {"none", "running", "waiting"}] /\ phase'[j] = "waiting"
      /\ \A m \in Jobs \ {j} : phase'[m] = phase[m]
  BY <1>4, <1>5
<1>8. Quiet(j)
  BY <1>1, <1>3, <1>4, <1>6, <1>7 DEF Quiet
<1> QED BY <1>8, QuietStep

\* A job without children has waited.
LEMMA LeaveKeepsRInv ==
  ASSUME RInv, NEW j \in Jobs, Run!LeaveSync(j)
  PROVE  RInv'
<1>1. phase[j] = "waiting" /\ Kids(j) = {}
  BY SameKids DEF Run!LeaveSync, Run!FJ!SyncReturn
<1>2. Left(todo[j], j) /\ Ordered(todo[j])
  BY <1>1, JobFacts DEF JobOK, Live
<1>3. /\ todo' = todo /\ program' = program /\ parent' = parent /\ main' = main
      /\ phase' = [phase EXCEPT ![j] = "running"]
  BY DEF Run!LeaveSync, Run!FJ!SyncReturn
<1>4. phase \in [Jobs -> {"none", "running", "waiting"}] /\ todo \in [Jobs -> Seq(Code)]
  BY DEF RInv, TypeR
<1>5. /\ phase' \in [Jobs -> {"none", "running", "waiting"}] /\ phase'[j] = "running"
      /\ \A m \in Jobs \ {j} : phase'[m] = phase[m]
  BY <1>3, <1>4
<1>6. Quiet(j)
  BY <1>1, <1>2, <1>3, <1>4, <1>5 DEF Quiet
<1> QED BY <1>6, QuietStep

\* A job that is spawned is covered by its parent, and by those that cover its parent.
LEMMA SpawnKeepsRInv ==
  ASSUME RInv, NEW j \in Jobs, Run!SpawnRoutine(j)
  PROVE  RInv'
<1>0. PICK k : k = Run!Arg(j)
  OBVIOUS
<1> DEFINE s == todo[j]  t == Tail(s)  b == Body(k)
<1>1. /\ phase[j] = "running" /\ Live(j) /\ s # <<>> /\ s \in Seq(Code) /\ s[1] = <<"spawn", k>>
      /\ 1 \in DOMAIN s
  BY <1>0, AtFacts DEF Run!SpawnRoutine
<1>2. Left(s, j) /\ Ordered(s) /\ j[1] = program[1] /\ main # "idle" /\ Good(j)
  BY <1>1, JobFacts DEF JobOK
<1>3. FitsIn(s[1], j) /\ CallOK(s[1]) /\ s[1][1] = "spawn" /\ s[1][2] = k /\ Foot(s[1]) = FootCall(k)
  BY <1>1, <1>2 DEF Left, Foot
<1>4. /\ k \in Jobs /\ Good(k) /\ InReach(k) /\ k[1] = program[1]
      /\ Within(FootCall(k), FootCall(j)) /\ Height(k) < Height(j)
  BY <1>2, <1>3 DEF FitsIn, CallOK
<1>5. BodyOK(k)
  BY <1>4, BodyOfGood
<1>6. b \in Seq(Code) /\ Left(b, k) /\ Ordered(b)
  <2>1. \A i \in DOMAIN b : FitsIn(b[i], k) /\ CallOK(b[i])
    BY <1>4, <1>5, ReachMade DEF BodyOK
  <2> QED BY <1>5, <2>1 DEF BodyOK, Left
<1>7. t \in Seq(Code) /\ Left(t, j) /\ Ordered(t) /\ \A f : Free(f, s) => Free(f, t)
  BY <1>1, <1>2, <1>3, TailFacts, RestOK, FreeRest
<1>8. Free(FootCall(k), t)
  BY <1>1, <1>2, <1>3, SpawnedFree
<1>9. /\ todo' = [todo EXCEPT ![j] = t, ![k] = b] /\ program' = program /\ main' = main
      /\ phase[k] = "none" /\ phase' = [phase EXCEPT ![k] = "running"]
      /\ parent' = [parent EXCEPT ![k] = j]
  BY <1>0 DEF Run!SpawnRoutine, Run!FJ!Spawn, Run!FJ!Begin
<1> HIDE DEF t, b
<1>10. /\ phase \in [Jobs -> {"none", "running", "waiting"}] /\ todo \in [Jobs -> Seq(Code)]
       /\ parent \in [Jobs -> Jobs \cup {NULL}]
  BY DEF RInv, TypeR
<1>11. k # j
  BY <1>1, <1>9
<1>12. /\ todo' \in [Jobs -> Seq(Code)] /\ todo'[j] = t /\ todo'[k] = b
       /\ \A m \in Jobs \ {j, k} : todo'[m] = todo[m]
  BY <1>4, <1>6, <1>7, <1>9, <1>10, <1>11
<1>13. /\ phase' \in [Jobs -> {"none", "running", "waiting"}] /\ phase'[k] = "running"
       /\ parent' \in [Jobs -> Jobs \cup {NULL}] /\ parent'[k] = j
       /\ \A m \in Jobs \ {k} : phase'[m] = phase[m] /\ parent'[m] = parent[m]
  BY <1>4, <1>9, <1>10
<1>14. TypeR'
  BY <1>9, <1>12, <1>13 DEF RInv, TypeR
<1>15. (main = "idle" => \A m \in Jobs : ~Live(m))'
  BY <1>2, <1>9
<1>16. \A m \in Jobs : Live(m)' <=> Live(m) \/ m = k
  BY <1>4, <1>9, <1>13 DEF Live
<1>17. \A m \in Jobs : Live(m)' => JobOK(m)'
  <2> SUFFICES ASSUME NEW m \in Jobs, Live(m)' PROVE JobOK(m)'
    OBVIOUS
  <2>1. CASE m = k
    BY <1>4, <1>6, <1>9, <1>12, <2>1 DEF JobOK
  <2>2. CASE m # k
    <3>1. JobOK(m)
      BY <1>16, <2>2 DEF RInv
    <3>2. CASE m = j
      BY <1>7, <1>9, <1>12, <3>1, <3>2 DEF JobOK
    <3>3. CASE m # j
      BY <1>9, <1>12, <2>2, <3>1, <3>3 DEF JobOK
    <3> QED BY <3>2, <3>3
  <2> QED BY <2>1, <2>2
<1>18. \A m : Kids(m) \subseteq Kids(m)'
  BY <1>9, <1>13, <1>16 DEF Kids, Live
<1>19. k \in Kids(j)'
  BY <1>4, <1>13 DEF Kids
<1>20. ASSUME NEW m \in Jobs, NEW i \in Kids(m), m # k,
              phase[m] = "running" => Free(FootCall(i), todo[m])
       PROVE  i \in Kids(m)' /\ (phase'[m] = "running" => Free(FootCall(i), todo'[m]))
  <2>1. CASE m = j
    BY <1>1, <1>7, <1>12, <1>18, <1>20, <2>1
  <2>2. CASE m # j
    BY <1>12, <1>13, <1>18, <1>20, <2>2
  <2> QED BY <2>1, <2>2
\* Whatever covered a job before still does.
<1>21. ASSUME NEW m \in Jobs, NEW l \in Jobs, m # k, Covers(m, l) PROVE Covers(m, l)'
  <2>1. PICK i \in Kids(m) : /\ Between(m, i, l)
                             /\ phase[m] = "running" => Free(FootCall(i), todo[m])
    BY <1>21 DEF Covers
  <2>2. i \in Kids(m)' /\ (phase'[m] = "running" => Free(FootCall(i), todo'[m]))
    BY <1>20, <1>21, <2>1
  <2> QED BY <2>1, <2>2 DEF Covers
\* What covered the parent covers its child.
<1>22. ASSUME NEW m \in Jobs, m # k, m # j, Covers(m, j) PROVE Covers(m, k)'
  <2>1. PICK i \in Kids(m) : /\ Between(m, i, j)
                             /\ phase[m] = "running" => Free(FootCall(i), todo[m])
    BY <1>22 DEF Covers
  <2>2. i \in Kids(m)' /\ (phase'[m] = "running" => Free(FootCall(i), todo'[m]))
    BY <1>20, <1>22, <2>1
  <2>3. Between(m, i, k)
    <3>1. CASE i = j
      BY <1>4, <2>1, <3>1 DEF Between
    <3>2. CASE i # j
      <4>1. /\ Within(FootCall(j), FootCall(i)) /\ Height(j) < Height(i)
            /\ Within(FootCall(i), FootCall(m)) /\ Height(i) < Height(m)
        BY <2>1, <3>2 DEF Between
      <4>2. Within(FootCall(k), FootCall(i))
        BY <1>4, <4>1, WithinTrans
      <4>3. i \in Jobs /\ Live(i)
        BY DEF Kids, Live
      <4>4. Height(i) \in Nat /\ Height(j) \in Nat /\ Height(k) \in Nat
        BY <1>1, <1>4, <4>3, JobFacts, FootFacts
      <4>5. Height(k) < Height(i)
        BY <1>4, <4>1, <4>4
      <4> QED BY <4>1, <4>2, <4>5 DEF Between
    <3> QED BY <3>1, <3>2
  <2> QED BY <2>2, <2>3 DEF Covers
\* What is below another child of the parent is apart from the new one.
<1>23. ASSUME NEW m \in Jobs, Covers(j, m) PROVE Apart(FootCall(k), FootCall(m))
  <2>1. PICK i \in Kids(j) : Between(j, i, m) /\ Free(FootCall(i), s)
    BY <1>1, <1>23 DEF Covers
  <2>2. \A h \in 1..1 : s[h][1] # "sync"
    BY <1>3
  <2>3. Apart(FootCall(i), FootCall(k))
    BY <1>1, <1>3, <2>1, <2>2 DEF Free
  <2>4. i = m \/ Within(FootCall(m), FootCall(i))
    BY <2>1 DEF Between
  <2> QED BY <2>3, <2>4, ApartSym, ApartWithin
<1>24. ASSUME NEW m \in Jobs, Live(m), m # k PROVE Pair(k, m)' /\ Pair(m, k)'
  <2>1. CASE m = j
    <3>1. Between(j, k, k)
      BY <1>4 DEF Between
    <3>2. Covers(j, k)'
      BY <1>8, <1>12, <1>19, <3>1 DEF Covers
    <3> QED BY <2>1, <3>2 DEF Pair
  <2>2. CASE m # j
    <3>1. Apart(FootCall(j), FootCall(m)) \/ Covers(j, m) \/ Covers(m, j)
      BY <1>1, <1>24, <2>2 DEF RInv, Pair
    <3>2. CASE Apart(FootCall(j), FootCall(m))
      <4>1. Apart(FootCall(k), FootCall(m)) /\ Apart(FootCall(m), FootCall(k))
        BY <1>4, <3>2, ApartSym, ApartWithin
      <4> QED BY <4>1 DEF Pair
    <3>3. CASE Covers(j, m)
      <4>1. Apart(FootCall(k), FootCall(m)) /\ Apart(FootCall(m), FootCall(k))
        BY <1>23, <3>3, ApartSym
      <4> QED BY <4>1 DEF Pair
    <3>4. CASE Covers(m, j)
      BY <1>22, <1>24, <2>2, <3>4 DEF Pair
    <3> QED BY <3>1, <3>2, <3>3, <3>4
  <2> QED BY <2>1, <2>2
<1>25. \A m, l \in Jobs : Live(m)' /\ Live(l)' /\ m # l => Pair(m, l)'
  <2> SUFFICES ASSUME NEW m \in Jobs, NEW l \in Jobs, Live(m)', Live(l)', m # l PROVE Pair(m, l)'
    OBVIOUS
  <2>1. CASE m = k
    BY <1>16, <1>24, <2>1
  <2>2. CASE l = k
    BY <1>16, <1>24, <2>2
  <2>3. CASE m # k /\ l # k
    <3>1. Pair(m, l)
      BY <1>16, <2>3 DEF RInv
    <3> QED BY <1>21, <2>3, <3>1 DEF Pair
  <2> QED BY <2>1, <2>2, <2>3
<1> QED BY <1>14, <1>15, <1>17, <1>25 DEF RInv

\* A job ends: it has no children, so it was between no two others.
LEMMA FinishKeepsRInv ==
  ASSUME RInv, NEW j \in Jobs, Run!Finish(j)
  PROVE  RInv'
<1>1. /\ phase[j] = "running" /\ Kids(j) = {} /\ todo[j] = <<>>
      /\ phase' = [phase EXCEPT ![j] = "none"] /\ parent' = [parent EXCEPT ![j] = NULL]
      /\ main' = IF parent[j] = NULL THEN "done" ELSE main
      /\ program' = program /\ todo' = todo
  BY SameKids DEF Run!Finish, Run!FJ!Leave
<1>2. /\ phase \in [Jobs -> {"none", "running", "waiting"}] /\ parent \in [Jobs -> Jobs \cup {NULL}]
      /\ main \in {"idle", "running", "done", "returned"}
  BY DEF RInv, TypeR
<1>3. /\ phase' \in [Jobs -> {"none", "running", "waiting"}] /\ phase'[j] = "none"
      /\ parent' \in [Jobs -> Jobs \cup {NULL}]
      /\ \A m \in Jobs \ {j} : phase'[m] = phase[m] /\ parent'[m] = parent[m]
  BY <1>1, <1>2
<1>4. TypeR'
  BY <1>1, <1>2, <1>3 DEF RInv, TypeR
<1>5. Live(j) /\ Good(j) /\ Height(j) \in Nat /\ main # "idle" /\ main' # "idle"
  BY <1>1, JobFacts DEF Live
<1>6. \A m \in Jobs : Live(m)' <=> Live(m) /\ m # j
  BY <1>3 DEF Live
<1>7. \A m \in Jobs : Live(m)' => JobOK(m)'
  BY <1>1, <1>6 DEF RInv, JobOK
\* A child that ends was not in between.
<1>8. ASSUME NEW m \in Jobs, NEW k \in Jobs, Live(m), Live(k), m # j, k # j, m # k, Covers(m, k)
      PROVE  Covers(m, k)'
  <2>1. PICK i \in Kids(m) : /\ Between(m, i, k)
                             /\ phase[m] = "running" => Free(FootCall(i), todo[m])
    BY <1>8 DEF Covers
  <2>2. CASE i # j
    <3>1. i \in Kids(m)'
      BY <1>3, <2>2 DEF Kids
    <3>2. phase'[m] = "running" => Free(FootCall(i), todo'[m])
      BY <1>1, <1>3, <1>8, <2>1
    <3> QED BY <2>1, <3>1, <3>2 DEF Covers
  <2>3. CASE i = j
    <3>1. /\ Within(FootCall(k), FootCall(j)) /\ Height(k) < Height(j)
      BY <1>8, <2>1, <2>3 DEF Between
    <3>2. Good(k) /\ Height(k) \in Nat
      BY <1>8, JobFacts
    <3>3. ~Apart(FootCall(j), FootCall(k))
      BY <3>1, <3>2, FootFacts DEF Apart, Within
    <3>4. ~Covers(j, k)
      BY <1>1 DEF Covers
    <3>5. ~Covers(k, j)
      <4> SUFFICES ASSUME NEW a \in Kids(k), Between(k, a, j) PROVE FALSE
        BY DEF Covers
      <4>1. a \in Jobs /\ Live(a)
        BY DEF Kids, Live
      <4>2. Height(a) \in Nat
        BY <4>1, JobFacts
      <4>3. Height(a) < Height(k) /\ (a = j \/ Height(j) < Height(a))
        BY DEF Between
      <4> QED BY <1>5, <3>1, <3>2, <4>2, <4>3
    <3> QED BY <1>5, <1>8, <3>3, <3>4, <3>5 DEF RInv, Pair
  <2> QED BY <2>2, <2>3
<1>9. \A m, k \in Jobs : Live(m)' /\ Live(k)' /\ m # k => Pair(m, k)'
  <2> SUFFICES ASSUME NEW m \in Jobs, NEW k \in Jobs, Live(m)', Live(k)', m # k PROVE Pair(m, k)'
    OBVIOUS
  <2>1. Live(m) /\ Live(k) /\ m # j /\ k # j
    BY <1>6
  <2>2. Pair(m, k)
    BY <2>1 DEF RInv
  <2> QED BY <1>8, <2>1, <2>2 DEF Pair
<1> QED BY <1>4, <1>5, <1>7, <1>9 DEF RInv

\* The main job starts alone.
LEMMA StartKeepsRInv ==
  ASSUME RInv, Run!StartMain
  PROVE  RInv'
<1> DEFINE j == program  b == Body(j)
<1>1. /\ main = "idle" /\ main' = "running" /\ program' = program
      /\ phase' = [phase EXCEPT ![j] = "running"] /\ parent' = [parent EXCEPT ![j] = NULL]
      /\ todo' = [todo EXCEPT ![j] = b]
  BY DEF Run!StartMain, Run!FJ!Start, Run!FJ!Begin
<1>2. /\ phase \in [Jobs -> {"none", "running", "waiting"}] /\ parent \in [Jobs -> Jobs \cup {NULL}]
      /\ todo \in [Jobs -> Seq(Code)] /\ j \in Mains /\ j \in Jobs
  BY DEF RInv, TypeR, Jobs
<1>3. Good(j) /\ InReach(j)
  BY <1>2, MainsGood
<1>4. b \in Seq(Code) /\ Left(b, j) /\ Ordered(b)
  <2>1. BodyOK(j)
    BY <1>3, BodyOfGood
  <2>2. \A i \in DOMAIN b : FitsIn(b[i], j) /\ CallOK(b[i])
    BY <1>3, <2>1, ReachMade DEF BodyOK
  <2> QED BY <2>1, <2>2 DEF BodyOK, Left
<1> HIDE DEF b
<1>5. /\ phase' \in [Jobs -> {"none", "running", "waiting"}] /\ parent' \in [Jobs -> Jobs \cup {NULL}]
      /\ todo' \in [Jobs -> Seq(Code)] /\ todo'[j] = b
      /\ \A m \in Jobs \ {j} : phase'[m] = phase[m]
  BY <1>1, <1>2, <1>4
<1>6. TypeR'
  BY <1>1, <1>2, <1>5 DEF RInv, TypeR
<1>7. \A m \in Jobs : Live(m)' => m = j
  BY <1>1, <1>5 DEF RInv, Live
<1>8. JobOK(j)'
  BY <1>1, <1>3, <1>4, <1>5 DEF JobOK
<1>9. \A m \in Jobs : Live(m)' => JobOK(m)'
  BY <1>1, <1>7, <1>8
<1> QED BY <1>1, <1>6, <1>7, <1>9 DEF RInv

\* The initial states satisfy it, and every step preserves it.
LEMMA InitRInv == ASSUME Init PROVE RInv
<1>1. /\ phase = [j \in Jobs |-> "none"] /\ parent = [j \in Jobs |-> NULL] /\ main = "idle"
      /\ program \in Mains /\ todo = [j \in Jobs |-> <<>>]
  BY DEF Init, Run!Init, Run!FJ!Init
<1>2. TypeR
  BY <1>1 DEF TypeR
<1>3. \A j \in Jobs : ~Live(j)
  BY <1>1 DEF Live
<1> QED BY <1>2, <1>3 DEF RInv

\* Every step preserves the invariant.
LEMMA NextRInv == ASSUME RInv, [Next]_(Run!vars) PROVE RInv'
<1>1. CASE Run!StartMain
  BY <1>1, StartKeepsRInv
<1>2. CASE Run!ReturnMain
  <2>1. /\ program' = program /\ phase' = phase /\ parent' = parent /\ todo' = todo
        /\ main = "done" /\ main' = "returned"
    BY <1>2 DEF Run!ReturnMain, Run!FJ!MainReturn
  <2> QED BY <2>1 DEF RInv, TypeR, Live, JobOK, Pair, Covers, Kids
<1>3. CASE \E j \in Jobs : Run!ControlStep(j) \/ Run!DoPiece(j)
  BY <1>3, CallKeepsRInv, SpawnKeepsRInv, EnterKeepsRInv, LeaveKeepsRInv, FinishKeepsRInv, PieceKeepsRInv
     DEF Run!ControlStep
<1>4. CASE UNCHANGED Run!vars
  <2>1. program' = program /\ phase' = phase /\ parent' = parent /\ todo' = todo /\ main' = main
    BY <1>4 DEF Run!vars
  <2> QED BY <2>1 DEF RInv, TypeR, Live, JobOK, Pair, Covers, Kids
<1> QED BY <1>1, <1>2, <1>3, <1>4 DEF Next, Run!Next

\* Two jobs that are about to run pieces of code are apart, but for call_time.
LEMMA RInvOneRace == ASSUME RInv PROVE OnlyCallTimeRaces
<1> SUFFICES ASSUME NEW j \in Run!Ready, NEW k \in Run!Ready, j # k
             PROVE  LET x == todo[j][1][2][2]
                        y == todo[k][1][2][2]
                    IN CASE program[1] \in {"lu_serial", "lu_para"} ->
                              LUBlocks!Written(x) \cap LUBlocks!Used(y) = {}
                         [] program[1] = "lu_cilk" -> LUCilk!Written(x) \cap LUCilk!Used(y) = {}
                         [] program[1] \in {"magic_serial", "magic_para"} ->
                              Product!Written(x) \cap Product!Used(y) \subseteq {Product!call_time}
                         [] program[1] = "fib_test" -> Sums!Written(x) \cap Sums!Used(y) = {}
  BY DEF OnlyCallTimeRaces
\* Its first instruction is a piece of code within its footprint.
<1>1. ASSUME NEW m \in Run!Ready
      PROVE  /\ m \in Jobs /\ Live(m) /\ phase[m] = "running"
             /\ 1 \in DOMAIN todo[m] /\ todo[m][1][1] = "do" /\ todo[m][1][2][1] = program[1]
             /\ Within(FootPiece(todo[m][1][2]), FootCall(m))
             /\ Foot(todo[m][1]) = FootPiece(todo[m][1][2])
             /\ todo[m][1][2] = <<program[1], todo[m][1][2][2]>>
  <2>1. m \in Jobs /\ Run!At(m, "do")
    BY DEF Run!Ready
  <2>2. /\ phase[m] = "running" /\ Live(m) /\ todo[m] \in Seq(Code) /\ 1 \in DOMAIN todo[m]
        /\ todo[m][1] = <<"do", Run!Arg(m)>>
    BY <2>1, AtFacts
  <2>3. JobOK(m)
    BY <2>1, <2>2, JobFacts
  <2>4. FitsIn(todo[m][1], m) /\ todo[m][1][1] = "do" /\ m[1] = program[1]
    BY <2>2, <2>3 DEF JobOK, Left
  <2>5. todo[m][1][2] = <<todo[m][1][2][1], todo[m][1][2][2]>>
    <3>1. todo[m][1] \in Code
      BY <2>2
    <3> QED BY <3>1 DEF Code
  <2>6. /\ todo[m][1][2][1] = program[1] /\ Foot(todo[m][1]) = FootPiece(todo[m][1][2])
        /\ Within(FootPiece(todo[m][1][2]), FootCall(m))
    BY <2>4 DEF FitsIn, Foot
  <2> QED BY <2>1, <2>2, <2>4, <2>5, <2>6
<1>2. ASSUME NEW m \in Run!Ready, NEW l \in Run!Ready, Covers(m, l)
      PROVE  Apart(FootPiece(todo[m][1][2]), FootPiece(todo[l][1][2]))
  <2>1. PICK i \in Kids(m) : Between(m, i, l) /\ Free(FootCall(i), todo[m])
    BY <1>1, <1>2 DEF Covers
  <2>2. \A h \in 1..1 : todo[m][h][1] # "sync"
    BY <1>1
  <2>3. Apart(FootCall(i), FootPiece(todo[m][1][2]))
    BY <1>1, <2>1, <2>2 DEF Free
  <2>4. i = l \/ Within(FootCall(l), FootCall(i))
    BY <2>1 DEF Between
  <2>5. Within(FootPiece(todo[l][1][2]), FootCall(i))
    BY <1>1, <2>4, WithinTrans
  <2> QED BY <2>3, <2>5, ApartSym, ApartWithin
<1> DEFINE q == todo[j][1][2]  r == todo[k][1][2]
<1>3. Apart(FootPiece(q), FootPiece(r))
  <2>1. Pair(j, k)
    BY <1>1 DEF RInv
  <2>2. CASE Apart(FootCall(j), FootCall(k))
    BY <1>1, <2>2, ApartSym, ApartWithin
  <2> QED BY <1>2, <2>1, <2>2, ApartSym DEF Pair
<1>4. /\ q = <<program[1], q[2]>> /\ r = <<program[1], r[2]>> /\ q[1] = program[1] /\ r[1] = program[1]
  BY <1>1
<1>5. program[1] \in Names
  BY DEF RInv, TypeR, Mains, Names, Lus, Products
<1> HIDE DEF q, r
<1>6. CASE program[1] \in Lus
  <2>1. LUBlocks!Written(q[2]) \cap LUBlocks!Used(r[2]) = {}
    BY <1>3, <1>4, <1>6 DEF FootPiece, Apart, Lus, Products
  <2> QED BY <1>6, <2>1 DEF Lus, q, r
<1>7. CASE program[1] = "lu_cilk"
  <2>1. LUCilk!Written(q[2]) \cap LUCilk!Used(r[2]) = {}
    BY <1>3, <1>4, <1>7 DEF FootPiece, Apart, Lus, Products
  <2> QED BY <1>7, <2>1 DEF q, r
<1>8. CASE program[1] \in Products
  <2>1. (Product!Written(q[2]) \ {Product!call_time}) \cap (Product!Used(r[2]) \ {Product!call_time}) = {}
    BY <1>3, <1>4, <1>8 DEF FootPiece, Apart, Lus, Products
  <2> QED BY <1>8, <2>1 DEF Products, q, r
<1>9. CASE program[1] = "fib_test"
  <2>1. Sums!Written(q[2]) \cap Sums!Used(r[2]) = {}
    BY <1>3, <1>4, <1>9 DEF FootPiece, Apart, Lus, Products
  <2> QED BY <1>9, <2>1 DEF q, r
<1> QED BY <1>5, <1>6, <1>7, <1>8, <1>9 DEF Names

\* Jobs that run at the same time keep to their memory, call_time apart: every reachable
\* state satisfies RInv.
THEOREM JobsApart == Spec => []RInv
<1>1. Init => RInv
  BY InitRInv
<1>2. RInv /\ [Next]_(Run!vars) => RInv'
  BY NextRInv
<1> QED BY <1>1, <1>2, PTL DEF Spec, Run!Spec, Init, Next

\* Two pieces of code that may run at the same time never touch the same memory with one of
\* them writing, but for the counter call_time of magic_para: for every size of the matrices
\* and the blocks and every argument of fib it is the only race.
THEOREM OneRace == Spec => []OnlyCallTimeRaces
<1>1. RInv => OnlyCallTimeRaces
  BY RInvOneRace
<1> QED BY <1>1, JobsApart, PTL
-----------------------------------------------------------------------------
(* The tree of the jobs, with the main job at its root *)

TreeInv ==
  /\ main = "running" => Live(program)
  /\ main \in {"done", "returned"} => \A j \in Jobs : ~Live(j)
  /\ Live(program) => parent[program] = NULL
  /\ \A k \in Jobs : Live(k) /\ k # program =>
       /\ parent[k] \in Jobs /\ Live(parent[k])
       /\ Height(k) < Height(parent[k]) /\ Height(k) < Height(program)

\* The main job is one of the jobs.
LEMMA MainIsJob == RInv => program \in Jobs
  BY DEF RInv, TypeR, Jobs

\* A job that runs goes before every job it may not touch the memory of.
LEMMA RunsFirst ==
  ASSUME RInv, NEW j \in Jobs, phase[j] = "running", todo[j] # <<>>, todo[j][1][1] # "sync",
         NEW k \in Jobs, Live(k), k # j, ~Apart(Foot(todo[j][1]), FootCall(k))
  PROVE  Height(j) < Height(k)
<1> DEFINE q == todo[j][1]
<1>1. Live(j)
  BY DEF Live
<1>2. /\ todo[j] \in Seq(Code) /\ Left(todo[j], j) /\ Height(j) \in Nat /\ Height(k) \in Nat
  BY <1>1, JobFacts DEF JobOK
<1>3. 1 \in DOMAIN todo[j] /\ \A h \in 1..1 : todo[j][h][1] # "sync"
  BY <1>2
<1>4. Within(Foot(q), FootCall(j))
  BY <1>2, <1>3 DEF Left, FitsIn
<1> HIDE DEF q
<1>5. ~Apart(FootCall(j), FootCall(k))
  BY <1>4, ApartSym, ApartWithin DEF q
<1>6. ~Covers(j, k)
  <2> SUFFICES ASSUME NEW i \in Kids(j), Between(j, i, k), Free(FootCall(i), todo[j]) PROVE FALSE
    BY DEF Covers
  <2>1. Apart(FootCall(i), Foot(q))
    BY <1>3 DEF Free, q
  <2>2. i = k \/ Within(FootCall(k), FootCall(i))
    BY DEF Between
  <2>3. Apart(Foot(q), FootCall(k))
    BY <2>1, <2>2, ApartSym, ApartWithin
  <2> QED BY <2>3 DEF q
<1>7. Covers(k, j)
  BY <1>1, <1>5, <1>6 DEF RInv, Pair
<1>8. PICK i \in Kids(k) : Between(k, i, j)
  BY <1>7 DEF Covers
<1>9. Height(i) \in Nat
  BY JobFacts DEF Kids, Live
<1> QED BY <1>2, <1>8, <1>9 DEF Between

\* A job that may be spawned does not live yet.
LEMMA SpawnIsNew ==
  ASSUME RInv, NEW j \in Jobs, Run!At(j, "spawn")
  PROVE  /\ Run!Arg(j) \in Jobs /\ ~Live(Run!Arg(j))
         /\ Good(Run!Arg(j)) /\ Height(Run!Arg(j)) < Height(j)
<1>0. PICK k : k = Run!Arg(j)
  OBVIOUS
<1>1. /\ phase[j] = "running" /\ Live(j) /\ todo[j] # <<>> /\ todo[j][1] = <<"spawn", k>>
      /\ 1 \in DOMAIN todo[j]
  BY <1>0, AtFacts
<1>2. FitsIn(todo[j][1], j) /\ CallOK(todo[j][1]) /\ todo[j][1][1] = "spawn" /\ todo[j][1][2] = k
  <2>1. Left(todo[j], j)
    BY <1>1, JobFacts DEF JobOK
  <2>2. FitsIn(todo[j][1], j) /\ CallOK(todo[j][1])
    BY <1>1, <2>1 DEF Left
  <2> QED BY <1>1, <2>2
<1>3. k \in Jobs /\ Good(k) /\ Height(k) < Height(j) /\ Foot(todo[j][1]) = FootCall(k)
  BY <1>2 DEF FitsIn, CallOK, Foot
<1>4. ~Apart(FootCall(k), FootCall(k))
  BY <1>3, FootFacts DEF Apart
<1>5. Height(k) \in Nat /\ Height(j) \in Nat
  BY <1>1, <1>3, FootFacts, JobFacts
<1>6. ~Live(k)
  <2> SUFFICES ASSUME Live(k) PROVE FALSE
    OBVIOUS
  <2>1. Height(j) < Height(k)
    BY <1>1, <1>2, <1>3, <1>4, <1>5, RunsFirst
  <2> QED BY <1>3, <1>5, <2>1
<1> QED BY <1>0, <1>3, <1>6

\* Without children the main job is alone.
LEMMA Alone ==
  ASSUME RInv, TreeInv, Live(program), Kids(program) = {}, NEW k \in Jobs, Live(k)
  PROVE  k = program
<1> DEFINE H == Height(program)
           A == {d \in Nat : \A i \in Jobs : Live(i) /\ i # program => ~(H <= Height(i) + d)}
<1>1. H \in Nat /\ \A i \in Jobs : Live(i) => Height(i) \in Nat
  BY MainIsJob, JobFacts
<1>2. \A i \in Jobs : Live(i) /\ i # program =>
        /\ parent[i] \in Jobs /\ Live(parent[i]) /\ parent[i] # program
        /\ Height(i) < Height(parent[i]) /\ Height(i) < H
  BY DEF TreeInv, Kids, Live
<1> HIDE DEF H
<1>3. 0 \in A
  BY <1>1, <1>2
<1>4. \A d \in Nat : d \in A => d + 1 \in A
  <2> SUFFICES ASSUME NEW d \in Nat, d \in A, NEW i \in Jobs, Live(i), i # program,
                      H <= Height(i) + (d + 1)
               PROVE  FALSE
    OBVIOUS
  <2>1. PICK p \in Jobs : p = parent[i]
    BY <1>2
  <2>2. Live(p) /\ p # program /\ Height(i) < Height(p)
    BY <1>2, <2>1
  <2>3. ~(H <= Height(p) + d)
    BY <2>2
  <2> QED BY <1>1, <2>2, <2>3
<1> HIDE DEF A
<1>5. \A d \in Nat : d \in A
  BY <1>3, <1>4, LUB!SetInduction
<1>6. H \in A
  BY <1>1, <1>5
<1> QED BY <1>1, <1>6 DEF A

\* A job without children can go on.
LEMMA LeafGoesOn ==
  ASSUME RInv, NEW j \in Jobs, Live(j), Kids(j) = {}
  PROVE  Run!CanStep
<1>1. phase[j] \in {"running", "waiting"} /\ Run!FJ!Kids(j) = {} /\ todo[j] \in Seq(Code)
  BY SameKids DEF RInv, TypeR, Live
<1>2. CASE phase[j] = "waiting" \/ todo[j] = <<>>
  BY <1>1, <1>2 DEF Run!CanStep, Run!CanControl
<1>3. CASE phase[j] = "running" /\ todo[j] # <<>>
  <2>1. todo[j][1] \in Code
    BY <1>1, <1>3
  <2>2. todo[j][1][1] \in {"call", "spawn", "sync", "do"}
    BY <2>1 DEF Code
  <2>3. \E op \in {"call", "spawn", "sync", "do"} : Run!At(j, op)
    BY <1>3, <2>2 DEF Run!At
  <2>4. Run!At(j, "spawn") => phase[Run!Arg(j)] = "none"
    BY SpawnIsNew DEF Live
  <2> QED BY <2>3, <2>4 DEF Run!CanStep, Run!CanControl, Run!Ready
<1> QED BY <1>1, <1>2, <1>3

\* As long as there is a job, one of them has no children.
LEMMA SomeJobGoesOn ==
  ASSUME RInv, TreeInv, NEW j \in Jobs, Live(j)
  PROVE  Run!CanStep
<1> DEFINE A == {d \in Nat : (\E i \in Jobs : Live(i) /\ Height(i) <= d) => Run!CanStep}
<1>1. \A i \in Jobs : Live(i) => Height(i) \in Nat
  BY JobFacts
<1>2. \A i \in Jobs : \A k \in Kids(i) : k \in Jobs /\ Live(k) /\ Height(k) < Height(i)
  BY NullAssumption DEF TreeInv, Kids, Live
<1>3. 0 \in A
  <2> SUFFICES ASSUME NEW i \in Jobs, Live(i), Height(i) <= 0 PROVE Run!CanStep
    OBVIOUS
  <2>1. Kids(i) = {}
    BY <1>1, <1>2
  <2> QED BY <2>1, LeafGoesOn
<1>4. \A d \in Nat : d \in A => d + 1 \in A
  <2> SUFFICES ASSUME NEW d \in Nat, d \in A, NEW i \in Jobs, Live(i), Height(i) <= d + 1
               PROVE  Run!CanStep
    OBVIOUS
  <2>1. CASE Kids(i) = {}
    BY <2>1, LeafGoesOn
  <2>2. CASE Kids(i) # {}
    <3>1. PICK k \in Jobs : Live(k) /\ Height(k) < Height(i)
      BY <1>2, <2>2
    <3>2. Height(k) <= d
      BY <1>1, <3>1
    <3> QED BY <3>1, <3>2
  <2> QED BY <2>1, <2>2
<1> HIDE DEF A
<1>5. \A d \in Nat : d \in A
  BY <1>3, <1>4, LUB!SetInduction
<1>6. Height(j) \in A /\ Height(j) <= Height(j)
  BY <1>1, <1>5
<1> QED BY <1>6 DEF A

\* Until gregor_main returns something can be done.
LEMMA TreeNobodyStuck == ASSUME RInv, TreeInv PROVE NobodyStuck
<1> SUFFICES ASSUME main # "returned" PROVE Run!CanStep
  BY DEF NobodyStuck
<1>1. main \in {"idle", "running", "done"} /\ program \in Jobs
  BY MainIsJob DEF RInv, TypeR
<1>2. CASE main = "idle"
  BY <1>1, <1>2 DEF RInv, Live, Run!CanStep
<1>3. CASE main = "running"
  BY <1>1, <1>3, SomeJobGoesOn DEF TreeInv
<1>4. CASE main = "done"
  BY <1>4 DEF Run!CanStep
<1> QED BY <1>1, <1>2, <1>3, <1>4

\* The tree grows at its leaves and shrinks there.
LEMMA SpawnKeepsTree ==
  ASSUME RInv, TreeInv, NEW j \in Jobs, Run!SpawnRoutine(j)
  PROVE  TreeInv'
<1>0. PICK k : k = Run!Arg(j)
  OBVIOUS
<1>1. /\ phase[k] = "none" /\ phase' = [phase EXCEPT ![k] = "running"]
      /\ parent' = [parent EXCEPT ![k] = j] /\ program' = program /\ main' = main
  BY <1>0 DEF Run!SpawnRoutine, Run!FJ!Spawn, Run!FJ!Begin
<1>2. Run!At(j, "spawn") /\ Live(j)
  BY DEF Run!SpawnRoutine, Run!At, Live
<1>3. k \in Jobs /\ ~Live(k) /\ Good(k) /\ Height(k) < Height(j)
  BY <1>0, <1>2, SpawnIsNew
<1>4. program \in Jobs /\ Height(k) \in Nat /\ \A i \in Jobs : Live(i) => Height(i) \in Nat
  BY <1>3, FootFacts, MainIsJob, JobFacts
<1>5. /\ phase \in [Jobs -> {"none", "running", "waiting"}] /\ parent \in [Jobs -> Jobs \cup {NULL}]
  BY DEF RInv, TypeR
<1>6. /\ phase'[k] = "running" /\ parent'[k] = j
      /\ \A m \in Jobs : m # k => phase'[m] = phase[m] /\ parent'[m] = parent[m]
  BY <1>1, <1>3, <1>5
<1>7. \A m \in Jobs : Live(m)' <=> Live(m) \/ m = k
  BY <1>3, <1>6 DEF Live
\* The root lives, as one of its descendants does.
<1>8. Live(program) /\ Height(j) <= Height(program) /\ k # program
  <2>1. main # "idle" /\ main \notin {"done", "returned"}
    BY <1>2, JobFacts DEF TreeInv
  <2>2. Live(program)
    BY <2>1 DEF TreeInv, RInv, TypeR
  <2>3. Height(j) <= Height(program)
    BY <1>2, <1>4, <2>2 DEF TreeInv
  <2> QED BY <1>3, <2>2, <2>3
<1>9. \A m \in Jobs : Live(m)' /\ m # program =>
        /\ parent'[m] \in Jobs /\ Live(parent[m])'
        /\ Height(m) < Height(parent'[m]) /\ Height(m) < Height(program)
  <2> SUFFICES ASSUME NEW m \in Jobs, Live(m)', m # program
               PROVE  \E p \in Jobs : /\ parent'[m] = p /\ Live(p)'
                                      /\ Height(m) < Height(p) /\ Height(m) < Height(program)
    BY DEF Live
  <2>1. CASE m = k
    <3>1. Live(j)' /\ Height(k) < Height(program)
      BY <1>2, <1>3, <1>4, <1>7, <1>8
    <3> QED BY <1>3, <1>6, <2>1, <3>1
  <2>2. CASE m # k
    <3>1. Live(m) /\ parent'[m] = parent[m]
      BY <1>6, <1>7, <2>2
    <3>2. PICK p \in Jobs : parent[m] = p /\ Live(p) /\ Height(m) < Height(p) /\ Height(m) < Height(program)
      BY <3>1 DEF TreeInv
    <3> QED BY <1>7, <3>1, <3>2
  <2> QED BY <2>1, <2>2
<1> QED BY <1>1, <1>6, <1>7, <1>8, <1>9, <1>2 DEF TreeInv, Live

\* A job that ends has no children; when it is the main job it is the last.
LEMMA FinishKeepsTree ==
  ASSUME RInv, TreeInv, NEW j \in Jobs, Run!Finish(j)
  PROVE  TreeInv'
<1>1. /\ phase[j] = "running" /\ Kids(j) = {} /\ Live(j)
      /\ phase' = [phase EXCEPT ![j] = "none"] /\ parent' = [parent EXCEPT ![j] = NULL]
      /\ main' = IF parent[j] = NULL THEN "done" ELSE main
      /\ program' = program
  BY SameKids DEF Run!Finish, Run!FJ!Leave, Live
<1>2. /\ phase \in [Jobs -> {"none", "running", "waiting"}] /\ parent \in [Jobs -> Jobs \cup {NULL}]
      /\ program \in Jobs
  BY MainIsJob DEF RInv, TypeR
<1>3. phase'[j] = "none" /\ \A m \in Jobs : m # j => phase'[m] = phase[m] /\ parent'[m] = parent[m]
  BY <1>1, <1>2
<1>4. \A m \in Jobs : Live(m)' <=> Live(m) /\ m # j
  BY <1>3 DEF Live
<1>5. \A m \in Jobs : Live(m)' /\ m # program =>
        /\ parent'[m] \in Jobs /\ Live(parent[m])'
        /\ Height(m) < Height(parent'[m]) /\ Height(m) < Height(program)
  <2> SUFFICES ASSUME NEW m \in Jobs, Live(m)', m # program
               PROVE  \E p \in Jobs : /\ parent'[m] = p /\ Live(p)'
                                      /\ Height(m) < Height(p) /\ Height(m) < Height(program)
    BY DEF Live
  <2>1. Live(m) /\ m # j /\ parent'[m] = parent[m]
    BY <1>3, <1>4
  <2>2. PICK p \in Jobs : parent[m] = p /\ Live(p) /\ Height(m) < Height(p) /\ Height(m) < Height(program)
    BY <2>1 DEF TreeInv
  <2>3. p # j
    BY <1>1, <2>1, <2>2 DEF Kids, Live
  <2> QED BY <1>4, <2>1, <2>2, <2>3
<1>6. CASE j = program
  <2>1. main' = "done"
    BY <1>1, <1>6 DEF TreeInv
  <2>2. \A m \in Jobs : ~Live(m)'
    BY <1>1, <1>4, <1>6, Alone
  <2> QED BY <1>1, <1>2, <1>5, <2>1, <2>2 DEF TreeInv
<1>7. CASE j # program
  <2>1. parent[j] # NULL
    BY <1>1, <1>7, NullAssumption DEF TreeInv
  <2>2. main' = main /\ main \notin {"done", "returned"}
    BY <1>1, <2>1 DEF TreeInv
  <2>3. Live(program)' <=> Live(program)
    BY <1>1, <1>2, <1>4, <1>7 DEF Live
  <2>4. parent'[program] = parent[program]
    BY <1>2, <1>3, <1>7
  <2> QED BY <1>1, <1>2, <1>5, <2>2, <2>3, <2>4 DEF TreeInv
<1> QED BY <1>6, <1>7

\* The main job becomes the root.
LEMMA StartKeepsTree ==
  ASSUME RInv, TreeInv, Run!StartMain
  PROVE  TreeInv'
<1>1. /\ main = "idle" /\ main' = "running" /\ program' = program
      /\ phase' = [phase EXCEPT ![program] = "running"] /\ parent' = [parent EXCEPT ![program] = NULL]
  BY DEF Run!StartMain, Run!FJ!Start, Run!FJ!Begin
<1>2. /\ phase \in [Jobs -> {"none", "running", "waiting"}] /\ parent \in [Jobs -> Jobs \cup {NULL}]
      /\ program \in Jobs /\ \A j \in Jobs : ~Live(j)
  BY <1>1, MainIsJob DEF RInv, TypeR
<1>3. /\ phase'[program] = "running" /\ parent'[program] = NULL
      /\ \A m \in Jobs : m # program => phase'[m] = phase[m]
  BY <1>1, <1>2
<1>4. \A m \in Jobs : Live(m)' => m = program
  BY <1>2, <1>3 DEF Live
<1> QED BY <1>1, <1>3, <1>4 DEF TreeInv, Live

\* In the beginning there are no jobs.
LEMMA InitTree == ASSUME Init PROVE TreeInv
<1>1. phase = [j \in Jobs |-> "none"] /\ main = "idle" /\ program \in Jobs
  BY DEF Init, Run!Init, Run!FJ!Init, Jobs
<1> QED BY <1>1 DEF TreeInv, Live

\* The other steps of a job change neither its life nor its parent.
LEMMA NextTree == ASSUME RInv, TreeInv, [Next]_(Run!vars) PROVE TreeInv'
<1>1. /\ phase \in [Jobs -> {"none", "running", "waiting"}] /\ program \in Jobs
  BY MainIsJob DEF RInv, TypeR
<1>2. ASSUME program' = program, parent' = parent, main' = main \/ (main = "done" /\ main' = "returned"),
             \A m \in Jobs : Live(m)' <=> Live(m)
      PROVE  TreeInv'
  <2>1. Live(program)' <=> Live(program)
    BY <1>1, <1>2 DEF Live
  <2>2. \A m \in Jobs : Live(m)' /\ m # program =>
          /\ parent'[m] \in Jobs /\ Live(parent[m])'
          /\ Height(m) < Height(parent'[m]) /\ Height(m) < Height(program)
    <3> SUFFICES ASSUME NEW m \in Jobs, Live(m)', m # program
                 PROVE  \E p \in Jobs : /\ parent'[m] = p /\ Live(p)'
                                        /\ Height(m) < Height(p) /\ Height(m) < Height(program)
      BY DEF Live
    <3>1. PICK p \in Jobs : parent[m] = p /\ Live(p) /\ Height(m) < Height(p) /\ Height(m) < Height(program)
      BY <1>2 DEF TreeInv
    <3> QED BY <1>2, <3>1
  <2> QED BY <1>2, <2>1, <2>2 DEF TreeInv
<1>3. CASE Run!StartMain
  BY <1>3, StartKeepsTree
<1>4. CASE Run!ReturnMain
  <2>1. /\ program' = program /\ phase' = phase /\ parent' = parent /\ main = "done" /\ main' = "returned"
    BY <1>4 DEF Run!ReturnMain, Run!FJ!MainReturn
  <2> QED BY <1>2, <2>1 DEF Live
<1>5. ASSUME NEW j \in Jobs, Run!ControlStep(j) \/ Run!DoPiece(j) PROVE TreeInv'
  <2>1. CASE Run!CallRoutine(j) \/ Run!DoPiece(j)
    <3>1. program' = program /\ phase' = phase /\ parent' = parent /\ main' = main
      BY <2>1 DEF Run!CallRoutine, Run!DoPiece
    <3> QED BY <1>2, <3>1 DEF Live
  <2>2. CASE Run!EnterSync(j) \/ Run!LeaveSync(j)
    <3>1. /\ program' = program /\ parent' = parent /\ main' = main /\ phase[j] # "none"
          /\ \E f \in {"running", "waiting"} : phase' = [phase EXCEPT ![j] = f]
      BY <2>2 DEF Run!EnterSync, Run!LeaveSync, Run!FJ!Sync, Run!FJ!SyncReturn
    <3> QED BY <1>1, <1>2, <3>1 DEF Live
  <2> QED BY <1>5, <2>1, <2>2, SpawnKeepsTree, FinishKeepsTree DEF Run!ControlStep
<1>6. CASE UNCHANGED Run!vars
  <2>1. program' = program /\ phase' = phase /\ parent' = parent /\ main' = main
    BY <1>6 DEF Run!vars
  <2> QED BY <1>2, <2>1 DEF Live
<1> QED BY <1>3, <1>4, <1>5, <1>6 DEF Next, Run!Next

\* The jobs of gregor_main form a tree under the main job.  The main job lives while the main
\* of the runtime runs, and no job lives once it is done.  Any other live job was spawned by
\* a job that lives still and whose call is the larger one, so that the jobs above it end in
\* the main job.
THEOREM JobsFormTree == Spec => []TreeInv
<1>1. Init => RInv /\ TreeInv
  BY InitRInv, InitTree
<1>2. RInv /\ TreeInv /\ [Next]_(Run!vars) => (RInv /\ TreeInv)'
  BY NextRInv, NextTree
<1> QED BY <1>1, <1>2, PTL DEF Spec, Run!Spec, Init, Next

\* Some job can always go on until gregor_main returns: jobs that wait for their children
\* never wait for each other, and no call is spawned while a job of that name runs.
THEOREM NeverStuck == Spec => []NobodyStuck
<1>1. RInv /\ TreeInv => NobodyStuck
  BY TreeNobodyStuck
<1> QED BY <1>1, JobsApart, JobsFormTree, PTL
-----------------------------------------------------------------------------
(* The Fibonacci numbers *)

\* Fibonacci up to m.
FibUpto(f, m) == [d \in 0..m |-> IF d < 2 THEN d ELSE f[d - 1] + f[d - 2]]

\* Fibonacci is a function, and so has the values its definition says.
LEMMA FibonacciDef ==
  \A m \in Nat : /\ Sums!Fibonacci[m] \in Nat
                 /\ m < 2 => Sums!Fibonacci[m] = m
                 /\ ~(m < 2) => Sums!Fibonacci[m] = Sums!Fibonacci[m - 1] + Sums!Fibonacci[m - 2]
<1> DEFINE Round(f, d) == IF d < 2 THEN d ELSE f[d - 1] + f[d - 2]
           S == {m \in Nat : \E f : f = FibUpto(f, m)}
<1>1. 0 \in S
  <2> DEFINE f == [d \in 0..0 |-> d]
  <2>1. f = FibUpto(f, 0)
    BY DEF FibUpto
  <2> QED BY <2>1
<1>2. \A m \in Nat : m \in S => m + 1 \in S
  <2> SUFFICES ASSUME NEW m \in Nat, m \in S PROVE \E g : g = FibUpto(g, m + 1)
    OBVIOUS
  <2>1. PICK f : f = FibUpto(f, m)
    OBVIOUS
  <2> DEFINE g == [d \in 0..m + 1 |-> IF d = m + 1 THEN Round(f, d) ELSE f[d]]
  <2>2. \A d \in 0..m : f[d] = Round(f, d)
    BY <2>1 DEF FibUpto
  <2>3. \A d \in 0..m + 1 : g[d] = Round(g, d)
    <3> SUFFICES ASSUME NEW d \in 0..m + 1 PROVE g[d] = Round(g, d)
      OBVIOUS
    <3>1. ~(d < 2) => d - 1 \in 0..m /\ d - 2 \in 0..m /\ g[d - 1] = f[d - 1] /\ g[d - 2] = f[d - 2]
      OBVIOUS
    <3>2. Round(g, d) = Round(f, d)
      BY <3>1
    <3>3. CASE d = m + 1
      BY <3>2, <3>3
    <3>4. CASE d # m + 1
      <4>1. d \in 0..m
        BY <3>4
      <4> QED BY <2>2, <3>2, <3>4, <4>1
    <3> QED BY <3>3, <3>4
  <2>4. g = FibUpto(g, m + 1)
    <3>1. g = [d \in 0..m + 1 |-> g[d]]
      OBVIOUS
    <3> HIDE DEF g
    <3> QED BY <2>3, <3>1 DEF FibUpto
  <2> QED BY <2>4
<1> HIDE DEF S
<1>3. \A m \in Nat : m \in S
  BY <1>1, <1>2, LUB!SetInduction
<1>4. \A m \in Nat : \E f : f = FibUpto(f, m)
  BY <1>3 DEF S
\* Two of them agree.
<1>5. ASSUME NEW m \in Nat, NEW k \in Nat, NEW f, NEW g, f = FibUpto(f, m), g = FibUpto(g, k)
      PROVE  \A d \in Nat : d <= m /\ d <= k => f[d] = g[d]
  <2> DEFINE A == {c \in Nat : \A d \in 0..c : d <= m /\ d <= k => f[d] = g[d]}
  <2>1. \A d \in 0..m : f[d] = Round(f, d)
    BY <1>5 DEF FibUpto
  <2>2. \A d \in 0..k : g[d] = Round(g, d)
    BY <1>5 DEF FibUpto
  <2>3. 0 \in A
    BY <2>1, <2>2
  <2>4. \A c \in Nat : c \in A => c + 1 \in A
    <3> SUFFICES ASSUME NEW c \in Nat, c \in A, NEW d \in 0..c + 1, d <= m, d <= k PROVE f[d] = g[d]
      OBVIOUS
    <3>1. ~(d < 2) => f[d - 1] = g[d - 1] /\ f[d - 2] = g[d - 2]
      OBVIOUS
    <3>2. d \in 0..m /\ d \in 0..k
      OBVIOUS
    <3>3. Round(f, d) = Round(g, d)
      BY <3>1
    <3> HIDE DEF Round
    <3> QED BY <2>1, <2>2, <3>2, <3>3
  <2> HIDE DEF A
  <2>5. \A c \in Nat : c \in A
    BY <2>3, <2>4, LUB!SetInduction
  <2>6. \A d \in Nat : d \in 0..d
    OBVIOUS
  <2> QED BY <2>5, <2>6 DEF A
<1> DEFINE Up(m) == CHOOSE f : f = FibUpto(f, m)
           F == [d \in Nat |-> Up(d)[d]]
<1>6. \A m \in Nat : Up(m) = FibUpto(Up(m), m)
  BY <1>4
<1> HIDE DEF Up
<1>7. \A d \in Nat : F[d] = Round(F, d)
  <2> TAKE d \in Nat
  <2>1. Up(d)[d] = Round(Up(d), d)
    <3>1. \A i \in 0..d : FibUpto(Up(d), d)[i] = Round(Up(d), i)
      BY DEF FibUpto
    <3>2. d \in 0..d
      OBVIOUS
    <3> HIDE DEF Round
    <3> QED BY <1>6, <3>1, <3>2
  <2>2. \A e \in Nat : e <= d => Up(d)[e] = F[e]
    <3> TAKE e \in Nat
    <3> SUFFICES ASSUME e <= d PROVE Up(d)[e] = Up(e)[e]
      OBVIOUS
    <3>1. e <= e
      OBVIOUS
    <3> QED BY <1>5, <1>6, <3>1
  <2>3. ~(d < 2) => d - 1 \in Nat /\ d - 2 \in Nat /\ d - 1 <= d /\ d - 2 <= d
    OBVIOUS
  <2>4. F[d] = Up(d)[d]
    OBVIOUS
  <2> HIDE DEF F
  <2> QED BY <2>1, <2>2, <2>3, <2>4
<1>8. F = [d \in Nat |-> IF d < 2 THEN d ELSE F[d - 1] + F[d - 2]]
  <2>1. F = [d \in Nat |-> F[d]]
    OBVIOUS
  <2> HIDE DEF F
  <2> QED BY <1>7, <2>1
<1> HIDE DEF F
<1> DEFINE G == Sums!Fibonacci
<1>9. G = [d \in Nat |-> IF d < 2 THEN d ELSE G[d - 1] + G[d - 2]]
  BY <1>8 DEF Sums!Fibonacci
<1> HIDE DEF G
<1>10. \A d \in Nat : G[d] = Round(G, d)
  BY <1>9
<1> DEFINE A == {c \in Nat : \A d \in 0..c : G[d] \in Nat}
<1>11. 0 \in A
  BY <1>10
<1>12. \A c \in Nat : c \in A => c + 1 \in A
  <2> SUFFICES ASSUME NEW c \in Nat, c \in A, NEW d \in 0..c + 1 PROVE G[d] \in Nat
    OBVIOUS
  <2>1. ~(d < 2) => G[d - 1] \in Nat /\ G[d - 2] \in Nat
    OBVIOUS
  <2> QED BY <1>10, <2>1
<1> HIDE DEF A
<1>13. \A c \in Nat : c \in A
  BY <1>11, <1>12, LUB!SetInduction
<1>14. \A d \in Nat : G[d] \in Nat
  <2>1. \A d \in Nat : d \in 0..d
    OBVIOUS
  <2> QED BY <1>13, <2>1 DEF A
<1> QED BY <1>10, <1>14 DEF G
-----------------------------------------------------------------------------
(* The results of the jobs of fib_test.  g_main is taken as the call for   *)
(* Arg0 + 1 with the slot <<>>, that spawns the first of its two calls.    *)

FibMain == <<"fib_test", <<"g_main">>>>

\* The argument and the slot of a job.
Num(j) == IF j = FibMain THEN Arg0 + 1 ELSE j[2][1]
Slot(j) == IF j = FibMain THEN <<>> ELSE j[2][2]

\* The calls it makes.
Parts(j) == IF j = FibMain THEN {1} ELSE IF Num(j) < 2 THEN {} ELSE {1, 2}
Kid(j, a) == <<"fib_test", <<Num(j) - a, Slot(j) \o <<a>>>>>>

\* What it computes.
Result(j) == Sums!Fibonacci[IF j = FibMain THEN Arg0 ELSE Num(j)]

\* Its instructions.
SpawnOf(j, a) == <<"spawn", Kid(j, a)>>
Join == <<"sync", <<"fib_test", 0>>>>
Piece(j) == <<"do", <<"fib_test", IF j = FibMain THEN <<"print", <<>>>>
                                  ELSE IF Num(j) < 2 THEN <<"return", Slot(j), Num(j)>>
                                  ELSE <<"add", Slot(j)>>>>>>

\* The result of its call a is there, or that call is still running.
Stored(j, a) == store[Slot(j) \o <<a>>] = Sums!Fibonacci[Num(j) - a]
Coming(j, a) == Stored(j, a) \/ Kid(j, a) \in Kids(j)

\* How far a job has come.
Stage(j) ==
  \/ todo[j] = <<>> /\ phase[j] = "running" /\ store[Slot(j)] = Result(j)
  \/ todo[j] = <<Piece(j)>> /\ phase[j] = "running" /\ Kids(j) = {} /\ \A a \in Parts(j) : Stored(j, a)
  \/ todo[j] = <<Piece(j)>> /\ phase[j] = "waiting" /\ \A a \in Parts(j) : Coming(j, a)
  \/ todo[j] = <<Join, Piece(j)>> /\ phase[j] = "running" /\ \A a \in Parts(j) : Coming(j, a)
  \/ /\ todo[j] = <<SpawnOf(j, 2), Join, Piece(j)>> /\ phase[j] = "running"
     /\ Parts(j) = {1, 2} /\ Coming(j, 1)
  \/ /\ todo[j] = <<SpawnOf(j, 1), Join, Piece(j)>> /\ phase[j] = "running"
     /\ Parts(j) = {1}
  \/ /\ todo[j] = <<SpawnOf(j, 1), SpawnOf(j, 2), Join, Piece(j)>> /\ phase[j] = "running"
     /\ Parts(j) = {1, 2}

\* A job was spawned by a job that still runs.
Lineage(j) ==
  IF j = FibMain THEN parent[j] = NULL
  ELSE \E i \in Jobs : Live(i) /\ parent[j] = i /\ \E a \in Parts(i) : j = Kid(i, a)

FibInv ==
  /\ store \in [Sums!Slots -> Nat \cup {NULL}]
  /\ \A j \in Jobs : Live(j) => Stage(j) /\ Lineage(j)
  /\ \A j, k \in Jobs : Live(j) /\ Live(k) /\ j # k => Slot(j) # Slot(k)
  /\ main \in {"done", "returned"} =>
       (\A j \in Jobs : ~Live(j)) /\ store[<<>>] = Sums!Fibonacci[Arg0]

\* The slot of a local variable, which belongs to one job.
Local(s, a) == s \o <<a>>

\* Slots of different jobs, and of different results of a job, are different.
LEMMA SlotInj ==
  ASSUME NEW s \in Sums!Slots, NEW t \in Sums!Slots, NEW a, NEW b, Local(s, a) = Local(t, b)
  PROVE  s = t /\ a = b
<1>1. s \in Seq({1, 2}) /\ t \in Seq({1, 2})
  BY SlotFacts
<1> DEFINE x == s \o <<a>>  y == t \o <<b>>
<1>2. /\ Len(s) \in Nat /\ Len(t) \in Nat /\ Len(x) = Len(s) + 1 /\ Len(y) = Len(t) + 1
      /\ x[Len(s) + 1] = a /\ y[Len(t) + 1] = b
      /\ \A i \in 1..Len(s) : x[i] = s[i]
      /\ \A i \in 1..Len(t) : y[i] = t[i]
  BY <1>1
<1>3. x = y
  BY DEF Local
<1> HIDE DEF x, y
<1>4. Len(s) = Len(t) /\ a = b
  BY <1>2, <1>3
<1>5. \A i \in 1..Len(s) : s[i] = t[i]
  BY <1>2, <1>3, <1>4
<1>6. s = [i \in 1..Len(s) |-> s[i]] /\ t = [i \in 1..Len(t) |-> t[i]]
  BY <1>1
<1> QED BY <1>4, <1>5, <1>6

\* The calls of fib_test.
FibJob(j) == Good(j) /\ j[1] = "fib_test"

\* The number, the slot and the children of a job of fib.
LEMMA JobShape ==
  ASSUME NEW j, FibJob(j)
  PROVE  /\ Num(j) \in Nat /\ Slot(j) \in Sums!Slots /\ Num(j) + Len(Slot(j)) <= Arg0 + 1
         /\ j = FibMain => Num(j) = Arg0 + 1 /\ Slot(j) = <<>> /\ Parts(j) = {1}
         /\ j # FibMain => /\ Slot(j) # <<>> /\ j = <<"fib_test", <<Num(j), Slot(j)>>>>
                           /\ j[2] # <<"g_main">>
                           /\ Parts(j) = IF Num(j) < 2 THEN {} ELSE {1, 2}
<1>1. j = <<"fib_test", j[2]>> /\ GoodFib(j[2]) /\ Arg0 \in Nat
  BY SlotFacts DEF FibJob, Good
<1>2. CASE j[2] = <<"g_main">>
  <2>1. j = FibMain
    BY <1>1, <1>2 DEF FibMain
  <2>2. <<>> \in Sums!Slots
    <3>1. <<>> \in Seq({1, 2}) /\ Len(<<>>) <= Arg0 + 1
      BY <1>1
    <3> QED BY <3>1, SlotFacts
  <2> QED BY <1>1, <2>1, <2>2 DEF Num, Slot, Parts
<1>3. CASE j[2] # <<"g_main">>
  <2>1. PICK m \in Nat, s \in Sums!Slots : s # <<>> /\ m + Len(s) <= Arg0 + 1 /\ j[2] = <<m, s>>
    BY <1>1, <1>3 DEF GoodFib
  <2>2. j # FibMain
    BY <1>1, <1>3 DEF FibMain
  <2>3. Num(j) = m /\ Slot(j) = s
    BY <2>1, <2>2 DEF Num, Slot
  <2>4. Parts(j) = IF Num(j) < 2 THEN {} ELSE {1, 2}
    BY <2>2 DEF Parts
  <2> QED BY <1>1, <1>3, <2>1, <2>2, <2>3, <2>4
<1> QED BY <1>2, <1>3

\* A child of a job of fib.
LEMMA KidShape ==
  ASSUME NEW j, FibJob(j), NEW a \in Parts(j)
  PROVE  /\ a \in {1, 2} /\ Num(j) - a \in Nat /\ Slot(j) \o <<a>> \in Sums!Slots
         /\ Kid(j, a) # FibMain /\ Num(Kid(j, a)) = Num(j) - a /\ Slot(Kid(j, a)) = Slot(j) \o <<a>>
         /\ Result(Kid(j, a)) = Sums!Fibonacci[Num(j) - a]
<1> DEFINE s == Slot(j)  m == Num(j)
<1>1. /\ m \in Nat /\ s \in Sums!Slots /\ m + Len(s) <= Arg0 + 1 /\ a \in {1, 2} /\ a <= m
      /\ Arg0 \in Nat /\ Len(s) \in Nat
  <2>1. Arg0 \in Nat /\ Len(s) \in Nat
    BY JobShape, SlotFacts
  <2> QED BY <2>1, JobShape
<1> DEFINE k == Kid(j, a)
<1>2. s \o <<a>> \in Sums!Slots
  <2>1. Len(s) <= Arg0
    BY <1>1
  <2> HIDE DEF s, m
  <2> QED BY <1>1, <2>1, LocalSlot
<1>3. k = <<"fib_test", <<m - a, s \o <<a>>>>>>
  BY DEF Kid
<1> HIDE DEF k, s, m
<1>4. k # FibMain
  BY <1>3 DEF FibMain
<1>5. Num(k) = m - a /\ Slot(k) = s \o <<a>>
  BY <1>3, <1>4 DEF Num, Slot
<1>6. Result(k) = Sums!Fibonacci[m - a]
  BY <1>4, <1>5 DEF Result
<1> QED BY <1>1, <1>2, <1>4, <1>5, <1>6 DEF k, s, m

\* The code of a call, in terms of its parts.
LEMMA FibBody ==
  ASSUME NEW j, FibJob(j)
  PROVE  /\ Parts(j) = {} => Body(j) = <<Piece(j)>>
         /\ Parts(j) = {1} => Body(j) = <<SpawnOf(j, 1), Join, Piece(j)>>
         /\ Parts(j) = {1, 2} => Body(j) = <<SpawnOf(j, 1), SpawnOf(j, 2), Join, Piece(j)>>
<1>1. Body(j) = Tag("fib_test", Sums!Body(j[2]))
  BY DEF FibJob, Body, Tag
<1>2. {1} # {1, 2} /\ {} # {1} /\ {} # {1, 2}
  <2>1. 2 \notin {1} /\ 2 \in {1, 2} /\ 1 \in {1} /\ 1 \notin {}
    OBVIOUS
  <2> QED BY <2>1
<1>3. CASE j = FibMain
  <2>1. Arg0 \in Nat /\ (Arg0 + 1) - 1 = Arg0
    BY SlotFacts
  <2>2. SpawnOf(j, 1) = <<"spawn", <<"fib_test", <<Arg0, <<1>>>>>>>>
    BY <1>3, <2>1 DEF SpawnOf, Kid, Num, Slot
  <2>3. Piece(j) = <<"do", <<"fib_test", <<"print", <<>>>>>>>>
    BY <1>3 DEF Piece
  <2>4. Sums!Body(j[2]) = <<<<"spawn", <<Arg0, <<1>>>>>>, <<"sync", 0>>, <<"do", <<"print", <<>>>>>>>>
    BY <1>3 DEF Sums!Body, Sums!g_main, FibMain
  <2>5. Body(j) = <<SpawnOf(j, 1), Join, Piece(j)>>
    BY <1>1, <2>2, <2>3, <2>4 DEF Tag, Join
  <2> QED BY <1>2, <1>3, <2>5 DEF Parts
<1>4. CASE j # FibMain /\ Num(j) < 2
  <2>1. Sums!Body(j[2]) = Sums!fib(Num(j), Slot(j))
    BY <1>4, JobShape DEF Sums!Body, Num, Slot
  <2>2. Sums!Body(j[2]) = <<<<"do", <<"return", Slot(j), Num(j)>>>>>>
    BY <1>4, <2>1 DEF Sums!fib
  <2>3. Piece(j) = <<"do", <<"fib_test", <<"return", Slot(j), Num(j)>>>>>>
    BY <1>4 DEF Piece
  <2>4. Body(j) = <<Piece(j)>>
    BY <1>1, <2>2, <2>3 DEF Tag
  <2> QED BY <1>2, <1>4, <2>4 DEF Parts
<1>5. CASE j # FibMain /\ ~(Num(j) < 2)
  <2>1. Sums!Body(j[2]) = Sums!fib(Num(j), Slot(j))
    BY <1>5, JobShape DEF Sums!Body, Num, Slot
  <2>2. Sums!Body(j[2]) = <<<<"spawn", <<Num(j) - 1, Slot(j) \o <<1>>>>>>,
                            <<"spawn", <<Num(j) - 2, Slot(j) \o <<2>>>>>>,
                            <<"sync", 0>>, <<"do", <<"add", Slot(j)>>>>>>
    BY <1>5, <2>1 DEF Sums!fib
  <2>3. /\ SpawnOf(j, 1) = <<"spawn", <<"fib_test", <<Num(j) - 1, Slot(j) \o <<1>>>>>>>>
        /\ SpawnOf(j, 2) = <<"spawn", <<"fib_test", <<Num(j) - 2, Slot(j) \o <<2>>>>>>>>
    BY DEF SpawnOf, Kid
  <2>4. Piece(j) = <<"do", <<"fib_test", <<"add", Slot(j)>>>>>>
    BY <1>5 DEF Piece
  <2> DEFINE a == <<Num(j) - 1, Slot(j) \o <<1>>>>  b == <<Num(j) - 2, Slot(j) \o <<2>>>>
             c == <<"add", Slot(j)>>
  <2>5. Body(j) = Tag("fib_test", <<<<"spawn", a>>, <<"spawn", b>>, <<"sync", 0>>, <<"do", c>>>>)
    BY <1>1, <2>2
  <2>6. /\ SpawnOf(j, 1) = <<"spawn", <<"fib_test", a>>>> /\ SpawnOf(j, 2) = <<"spawn", <<"fib_test", b>>>>
        /\ Piece(j) = <<"do", <<"fib_test", c>>>>
    BY <2>3, <2>4
  <2> HIDE DEF a, b, c
  <2>7. Body(j) = <<SpawnOf(j, 1), SpawnOf(j, 2), Join, Piece(j)>>
    BY <2>5, <2>6 DEF Tag, Join
  <2> QED BY <1>2, <1>5, <2>7 DEF Parts
<1> QED BY <1>3, <1>4, <1>5

\* Any two calls of a job differ in their slots, and so do those of two jobs.
LEMMA LiveFib ==
  ASSUME RInv, program[1] = "fib_test", NEW j \in Jobs, Live(j)
  PROVE  FibJob(j)
  BY DEF RInv, JobOK, FibJob

\* A job whose slot is one of the results of another job is its child.
LEMMA SameKid ==
  ASSUME RInv, FibInv, program[1] = "fib_test", NEW j \in Jobs, Live(j), NEW i \in Jobs, Live(i),
         NEW a \in Parts(i), Slot(j) = Slot(i) \o <<a>>
  PROVE  j = Kid(i, a)
<1>1. FibJob(i) /\ FibJob(j)
  BY LiveFib
<1>2. j # FibMain
  <2>1. Slot(i) \in Seq({1, 2})
    BY <1>1, JobShape, SlotFacts
  <2>2. Slot(i) \o <<a>> # <<>>
    BY <2>1
  <2> QED BY <1>1, <2>2, JobShape
<1>3. PICK p \in Jobs : Live(p) /\ \E b \in Parts(p) : j = Kid(p, b)
  BY <1>2 DEF FibInv, Lineage
<1> PICK b \in Parts(p) : j = Kid(p, b)
  BY <1>3
<1>4. FibJob(p)
  BY <1>3, LiveFib
<1>5. Slot(j) = Slot(p) \o <<b>>
  BY <1>3, <1>4, KidShape
<1>6. Slot(p) = Slot(i) /\ b = a
  <2> DEFINE s == Slot(p)  t == Slot(i)
  <2>1. s \in Sums!Slots /\ t \in Sums!Slots
    BY <1>1, <1>4, JobShape
  <2>2. Local(s, b) = Local(t, a)
    BY <1>5 DEF Local
  <2> HIDE DEF s, t
  <2>3. s = t /\ b = a
    BY <2>1, <2>2, SlotInj
  <2> QED BY <2>3 DEF s, t
<1>7. p = i
  BY <1>3, <1>6 DEF FibInv
<1> QED BY <1>3, <1>6, <1>7

\* A job that is live has a parent that is, unless it is the main.
LEMMA NoOrphan ==
  ASSUME FibInv, NEW k \in Jobs, ~Live(k)
  PROVE  Kids(k) = {}
<1> SUFFICES ASSUME NEW m \in Kids(k) PROVE FALSE
  OBVIOUS
<1>1. m \in Jobs /\ Live(m) /\ parent[m] = k
  BY DEF Kids, Live
<1>2. Lineage(m) /\ k # NULL
  BY <1>1, NullAssumption DEF FibInv
<1> QED BY <1>1, <1>2 DEF Lineage

\* When the main job has no children, it is the only job.
LEMMA OnlyMain ==
  ASSUME RInv, program[1] = "fib_test", FibMain \in Jobs, Live(FibMain), Kids(FibMain) = {},
         NEW k \in Jobs, Live(k)
  PROVE  k = FibMain
<1> SUFFICES ASSUME k # FibMain PROVE FALSE
  OBVIOUS
<1>1. FibJob(FibMain) /\ FibJob(k)
  BY LiveFib
<1>2. Pair(FibMain, k)
  BY DEF RInv
<1>3. ~Covers(FibMain, k)
  BY DEF Covers
<1>4. FibMain[1] = "fib_test" /\ FibMain[2] = <<"g_main">>
  BY DEF FibMain
<1>5. k[1] = "fib_test" /\ k[2] # <<"g_main">> /\ k[2] = <<Num(k), Slot(k)>> /\ Num(k) \in Nat
  BY <1>1, JobShape DEF FibJob
<1>6. Num(k) <= Arg0 + 1 /\ Arg0 \in Nat
  <2>1. Len(Slot(k)) \in Nat /\ Arg0 \in Nat
    BY <1>1, JobShape, SlotFacts
  <2> QED BY <1>1, <2>1, JobShape
<1>7. ~Apart(FootCall(FibMain), FootCall(k))
  <2>1. FootCall(FibMain) = [w |-> Sums!Slots, u |-> Sums!Slots]
    BY <1>4 DEF FootCall, Lus, Products, FootFib
  <2>2. FootCall(k) = [w |-> Beneath(k[2][2]), u |-> Beneath(k[2][2])]
    BY <1>5 DEF FootCall, Lus, Products, FootFib
  <2>3. FootCall(k).w # {} /\ FootCall(k).w \subseteq Sums!Slots
    <3>1. FootCall(k).w # {}
      BY <1>1, FootFacts DEF FibJob
    <3> QED BY <2>2, <3>1 DEF Beneath
  <2> QED BY <2>1, <2>2, <2>3 DEF Apart
<1>8. ~Covers(k, FibMain)
  <2> SUFFICES ASSUME NEW i \in Kids(k), Between(k, i, FibMain) PROVE FALSE
    BY DEF Covers
  <2>1. i \in Jobs /\ Live(i)
    BY DEF Kids, Live
  <2>2. Height(i) \in Nat
    BY <2>1, JobFacts
  <2>3. Height(FibMain) = Arg0 + 1 /\ Height(k) = Num(k)
    BY <1>4, <1>5 DEF Height, Lus, Products, HeightFib
  <2>4. Height(i) < Height(k) /\ (i = FibMain \/ Height(FibMain) < Height(i))
    BY DEF Between
  <2> QED BY <1>5, <1>6, <2>2, <2>3, <2>4
<1> QED BY <1>2, <1>3, <1>7, <1>8 DEF Pair

\* The stage of a job that does nothing.
LEMMA StageKept ==
  ASSUME NEW i, Stage(i), todo'[i] = todo[i], phase'[i] = phase[i], store'[Slot(i)] = store[Slot(i)],
         \A a \in Parts(i) : (Coming(i, a) => Coming(i, a)') /\ (Stored(i, a) => Stored(i, a)'),
         Kids(i) = {} => Kids(i)' = {}
  PROVE  Stage(i)'
<1>1. Parts(i) = {1, 2} => 1 \in Parts(i)
  BY DEF Parts
<1> QED BY <1>1 DEF Stage

\* What a running job does next.
LEMMA NextOf ==
  ASSUME NEW j, Stage(j), phase[j] = "running", todo[j] # <<>>
  PROVE  /\ todo[j][1][1] # "call"
         /\ todo[j][1][1] = "do" =>
              /\ todo[j][1] = Piece(j) /\ Tail(todo[j]) = <<>>
              /\ \A a \in Parts(j) : Stored(j, a)
         /\ todo[j][1][1] = "sync" =>
              /\ Tail(todo[j]) = <<Piece(j)>>
              /\ \A a \in Parts(j) : Coming(j, a)
         /\ todo[j][1][1] = "spawn" =>
              \E a \in Parts(j) : /\ todo[j][1] = SpawnOf(j, a)
                                  /\ \/ /\ Tail(todo[j]) = <<Join, Piece(j)>>
                                        /\ \A b \in Parts(j) \ {a} : Coming(j, b)
                                     \/ /\ Tail(todo[j]) = <<SpawnOf(j, 2), Join, Piece(j)>>
                                        /\ Parts(j) = {1, 2} /\ a = 1
<1>1. Piece(j)[1] = "do" /\ Join[1] = "sync" /\ \A a : SpawnOf(j, a)[1] = "spawn"
  BY DEF Piece, Join, SpawnOf
<1>2. \A x : Tail(<<x>>) = <<>> /\ <<x>>[1] = x
  OBVIOUS
<1>3. \A x, y : Tail(<<x, y>>) = <<y>> /\ <<x, y>>[1] = x
  OBVIOUS
<1>4. \A x, y, z : Tail(<<x, y, z>>) = <<y, z>> /\ <<x, y, z>>[1] = x
  OBVIOUS
<1>5. \A x, y, z, w : Tail(<<x, y, z, w>>) = <<y, z, w>> /\ <<x, y, z, w>>[1] = x
  OBVIOUS
<1>6. CASE todo[j] = <<Piece(j)>> /\ phase[j] = "running" /\ Kids(j) = {} /\ \A a \in Parts(j) : Stored(j, a)
  BY <1>1, <1>2, <1>6
<1>7. CASE todo[j] = <<Join, Piece(j)>> /\ phase[j] = "running" /\ \A a \in Parts(j) : Coming(j, a)
  BY <1>1, <1>3, <1>7
<1>8. CASE /\ todo[j] = <<SpawnOf(j, 2), Join, Piece(j)>> /\ phase[j] = "running"
           /\ Parts(j) = {1, 2} /\ Coming(j, 1)
  <2>1. 2 \in Parts(j) /\ \A b \in Parts(j) \ {2} : Coming(j, b)
    BY <1>8
  <2> QED BY <1>1, <1>4, <1>8, <2>1
<1>9. CASE todo[j] = <<SpawnOf(j, 1), Join, Piece(j)>> /\ phase[j] = "running" /\ Parts(j) = {1}
  <2>1. 1 \in Parts(j) /\ \A b \in Parts(j) \ {1} : Coming(j, b)
    BY <1>9
  <2> QED BY <1>1, <1>4, <1>9, <2>1
<1>10. CASE /\ todo[j] = <<SpawnOf(j, 1), SpawnOf(j, 2), Join, Piece(j)>> /\ phase[j] = "running"
            /\ Parts(j) = {1, 2}
  <2>1. 1 \in Parts(j)
    BY <1>10
  <2> QED BY <1>1, <1>5, <1>10, <2>1
<1> QED BY <1>6, <1>7, <1>8, <1>9, <1>10 DEF Stage

\* What the piece of code of a job does once the results of its calls are there.
LEMMA PieceStores ==
  ASSUME NEW j, FibJob(j), store \in [Sums!Slots -> Nat \cup {NULL}], \A a \in Parts(j) : Stored(j, a)
  PROVE  Effect(store, Piece(j)[2]) = [store EXCEPT ![Slot(j)] = Result(j)] /\ Result(j) \in Nat
<1> DEFINE i == Piece(j)[2][2]
<1>1. Piece(j)[2][1] = "fib_test" /\ Piece(j)[2][2] = i
  BY DEF Piece
<1>2. Effect(store, Piece(j)[2]) = Sums!Effect(store, i)
  BY <1>1 DEF Effect
<1>3. NULL \notin Nat
  BY NullAssumption
<1>4. CASE j = FibMain
  <2>1. i = <<"print", <<>>>> /\ Slot(j) = <<>> /\ Num(j) = Arg0 + 1 /\ 1 \in Parts(j)
    BY <1>4, JobShape DEF Piece
  <2>2. <<>> \o <<1>> = <<1>> /\ Arg0 + 1 - 1 = Arg0 /\ Arg0 \in Nat
    <3>1. Arg0 \in Nat
      BY SlotFacts
    <3> QED BY <3>1
  <2>3. store[<<1>>] = Sums!Fibonacci[Arg0]
    BY <2>1, <2>2 DEF Stored
  <2>4. Result(j) = Sums!Fibonacci[Arg0]
    BY <1>4 DEF Result
  <2>5. Sums!Effect(store, i) = [store EXCEPT ![<<>>] = store[<<1>>]]
    BY <2>1 DEF Sums!Effect
  <2>6. Result(j) \in Nat
    BY <2>2, <2>4, FibonacciDef
  <2> QED BY <1>2, <2>1, <2>3, <2>4, <2>5, <2>6
<1>5. CASE j # FibMain
  <2> DEFINE m == Num(j)  s == Slot(j)
  <2>1. m \in Nat /\ Result(j) = Sums!Fibonacci[m]
    BY <1>5, JobShape DEF Result
  <2>2. Result(j) \in Nat
    BY <2>1, FibonacciDef
  <2>3. CASE m < 2
    <3>1. i = <<"return", s, m>>
      BY <1>5, <2>3 DEF Piece
    <3>2. Sums!Effect(store, i) = [store EXCEPT ![s] = m]
      BY <3>1 DEF Sums!Effect
    <3> HIDE DEF m, s, i
    <3>3. Result(j) = m
      BY <2>1, <2>3, FibonacciDef
    <3> QED BY <1>2, <2>2, <3>2, <3>3 DEF s
  <2>4. CASE ~(m < 2)
    <3>1. i = <<"add", s>>
      BY <1>5, <2>4 DEF Piece
    <3> DEFINE x == store[s \o <<1>>]  y == store[s \o <<2>>]
    <3>2. Sums!Effect(store, i) = [store EXCEPT ![s] = IF NULL \in {x, y} THEN NULL ELSE x + y]
      BY <3>1 DEF Sums!Effect
    <3>3. 1 \in Parts(j) /\ 2 \in Parts(j)
      BY <1>5, <2>4 DEF Parts
    <3>4. x = Sums!Fibonacci[m - 1] /\ y = Sums!Fibonacci[m - 2]
      BY <3>3 DEF Stored
    <3>5. m - 1 \in Nat /\ m - 2 \in Nat
      BY <2>1, <2>4
    <3> HIDE DEF m, s, x, y, i
    <3>6. x \in Nat /\ y \in Nat
      <4> DEFINE c == m - 1  d == m - 2
      <4>1. c \in Nat /\ d \in Nat /\ x = Sums!Fibonacci[c] /\ y = Sums!Fibonacci[d]
        BY <3>4, <3>5
      <4> HIDE DEF c, d
      <4> QED BY <4>1, FibonacciDef
    <3>7. Result(j) = x + y
      BY <2>1, <2>4, <3>4, FibonacciDef
    <3>8. NULL \notin {x, y}
      BY <1>3, <3>6
    <3> QED BY <1>2, <2>2, <3>2, <3>7, <3>8 DEF s
  <2> QED BY <2>3, <2>4
<1> QED BY <1>4, <1>5

\* The first instruction of the code that is left.
LEMMA HeadIs ==
  ASSUME NEW j, NEW op, Run!At(j, op)
  PROVE  phase[j] = "running" /\ todo[j] # <<>> /\ todo[j][1][1] = op
  BY DEF Run!At

\* The result of a job is written once its children have stored theirs.
LEMMA PieceKeepsFib ==
  ASSUME RInv, FibInv, program[1] = "fib_test", NEW j \in Jobs, Run!DoPiece(j)
  PROVE  FibInv'
<1>1. phase[j] = "running" /\ todo[j] # <<>> /\ todo[j][1][1] = "do" /\ Live(j)
  BY HeadIs DEF Run!DoPiece, Live
<1>2. FibJob(j) /\ Stage(j)
  BY <1>1, LiveFib DEF FibInv
<1>3. todo[j][1] = Piece(j) /\ Tail(todo[j]) = <<>> /\ \A a \in Parts(j) : Stored(j, a)
  BY <1>1, <1>2, NextOf
<1>4. store \in [Sums!Slots -> Nat \cup {NULL}]
  BY DEF FibInv
<1>5. /\ store' = [store EXCEPT ![Slot(j)] = Result(j)] /\ todo' = [todo EXCEPT ![j] = <<>>]
      /\ phase' = phase /\ parent' = parent /\ main' = main
  <2>1. store' = Effect(store, todo[j][1][2]) /\ todo' = [todo EXCEPT ![j] = Tail(@)]
        /\ phase' = phase /\ parent' = parent /\ main' = main
    BY DEF Run!DoPiece, Run!Arg
  <2>2. Effect(store, Piece(j)[2]) = [store EXCEPT ![Slot(j)] = Result(j)]
    BY <1>2, <1>3, <1>4, PieceStores
  <2> QED BY <1>3, <2>1, <2>2
<1>6. /\ Slot(j) \in Sums!Slots /\ Result(j) \in Nat
  BY <1>2, <1>3, <1>4, JobShape, PieceStores
<1>7. /\ store' \in [Sums!Slots -> Nat \cup {NULL}] /\ store'[Slot(j)] = Result(j)
      /\ \A s \in Sums!Slots : s # Slot(j) => store'[s] = store[s]
  BY <1>4, <1>5, <1>6
<1>8. todo'[j] = <<>> /\ \A m \in Jobs : m # j => todo'[m] = todo[m]
  BY <1>5 DEF RInv, TypeR
<1>9. \A m : (Live(m)' <=> Live(m)) /\ Kids(m)' = Kids(m)
  BY <1>5 DEF Live, Kids
\* If the result was one that another job waits for, it is the right one.
<1>10. ASSUME NEW i \in Jobs, Live(i), NEW a \in Parts(i), Stored(i, a) PROVE Stored(i, a)'
  <2> DEFINE s == Slot(i) \o <<a>>
  <2>1. s \in Sums!Slots
    BY <1>10, LiveFib, KidShape
  <2>2. CASE s = Slot(j)
    <3>1. j = Kid(i, a)
      BY <1>1, <1>10, <2>2, SameKid
    <3>2. Result(j) = Sums!Fibonacci[Num(i) - a]
      BY <1>10, <3>1, LiveFib, KidShape
    <3> QED BY <1>7, <2>2, <3>2 DEF Stored
  <2>3. CASE s # Slot(j)
    <3>1. store'[s] = store[s]
      BY <1>7, <2>1, <2>3
    <3> QED BY <1>10, <3>1 DEF Stored
  <2> QED BY <2>2, <2>3
<1>11. ASSUME NEW i \in Jobs, Live(i)' PROVE Stage(i)' /\ Lineage(i)'
  <2>1. Live(i) /\ Stage(i) /\ Lineage(i)
    BY <1>9, <1>11 DEF FibInv
  <2>2. Lineage(i)'
    BY <1>5, <1>9, <2>1 DEF Lineage
  <2>3. CASE i = j
    BY <1>1, <1>5, <1>7, <1>8, <2>2, <2>3 DEF Stage
  <2>4. CASE i # j
    <3>1. Slot(i) \in Sums!Slots /\ Slot(i) # Slot(j)
      BY <1>1, <2>1, <2>4, LiveFib, JobShape DEF FibInv
    <3>2. store'[Slot(i)] = store[Slot(i)] /\ todo'[i] = todo[i] /\ phase'[i] = phase[i]
      BY <1>5, <1>7, <1>8, <2>4, <3>1
    <3>3. \A a \in Parts(i) : (Coming(i, a) => Coming(i, a)') /\ (Stored(i, a) => Stored(i, a)')
      BY <1>9, <1>10, <2>1 DEF Coming
    <3> QED BY <1>9, <2>1, <2>2, <3>2, <3>3, StageKept
  <2> QED BY <2>3, <2>4
<1>12. main' \notin {"done", "returned"}
  BY <1>1, <1>5 DEF FibInv
<1>13. \A i, k \in Jobs : Live(i)' /\ Live(k)' /\ i # k => Slot(i) # Slot(k)
  BY <1>9 DEF FibInv
<1> QED BY <1>7, <1>11, <1>12, <1>13 DEF FibInv

\* A child that is spawned has a slot of its own.
LEMMA SpawnKeepsFib ==
  ASSUME RInv, FibInv, program[1] = "fib_test", NEW j \in Jobs, Run!SpawnRoutine(j)
  PROVE  FibInv'
<1>0. PICK k : k = Run!Arg(j)
  OBVIOUS
<1>1. phase[j] = "running" /\ todo[j] # <<>> /\ todo[j][1][1] = "spawn" /\ Live(j)
  BY HeadIs DEF Run!SpawnRoutine, Live
<1>2. FibJob(j) /\ Stage(j) /\ Slot(j) \in Sums!Slots
  BY <1>1, LiveFib, JobShape DEF FibInv
<1>3. PICK a \in Parts(j) :
        /\ todo[j][1] = SpawnOf(j, a)
        /\ \/ Tail(todo[j]) = <<Join, Piece(j)>> /\ \A b \in Parts(j) \ {a} : Coming(j, b)
           \/ Tail(todo[j]) = <<SpawnOf(j, 2), Join, Piece(j)>> /\ Parts(j) = {1, 2} /\ a = 1
  BY <1>1, <1>2, NextOf
<1>4. k = Kid(j, a)
  BY <1>0, <1>3 DEF Run!Arg, SpawnOf
<1>5. /\ phase[k] = "none" /\ phase' = [phase EXCEPT ![k] = "running"]
      /\ parent' = [parent EXCEPT ![k] = j] /\ main' = main /\ store' = store
      /\ todo' = [todo EXCEPT ![j] = Tail(@), ![k] = Body(k)]
  BY <1>0 DEF Run!SpawnRoutine, Run!FJ!Spawn, Run!FJ!Begin
<1>6. k \in Jobs
  <2>1. CallOK(todo[j][1]) /\ todo[j][1][1] = "spawn" /\ todo[j][1][2] = k
    <3>1. 1 \in DOMAIN todo[j] /\ Left(todo[j], j)
      BY <1>1, JobFacts, TailFacts DEF JobOK
    <3> QED BY <1>0, <1>1, <3>1 DEF Left, Run!Arg
  <2> QED BY <2>1 DEF CallOK
<1>7. k # j /\ ~Live(k)
  BY <1>1, <1>5 DEF Live
<1>8. /\ phase \in [Jobs -> {"none", "running", "waiting"}] /\ todo \in [Jobs -> Seq(Code)]
      /\ parent \in [Jobs -> Jobs \cup {NULL}]
  BY DEF RInv, TypeR
<1> DEFINE t == Tail(todo[j])
<1>9. /\ todo'[j] = t /\ todo'[k] = Body(k) /\ phase'[k] = "running" /\ parent'[k] = j
      /\ \A m \in Jobs : m # k => phase'[m] = phase[m] /\ parent'[m] = parent[m]
      /\ \A m \in Jobs : m # k /\ m # j => todo'[m] = todo[m]
  BY <1>5, <1>6, <1>7, <1>8
<1> HIDE DEF t
<1>10. \A m \in Jobs : Live(m)' <=> Live(m) \/ m = k
  BY <1>6, <1>9 DEF Live
<1>11. \A m \in Jobs : /\ Kids(m) \subseteq Kids(m)'
                       /\ m # j => Kids(m)' = Kids(m)
  BY <1>5, <1>6, <1>9 DEF Kids
<1>12. k \in Kids(j)' /\ Kids(k)' = {}
  <2>1. k \in Kids(j)'
    BY <1>6, <1>9 DEF Kids
  <2> QED BY <1>6, <1>7, <1>11, <2>1, NoOrphan
<1>13. FibJob(k) /\ k # FibMain /\ Slot(k) = Slot(j) \o <<a>>
  <2>1. Live(k)' /\ RInv'
    BY <1>6, <1>10, SpawnKeepsRInv
  <2>2. Good(k)
    BY <1>6, <2>1 DEF RInv, JobOK
  <2>3. k[1] = "fib_test"
    BY <1>4 DEF Kid
  <2> QED BY <1>2, <1>3, <1>4, <2>2, <2>3, KidShape DEF FibJob
<1>14. \A i \in Jobs : \A b : (Stored(i, b) => Stored(i, b)') /\ (Coming(i, b) => Coming(i, b)')
  BY <1>5, <1>11 DEF Stored, Coming
\* The new job is at its start, its parent goes on, the others do nothing.
<1>15. Stage(k)' /\ Lineage(k)'
  <2>1. Parts(k) = {} \/ Parts(k) = {1} \/ Parts(k) = {1, 2}
    BY DEF Parts
  <2>2. Stage(k)'
    BY <1>9, <1>12, <1>13, <2>1, FibBody DEF Stage
  <2>3. Live(j)' /\ j \in Jobs /\ parent'[k] = j
    BY <1>1, <1>9, <1>10
  <2> QED BY <1>3, <1>4, <1>13, <2>2, <2>3 DEF Lineage
<1>16. Stage(j)'
  <2>1. phase'[j] = "running"
    BY <1>1, <1>7, <1>9
  <2>2. Coming(j, a)'
    BY <1>4, <1>12 DEF Coming
  <2>3. CASE t = <<Join, Piece(j)>> /\ \A b \in Parts(j) \ {a} : Coming(j, b)
    <3>1. \A b \in Parts(j) : Coming(j, b)'
      BY <1>14, <2>2, <2>3
    <3> QED BY <1>9, <2>1, <2>3, <3>1 DEF Stage
  <2>4. CASE t = <<SpawnOf(j, 2), Join, Piece(j)>> /\ Parts(j) = {1, 2} /\ a = 1
    BY <1>9, <2>1, <2>2, <2>4 DEF Stage
  <2> QED BY <1>3, <2>3, <2>4 DEF t
<1>17. ASSUME NEW i \in Jobs, Live(i)' PROVE Stage(i)' /\ Lineage(i)'
  <2>1. CASE i = k
    BY <1>15, <2>1
  <2>2. CASE i # k
    <3>1. Live(i) /\ Stage(i) /\ Lineage(i)
      BY <1>10, <1>17, <2>2 DEF FibInv
    <3>2. Lineage(i)'
      BY <1>9, <1>10, <2>2, <3>1 DEF Lineage
    <3>3. CASE i # j
      <4>1. todo'[i] = todo[i] /\ phase'[i] = phase[i] /\ store'[Slot(i)] = store[Slot(i)]
        BY <1>5, <1>9, <2>2, <3>3
      <4> QED BY <1>11, <1>14, <3>1, <3>2, <3>3, <4>1, StageKept
    <3> QED BY <1>16, <3>2, <3>3
  <2> QED BY <2>1, <2>2
<1>18. ASSUME NEW i \in Jobs, Live(i), Slot(i) = Slot(k) PROVE FALSE
  <2>1. Slot(i) = Slot(j) \o <<a>>
    BY <1>13, <1>18
  <2>2. i = Kid(j, a)
    BY <1>1, <1>18, <2>1, SameKid
  <2> QED BY <1>4, <1>7, <1>18, <2>2
<1>19. \A i, m \in Jobs : Live(i)' /\ Live(m)' /\ i # m => Slot(i) # Slot(m)
  BY <1>10, <1>18 DEF FibInv
<1>20. store' \in [Sums!Slots -> Nat \cup {NULL}] /\ main' \notin {"done", "returned"}
  BY <1>1, <1>5 DEF FibInv
<1> QED BY <1>17, <1>19, <1>20 DEF FibInv

\* A job that waits.
LEMMA EnterKeepsFib ==
  ASSUME RInv, FibInv, program[1] = "fib_test", NEW j \in Jobs, Run!EnterSync(j)
  PROVE  FibInv'
<1>1. phase[j] = "running" /\ todo[j] # <<>> /\ todo[j][1][1] = "sync" /\ Live(j)
  BY HeadIs DEF Run!EnterSync, Live
<1>2. Stage(j)
  BY <1>1 DEF FibInv
<1>3. Tail(todo[j]) = <<Piece(j)>> /\ \A a \in Parts(j) : Coming(j, a)
  BY <1>1, <1>2, NextOf
<1>4. /\ phase' = [phase EXCEPT ![j] = "waiting"] /\ parent' = parent /\ main' = main /\ store' = store
      /\ todo' = [todo EXCEPT ![j] = <<Piece(j)>>]
  BY <1>3 DEF Run!EnterSync, Run!FJ!Sync
<1>5. /\ phase \in [Jobs -> {"none", "running", "waiting"}] /\ todo \in [Jobs -> Seq(Code)]
  BY DEF RInv, TypeR
<1>6. /\ todo'[j] = <<Piece(j)>> /\ phase'[j] = "waiting"
      /\ \A m \in Jobs : m # j => phase'[m] = phase[m] /\ todo'[m] = todo[m]
  BY <1>4, <1>5
<1>7. \A m \in Jobs : Live(m)' <=> Live(m)
  BY <1>1, <1>6 DEF Live
<1>8. \A m : Kids(m)' = Kids(m)
  BY <1>4, <1>7 DEF Kids, Live
<1>9. \A i, a : (Stored(i, a) => Stored(i, a)') /\ (Coming(i, a) => Coming(i, a)')
  BY <1>4, <1>8 DEF Stored, Coming
<1>10. ASSUME NEW i \in Jobs, Live(i)' PROVE Stage(i)' /\ Lineage(i)'
  <2>1. Live(i) /\ Stage(i) /\ Lineage(i)
    BY <1>7, <1>10 DEF FibInv
  <2>2. Lineage(i)'
    BY <1>4, <1>7, <2>1 DEF Lineage
  <2>3. CASE i = j
    BY <1>3, <1>6, <1>9, <2>2, <2>3 DEF Stage
  <2>4. CASE i # j
    <3>1. todo'[i] = todo[i] /\ phase'[i] = phase[i] /\ store'[Slot(i)] = store[Slot(i)]
      BY <1>4, <1>6, <2>4
    <3> QED BY <1>8, <1>9, <2>1, <2>2, <3>1, StageKept
  <2> QED BY <2>3, <2>4
<1>11. store' \in [Sums!Slots -> Nat \cup {NULL}] /\ main' \notin {"done", "returned"}
  BY <1>1, <1>4 DEF FibInv
<1>12. \A i, m \in Jobs : Live(i)' /\ Live(m)' /\ i # m => Slot(i) # Slot(m)
  BY <1>7 DEF FibInv
<1> QED BY <1>10, <1>11, <1>12 DEF FibInv

\* A job that has waited finds the results of its calls.
LEMMA LeaveKeepsFib ==
  ASSUME RInv, FibInv, program[1] = "fib_test", NEW j \in Jobs, Run!LeaveSync(j)
  PROVE  FibInv'
<1>1. phase[j] = "waiting" /\ Kids(j) = {} /\ Live(j)
  BY SameKids DEF Run!LeaveSync, Run!FJ!SyncReturn, Live
<1>2. todo[j] = <<Piece(j)>> /\ \A a \in Parts(j) : Stored(j, a)
  <2>1. Stage(j)
    BY <1>1 DEF FibInv
  <2>2. todo[j] = <<Piece(j)>> /\ \A a \in Parts(j) : Coming(j, a)
    BY <1>1, <2>1 DEF Stage
  <2> QED BY <1>1, <2>2 DEF Coming
<1>3. /\ phase' = [phase EXCEPT ![j] = "running"] /\ parent' = parent /\ main' = main /\ store' = store
      /\ todo' = todo
  BY DEF Run!LeaveSync, Run!FJ!SyncReturn
<1>4. /\ phase \in [Jobs -> {"none", "running", "waiting"}]
  BY DEF RInv, TypeR
<1>5. phase'[j] = "running" /\ \A m \in Jobs : m # j => phase'[m] = phase[m]
  BY <1>3, <1>4
<1>6. \A m \in Jobs : Live(m)' <=> Live(m)
  BY <1>1, <1>5 DEF Live
<1>7. \A m : Kids(m)' = Kids(m)
  BY <1>3, <1>6 DEF Kids, Live
<1>8. \A i, a : (Stored(i, a) => Stored(i, a)') /\ (Coming(i, a) => Coming(i, a)')
  BY <1>3, <1>7 DEF Stored, Coming
<1>9. ASSUME NEW i \in Jobs, Live(i)' PROVE Stage(i)' /\ Lineage(i)'
  <2>1. Live(i) /\ Stage(i) /\ Lineage(i)
    BY <1>6, <1>9 DEF FibInv
  <2>2. Lineage(i)'
    BY <1>3, <1>6, <2>1 DEF Lineage
  <2>3. CASE i = j
    BY <1>1, <1>2, <1>3, <1>5, <1>7, <1>8, <2>2, <2>3 DEF Stage
  <2>4. CASE i # j
    <3>1. todo'[i] = todo[i] /\ phase'[i] = phase[i] /\ store'[Slot(i)] = store[Slot(i)]
      BY <1>3, <1>5, <2>4
    <3> QED BY <1>7, <1>8, <2>1, <2>2, <3>1, StageKept
  <2> QED BY <2>3, <2>4
<1>10. store' \in [Sums!Slots -> Nat \cup {NULL}] /\ main' \notin {"done", "returned"}
  BY <1>1, <1>3 DEF FibInv
<1>11. \A i, m \in Jobs : Live(i)' /\ Live(m)' /\ i # m => Slot(i) # Slot(m)
  BY <1>6 DEF FibInv
<1> QED BY <1>9, <1>10, <1>11 DEF FibInv

\* A job that ends has stored its result; the main job is the last.
LEMMA FinishKeepsFib ==
  ASSUME RInv, FibInv, program[1] = "fib_test", NEW j \in Jobs, Run!Finish(j)
  PROVE  FibInv'
<1>1. /\ phase[j] = "running" /\ Kids(j) = {} /\ todo[j] = <<>>
      /\ phase' = [phase EXCEPT ![j] = "none"] /\ parent' = [parent EXCEPT ![j] = NULL]
      /\ main' = IF parent[j] = NULL THEN "done" ELSE main
      /\ todo' = todo /\ store' = store
  BY SameKids DEF Run!Finish, Run!FJ!Leave
<1>2. Live(j) /\ FibJob(j) /\ Stage(j) /\ Lineage(j)
  BY <1>1, LiveFib DEF Live, FibInv
<1>3. store[Slot(j)] = Result(j)
  BY <1>1, <1>2 DEF Stage
<1>4. /\ phase \in [Jobs -> {"none", "running", "waiting"}] /\ parent \in [Jobs -> Jobs \cup {NULL}]
  BY DEF RInv, TypeR
<1>5. phase'[j] = "none" /\ \A m \in Jobs : m # j => phase'[m] = phase[m] /\ parent'[m] = parent[m]
  BY <1>1, <1>4
<1>6. \A m \in Jobs : Live(m)' <=> Live(m) /\ m # j
  BY <1>5 DEF Live
<1>7. \A m \in Jobs : Kids(m)' = Kids(m) \ {j}
  BY <1>5 DEF Kids
<1>8. ASSUME NEW i \in Jobs, Live(i), NEW a \in Parts(i)
      PROVE  (Stored(i, a) => Stored(i, a)') /\ (Coming(i, a) => Coming(i, a)')
  <2>1. Stored(i, a) => Stored(i, a)'
    BY <1>1 DEF Stored
  <2>2. CASE Kid(i, a) # j
    BY <1>7, <2>1, <2>2 DEF Coming
  <2>3. CASE Kid(i, a) = j
    <3>1. Slot(j) = Slot(i) \o <<a>> /\ Result(j) = Sums!Fibonacci[Num(i) - a]
      BY <1>8, <2>3, LiveFib, KidShape
    <3> QED BY <1>3, <2>1, <3>1 DEF Coming, Stored
  <2> QED BY <2>2, <2>3
<1>9. ASSUME NEW i \in Jobs, Live(i)' PROVE Stage(i)' /\ Lineage(i)'
  <2>1. Live(i) /\ Stage(i) /\ Lineage(i) /\ i # j
    BY <1>6, <1>9 DEF FibInv
  <2>2. Lineage(i)'
    <3>1. CASE i = FibMain
      BY <1>5, <2>1, <3>1 DEF Lineage
    <3>2. CASE i # FibMain
      <4>1. PICK p \in Jobs : Live(p) /\ parent[i] = p /\ \E a \in Parts(p) : i = Kid(p, a)
        BY <2>1, <3>2 DEF Lineage
      <4>2. i \in Kids(p)
        BY <2>1, <4>1 DEF Kids, Live
      <4>3. p # j /\ Live(p)' /\ parent'[i] = p
        BY <1>1, <1>5, <1>6, <2>1, <4>1, <4>2
      <4> QED BY <3>2, <4>1, <4>3 DEF Lineage
    <3> QED BY <3>1, <3>2
  <2>3. todo'[i] = todo[i] /\ phase'[i] = phase[i] /\ store'[Slot(i)] = store[Slot(i)]
    BY <1>1, <1>5, <2>1
  <2>4. Kids(i) = {} => Kids(i)' = {}
    BY <1>7
  <2> QED BY <1>8, <2>1, <2>2, <2>3, <2>4, StageKept
<1>10. (main \in {"done", "returned"} =>
         (\A i \in Jobs : ~Live(i)) /\ store[<<>>] = Sums!Fibonacci[Arg0])'
  <2>1. CASE parent[j] = NULL
    <3>1. j = FibMain
      BY <1>2, <2>1, NullAssumption DEF Lineage
    <3>2. \A i \in Jobs : ~Live(i)'
      BY <1>1, <1>2, <1>6, <3>1, OnlyMain
    <3>3. store'[<<>>] = Sums!Fibonacci[Arg0]
      BY <1>1, <1>2, <1>3, <3>1, JobShape DEF Result
    <3> QED BY <3>2, <3>3
  <2>2. CASE parent[j] # NULL
    BY <1>1, <1>2, <2>2 DEF FibInv
  <2> QED BY <2>1, <2>2
<1>11. store' \in [Sums!Slots -> Nat \cup {NULL}]
  BY <1>1 DEF FibInv
<1>12. \A i, m \in Jobs : Live(i)' /\ Live(m)' /\ i # m => Slot(i) # Slot(m)
  BY <1>6 DEF FibInv
<1> QED BY <1>9, <1>10, <1>11, <1>12 DEF FibInv

\* The main job is alone when it starts.
LEMMA StartKeepsFib ==
  ASSUME RInv, FibInv, program[1] = "fib_test", Run!StartMain
  PROVE  FibInv'
<1>1. /\ main = "idle" /\ main' = "running" /\ program' = program /\ store' = store
      /\ phase' = [phase EXCEPT ![program] = "running"] /\ parent' = [parent EXCEPT ![program] = NULL]
      /\ todo' = [todo EXCEPT ![program] = Body(program)]
  BY DEF Run!StartMain, Run!FJ!Start, Run!FJ!Begin
<1>2. program = FibMain /\ FibMain \in Jobs /\ FibJob(FibMain)
  <2>1. program \in Mains
    BY DEF RInv, TypeR
  <2>2. program = FibMain
    BY <2>1 DEF Mains, FibMain
  <2>3. FibMain[1] = "fib_test"
    BY DEF FibMain
  <2> QED BY <2>1, <2>2, <2>3, MainsGood DEF Jobs, FibJob
<1>3. /\ phase \in [Jobs -> {"none", "running", "waiting"}] /\ parent \in [Jobs -> Jobs \cup {NULL}]
      /\ todo \in [Jobs -> Seq(Code)]
  BY DEF RInv, TypeR
<1>4. /\ phase'[FibMain] = "running" /\ parent'[FibMain] = NULL /\ todo'[FibMain] = Body(FibMain)
      /\ \A m \in Jobs : m # FibMain => phase'[m] = phase[m]
  BY <1>1, <1>2, <1>3
<1>5. \A m \in Jobs : Live(m)' => m = FibMain
  BY <1>1, <1>4 DEF RInv, Live
<1>6. Parts(FibMain) = {1}
  BY DEF Parts
<1>7. Stage(FibMain)' /\ Lineage(FibMain)'
  <2>1. Stage(FibMain)'
    BY <1>2, <1>4, <1>6, FibBody DEF Stage
  <2>2. Lineage(FibMain)'
    BY <1>4 DEF Lineage
  <2> QED BY <2>1, <2>2
<1>8. \A i \in Jobs : Live(i)' => Stage(i)' /\ Lineage(i)'
  BY <1>5, <1>7
<1>9. store' \in [Sums!Slots -> Nat \cup {NULL}]
  BY <1>1 DEF FibInv
<1> QED BY <1>1, <1>5, <1>8, <1>9 DEF FibInv

\* Initially there is no result; every step preserves the invariant.
LEMMA InitFib ==
  ASSUME Init, program[1] = "fib_test"
  PROVE  FibInv
<1>1. phase = [j \in Jobs |-> "none"] /\ main = "idle" /\ store = Store0(program)
  BY DEF Init, Run!Init, Run!FJ!Init
<1>2. store = [s \in Sums!Slots |-> NULL]
  BY <1>1 DEF Store0
<1>3. \A j \in Jobs : ~Live(j)
  BY <1>1 DEF Live
<1> QED BY <1>1, <1>2, <1>3 DEF FibInv

\* Every step of fib_test preserves the invariant.
LEMMA NextFib ==
  ASSUME RInv, FibInv, program[1] = "fib_test", [Next]_(Run!vars)
  PROVE  FibInv'
<1>1. CASE Run!StartMain
  BY <1>1, StartKeepsFib
<1>2. CASE Run!ReturnMain
  <2>1. /\ phase' = phase /\ parent' = parent /\ todo' = todo /\ store' = store
        /\ main = "done" /\ main' = "returned"
    BY <1>2 DEF Run!ReturnMain, Run!FJ!MainReturn
  <2> QED BY <2>1 DEF FibInv, Stage, Lineage, Stored, Coming, Kids, Live
<1>3. ASSUME NEW j \in Jobs, Run!CallRoutine(j) PROVE FALSE
  <2>1. phase[j] = "running" /\ todo[j] # <<>> /\ todo[j][1][1] = "call" /\ Live(j)
    BY <1>3, HeadIs DEF Run!CallRoutine, Live
  <2>2. Stage(j)
    BY <2>1 DEF FibInv
  <2> QED BY <2>1, <2>2, NextOf
<1>4. CASE \E j \in Jobs : Run!ControlStep(j) \/ Run!DoPiece(j)
  BY <1>3, <1>4, SpawnKeepsFib, EnterKeepsFib, LeaveKeepsFib, FinishKeepsFib, PieceKeepsFib
     DEF Run!ControlStep
<1>5. CASE UNCHANGED Run!vars
  <2>1. phase' = phase /\ parent' = parent /\ todo' = todo /\ main' = main /\ store' = store
    BY <1>5 DEF Run!vars
  <2> QED BY <2>1 DEF FibInv, Stage, Lineage, Stored, Coming, Kids, Live
<1> QED BY <1>1, <1>2, <1>4, <1>5 DEF Next, Run!Next

\* In whatever order the jobs of fib_test run, every job finds the results of its calls, and
\* g_main prints the Fibonacci number.
THEOREM FibRight == Spec => []PrintsFib
<1> DEFINE FF == program[1] = "fib_test" => FibInv
<1>1. Init => RInv /\ FF
  BY InitRInv, InitFib
<1>2. RInv /\ FF /\ [Next]_(Run!vars) => (RInv /\ FF)'
  <2> SUFFICES ASSUME RInv, FF, [Next]_(Run!vars) PROVE RInv' /\ FF'
    OBVIOUS
  <2>1. program' = program
    BY DEF Next, Run!Next, Run!vars, Run!StartMain, Run!ReturnMain, Run!ControlStep, Run!DoPiece,
           Run!CallRoutine, Run!SpawnRoutine, Run!EnterSync, Run!LeaveSync, Run!Finish
  <2>2. RInv'
    BY NextRInv
  <2>3. FF'
    BY <2>1, NextFib
  <2> QED BY <2>2, <2>3
<1>3. RInv /\ FF => PrintsFib
  BY DEF PrintsFib, Over, FibInv
<1> QED BY <1>1, <1>2, <1>3, PTL DEF Spec, Run!Spec, Init, Next
-----------------------------------------------------------------------------
(* The sums of the rectangular product *)

\* Quotient and remainder.
LEMMA DivMod ==
  \A e \in Nat : /\ e \div n \in Nat /\ e % n \in 0..n - 1
                 /\ e = (e \div n) * n + (e % n)
<1>1. n \in Nat /\ n # 0
  BY Constants DEF Size
<1> QED BY <1>1

\* The row and the column of an element.
LEMMA CellDiv ==
  \A r \in Nat, k \in 0..n - 1 : Cell(r, k) \div n = r /\ Cell(r, k) % n = k
<1> SUFFICES ASSUME NEW r \in Nat, NEW k \in 0..n - 1
             PROVE  Cell(r, k) \div n = r /\ Cell(r, k) % n = k
  OBVIOUS
<1>1. n \in Size /\ k \in Nat
  BY Constants
<1>2. PICK e \in Nat : e = Cell(r, k)
  BY <1>1, CellFacts
<1> DEFINE d == e \div n  m == e % n
<1>3. d \in Nat /\ m \in 0..n - 1 /\ e = d * n + m
  BY DivMod
<1> HIDE DEF d, m
<1>4. e = Cell(d, m)
  BY <1>3 DEF Cell
<1>5. Cell(d, m) = Cell(r, k) => d = r /\ m = k
  BY <1>1, <1>3, RowMajor DEF Cell
<1> QED BY <1>2, <1>4, <1>5 DEF d, m

\* The elements of a matrix.
LEMMA CellsOfC ==
  /\ \A x, y \in 0..n - 1 : Cell(x, y) \in 0..n * n - 1
  /\ \A e \in 0..n * n - 1 : /\ e \div n \in 0..n - 1 /\ e % n \in 0..n - 1
                             /\ e = Cell(e \div n, e % n)
<1>0. n \in Nat /\ n # 0 /\ n * n \in Nat
  BY Constants DEF Size
<1>1. \A x \in 0..n - 1 : x * n \in Nat /\ x * n <= n * n - n
  <2> TAKE x \in 0..n - 1
  <2> DEFINE d == n - 1 - x
  <2>1. d \in Nat /\ x \in Nat
    BY <1>0
  <2>2. d * n \in Nat /\ x * n \in Nat /\ (d + x + 1) * n = d * n + x * n + n /\ d + x + 1 = n
    BY <1>0, <2>1
  <2> HIDE DEF d
  <2> QED BY <1>0, <2>2
<1>2. \A x, y \in 0..n - 1 : Cell(x, y) \in 0..n * n - 1
  BY <1>0, <1>1 DEF Cell
<1>3. ASSUME NEW e \in 0..n * n - 1
      PROVE  e \div n \in 0..n - 1 /\ e % n \in 0..n - 1 /\ e = Cell(e \div n, e % n)
  <2>1. e \in Nat /\ e < n * n
    BY <1>0
  <2> DEFINE d == e \div n  m == e % n
  <2>2. d \in Nat /\ m \in 0..n - 1 /\ e = d * n + m
    BY <2>1, DivMod
  <2> HIDE DEF d, m
  <2>3. e = Cell(d, m)
    BY <2>2 DEF Cell
  <2>4. d < n
    <3> SUFFICES ASSUME d >= n PROVE FALSE
      BY <1>0, <2>2
    <3> DEFINE f == d - n
    <3>1. f \in Nat /\ d = f + n
      BY <1>0, <2>2
    <3> HIDE DEF f
    <3>2. d * n = f * n + n * n /\ f * n \in Nat
      BY <1>0, <3>1
    <3> QED BY <1>0, <2>1, <2>2, <3>2
  <2> QED BY <1>0, <2>2, <2>3, <2>4 DEF d, m
<1> QED BY <1>2, <1>3

\* Bags of different products are added up by taking them together.
LEMMA SumOfBags ==
  ASSUME NEW S, NEW T, S \cap T = {}
  PROVE  Product!(+)(Product!SetToBag(S), Product!SetToBag(T)) = Product!SetToBag(S \cup T)
<1> DEFINE s == Product!SetToBag(S)  t == Product!SetToBag(T)
<1>1. DOMAIN s = S /\ DOMAIN t = T /\ (\A e \in S : s[e] = 1) /\ (\A e \in T : t[e] = 1)
  BY DEF Product!SetToBag
<1> HIDE DEF s, t
<1>2. Product!(+)(s, t) = [e \in S \cup T |-> (IF e \in S THEN s[e] ELSE 0) + (IF e \in T THEN t[e] ELSE 0)]
  BY <1>1 DEF Product!(+)
<1>3. \A e \in S \cup T : (IF e \in S THEN s[e] ELSE 0) + (IF e \in T THEN t[e] ELSE 0) = 1
  BY <1>1
<1>4. Product!(+)(s, t) = [e \in S \cup T |-> 1]
  BY <1>2, <1>3
<1> QED BY <1>4 DEF Product!SetToBag, s, t
-----------------------------------------------------------------------------
(* The terms of a product: <<x, y, u>> for the u-th product that is added  *)
(* up in row x and column y of C.                                          *)

Cube(r, k, a, m, p, q) == (r..r + m - 1) \X (k..k + p - 1) \X (a..a + q - 1)

Terms(c) == Cube(c[4] \div n, c[4] % n, c[2] % n, c[5], c[7], c[6])

\* The terms V come before the terms W of the same sum.
Precedes(V, W) == \A v \in V, w \in W : v[1] = w[1] /\ v[2] = w[2] => v[3] < w[3]

IsProd(c) == \E r, a, k, m, q, p \in Nat : Inside(r, a, k, m, q, p) /\ c = Prod(r, a, k, m, q, p)

\* The terms of the product for a block of C.
LEMMA TermsOf ==
  ASSUME NEW r, NEW a, NEW k, NEW m, NEW q, NEW p, Inside(r, a, k, m, q, p)
  PROVE  Terms(Prod(r, a, k, m, q, p)) = Cube(r, k, a, m, p, q)
<1> DEFINE c == Prod(r, a, k, m, q, p)
<1>1. r \in Nat /\ a \in 0..n - 1 /\ k \in 0..n - 1
  BY Constants DEF Inside, Size
<1>2. c[2] = Cell(r, a) /\ c[4] = Cell(r, k) /\ c[5] = m /\ c[6] = q /\ c[7] = p
  BY DEF Prod, Product!rec_matmul
<1>3. c[4] \div n = r /\ c[4] % n = k /\ c[2] % n = a
  BY <1>1, <1>2, CellDiv
<1> HIDE DEF c
<1> QED BY <1>2, <1>3 DEF Terms, c

\* The halves of the terms of a product have all of them, each once and in order.
Halved(c, h) == /\ IsProd(h.first) /\ IsProd(h.second)
                /\ Terms(h.first) \cup Terms(h.second) = Terms(c)
                /\ Precedes(Terms(h.first), Terms(h.second))

\* An interval in two parts.
LEMMA TwoParts ==
  ASSUME NEW r \in Nat, NEW m \in Size, NEW e \in Size, NEW d \in Size, e + d = m
  PROVE  /\ (r..r + e - 1) \cup (r + e..r + e + d - 1) = r..r + m - 1
         /\ \A v \in r..r + e - 1, w \in r + e..r + e + d - 1 : v < w
  BY DEF Size

\* Halving the rows halves the terms.
LEMMA HalvedM ==
  ASSUME NEW r \in Nat, NEW a \in Nat, NEW k \in Nat, NEW m \in Size, NEW q \in Size, NEW p \in Size,
         Inside(r, a, k, m, q, p), m >= 2
  PROVE  Halved(Prod(r, a, k, m, q, p), Product!SplitM(Prod(r, a, k, m, q, p)))
<1> DEFINE c == Prod(r, a, k, m, q, p)  h == Product!SplitM(c)  m1 == m \div 2  m2 == m - m1  s == r + m1
<1>1. m1 \in Size /\ m2 \in Size /\ s \in Nat /\ m1 + m2 = m /\ m1 \in Nat /\ m2 \in Nat
  BY DEF Size
<1> HIDE DEF m2, s
<1>2. h.first = Prod(r, a, k, m1, q, p)
  BY DEF Product!SplitM, Prod, Product!rec_matmul
<1>3. h.second = Prod(s, a, k, m2, q, p)
  <2>1. Cell(r, a) + m1 * n = Cell(s, a) /\ Cell(r, k) + m1 * n = Cell(s, k)
    BY <1>1, CellFacts DEF s
  <2> QED BY <2>1 DEF Product!SplitM, Prod, Product!rec_matmul, m2
<1> HIDE DEF m1
<1>4. Inside(r, a, k, m1, q, p) /\ Inside(s, a, k, m2, q, p)
      /\ p \in Nat /\ q \in Nat /\ m \in Nat /\ m1 \in Nat /\ m2 \in Nat /\ s \in Nat
  BY <1>1, Constants DEF Inside, Size, s
<1> HIDE DEF c, h
<1>5. IsProd(h.first) /\ IsProd(h.second)
  BY <1>1, <1>2, <1>3, <1>4 DEF IsProd
<1>6. /\ Terms(h.first) = Cube(r, k, a, m1, p, q) /\ Terms(h.second) = Cube(s, k, a, m2, p, q)
      /\ Terms(c) = Cube(r, k, a, m, p, q)
  <2>1. Terms(Prod(r, a, k, m1, q, p)) = Cube(r, k, a, m1, p, q)
    BY <1>4, TermsOf
  <2>2. Terms(Prod(s, a, k, m2, q, p)) = Cube(s, k, a, m2, p, q)
    BY <1>4, TermsOf
  <2>3. Terms(Prod(r, a, k, m, q, p)) = Cube(r, k, a, m, p, q)
    BY <1>4, TermsOf
  <2> QED BY <1>2, <1>3, <2>1, <2>2, <2>3 DEF c
<1> DEFINE A == r..r + m1 - 1  B == s..s + m2 - 1
<1>7. A \cup B = r..r + m - 1 /\ \A v \in A, w \in B : v < w
  BY <1>1, TwoParts DEF s
<1>8. A \subseteq Nat /\ B \subseteq Nat
  BY <1>1
<1> HIDE DEF A, B
<1>9. Terms(h.first) \cup Terms(h.second) = Terms(c)
  <2> DEFINE K == k..k + p - 1  D == a..a + q - 1
  <2>1. Terms(h.first) = A \X K \X D /\ Terms(h.second) = B \X K \X D /\ Terms(c) = (A \cup B) \X K \X D
    BY <1>6, <1>7 DEF Cube, A, B
  <2> HIDE DEF K, D
  <2> QED BY <2>1
<1>10. Precedes(Terms(h.first), Terms(h.second))
  BY <1>6, <1>7, <1>8 DEF Precedes, Cube, A, B
<1>11. Halved(c, h)
  BY <1>5, <1>9, <1>10 DEF Halved
<1> QED BY <1>11 DEF c, h

\* Halving the columns halves the terms.
LEMMA HalvedP ==
  ASSUME NEW r \in Nat, NEW a \in Nat, NEW k \in Nat, NEW m \in Size, NEW q \in Size, NEW p \in Size,
         Inside(r, a, k, m, q, p), p >= 2
  PROVE  Halved(Prod(r, a, k, m, q, p), Product!SplitP(Prod(r, a, k, m, q, p)))
<1> DEFINE c == Prod(r, a, k, m, q, p)  h == Product!SplitP(c)  p1 == p \div 2  p2 == p - p1  l == k + p1
<1>1. p1 \in Size /\ p2 \in Size /\ l \in Nat /\ p1 + p2 = p /\ p1 \in Nat /\ p2 \in Nat
  BY DEF Size
<1> HIDE DEF p2, l
<1>2. h.first = Prod(r, a, k, m, q, p1)
  BY DEF Product!SplitP, Prod, Product!rec_matmul
<1>3. h.second = Prod(r, a, l, m, q, p2)
  <2>1. Cell(a, k) + p1 = Cell(a, l) /\ Cell(r, k) + p1 = Cell(r, l)
    BY <1>1, CellFacts DEF l
  <2> QED BY <2>1 DEF Product!SplitP, Prod, Product!rec_matmul, p2
<1> HIDE DEF p1
<1>4. Inside(r, a, k, m, q, p1) /\ Inside(r, a, l, m, q, p2)
      /\ p \in Nat /\ q \in Nat /\ m \in Nat /\ p1 \in Nat /\ p2 \in Nat /\ l \in Nat
  BY <1>1, Constants DEF Inside, Size, l
<1> HIDE DEF c, h
<1>5. IsProd(h.first) /\ IsProd(h.second)
  BY <1>1, <1>2, <1>3, <1>4 DEF IsProd
<1>6. /\ Terms(h.first) = Cube(r, k, a, m, p1, q) /\ Terms(h.second) = Cube(r, l, a, m, p2, q)
      /\ Terms(c) = Cube(r, k, a, m, p, q)
  <2>1. Terms(Prod(r, a, k, m, q, p1)) = Cube(r, k, a, m, p1, q)
    BY <1>4, TermsOf
  <2>2. Terms(Prod(r, a, l, m, q, p2)) = Cube(r, l, a, m, p2, q)
    BY <1>4, TermsOf
  <2>3. Terms(Prod(r, a, k, m, q, p)) = Cube(r, k, a, m, p, q)
    BY <1>4, TermsOf
  <2> QED BY <1>2, <1>3, <2>1, <2>2, <2>3 DEF c
<1> DEFINE A == k..k + p1 - 1  B == l..l + p2 - 1
<1>7. A \cup B = k..k + p - 1 /\ \A v \in A, w \in B : v < w
  BY <1>1, TwoParts DEF l
<1>8. A \subseteq Nat /\ B \subseteq Nat
  BY <1>1
<1> HIDE DEF A, B
<1>9. Terms(h.first) \cup Terms(h.second) = Terms(c)
  <2> DEFINE K == r..r + m - 1  D == a..a + q - 1
  <2>1. Terms(h.first) = K \X A \X D /\ Terms(h.second) = K \X B \X D /\ Terms(c) = K \X (A \cup B) \X D
    BY <1>6, <1>7 DEF Cube, A, B
  <2> HIDE DEF K, D
  <2> QED BY <2>1
<1>10. Precedes(Terms(h.first), Terms(h.second))
  BY <1>6, <1>7, <1>8 DEF Precedes, Cube, A, B
<1>11. Halved(c, h)
  BY <1>5, <1>9, <1>10 DEF Halved
<1> QED BY <1>11 DEF c, h

\* Halving the inner dimension: the second half of the terms comes after the first.
LEMMA HalvedN ==
  ASSUME NEW r \in Nat, NEW a \in Nat, NEW k \in Nat, NEW m \in Size, NEW q \in Size, NEW p \in Size,
         Inside(r, a, k, m, q, p), q >= 2
  PROVE  Halved(Prod(r, a, k, m, q, p), Product!SplitN(Prod(r, a, k, m, q, p)))
<1> DEFINE c == Prod(r, a, k, m, q, p)  h == Product!SplitN(c)  q1 == q \div 2  q2 == q - q1  b == a + q1
<1>1. q1 \in Size /\ q2 \in Size /\ b \in Nat /\ q1 + q2 = q /\ q1 \in Nat /\ q2 \in Nat /\ b # 0
  BY DEF Size
<1> HIDE DEF q2, b
<1>2. h.first = Prod(r, a, k, m, q1, p)
  BY DEF Product!SplitN, Prod, Product!rec_matmul
<1>3. h.second = Prod(r, b, k, m, q2, p)
  <2>1. Cell(r, a) + q1 = Cell(r, b) /\ Cell(a, k) + q1 * n = Cell(b, k)
    BY <1>1, CellFacts DEF b
  <2>2. (b # 0) = TRUE
    BY <1>1
  <2> QED BY <2>1, <2>2 DEF Product!SplitN, Prod, Product!rec_matmul, q2
<1> HIDE DEF q1
<1>4. Inside(r, a, k, m, q1, p) /\ Inside(r, b, k, m, q2, p)
      /\ p \in Nat /\ q \in Nat /\ m \in Nat /\ q1 \in Nat /\ q2 \in Nat /\ b \in Nat
  BY <1>1, Constants DEF Inside, Size, b
<1> HIDE DEF c, h
<1>5. IsProd(h.first) /\ IsProd(h.second)
  BY <1>1, <1>2, <1>3, <1>4 DEF IsProd
<1>6. /\ Terms(h.first) = Cube(r, k, a, m, p, q1) /\ Terms(h.second) = Cube(r, k, b, m, p, q2)
      /\ Terms(c) = Cube(r, k, a, m, p, q)
  <2>1. Terms(Prod(r, a, k, m, q1, p)) = Cube(r, k, a, m, p, q1)
    BY <1>4, TermsOf
  <2>2. Terms(Prod(r, b, k, m, q2, p)) = Cube(r, k, b, m, p, q2)
    BY <1>4, TermsOf
  <2>3. Terms(Prod(r, a, k, m, q, p)) = Cube(r, k, a, m, p, q)
    BY <1>4, TermsOf
  <2> QED BY <1>2, <1>3, <2>1, <2>2, <2>3 DEF c
<1> DEFINE A == a..a + q1 - 1  B == b..b + q2 - 1
<1>7. A \cup B = a..a + q - 1 /\ \A v \in A, w \in B : v < w
  BY <1>1, TwoParts DEF b
<1>8. A \subseteq Nat /\ B \subseteq Nat
  BY <1>1
<1> HIDE DEF A, B
<1>9. Terms(h.first) \cup Terms(h.second) = Terms(c)
  <2> DEFINE K == r..r + m - 1  D == k..k + p - 1
  <2>1. Terms(h.first) = K \X D \X A /\ Terms(h.second) = K \X D \X B /\ Terms(c) = K \X D \X (A \cup B)
    BY <1>6, <1>7 DEF Cube, A, B
  <2> HIDE DEF K, D
  <2> QED BY <2>1
<1>10. Precedes(Terms(h.first), Terms(h.second))
  BY <1>6, <1>7 DEF Precedes, Cube, A, B
<1>11. Halved(c, h)
  BY <1>5, <1>9, <1>10 DEF Halved
<1> QED BY <1>11 DEF c, h

\* Halving a product that is larger than BASE.
LEMMA HalvedCorrect ==
  ASSUME NEW r \in Nat, NEW a \in Nat, NEW k \in Nat, NEW m \in Size, NEW q \in Size, NEW p \in Size,
         Inside(r, a, k, m, q, p), m + q + p > BASE
  PROVE  Halved(Prod(r, a, k, m, q, p), Product!Halves(Prod(r, a, k, m, q, p)))
<1> DEFINE c == Prod(r, a, k, m, q, p)
<1>1. c[5] = m /\ c[6] = q /\ c[7] = p
  BY DEF Prod, Product!rec_matmul
<1>2. BASE \in Nat /\ BASE >= 3
  BY Constants
<1> HIDE DEF c
<1>3. CASE m >= q /\ q >= p
  <2>1. m >= 2 /\ Product!Halves(c) = Product!SplitM(c)
    BY <1>1, <1>2, <1>3 DEF Product!Halves, Size
  <2> QED BY <2>1, HalvedM DEF c
<1>4. CASE ~(m >= q /\ q >= p) /\ q >= m /\ q >= p
  <2>1. q >= 2 /\ Product!Halves(c) = Product!SplitN(c)
    BY <1>1, <1>2, <1>4 DEF Product!Halves, Size
  <2> QED BY <2>1, HalvedN DEF c
<1>5. CASE ~(m >= q /\ q >= p) /\ ~(q >= m /\ q >= p)
  <2>1. p >= 2 /\ Product!Halves(c) = Product!SplitP(c)
    BY <1>1, <1>2, <1>5 DEF Product!Halves, Size
  <2> QED BY <2>1, HalvedP DEF c
<1> QED BY <1>3, <1>4, <1>5
-----------------------------------------------------------------------------
(* The terms that a routine adds up *)

\* A piece of code that only counts the call.
Counting(q) == q[1] = "do" /\ q[2][2][1] \in {"load", "add"}

\* The terms of an instruction, and of a sequence of them.
Item(q) == IF q[1] = "sync" \/ Counting(q) THEN {} ELSE Terms(q[2][2])
Work(s) == UNION {Item(s[i]) : i \in DOMAIN s}

\* The sums are added up in order.
Sorted(s) == \A i, l \in DOMAIN s : i < l => Precedes(Item(s[i]), Item(s[l]))

\* The other instructions are about products.
Proper(s) == \A i \in DOMAIN s : s[i][1] = "sync" \/ Counting(s[i]) \/ IsProd(s[i][2][2])

AllTerms == Cube(0, 0, 0, n, n, n)

\* The terms of a call and all it calls and spawns.
TermsOfCall(x) == IF x[2] = <<"g_main">> THEN AllTerms ELSE Terms(x[2])

\* A routine adds up the terms of its call.
BodyAdds(x) == Work(Body(x)) = TermsOfCall(x) /\ Sorted(Body(x)) /\ Proper(Body(x))

\* Instructions that are tagged.
LEMMA TagOfOne ==
  ASSUME NEW p, NEW o PROVE DOMAIN Tag(p, <<o>>) = {1} /\ Tag(p, <<o>>)[1] = <<o[1], <<p, o[2]>>>>
<1> DEFINE b == <<o>>
<1>1. DOMAIN b = {1} /\ b[1] = o
  OBVIOUS
<1> HIDE DEF b
<1>2. DOMAIN Tag(p, b) = {1} /\ Tag(p, b)[1] = <<o[1], <<p, o[2]>>>>
  BY <1>1 DEF Tag
<1> QED BY <1>2 DEF b

\* Two instructions that are tagged.
LEMMA TagOfTwo ==
  ASSUME NEW p, NEW o, NEW e
  PROVE  /\ DOMAIN Tag(p, <<o, e>>) = {1, 2}
         /\ Tag(p, <<o, e>>)[1] = <<o[1], <<p, o[2]>>>> /\ Tag(p, <<o, e>>)[2] = <<e[1], <<p, e[2]>>>>
<1> DEFINE b == <<o, e>>
<1>1. DOMAIN b = {1, 2} /\ b[1] = o /\ b[2] = e
  OBVIOUS
<1> HIDE DEF b
<1>2. /\ DOMAIN Tag(p, b) = {1, 2}
      /\ Tag(p, b)[1] = <<o[1], <<p, o[2]>>>> /\ Tag(p, b)[2] = <<e[1], <<p, e[2]>>>>
  BY <1>1 DEF Tag
<1> QED BY <1>2 DEF b

\* Three instructions that are tagged.
LEMMA TagOfThree ==
  ASSUME NEW p, NEW o, NEW d, NEW e
  PROVE  /\ DOMAIN Tag(p, <<o, d, e>>) = {1, 2, 3}
         /\ Tag(p, <<o, d, e>>)[1] = <<o[1], <<p, o[2]>>>>
         /\ Tag(p, <<o, d, e>>)[2] = <<d[1], <<p, d[2]>>>>
         /\ Tag(p, <<o, d, e>>)[3] = <<e[1], <<p, e[2]>>>>
<1> DEFINE b == <<o, d, e>>
<1>1. DOMAIN b = {1, 2, 3} /\ b[1] = o /\ b[2] = d /\ b[3] = e
  OBVIOUS
<1> HIDE DEF b
<1>2. /\ DOMAIN Tag(p, b) = {1, 2, 3}
      /\ Tag(p, b)[1] = <<o[1], <<p, o[2]>>>>
      /\ Tag(p, b)[2] = <<d[1], <<p, d[2]>>>>
      /\ Tag(p, b)[3] = <<e[1], <<p, e[2]>>>>
  BY <1>1 DEF Tag
<1> QED BY <1>2 DEF b

\* Instructions that add up the terms T.
Adds(B, T) == Work(B) = T /\ Sorted(B) /\ Proper(B)

\* A product does not count.
LEMMA ProdIsCall == \A c : IsProd(c) => c[1] = "rec_matmul"
  BY DEF IsProd, Prod, Product!rec_matmul

\* Sequences with one instruction, and with two and possibly a sync.
LEMMA OneAdds ==
  ASSUME NEW p, NEW op, op # "sync", NEW c, IsProd(c)
  PROVE  Adds(Tag(p, <<<<op, c>>>>), Terms(c))
<1> DEFINE B == Tag(p, <<<<op, c>>>>)
<1>1. DOMAIN B = {1} /\ B[1][1] = op /\ B[1][2][2] = c
  BY TagOfOne
<1> HIDE DEF B
<1>2. Item(B[1]) = Terms(c)
  BY <1>1, ProdIsCall DEF Item, Counting
<1>3. Work(B) = Terms(c) /\ Sorted(B) /\ Proper(B)
  BY <1>1, <1>2 DEF Work, Sorted, Proper
<1> QED BY <1>3 DEF Adds, B

\* One instruction and a sync.
LEMMA OneAndSyncAdds ==
  ASSUME NEW p, NEW op, op # "sync", NEW c, IsProd(c)
  PROVE  Adds(Tag(p, <<<<op, c>>, <<"sync", 0>>>>), Terms(c))
<1> DEFINE B == Tag(p, <<<<op, c>>, <<"sync", 0>>>>)
<1>1. DOMAIN B = {1, 2} /\ B[1][1] = op /\ B[1][2][2] = c /\ B[2][1] = "sync"
  BY TagOfTwo
<1> HIDE DEF B
<1>2. Item(B[1]) = Terms(c) /\ Item(B[2]) = {}
  BY <1>1, ProdIsCall DEF Item, Counting
<1>3. Work(B) = Terms(c)
  BY <1>1, <1>2 DEF Work
<1>4. Sorted(B) /\ Proper(B)
  BY <1>1, <1>2 DEF Sorted, Proper, Precedes
<1> QED BY <1>3, <1>4 DEF Adds, B

\* Two halves.
LEMMA TwoAdd ==
  ASSUME NEW p, NEW op, op # "sync", NEW h, NEW c, Halved(c, h)
  PROVE  Adds(Tag(p, <<<<op, h.first>>, <<op, h.second>>>>), Terms(c))
<1> DEFINE y == h.first  z == h.second  B == Tag(p, <<<<op, y>>, <<op, z>>>>)
<1>1. DOMAIN B = {1, 2} /\ B[1][1] = op /\ B[1][2][2] = y /\ B[2][1] = op /\ B[2][2][2] = z
  BY TagOfTwo
<1> HIDE DEF B
<1>2. Item(B[1]) = Terms(y) /\ Item(B[2]) = Terms(z)
  BY <1>1, ProdIsCall DEF Item, Counting, Halved
<1>3. Work(B) = Terms(y) \cup Terms(z)
  BY <1>1, <1>2 DEF Work
<1>4. Sorted(B) /\ Proper(B)
  BY <1>1, <1>2 DEF Sorted, Proper, Halved
<1> QED BY <1>3, <1>4 DEF Adds, Halved, B

\* Two halves with a sync in between.
LEMMA TwoWithSyncAdd ==
  ASSUME NEW p, NEW op, op # "sync", NEW h, NEW c, Halved(c, h)
  PROVE  Adds(Tag(p, <<<<op, h.first>>, <<"sync", 0>>, <<op, h.second>>>>), Terms(c))
<1> DEFINE y == h.first  z == h.second  B == Tag(p, <<<<op, y>>, <<"sync", 0>>, <<op, z>>>>)
<1>1. /\ DOMAIN B = {1, 2, 3} /\ B[1][1] = op /\ B[1][2][2] = y
      /\ B[2][1] = "sync" /\ B[3][1] = op /\ B[3][2][2] = z
  BY TagOfThree
<1> HIDE DEF B
<1>2. Item(B[1]) = Terms(y) /\ Item(B[2]) = {} /\ Item(B[3]) = Terms(z)
  BY <1>1, ProdIsCall DEF Item, Counting, Halved
<1>3. Work(B) = Terms(y) \cup Terms(z)
  BY <1>1, <1>2 DEF Work
<1>4. Sorted(B) /\ Proper(B)
  BY <1>1, <1>2 DEF Sorted, Proper, Halved, Precedes
<1> QED BY <1>3, <1>4 DEF Adds, Halved, B

\* Counting the call before it does b adds nothing.
LEMMA CountedAdds ==
  ASSUME NEW p, NEW S, NEW b \in Seq(S), NEW c, NEW T, Adds(Tag(p, b), T)
  PROVE  Adds(Tag(p, Product!Count(c) \o b), T)
<1> DEFINE s == Product!Count(c) \o b  B == Tag(p, b)  D == Tag(p, s)
<1>1. Counted(s, c, b)
  BY CountFirst
<1> HIDE DEF s
<1>2. /\ DOMAIN D = DOMAIN s /\ DOMAIN B = DOMAIN b
      /\ \A i \in DOMAIN s : D[i] = <<s[i][1], <<p, s[i][2]>>>>
      /\ \A i \in DOMAIN b : B[i] = <<b[i][1], <<p, b[i][2]>>>>
  BY DEF Tag
<1> HIDE DEF B, D
<1>3. D[1] = <<"do", <<p, <<"load", c>>>>>> /\ D[2] = <<"do", <<p, <<"add", c>>>>>>
  BY <1>1, <1>2 DEF Counted
<1>4. /\ \A i \in DOMAIN B : i + 2 \in DOMAIN D /\ D[i + 2] = B[i]
      /\ \A i \in DOMAIN D : i = 1 \/ i = 2 \/ (i > 2 /\ i - 2 \in DOMAIN B /\ D[i] = B[i - 2])
      /\ DOMAIN D \subseteq Nat
  <2>1. ASSUME NEW i \in DOMAIN B PROVE i + 2 \in DOMAIN D /\ D[i + 2] = B[i]
    <3>1. PICK k : k = i + 2
      OBVIOUS
    <3>2. k \in DOMAIN s /\ s[k] = b[i] /\ i \in DOMAIN b
      BY <1>1, <1>2, <3>1 DEF Counted
    <3>3. D[k] = B[i] /\ k \in DOMAIN D
      BY <1>2, <3>2
    <3> QED BY <3>1, <3>3
  <2>2. ASSUME NEW i \in DOMAIN D
        PROVE  i = 1 \/ i = 2 \/ (i > 2 /\ i - 2 \in DOMAIN B /\ D[i] = B[i - 2])
    <3>1. PICK k : k = i - 2
      OBVIOUS
    <3>2. i \in DOMAIN s /\ (i = 1 \/ i = 2 \/ (i > 2 /\ k \in DOMAIN b /\ s[i] = b[k]))
      BY <1>1, <1>2, <3>1 DEF Counted
    <3>3. i = 1 \/ i = 2 \/ (i > 2 /\ k \in DOMAIN B /\ D[i] = B[k])
      BY <1>2, <3>2
    <3> QED BY <3>1, <3>3
  <2>3. DOMAIN D \subseteq Nat
    BY <1>1, <1>2 DEF Counted
  <2> QED BY <2>1, <2>2, <2>3
<1>5. Counting(D[1]) /\ Counting(D[2])
  BY <1>3 DEF Counting
<1>6. Item(D[1]) = {} /\ Item(D[2]) = {}
  BY <1>5 DEF Item
<1>7. Work(B) = T /\ Sorted(B) /\ Proper(B)
  BY DEF Adds, B
<1>8. Proper(D)
  BY <1>4, <1>5, <1>7 DEF Proper
<1>9. Work(D) = Work(B)
  <2>1. Work(B) \subseteq Work(D)
    BY <1>4 DEF Work
  <2>2. Work(D) \subseteq Work(B)
    <3> SUFFICES ASSUME NEW i \in DOMAIN D, NEW v \in Item(D[i]) PROVE v \in Work(B)
      BY DEF Work
    <3>1. i # 1 /\ i # 2
      BY <1>6
    <3>2. PICK k \in DOMAIN B : D[i] = B[k]
      BY <1>4, <3>1
    <3> QED BY <3>2 DEF Work
  <2> QED BY <2>1, <2>2
<1>10. Sorted(D)
  <2> SUFFICES ASSUME NEW i \in DOMAIN D, NEW l \in DOMAIN D, i < l, Item(D[i]) # {}, Item(D[l]) # {}
               PROVE  Precedes(Item(D[i]), Item(D[l]))
    BY DEF Sorted, Precedes
  <2>1. i # 1 /\ i # 2 /\ l # 1 /\ l # 2
    BY <1>6
  <2>2. PICK a : a = i - 2
    OBVIOUS
  <2>3. PICK e : e = l - 2
    OBVIOUS
  <2>4. a \in DOMAIN B /\ D[i] = B[a]
    BY <1>4, <2>1, <2>2
  <2>5. e \in DOMAIN B /\ D[l] = B[e]
    BY <1>4, <2>1, <2>3
  <2>6. a < e
    BY <1>4, <2>2, <2>3
  <2> QED BY <1>7, <2>4, <2>5, <2>6 DEF Sorted
<1>11. Adds(D, T)
  BY <1>7, <1>8, <1>9, <1>10 DEF Adds
<1> QED BY <1>11 DEF D, s

\* The product that g_main asks for is the whole one.
LEMMA WholeIsAll ==
  /\ Whole = Prod(0, 0, 0, n, n, n) /\ Inside(0, 0, 0, n, n, n) /\ IsProd(Whole)
  /\ Terms(Whole) = AllTerms
<1>1. n \in Size /\ n \in Nat
  BY Constants DEF Size
<1>2. Cell(0, 0) = 0 /\ (0 # 0) = FALSE
  BY <1>1 DEF Cell
<1>3. Whole = Prod(0, 0, 0, n, n, n)
  BY <1>2 DEF Whole, Prod
<1>4. Inside(0, 0, 0, n, n, n)
  BY <1>1 DEF Inside
<1>5. IsProd(Whole)
  BY <1>1, <1>3, <1>4 DEF IsProd
<1>6. Terms(Whole) = AllTerms
  BY <1>3, <1>4, TermsOf DEF AllTerms
<1> QED BY <1>3, <1>4, <1>5, <1>6

\* What the routines of magic_serial and magic_para add up.
LEMMA BodyOfProductAdds ==
  ASSUME NEW x, Good(x), x[1] \in Products
  PROVE  BodyAdds(x)
<1> DEFINE p == x[1]  c == x[2]  v == Variant(p)  T == TermsOfCall(x)
<1>1. p \in Products /\ GoodProd(c)
  BY DEF Good
<1>2. Body(x) = Tag(p, Product!Body(v, c))
  BY <1>1 DEF Body, Tag, Products
<1> HIDE DEF p, c, v
<1>3. CASE c = <<"g_main">>
  <2>1. T = Terms(Whole) /\ IsProd(Whole)
    BY <1>3, WholeIsAll DEF TermsOfCall, c
  <2>2. CASE v = "serial"
    <3>1. Body(x) = Tag(p, <<<<"call", Whole>>>>)
      BY <1>2, <1>3, <2>2 DEF Product!Body, Product!g_main, Whole
    <3> QED BY <2>1, <3>1, OneAdds DEF Adds, BodyAdds
  <2>3. CASE v # "serial"
    <3>1. Body(x) = Tag(p, <<<<"spawn", Whole>>, <<"sync", 0>>>>)
      BY <1>2, <1>3, <2>3 DEF Product!Body, Product!g_main, Whole
    <3> QED BY <2>1, <3>1, OneAndSyncAdds DEF Adds, BodyAdds
  <2> QED BY <2>2, <2>3
<1>4. CASE c # <<"g_main">>
  <2>1. PICK r, a, k, m, q, s \in Nat : Inside(r, a, k, m, q, s) /\ c = Prod(r, a, k, m, q, s)
    BY <1>1, <1>4 DEF GoodProd
  <2>2. c[5] = m /\ c[6] = q /\ c[7] = s
    BY <2>1 DEF Prod, Product!rec_matmul
  <2>3. m \in Size /\ q \in Size /\ s \in Size /\ BASE \in Nat
    BY <2>1, Constants DEF Inside
  <2>4. IsProd(c) /\ T = Terms(c)
    BY <1>4, <2>1 DEF IsProd, TermsOfCall, c
  <2> HIDE DEF T
  <2> DEFINE b == Product!Rest(v, c)
  <2>5. Adds(Tag(p, b), T) /\ \E S : b \in Seq(S)
    <3>1. CASE m + q + s <= BASE
      <4>1. b = <<<<"do", c>>>>
        BY <2>2, <3>1 DEF Product!Rest
      <4>2. b \in Seq({<<"do", c>>})
        BY <4>1
      <4> QED BY <2>4, <4>1, <4>2, OneAdds
    <3>2. CASE ~(m + q + s <= BASE)
      <4> DEFINE h == Product!Halves(c)
      <4>1. m + q + s > BASE
        BY <2>3, <3>2 DEF Size
      <4>2. Halved(c, h)
        BY <2>1, <2>3, <4>1, HalvedCorrect
      <4>3. b = IF v = "serial" THEN Product!Serial(h) ELSE Product!Gregor(h)
        BY <2>2, <3>2 DEF Product!Rest
      <4> HIDE DEF h, b
      <4>4. CASE v = "serial"
        <5>1. b = <<<<"call", h.first>>, <<"call", h.second>>>>
          BY <4>3, <4>4 DEF Product!Serial
        <5>2. b \in Seq({<<"call", h.first>>, <<"call", h.second>>})
          BY <5>1
        <5> QED BY <2>4, <4>2, <5>1, <5>2, TwoAdd
      <4>5. CASE v # "serial" /\ h.join = "then"
        <5>1. b = <<<<"spawn", h.first>>, <<"sync", 0>>, <<"spawn", h.second>>>>
          BY <4>3, <4>5 DEF Product!Gregor
        <5>2. b \in Seq({<<"spawn", h.first>>, <<"sync", 0>>, <<"spawn", h.second>>})
          BY <5>1
        <5> QED BY <2>4, <4>2, <5>1, <5>2, TwoWithSyncAdd
      <4>6. CASE v # "serial" /\ h.join # "then"
        <5>1. b = <<<<"spawn", h.first>>, <<"spawn", h.second>>>>
          BY <4>3, <4>6 DEF Product!Gregor
        <5>2. b \in Seq({<<"spawn", h.first>>, <<"spawn", h.second>>})
          BY <5>1
        <5> QED BY <2>4, <4>2, <5>1, <5>2, TwoAdd
      <4> QED BY <4>4, <4>5, <4>6
    <3> QED BY <3>1, <3>2
  <2>6. Product!Body(v, c) = IF v = "serial" THEN b ELSE Product!Count(c) \o b
    BY <1>4 DEF Product!Body
  <2> HIDE DEF b
  <2>7. Adds(Body(x), T)
    <3>1. PICK S : b \in Seq(S)
      BY <2>5
    <3>2. Adds(Tag(p, Product!Count(c) \o b), T)
      BY <2>5, <3>1, CountedAdds
    <3> QED BY <1>2, <2>5, <2>6, <3>2
  <2> QED BY <2>7 DEF Adds, BodyAdds, T
<1> QED BY <1>3, <1>4
-----------------------------------------------------------------------------
(* Sequences of instructions *)

\* The terms of a sequence are those of the first instruction, which come first, and those
\* of the rest.
LEMMA RestAdds ==
  ASSUME NEW s \in Seq(Code), s # <<>>, Sorted(s), Proper(s)
  PROVE  /\ Work(s) = Item(s[1]) \cup Work(Tail(s)) /\ Precedes(Item(s[1]), Work(Tail(s)))
         /\ Sorted(Tail(s)) /\ Proper(Tail(s))
<1> DEFINE t == Tail(s)
<1>1. /\ DOMAIN t \subseteq Nat /\ 1 \in DOMAIN s
      /\ \A i \in DOMAIN t : i + 1 \in DOMAIN s /\ t[i] = s[i + 1] /\ 1 < i + 1
  BY TailFacts
<1>2. \A i \in DOMAIN s : i # 1 => i - 1 \in DOMAIN t /\ t[i - 1] = s[i]
  OBVIOUS
<1> HIDE DEF t
<1>3. Proper(t)
  BY <1>1 DEF Proper
<1>4. Sorted(t)
  <2> SUFFICES ASSUME NEW i \in DOMAIN t, NEW l \in DOMAIN t, i < l PROVE Precedes(Item(t[i]), Item(t[l]))
    BY DEF Sorted
  <2> DEFINE a == i + 1  b == l + 1
  <2>1. a \in DOMAIN s /\ b \in DOMAIN s /\ a < b /\ t[i] = s[a] /\ t[l] = s[b]
    BY <1>1
  <2> HIDE DEF a, b
  <2> QED BY <2>1 DEF Sorted
<1>5. Work(t) \subseteq Work(s) /\ Item(s[1]) \subseteq Work(s)
  BY <1>1 DEF Work
<1>6. Work(s) \subseteq Item(s[1]) \cup Work(t)
  BY <1>2 DEF Work
<1>7. Precedes(Item(s[1]), Work(t))
  <2> SUFFICES ASSUME NEW v \in Item(s[1]), NEW i \in DOMAIN t, NEW w \in Item(t[i]), v[1] = w[1] /\ v[2] = w[2]
               PROVE  v[3] < w[3]
    BY DEF Work, Precedes
  <2> DEFINE a == i + 1
  <2>1. a \in DOMAIN s /\ 1 < a /\ t[i] = s[a]
    BY <1>1
  <2> HIDE DEF a
  <2>2. Precedes(Item(s[1]), Item(s[a]))
    BY <1>1, <2>1 DEF Sorted
  <2> QED BY <2>1, <2>2 DEF Precedes
<1> QED BY <1>3, <1>4, <1>5, <1>6, <1>7 DEF t

\* A sequence of instructions in front of others that come after them.
LEMMA JoinAdds ==
  ASSUME NEW b \in Seq(Code), NEW t \in Seq(Code), Sorted(b), Sorted(t), Proper(b), Proper(t),
         Precedes(Work(b), Work(t))
  PROVE  Work(b \o t) = Work(b) \cup Work(t) /\ Sorted(b \o t) /\ Proper(b \o t)
<1> DEFINE s == b \o t  B == Len(b)
<1>1. B \in Nat /\ DOMAIN b = 1..B /\ DOMAIN t \subseteq Nat /\ DOMAIN s \subseteq Nat
  OBVIOUS
<1>2. /\ \A i \in DOMAIN b : i \in DOMAIN s /\ s[i] = b[i]
      /\ \A i \in DOMAIN t : B + i \in DOMAIN s /\ s[B + i] = t[i]
      /\ \A i \in DOMAIN s : IF i <= B THEN i \in DOMAIN b ELSE i - B \in DOMAIN t /\ s[i] = t[i - B]
  OBVIOUS
<1> HIDE DEF s, B
<1>3. Proper(s)
  BY <1>2 DEF Proper
<1>4. Work(b) \subseteq Work(s) /\ Work(t) \subseteq Work(s)
  BY <1>2 DEF Work
<1>5. Work(s) \subseteq Work(b) \cup Work(t)
  BY <1>2 DEF Work
<1>6. Sorted(s)
  <2> SUFFICES ASSUME NEW i \in DOMAIN s, NEW l \in DOMAIN s, i < l PROVE Precedes(Item(s[i]), Item(s[l]))
    BY DEF Sorted
  <2>1. CASE i <= B /\ l <= B
    BY <1>2, <2>1 DEF Sorted
  <2>2. CASE ~(i <= B) /\ ~(l <= B)
    <3> DEFINE d == i - B  e == l - B
    <3>1. d \in DOMAIN t /\ e \in DOMAIN t /\ d < e /\ s[i] = t[d] /\ s[l] = t[e]
      BY <1>1, <1>2, <2>2
    <3> HIDE DEF d, e
    <3> QED BY <3>1 DEF Sorted
  <2>3. CASE i <= B /\ ~(l <= B)
    <3> DEFINE e == l - B
    <3>1. e \in DOMAIN t /\ i \in DOMAIN b /\ s[i] = b[i] /\ s[l] = t[e]
      BY <1>2, <2>3
    <3> HIDE DEF e
    <3>2. Item(s[i]) \subseteq Work(b) /\ Item(s[l]) \subseteq Work(t)
      BY <3>1 DEF Work
    <3> QED BY <3>2 DEF Precedes
  <2>4. CASE ~(i <= B) /\ l <= B
    BY <1>1, <2>4
  <2> QED BY <2>1, <2>2, <2>3, <2>4
<1> QED BY <1>3, <1>4, <1>5, <1>6 DEF s

\* A call is replaced by the routine.
LEMMA CallAdds ==
  ASSUME NEW s \in Seq(Code), s # <<>>, Sorted(s), Proper(s), NEW a, s[1] = <<"call", a>>,
         BodyAdds(a), Body(a) \in Seq(Code)
  PROVE  LET t == Body(a) \o Tail(s) IN Work(t) = Work(s) /\ Sorted(t) /\ Proper(t)
<1>1. IsProd(a[2]) /\ Item(s[1]) = Terms(a[2])
  BY TailFacts DEF Proper, Item, Counting
<1>2. a[2] # <<"g_main">>
  BY <1>1 DEF IsProd, Prod, Product!rec_matmul
<1>3. Work(Body(a)) = Item(s[1])
  BY <1>1, <1>2 DEF BodyAdds, TermsOfCall
<1>4. /\ Work(s) = Item(s[1]) \cup Work(Tail(s)) /\ Precedes(Item(s[1]), Work(Tail(s)))
      /\ Sorted(Tail(s)) /\ Proper(Tail(s)) /\ Tail(s) \in Seq(Code)
  BY RestAdds, TailFacts
<1> QED BY <1>3, <1>4, JoinAdds DEF BodyAdds
-----------------------------------------------------------------------------
(* The base case *)

\* The u-th products of row x and column y, from a up to b.
Slice(x, y, a, b) == {<<Cell(x, u), Cell(u, y)>> : u \in a..b - 1}

\* Sums of the first products.
LEMMA SliceAdds ==
  ASSUME NEW x \in Nat, NEW y \in 0..n - 1, NEW a \in Nat, NEW b \in Nat, a <= b, b <= n
  PROVE  Product!(+)(Product!SetToBag(Slice(x, y, 0, a)), Product!SetToBag(Slice(x, y, a, b)))
           = Product!SetToBag(Slice(x, y, 0, b))
<1>1. 0..b - 1 = (0..a - 1) \cup (a..b - 1)
  OBVIOUS
<1>2. Slice(x, y, 0, b) = Slice(x, y, 0, a) \cup Slice(x, y, a, b)
  BY <1>1 DEF Slice
<1>3. Slice(x, y, 0, a) \cap Slice(x, y, a, b) = {}
  <2> SUFFICES ASSUME NEW u \in 0..a - 1, NEW w \in a..b - 1, Cell(x, u) = Cell(x, w) PROVE FALSE
    BY DEF Slice
  <2>1. u \in 0..n - 1 /\ w \in 0..n - 1 /\ u # w
    BY Constants DEF Size
  <2>2. Cell(x, u) % n = u /\ Cell(x, w) % n = w
    BY <2>1, CellDiv
  <2> QED BY <2>1, <2>2
<1> QED BY <1>2, <1>3, SumOfBags

\* The cells that a product writes.
LEMMA InBox ==
  ASSUME NEW r \in Nat, NEW a \in Nat, NEW k \in Nat, NEW m \in Nat, NEW q \in Nat, NEW p \in Nat,
         Inside(r, a, k, m, q, p), NEW x \in 0..n - 1, NEW y \in 0..n - 1
  PROVE  Cell(x, y) \in Product!Cells(Prod(r, a, k, m, q, p)) <=> x \in r..r + m - 1 /\ y \in k..k + p - 1
<1>1. /\ m \in Size /\ q \in Size /\ p \in Size
  BY DEF Inside
<1>2. Product!Cells(Prod(r, a, k, m, q, p)) = Box(r, k, m, p)
  BY <1>1, WrittenCells
<1>3. ASSUME Cell(x, y) \in Box(r, k, m, p) PROVE x \in r..r + m - 1 /\ y \in k..k + p - 1
  <2>1. PICK i \in 0..m - 1 : \E j \in 0..p - 1 : Cell(x, y) = Cell(r + i, k + j)
    BY <1>3 DEF Box
  <2>2. PICK j \in 0..p - 1 : Cell(x, y) = Cell(r + i, k + j)
    BY <2>1
  <2> DEFINE X == r + i  Y == k + j
  <2>3. X \in Nat /\ Y \in 0..n - 1 /\ X \in r..r + m - 1 /\ Y \in k..k + p - 1 /\ x \in Nat
    BY Constants DEF Inside, Size
  <2>4. Cell(x, y) = Cell(X, Y)
    BY <2>2
  <2> HIDE DEF X, Y
  <2>5. x = X /\ y = Y
    BY <2>3, <2>4, CellDiv
  <2> QED BY <2>3, <2>5
<1>4. ASSUME x \in r..r + m - 1, y \in k..k + p - 1 PROVE Cell(x, y) \in Box(r, k, m, p)
  <2> DEFINE i == x - r  j == y - k
  <2>1. i \in 0..m - 1 /\ j \in 0..p - 1 /\ r + i = x /\ k + j = y
    BY <1>4
  <2>2. Cell(x, y) = Cell(r + i, k + j)
    BY <2>1
  <2> HIDE DEF i, j
  <2> QED BY <2>1, <2>2 DEF Box
<1> QED BY <1>2, <1>3, <1>4

\* The element in row x and column y of D is that of C after the base case has added up its
\* products from a up to b, if it is one of the m x p elements from row r and column k on.
Multiplied(C, D, r, a, k, m, b, p, x, y) ==
  D[Cell(x, y)] =
    IF x \in r..r + m - 1 /\ y \in k..k + p - 1
    THEN IF a # 0 THEN Product!(+)(C[Cell(x, y)], Product!SetToBag(Slice(x, y, a, b)))
         ELSE Product!SetToBag(Slice(x, y, a, b))
    ELSE C[Cell(x, y)]

\* What the base case makes of an element of C.
LEMMA MultiplyAt ==
  ASSUME NEW r \in Nat, NEW a \in Nat, NEW k \in Nat, NEW m \in Nat, NEW q \in Nat, NEW p \in Nat,
         Inside(r, a, k, m, q, p), NEW C, DOMAIN C = 0..n * n - 1, NEW x \in 0..n - 1, NEW y \in 0..n - 1,
         NEW b, b = a + q
  PROVE  Multiplied(C, Product!Multiply(C, Prod(r, a, k, m, q, p)), r, a, k, m, b, p, x, y)
<1> DEFINE c == Prod(r, a, k, m, q, p)
           Sum(e) == LET i == (e - c[4]) \div c[8]
                         l == (e - c[4]) % c[8]
                     IN Product!SetToBag({<<c[2] + i * c[8] + j, c[3] + j * c[8] + l>> : j \in 0..c[6] - 1})
<1>1. c[2] = Cell(r, a) /\ c[3] = Cell(a, k) /\ c[4] = Cell(r, k) /\ c[6] = q /\ c[8] = n /\ c[9] = (a # 0)
  BY DEF Prod, Product!rec_matmul
<1>2. Product!Multiply(C, c) = [e \in DOMAIN C |-> IF e \in Product!Cells(c)
                                                   THEN IF c[9] THEN Product!(+)(C[e], Sum(e)) ELSE Sum(e)
                                                   ELSE C[e]]
  BY DEF Product!Multiply
<1>3. PICK e \in DOMAIN C : e = Cell(x, y)
  BY CellsOfC
<1>4. e \in Product!Cells(c) <=> x \in r..r + m - 1 /\ y \in k..k + p - 1
  BY <1>3, InBox
<1>5. ASSUME x \in r..r + m - 1, y \in k..k + p - 1
      PROVE  Sum(e) = Product!SetToBag(Slice(x, y, a, b))
  <2> DEFINE X == x - r  Y == y - k
  <2>1. X \in Nat /\ Y \in 0..n - 1 /\ Y \in Nat /\ r + X = x /\ k + Y = y /\ n \in Nat
    BY <1>5, Constants DEF Inside, Size
  <2> HIDE DEF X, Y
  <2>2. Cell(r, k) \in Nat /\ Cell(X, Y) \in Nat /\ Cell(x, y) = Cell(r, k) + Cell(X, Y)
    <3>1. Cell(r, k) + X * n = Cell(x, k) /\ Cell(x, k) + Y = Cell(x, y)
      <4>1. Cell(r, k) + X * n = Cell(r + X, k)
        BY <2>1, CellFacts
      <4>2. Cell(x, k) + Y = Cell(x, k + Y)
        BY <2>1, CellFacts
      <4> QED BY <2>1, <4>1, <4>2
    <3>2. Cell(X, Y) = X * n + Y /\ X * n \in Nat
      BY <2>1 DEF Cell
    <3>3. Cell(r, k) \in Nat
      BY CellFacts
    <3> DEFINE z == X * n
    <3> HIDE DEF z
    <3>4. z \in Nat /\ Cell(r, k) + z = Cell(x, k) /\ Cell(x, k) + Y = Cell(x, y) /\ Cell(X, Y) = z + Y
      BY <3>1, <3>2 DEF z
    <3> QED BY <2>1, <3>3, <3>4
  <2>3. e - c[4] = Cell(X, Y)
    BY <1>1, <1>3, <2>2
  <2>4. (e - c[4]) \div c[8] = X /\ (e - c[4]) % c[8] = Y
    BY <1>1, <2>1, <2>3, CellDiv
  <2>5. ASSUME NEW j \in Nat
        PROVE  c[2] + X * c[8] + j = Cell(x, a + j) /\ c[3] + j * c[8] + Y = Cell(a + j, y)
    <3>1. Cell(r, a) + X * n = Cell(x, a) /\ Cell(x, a) + j = Cell(x, a + j)
      <4>1. Cell(r, a) + X * n = Cell(r + X, a)
        BY <2>1, CellFacts
      <4>2. Cell(x, a) + j = Cell(x, a + j)
        BY CellFacts
      <4> QED BY <2>1, <4>1, <4>2
    <3> DEFINE d == a + j
    <3>2. d \in Nat /\ Cell(a, k) + j * n = Cell(d, k)
      BY CellFacts
    <3> HIDE DEF d
    <3>3. Cell(d, k) + Y = Cell(d, y)
      <4>0. d \in Nat /\ Y \in Nat
        BY <2>1, <3>2
      <4>1. Cell(d, k) + Y = Cell(d, k + Y)
        BY <4>0, CellFacts
      <4> QED BY <2>1, <4>1
    <3> QED BY <1>1, <3>1, <3>2, <3>3 DEF d
  <2> HIDE DEF c
  <2>6. \A u \in a..a + q - 1 : u - a \in 0..q - 1 /\ a + (u - a) = u
    OBVIOUS
  <2>7. {<<c[2] + X * c[8] + j, c[3] + j * c[8] + Y>> : j \in 0..q - 1}
          = {<<Cell(x, a + j), Cell(a + j, y)>> : j \in 0..q - 1}
    <3> DEFINE F(j) == <<c[2] + X * c[8] + j, c[3] + j * c[8] + Y>>
               G(j) == <<Cell(x, a + j), Cell(a + j, y)>>
    <3>1. \A j \in 0..q - 1 : F(j) = G(j)
      <4> TAKE j \in 0..q - 1
      <4>1. j \in Nat
        OBVIOUS
      <4>2. c[2] + X * c[8] + j = Cell(x, a + j) /\ c[3] + j * c[8] + Y = Cell(a + j, y)
        BY <2>5, <4>1
      <4> QED BY <4>2
    <3> HIDE DEF F, G
    <3>2. {F(j) : j \in 0..q - 1} = {G(j) : j \in 0..q - 1}
      BY <3>1
    <3> QED BY <3>2 DEF F, G
  <2>8. {<<Cell(x, a + j), Cell(a + j, y)>> : j \in 0..q - 1} = Slice(x, y, a, b)
    <3> DEFINE G(u) == <<Cell(x, u), Cell(u, y)>>
    <3>1. \A j \in 0..q - 1 : a + j \in a..a + q - 1
      OBVIOUS
    <3> HIDE DEF G
    <3>2. {G(a + j) : j \in 0..q - 1} = {G(u) : u \in a..a + q - 1}
      BY <2>6, <3>1
    <3>3. a..a + q - 1 = a..b - 1
      OBVIOUS
    <3> QED BY <3>2, <3>3 DEF Slice, G
  <2> QED BY <1>1, <2>4, <2>7, <2>8
<1> HIDE DEF c, Sum
<1>6. Multiplied(C, Product!Multiply(C, c), r, a, k, m, b, p, x, y)
  BY <1>1, <1>2, <1>3, <1>4, <1>5 DEF Multiplied
<1> QED BY <1>6 DEF c
-----------------------------------------------------------------------------
(* The invariant of the products *)

\* The products of row x and column y that are still to be added up.
Open(x, y) == {u \in 0..n - 1 : \E j \in Jobs : Live(j) /\ <<x, y, u>> \in Work(todo[j])}

\* The others have been, in order, and no sum has been started from what was there before.
Summed(x, y) ==
  \E t \in 0..n : /\ Open(x, y) = t..n - 1
                  /\ t # 0 => store.C2[Cell(x, y)] = Product!SetToBag(Slice(x, y, 0, t))

\* A job comes before those that are waiting for it and their other instructions.
ProdInv ==
  /\ "C2" \in DOMAIN store /\ store.C2 = [e \in 0..n * n - 1 |-> store.C2[e]]
  /\ \A j \in Jobs : Live(j) => Sorted(todo[j]) /\ Proper(todo[j])
  /\ \A j, k \in Jobs : Live(j) /\ Live(k) /\ Height(k) < Height(j) => Precedes(Work(todo[k]), Work(todo[j]))
  /\ main # "idle" => \A x, y \in 0..n - 1 : Summed(x, y)

\* The terms of a product are for the elements it writes.
LEMMA TermsInFoot ==
  ASSUME NEW q, q[1] # "sync", IsProd(q[2][2]), q[2][1] \in Products, NEW v \in Item(q)
  PROVE  /\ v[1] \in 0..n - 1 /\ v[2] \in 0..n - 1
         /\ Cell(v[1], v[2]) \in Foot(q).w /\ Cell(v[1], v[2]) \in Foot(q).u
<1> DEFINE c == q[2][2]
<1>1. PICK r, a, k, m, l, p \in Nat : Inside(r, a, k, m, l, p) /\ c = Prod(r, a, k, m, l, p)
  BY DEF IsProd
<1>2. v \in Cube(r, k, a, m, p, l)
  BY <1>1, TermsOf DEF Item
<1>3. PICK x \in r..r + m - 1, y \in k..k + p - 1 : v[1] = x /\ v[2] = y
  BY <1>2 DEF Cube
<1>4. x \in 0..n - 1 /\ y \in 0..n - 1
  BY <1>1, Constants DEF Inside, Size
<1>5. Cell(x, y) \in Product!Cells(c)
  BY <1>1, <1>4, InBox
<1>6. c # <<"g_main">> /\ c[1] = "rec_matmul"
  BY <1>1 DEF Prod, Product!rec_matmul
<1>7. Cell(x, y) # Product!call_time
  <2>1. x \in Nat /\ y \in Nat
    BY <1>4
  <2>2. Cell(x, y) \in Nat
    BY <2>1, CellFacts
  <2> QED BY <2>2 DEF Product!call_time
<1>8. CASE q[1] = "do"
  <2>1. Foot(q) = FootPiece(q[2])
    BY <1>8 DEF Foot
  <2>2. LET b == Product!Cells(c) \ {Product!call_time} IN FootPiece(q[2]) = [w |-> b, u |-> b]
    BY <1>6, PieceOfProduct
  <2> QED BY <1>3, <1>4, <1>5, <1>7, <2>1, <2>2
<1>9. CASE q[1] # "do"
  <2>1. Foot(q).w = Product!Cells(c) /\ Foot(q).u = Product!Cells(c)
    BY <1>6, <1>9 DEF Foot, FootCall, FootProd, Products, Lus
  <2> QED BY <1>3, <1>4, <1>5, <2>1
<1> QED BY <1>8, <1>9

\* What a job does next comes before everything that the other jobs do.
LEMMA FirstFirst ==
  ASSUME RInv, ProdInv, program[1] \in Products,
         NEW j \in Jobs, phase[j] = "running", todo[j] # <<>>, todo[j][1][1] # "sync",
         NEW m \in Jobs, Live(m), m # j
  PROVE  Precedes(Item(todo[j][1]), Work(todo[m]))
<1> DEFINE q == todo[j][1]
<1>1. Live(j) /\ todo[j] \in Seq(Code) /\ 1 \in DOMAIN todo[j]
  BY TailFacts DEF Live, RInv, TypeR
<1>2. Left(todo[j], j) /\ Left(todo[m], m) /\ j[1] = program[1] /\ m[1] = program[1]
  BY <1>1, JobFacts DEF JobOK
<1> SUFFICES ASSUME NEW v \in Item(q), NEW w \in Work(todo[m]), v[1] = w[1], v[2] = w[2]
             PROVE  v[3] < w[3]
  BY DEF Precedes
<1>3. PICK i \in DOMAIN todo[m] : w \in Item(todo[m][i])
  BY DEF Work
<1>4. todo[m][i][1] # "sync" /\ ~Counting(todo[m][i]) /\ ~Counting(q)
  BY <1>3 DEF Item
<1>5. IsProd(q[2][2]) /\ IsProd(todo[m][i][2][2])
  BY <1>1, <1>3, <1>4 DEF ProdInv, Proper
<1>6. q[2][1] = program[1] /\ todo[m][i][2][1] = program[1] /\ Within(Foot(todo[m][i]), FootCall(m))
  BY <1>1, <1>2, <1>3, <1>4 DEF Left, FitsIn
<1>7. Cell(v[1], v[2]) \in Foot(q).w
  BY <1>5, <1>6, TermsInFoot
<1>8. Cell(w[1], w[2]) \in Foot(todo[m][i]).u
  BY <1>3, <1>4, <1>5, <1>6, TermsInFoot
<1>9. ~Apart(Foot(q), FootCall(m))
  BY <1>6, <1>7, <1>8 DEF Apart, Within
<1>10. Height(j) < Height(m)
  BY <1>9, RunsFirst
<1>11. Precedes(Work(todo[j]), Work(todo[m]))
  BY <1>1, <1>10 DEF ProdInv
<1>12. v \in Work(todo[j])
  BY <1>1 DEF Work
<1> QED BY <1>11, <1>12 DEF Precedes

\* A step after which the same products are to be added up, in the same order.
SameSums ==
  /\ store'.C2 = store.C2 /\ DOMAIN store' = DOMAIN store
  /\ (main # "idle" <=> main' # "idle")
  /\ \A j \in Jobs : Live(j)' => Sorted(todo'[j]) /\ Proper(todo'[j])
  /\ \A j, k \in Jobs : Live(j)' /\ Live(k)' /\ Height(k) < Height(j) =>
       Precedes(Work(todo'[k]), Work(todo'[j]))
  /\ \A v : (\E j \in Jobs : Live(j)' /\ v \in Work(todo'[j])) <=> (\E j \in Jobs : Live(j) /\ v \in Work(todo[j]))

\* Such a step preserves the invariant.
LEMMA SameSumsKeeps == ASSUME ProdInv, SameSums PROVE ProdInv'
<1>1. \A x, y : Open(x, y)' = Open(x, y)
  BY DEF SameSums, Open
<1>2. \A x, y : Summed(x, y)' <=> Summed(x, y)
  BY <1>1 DEF SameSums, Summed
<1>3. ("C2" \in DOMAIN store /\ store.C2 = [e \in 0..n * n - 1 |-> store.C2[e]])'
  BY DEF SameSums, ProdInv
<1>4. (main # "idle" => \A x, y \in 0..n - 1 : Summed(x, y))'
  BY <1>2 DEF SameSums, ProdInv
<1> QED BY <1>3, <1>4 DEF SameSums, ProdInv

\* A step of a job j alone that leaves it the same products.
SameWork(j) ==
  /\ store'.C2 = store.C2 /\ DOMAIN store' = DOMAIN store
  /\ main' = main
  /\ \A m \in Jobs : Live(m)' <=> Live(m)
  /\ \A m \in Jobs : m # j => todo'[m] = todo[m]
  /\ Work(todo'[j]) = Work(todo[j]) /\ Sorted(todo'[j]) /\ Proper(todo'[j])

\* Such a step preserves the invariant.
LEMMA SameWorkKeeps == ASSUME ProdInv, NEW j \in Jobs, SameWork(j) PROVE ProdInv'
<1>1. \A m \in Jobs : Work(todo'[m]) = Work(todo[m])
  BY DEF SameWork
<1>2. \A m \in Jobs : Live(m)' => Sorted(todo'[m]) /\ Proper(todo'[m])
  BY DEF SameWork, ProdInv
<1>3. \A m, k \in Jobs : Live(m)' /\ Live(k)' /\ Height(k) < Height(m) =>
        Precedes(Work(todo'[k]), Work(todo'[m]))
  BY <1>1 DEF SameWork, ProdInv
<1>4. SameSums
  BY <1>1, <1>2, <1>3 DEF SameWork, SameSums
<1> QED BY <1>4, SameSumsKeeps

\* A call is replaced by what the routine adds up.
LEMMA CallKeepsProd ==
  ASSUME RInv, ProdInv, program[1] \in Products, NEW j \in Jobs, Run!CallRoutine(j)
  PROVE  ProdInv'
<1>0. PICK a : a = Run!Arg(j)
  OBVIOUS
<1> DEFINE s == todo[j]  t == Body(a) \o Tail(s)
<1>1. /\ Live(j) /\ s # <<>> /\ s \in Seq(Code) /\ s[1] = <<"call", a>> /\ 1 \in DOMAIN s
  BY <1>0, AtFacts DEF Run!CallRoutine
<1>2. Good(a) /\ a[1] \in Products
  <2>1. Left(s, j) /\ j[1] = program[1]
    BY <1>1, JobFacts DEF JobOK
  <2> QED BY <1>1, <2>1 DEF Left, FitsIn
<1>3. BodyAdds(a) /\ Body(a) \in Seq(Code)
  BY <1>2, BodyOfGood, BodyOfProductAdds DEF BodyOK
<1>4. Sorted(s) /\ Proper(s)
  BY <1>1 DEF ProdInv
<1>5. Work(t) = Work(s) /\ Sorted(t) /\ Proper(t)
  BY <1>1, <1>3, <1>4, CallAdds
<1>6. todo' = [todo EXCEPT ![j] = t] /\ phase' = phase /\ main' = main /\ store' = store
  BY <1>0 DEF Run!CallRoutine
<1>7. todo \in [Jobs -> Seq(Code)]
  BY DEF RInv, TypeR
<1> HIDE DEF t
<1>8. todo'[j] = t /\ \A m \in Jobs : m # j => todo'[m] = todo[m]
  BY <1>6, <1>7
<1>9. SameWork(j)
  BY <1>5, <1>6, <1>8 DEF SameWork, Live
<1> QED BY <1>9, SameWorkKeeps

\* A sync adds nothing up.
LEMMA EnterKeepsProd ==
  ASSUME RInv, ProdInv, NEW j \in Jobs, Run!EnterSync(j)
  PROVE  ProdInv'
<1> DEFINE s == todo[j]  t == Tail(s)
<1>1. /\ phase[j] = "running" /\ Live(j) /\ s # <<>> /\ s \in Seq(Code) /\ s[1][1] = "sync"
  BY AtFacts DEF Run!EnterSync
<1>2. Sorted(s) /\ Proper(s) /\ Item(s[1]) = {}
  BY <1>1 DEF ProdInv, Item
<1>3. Work(t) = Work(s) /\ Sorted(t) /\ Proper(t)
  BY <1>1, <1>2, RestAdds
<1>4. /\ todo' = [todo EXCEPT ![j] = t] /\ main' = main /\ store' = store
      /\ phase' = [phase EXCEPT ![j] = "waiting"]
  BY DEF Run!EnterSync, Run!FJ!Sync
<1>5. phase \in [Jobs -> {"none", "running", "waiting"}] /\ todo \in [Jobs -> Seq(Code)]
  BY DEF RInv, TypeR
<1> HIDE DEF t
<1>6. todo'[j] = t /\ \A m \in Jobs : m # j => todo'[m] = todo[m]
  BY <1>4, <1>5
<1>7. \A m \in Jobs : Live(m)' <=> Live(m)
  BY <1>1, <1>4, <1>5 DEF Live
<1>8. SameWork(j)
  BY <1>3, <1>4, <1>6, <1>7 DEF SameWork
<1> QED BY <1>8, SameWorkKeeps

\* A job that has waited has the same products left.
LEMMA LeaveKeepsProd ==
  ASSUME RInv, ProdInv, NEW j \in Jobs, Run!LeaveSync(j)
  PROVE  ProdInv'
<1>1. /\ phase[j] = "waiting" /\ todo' = todo /\ main' = main /\ store' = store
      /\ phase' = [phase EXCEPT ![j] = "running"]
  BY DEF Run!LeaveSync, Run!FJ!SyncReturn
<1>2. phase \in [Jobs -> {"none", "running", "waiting"}]
  BY DEF RInv, TypeR
<1>3. \A m \in Jobs : Live(m)' <=> Live(m)
  BY <1>1, <1>2 DEF Live
<1>4. Sorted(todo'[j]) /\ Proper(todo'[j])
  BY <1>1 DEF ProdInv, Live
<1>5. SameWork(j)
  BY <1>1, <1>3, <1>4 DEF SameWork
<1> QED BY <1>5, SameWorkKeeps

\* A job that ends has nothing left.
LEMMA FinishKeepsProd ==
  ASSUME RInv, ProdInv, NEW j \in Jobs, Run!Finish(j)
  PROVE  ProdInv'
<1>1. /\ phase[j] = "running" /\ todo[j] = <<>> /\ todo' = todo /\ store' = store
      /\ phase' = [phase EXCEPT ![j] = "none"] /\ main' = IF parent[j] = NULL THEN "done" ELSE main
  BY DEF Run!Finish, Run!FJ!Leave
<1>2. phase \in [Jobs -> {"none", "running", "waiting"}]
  BY DEF RInv, TypeR
<1>3. Live(j) /\ main # "idle" /\ main' # "idle"
  BY <1>1, JobFacts DEF Live
<1>4. \A m \in Jobs : Live(m)' <=> Live(m) /\ m # j
  BY <1>1, <1>2 DEF Live
<1>5. Work(todo[j]) = {}
  BY <1>1 DEF Work
<1>6. SameSums
  BY <1>1, <1>3, <1>4, <1>5 DEF SameSums, ProdInv
<1> QED BY <1>6, SameSumsKeeps

\* A job that is spawned takes over what its parent would have added up next.
LEMMA SpawnKeepsProd ==
  ASSUME RInv, ProdInv, program[1] \in Products, NEW j \in Jobs, Run!SpawnRoutine(j)
  PROVE  ProdInv'
<1>0. PICK k : k = Run!Arg(j)
  OBVIOUS
<1> DEFINE s == todo[j]  t == Tail(s)  b == Body(k)
<1>1. /\ Run!At(j, "spawn") /\ phase[j] = "running" /\ Live(j) /\ s # <<>> /\ s \in Seq(Code)
      /\ s[1] = <<"spawn", k>> /\ 1 \in DOMAIN s
  BY <1>0, AtFacts DEF Run!SpawnRoutine
<1>2. Good(k) /\ k[1] \in Products
  <2>1. Left(s, j) /\ j[1] = program[1]
    BY <1>1, JobFacts DEF JobOK
  <2> QED BY <1>1, <2>1 DEF Left, FitsIn
<1>3. k \in Jobs /\ ~Live(k) /\ Height(k) < Height(j) /\ k # j
  BY <1>0, <1>1, SpawnIsNew
<1>4. \A m \in Jobs : Live(m) => Height(m) \in Nat
  BY JobFacts
<1>5. Height(k) \in Nat
  BY <1>2, FootFacts
<1>6. Sorted(s) /\ Proper(s)
  BY <1>1 DEF ProdInv
<1>7. Work(b) = Item(s[1]) /\ Sorted(b) /\ Proper(b)
  <2>1. IsProd(k[2]) /\ Item(s[1]) = Terms(k[2])
    BY <1>1, <1>6 DEF Proper, Item, Counting
  <2>2. k[2] # <<"g_main">>
    BY <2>1 DEF IsProd, Prod, Product!rec_matmul
  <2> QED BY <1>2, <2>1, <2>2, BodyOfProductAdds DEF BodyAdds, TermsOfCall
<1>8. Work(s) = Work(b) \cup Work(t) /\ Precedes(Work(b), Work(t)) /\ Sorted(t) /\ Proper(t)
  BY <1>1, <1>6, <1>7, RestAdds
<1>9. /\ todo' = [todo EXCEPT ![j] = t, ![k] = b] /\ main' = main /\ store' = store
      /\ phase' = [phase EXCEPT ![k] = "running"]
  BY <1>0 DEF Run!SpawnRoutine, Run!FJ!Spawn, Run!FJ!Begin
<1> HIDE DEF t, b
<1>10. phase \in [Jobs -> {"none", "running", "waiting"}] /\ todo \in [Jobs -> Seq(Code)]
  BY DEF RInv, TypeR
<1>11. todo'[j] = t /\ todo'[k] = b /\ \A m \in Jobs \ {j, k} : todo'[m] = todo[m]
  BY <1>3, <1>9, <1>10
<1>12. \A m \in Jobs : Live(m)' <=> Live(m) \/ m = k
  BY <1>3, <1>9, <1>10 DEF Live
<1>13. \A m \in Jobs : Live(m)' => Sorted(todo'[m]) /\ Proper(todo'[m])
  BY <1>7, <1>8, <1>11, <1>12 DEF ProdInv
\* The new job comes before all others but those that came before its parent.
<1>14. ASSUME NEW m \in Jobs, NEW i \in Jobs, Live(m)', Live(i)', Height(i) < Height(m)
       PROVE  Precedes(Work(todo'[i]), Work(todo'[m]))
  <2>1. Height(m) \in Nat /\ Height(i) \in Nat /\ Height(j) \in Nat /\ Height(k) \in Nat
    BY <1>1, <1>4, <1>5, <1>12, <1>14
  <2>2. CASE i = k /\ m = j
    BY <1>8, <1>11, <2>2
  <2>3. CASE i = k /\ m # j
    <3>1. m # k /\ Live(m) /\ todo'[m] = todo[m]
      BY <1>11, <1>12, <1>14, <2>1, <2>3
    <3>2. Precedes(Item(s[1]), Work(todo[m]))
      BY <1>1, <2>3, <3>1, FirstFirst
    <3> QED BY <1>7, <1>11, <2>3, <3>1, <3>2
  <2>4. CASE i # k /\ m = k
    <3>1. i # j /\ Live(i) /\ todo'[i] = todo[i] /\ Height(i) < Height(j)
      BY <1>3, <1>11, <1>12, <1>14, <2>1, <2>4
    <3>2. Precedes(Work(todo[i]), Work(s))
      BY <1>1, <3>1 DEF ProdInv
    <3> QED BY <1>8, <1>11, <2>4, <3>1, <3>2 DEF Precedes
  <2>5. CASE i # k /\ m # k
    <3>1. Live(i) /\ Live(m) /\ Precedes(Work(todo[i]), Work(todo[m]))
      BY <1>12, <1>14, <2>5 DEF ProdInv
    <3>2. Work(todo'[i]) \subseteq Work(todo[i]) /\ Work(todo'[m]) \subseteq Work(todo[m])
      BY <1>8, <1>11, <2>5
    <3> QED BY <3>1, <3>2 DEF Precedes
  <2> QED BY <2>2, <2>3, <2>4, <2>5
<1>15. \A v : (\E m \in Jobs : Live(m)' /\ v \in Work(todo'[m])) <=> (\E m \in Jobs : Live(m) /\ v \in Work(todo[m]))
  BY <1>1, <1>3, <1>8, <1>11, <1>12
<1>16. SameSums
  BY <1>9, <1>13, <1>14, <1>15 DEF SameSums
<1> QED BY <1>16, SameSumsKeeps

\* Counting a call leaves C2 alone.
LEMMA CountKeepsProd ==
  ASSUME RInv, ProdInv, program[1] \in Products, NEW j \in Jobs, Run!DoPiece(j), Counting(todo[j][1])
  PROVE  ProdInv'
<1>0. PICK z : z = Run!Arg(j)
  OBVIOUS
<1> DEFINE s == todo[j]  t == Tail(s)
<1>1. /\ phase[j] = "running" /\ Live(j) /\ s # <<>> /\ s \in Seq(Code)
      /\ s[1] = <<"do", z>> /\ 1 \in DOMAIN s
  BY <1>0, AtFacts DEF Run!DoPiece
<1>2. z[1] \in Products
  <2>1. Left(s, j) /\ j[1] = program[1]
    BY <1>1, JobFacts DEF JobOK
  <2> QED BY <1>1, <2>1 DEF Left, FitsIn
<1>3. Sorted(s) /\ Proper(s) /\ Item(s[1]) = {}
  BY <1>1 DEF ProdInv, Item
<1>4. Work(t) = Work(s) /\ Sorted(t) /\ Proper(t)
  BY <1>1, <1>3, RestAdds
<1>5. todo' = [todo EXCEPT ![j] = t] /\ main' = main /\ phase' = phase /\ store' = Effect(store, z)
  BY <1>0 DEF Run!DoPiece
<1>6. todo \in [Jobs -> Seq(Code)]
  BY DEF RInv, TypeR
<1> HIDE DEF t
<1>7. todo'[j] = t /\ \A m \in Jobs : m # j => todo'[m] = todo[m]
  BY <1>5, <1>6
<1>8. \A m \in Jobs : Live(m)' <=> Live(m)
  BY <1>5 DEF Live
<1>9. store'.C2 = store.C2 /\ DOMAIN store' = DOMAIN store
  <2>1. Effect(store, z) = Product!Effect(store, z[2])
    BY <1>2 DEF Effect, Products
  <2>2. z[2][1] \in {"load", "add"}
    BY <1>1 DEF Counting
  <2>3. CASE z[2][1] = "load"
    <3>1. store' = [store EXCEPT !.loaded = @ \cup {<<z[2][2], store.call_time>>}]
      BY <1>5, <2>1, <2>3 DEF Product!Effect
    <3> QED BY <3>1 DEF ProdInv
  <2>4. CASE z[2][1] = "add"
    <3>1. PICK a, b : store' = [store EXCEPT !.call_time = a, !.loaded = b]
      BY <1>5, <2>1, <2>4 DEF Product!Effect
    <3> QED BY <3>1 DEF ProdInv
  <2> QED BY <2>2, <2>3, <2>4
<1>10. SameWork(j)
  BY <1>4, <1>5, <1>7, <1>8, <1>9 DEF SameWork
<1> QED BY <1>10, SameWorkKeeps

\* A base case adds up the next products of the elements it writes, and no other job has
\* earlier ones of them left.
LEMMA PieceKeepsProd ==
  ASSUME RInv, ProdInv, program[1] \in Products, NEW j \in Jobs, Run!DoPiece(j), ~Counting(todo[j][1])
  PROVE  ProdInv'
<1>0. PICK z : z = Run!Arg(j)
  OBVIOUS
<1> DEFINE s == todo[j]  t == Tail(s)  c == z[2]
<1>1. /\ phase[j] = "running" /\ Live(j) /\ s # <<>> /\ s \in Seq(Code)
      /\ s[1] = <<"do", z>> /\ 1 \in DOMAIN s
  BY <1>0, AtFacts DEF Run!DoPiece
<1>2. z[1] \in Products
  <2>1. Left(s, j) /\ j[1] = program[1]
    BY <1>1, JobFacts DEF JobOK
  <2> QED BY <1>1, <2>1 DEF Left, FitsIn
<1>3. Sorted(s) /\ Proper(s) /\ main # "idle"
  BY <1>1, JobFacts DEF ProdInv
<1>4. Work(s) = Item(s[1]) \cup Work(t) /\ Precedes(Item(s[1]), Work(t)) /\ Sorted(t) /\ Proper(t)
  BY <1>1, <1>3, RestAdds
<1>5. PICK r, a, k, m, q, p \in Nat : Inside(r, a, k, m, q, p) /\ c = Prod(r, a, k, m, q, p)
  <2>1. s[1][1] = "do" /\ s[1][2][2] = c
    BY <1>1
  <2>2. IsProd(s[1][2][2])
    BY <1>1, <1>3, <2>1 DEF Proper
  <2>3. IsProd(c)
    BY <2>1, <2>2
  <2> HIDE DEF c
  <2> QED BY <2>3 DEF IsProd
<1>6. Item(s[1]) = Cube(r, k, a, m, p, q)
  BY <1>1, <1>5, TermsOf DEF Item
<1>7. /\ todo' = [todo EXCEPT ![j] = t] /\ main' = main /\ phase' = phase
      /\ DOMAIN store' = DOMAIN store /\ store'.C2 = Product!Multiply(store.C2, c)
  <2>1. Effect(store, z) = Product!Effect(store, c)
    BY <1>2 DEF Effect, Products
  <2>2. c[1] = "rec_matmul"
    BY <1>5 DEF Prod, Product!rec_matmul
  <2>3. store' = [store EXCEPT !.C2 = Product!Multiply(@, c)]
    BY <1>0, <2>1, <2>2 DEF Run!DoPiece, Product!Effect
  <2>4. "C2" \in DOMAIN store
    BY DEF ProdInv
  <2> QED BY <1>0, <2>3, <2>4 DEF Run!DoPiece
<1> HIDE DEF t, c
<1>8. phase \in [Jobs -> {"none", "running", "waiting"}] /\ todo \in [Jobs -> Seq(Code)]
  BY DEF RInv, TypeR
<1>9. todo'[j] = t /\ \A i \in Jobs : i # j => todo'[i] = todo[i]
  BY <1>7, <1>8
<1>10. \A i \in Jobs : Live(i)' <=> Live(i)
  BY <1>7 DEF Live
<1>11. \A i \in Jobs : Live(i)' => Sorted(todo'[i]) /\ Proper(todo'[i])
  BY <1>4, <1>9, <1>10 DEF ProdInv
<1>12. \A i \in Jobs : Work(todo'[i]) \subseteq Work(todo[i])
  BY <1>4, <1>9
<1>13. \A i, l \in Jobs : Live(i)' /\ Live(l)' /\ Height(l) < Height(i) =>
         Precedes(Work(todo'[l]), Work(todo'[i]))
  BY <1>10, <1>12 DEF ProdInv, Precedes
<1>14. "C2" \in DOMAIN store /\ DOMAIN store.C2 = 0..n * n - 1
  BY DEF ProdInv
<1>15. "C2" \in DOMAIN store' /\ store'.C2 = [e \in 0..n * n - 1 |-> store'.C2[e]]
  BY <1>7, <1>14 DEF Product!Multiply
\* What is done next comes before all that is left.
<1>16. ASSUME NEW i \in Jobs, Live(i) PROVE Precedes(Item(s[1]), Work(todo'[i]))
  <2>1. CASE i = j
    BY <1>4, <1>9, <2>1
  <2>2. CASE i # j
    BY <1>1, <1>9, <1>16, <2>2, FirstFirst
  <2> QED BY <2>1, <2>2
<1>17. \A v : (\E i \in Jobs : Live(i) /\ v \in Work(todo[i])) <=>
                v \in Item(s[1]) \/ \E i \in Jobs : Live(i)' /\ v \in Work(todo'[i])
  BY <1>1, <1>4, <1>9, <1>10
<1>18. ASSUME NEW x \in 0..n - 1, NEW y \in 0..n - 1 PROVE Summed(x, y)'
  <2> DEFINE O == Open(x, y)  P == Open(x, y)'  e == Cell(x, y)  b == a + q
  <2>1. n \in Nat /\ a + q <= n /\ q \in Nat /\ q > 0 /\ a \in Nat /\ b = a + q
    BY <1>5, Constants DEF Inside, Size
  <2>2. PICK d \in 0..n : O = d..n - 1 /\ (d # 0 => store.C2[e] = Product!SetToBag(Slice(x, y, 0, d)))
    BY <1>3 DEF ProdInv, Summed
  <2> HIDE DEF b
  <2>3. store'.C2[e] = IF x \in r..r + m - 1 /\ y \in k..k + p - 1
                    THEN IF a # 0 THEN Product!(+)(store.C2[e], Product!SetToBag(Slice(x, y, a, b)))
                         ELSE Product!SetToBag(Slice(x, y, a, b))
                    ELSE store.C2[e]
    <3>1. Multiplied(store.C2, Product!Multiply(store.C2, Prod(r, a, k, m, q, p)), r, a, k, m, b, p, x, y)
      <4>1. Inside(r, a, k, m, q, p) /\ b = a + q
        BY <1>5, <2>1
      <4> QED BY <1>14, <4>1, MultiplyAt
    <3>2. Multiplied(store.C2, store'.C2, r, a, k, m, b, p, x, y)
      BY <1>5, <1>7, <3>1
    <3> QED BY <3>2 DEF Multiplied, e
  <2>4. \A u \in 0..n - 1 : u \in O <=> <<x, y, u>> \in Item(s[1]) \/ u \in P
    BY <1>17 DEF Open
  <2>5. O \subseteq 0..n - 1 /\ P \subseteq 0..n - 1
    BY DEF Open
  <2> HIDE DEF O, P, e
  <2>6. CASE ~(x \in r..r + m - 1 /\ y \in k..k + p - 1)
    <3>1. \A u : <<x, y, u>> \notin Item(s[1])
      BY <1>6, <2>6 DEF Cube
    <3>2. P = O
      BY <2>4, <2>5, <3>1
    <3>3. store'.C2[e] = store.C2[e]
      BY <2>3, <2>6
    <3> QED BY <2>2, <3>2, <3>3 DEF Summed, P, e
  <2>7. CASE x \in r..r + m - 1 /\ y \in k..k + p - 1
    <3>1. \A u : <<x, y, u>> \in Item(s[1]) <=> u \in a..a + q - 1
      BY <1>6, <2>7 DEF Cube
    <3>2. \A u \in P : u \in Nat /\ a + q <= u
      <4> SUFFICES ASSUME NEW u \in P PROVE u \in Nat /\ a + q <= u
        OBVIOUS
      <4>1. u \in Nat
        BY <2>1, <2>5
      <4>2. PICK i \in Jobs : Live(i)' /\ <<x, y, u>> \in Work(todo'[i])
        BY DEF P, Open
      <4>3. Precedes(Item(s[1]), Work(todo'[i]))
        BY <1>10, <1>16, <4>2
      <4> DEFINE l == a + q - 1
      <4>4. <<x, y, l>> \in Item(s[1])
        BY <2>1, <3>1
      <4> HIDE DEF l
      <4>5. <<x, y, l>>[3] < <<x, y, u>>[3]
        BY <4>2, <4>3, <4>4 DEF Precedes
      <4>6. l < u
        BY <4>5
      <4> QED BY <2>1, <4>1, <4>6 DEF l
    <3>3. \A u \in 0..n - 1 : u \in O <=> u \in a..a + q - 1 \/ u \in P
      BY <2>4, <3>1
    <3>4. d = a
      <4>1. a \in O /\ a \in 0..n - 1
        BY <2>1, <3>3
      <4>2. d <= a /\ d \in O
        BY <2>1, <2>2, <4>1
      <4>3. a <= d
        BY <2>1, <2>2, <2>5, <3>2, <3>3, <4>2
      <4> QED BY <2>1, <2>2, <4>2, <4>3
    <3>5. P = a + q..n - 1
      <4>1. \A u \in P : u \in a + q..n - 1
        BY <2>1, <2>5, <3>2
      <4>2. \A u \in a + q..n - 1 : u \in 0..n - 1 /\ u \in a..n - 1 /\ u \notin a..a + q - 1
        BY <2>1
      <4>3. O = a..n - 1
        BY <2>2, <3>4
      <4>4. \A u \in a + q..n - 1 : u \in P
        BY <3>3, <4>2, <4>3
      <4> QED BY <4>1, <4>4
    <3>6. store'.C2[e] = Product!SetToBag(Slice(x, y, 0, b))
      <4>1. CASE a = 0
        BY <2>1, <2>3, <2>7, <4>1
      <4>2. CASE a # 0
        <5>1. x \in Nat /\ b \in Nat /\ a <= b /\ b <= n
          BY <2>1
        <5>2. Product!(+)(Product!SetToBag(Slice(x, y, 0, a)), Product!SetToBag(Slice(x, y, a, b)))
                = Product!SetToBag(Slice(x, y, 0, b))
          BY <2>1, <5>1, SliceAdds
        <5> QED BY <2>2, <2>3, <2>7, <3>4, <4>2, <5>2
      <4> QED BY <4>1, <4>2
    <3>7. b \in 0..n /\ P = b..n - 1 /\ store'.C2[e] = Product!SetToBag(Slice(x, y, 0, b))
      BY <2>1, <3>5, <3>6
    <3> QED BY <3>7 DEF Summed, P, e
  <2> QED BY <2>6, <2>7
<1> QED BY <1>7, <1>11, <1>13, <1>15, <1>18 DEF ProdInv

\* In the beginning everything is to be added up.
LEMMA StartKeepsProd ==
  ASSUME RInv, ProdInv, program[1] \in Products, Run!StartMain
  PROVE  ProdInv'
<1> DEFINE j == program  b == Body(j)
<1>1. /\ main = "idle" /\ main' = "running" /\ program' = program /\ store' = store
      /\ phase' = [phase EXCEPT ![j] = "running"] /\ todo' = [todo EXCEPT ![j] = b]
  BY DEF Run!StartMain, Run!FJ!Start, Run!FJ!Begin
<1>2. /\ phase \in [Jobs -> {"none", "running", "waiting"}] /\ todo \in [Jobs -> Seq(Code)]
      /\ j \in Mains /\ j \in Jobs /\ \A m \in Jobs : ~Live(m)
  BY <1>1 DEF RInv, TypeR, Jobs
<1>3. Good(j) /\ j[2] = <<"g_main">>
  BY <1>2, MainsGood DEF Mains
<1>4. Work(b) = AllTerms /\ Sorted(b) /\ Proper(b)
  BY <1>3, BodyOfProductAdds DEF BodyAdds, TermsOfCall
<1> HIDE DEF b
<1>5. phase'[j] = "running" /\ todo'[j] = b /\ \A m \in Jobs : m # j => phase'[m] = phase[m]
  BY <1>1, <1>2
<1>6. \A m \in Jobs : Live(m)' <=> m = j
  BY <1>2, <1>5 DEF Live
<1>7. \A m \in Jobs : Live(m)' => Sorted(todo'[m]) /\ Proper(todo'[m])
  BY <1>4, <1>5, <1>6
<1>8. Height(j) \in Nat
  BY <1>3, FootFacts
<1>9. \A m, k \in Jobs : Live(m)' /\ Live(k)' /\ Height(k) < Height(m) =>
        Precedes(Work(todo'[k]), Work(todo'[m]))
  BY <1>6, <1>8
<1>10. ASSUME NEW x \in 0..n - 1, NEW y \in 0..n - 1 PROVE Summed(x, y)'
  <2>1. n \in Nat
    BY Constants DEF Size
  <2>2. \A u \in 0..n - 1 : <<x, y, u>> \in AllTerms
    BY <2>1 DEF AllTerms, Cube
  <2>3. \A u \in 0..n - 1 : \E m \in Jobs : Live(m)' /\ <<x, y, u>> \in Work(todo'[m])
    BY <1>2, <1>4, <1>5, <1>6, <2>2
  <2>4. Open(x, y)' = 0..n - 1
    BY <2>3 DEF Open
  <2> QED BY <2>1, <2>4 DEF Summed
<1> QED BY <1>1, <1>7, <1>9, <1>10 DEF ProdInv

\* Nothing is to be added up before the main job starts.
LEMMA InitProd == ASSUME Init, program[1] \in Products PROVE ProdInv
<1>1. phase = [j \in Jobs |-> "none"] /\ main = "idle" /\ store = Store0(program)
  BY DEF Init, Run!Init, Run!FJ!Init
<1>2. store = Product!memory
  BY <1>1 DEF Store0, Products
<1>3. "C2" \in DOMAIN store /\ store.C2 = [e \in 0..n * n - 1 |-> store.C2[e]]
  BY <1>2 DEF Product!memory, Product!zero
<1>4. \A j \in Jobs : ~Live(j)
  BY <1>1 DEF Live
<1> QED BY <1>1, <1>3, <1>4 DEF ProdInv

\* Every step of a matrix product preserves the invariant.
LEMMA NextProd ==
  ASSUME RInv, ProdInv, program[1] \in Products, [Next]_(Run!vars)
  PROVE  ProdInv'
<1>1. CASE Run!StartMain
  BY <1>1, StartKeepsProd
<1>2. ASSUME store' = store, phase' = phase, todo' = todo, main # "idle" <=> main' # "idle" PROVE ProdInv'
  <2>1. SameSums
    BY <1>2 DEF SameSums, ProdInv, Live
  <2> QED BY <2>1, SameSumsKeeps
<1>3. CASE Run!ReturnMain
  BY <1>2, <1>3 DEF Run!ReturnMain, Run!FJ!MainReturn
<1>4. CASE \E j \in Jobs : Run!ControlStep(j) \/ Run!DoPiece(j)
  BY <1>4, CallKeepsProd, SpawnKeepsProd, EnterKeepsProd, LeaveKeepsProd, FinishKeepsProd, CountKeepsProd,
     PieceKeepsProd
     DEF Run!ControlStep
<1>5. CASE UNCHANGED Run!vars
  BY <1>2, <1>5 DEF Run!vars
<1> QED BY <1>1, <1>3, <1>4, <1>5 DEF Next, Run!Next

\* When no job is left every element has its n products.
LEMMA ProdInvSame ==
  ASSUME RInv, TreeInv, program[1] \in Products => ProdInv
  PROVE  SameAsIterMatmul
<1> SUFFICES ASSUME Over, program[1] \in Products PROVE store.C2 = Product!iter_matmul
  BY DEF SameAsIterMatmul, Products
<1>1. main # "idle" /\ \A j \in Jobs : ~Live(j)
  BY DEF Over, TreeInv
<1>2. n \in Nat /\ n # 0
  BY Constants DEF Size
<1>3. ASSUME NEW x \in 0..n - 1, NEW y \in 0..n - 1
      PROVE  store.C2[Cell(x, y)] = Product!SetToBag(Slice(x, y, 0, n))
  <2>1. PICK t \in 0..n : /\ Open(x, y) = t..n - 1
                          /\ t # 0 => store.C2[Cell(x, y)] = Product!SetToBag(Slice(x, y, 0, t))
    BY <1>1 DEF ProdInv, Summed
  <2>2. Open(x, y) = {}
    BY <1>1 DEF Open
  <2>3. t = n
    <3>1. t # n => t \in t..n - 1
      BY <1>2, <2>1
    <3> QED BY <2>1, <2>2, <3>1
  <2> QED BY <1>2, <2>1, <2>3
<1>4. ASSUME NEW e \in 0..n * n - 1
      PROVE  store.C2[e] = Product!SetToBag({<<(e \div n) * n + j, j * n + (e % n)>> : j \in 0..n - 1})
  <2> DEFINE x == e \div n  y == e % n
  <2>1. x \in 0..n - 1 /\ y \in 0..n - 1 /\ e = Cell(x, y)
    BY CellsOfC
  <2> HIDE DEF x, y
  <2>2. store.C2[e] = Product!SetToBag(Slice(x, y, 0, n))
    BY <1>3, <2>1
  <2>3. Slice(x, y, 0, n) = {<<x * n + j, j * n + y>> : j \in 0..n - 1}
    BY DEF Slice, Cell
  <2> QED BY <2>2, <2>3 DEF x, y
<1>5. store.C2 = [e \in 0..n * n - 1 |-> store.C2[e]]
  BY DEF ProdInv
<1> QED BY <1>4, <1>5 DEF Product!iter_matmul

\* The invariant of the products, with what it rests on.
SumsInv == RInv /\ TreeInv /\ (program[1] \in Products => ProdInv)

\* It holds in every reachable state.
LEMMA SumsInvariance == Spec => []SumsInv
<1>1. Init => SumsInv
  BY InitRInv, InitTree, InitProd DEF SumsInv
<1>2. SumsInv /\ [Next]_(Run!vars) => SumsInv'
  <2> SUFFICES ASSUME SumsInv, [Next]_(Run!vars) PROVE SumsInv'
    OBVIOUS
  <2>1. program' = program
    BY DEF Next, Run!Next, Run!StartMain, Run!ReturnMain, Run!ControlStep, Run!CallRoutine, Run!SpawnRoutine,
           Run!EnterSync, Run!LeaveSync, Run!Finish, Run!DoPiece, Run!vars
  <2>2. RInv' /\ TreeInv'
    BY NextRInv, NextTree DEF SumsInv
  <2>3. (program[1] \in Products => ProdInv)'
    BY <2>1, NextProd DEF SumsInv
  <2> QED BY <2>2, <2>3 DEF SumsInv
<1> QED BY <1>1, <1>2, PTL DEF Spec, Run!Spec, Init, Next

\* At every moment an element of C2 is the sum of the first products of its row and column:
\* iter_matmul's loop adds them in the same order, whatever halves rec_matmul makes and
\* whichever of them it spawns.
THEOREM SumsGrowInOrder ==
  Spec => [](program[1] \in Products /\ main # "idle" => \A x, y \in 0..n - 1 : Summed(x, y))
<1>1. SumsInv => (program[1] \in Products /\ main # "idle" => \A x, y \in 0..n - 1 : Summed(x, y))
  BY DEF SumsInv, ProdInv
<1> QED BY <1>1, SumsInvariance, PTL

\* g_main finds C2 equal to C1: every product of an element of A and one of B has been added
\* up where iter_matmul adds it, once, for matrices and base cases of every size.
THEOREM ProductRight == Spec => []SameAsIterMatmul
<1>1. SumsInv => SameAsIterMatmul
  BY ProdInvSame DEF SumsInv
<1> QED BY <1>1, SumsInvariance, PTL
=============================================================================
