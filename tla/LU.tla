--------------------------------- MODULE LU ---------------------------------
(***************************************************************************)
(* The LU decomposition benchmarks: lu_para.c on the runtime, the serial   *)
(* lu_serial.c and the Cilk original cilk/lu.c.  All three have the same   *)
(* kernels and recursion, given here once; they differ in what is spawned  *)
(* and where they sync.  A Matrix is a pointer to its first block, that is *)
(* the block's offset in the whole array; the elements are symbolic.       *)
(***************************************************************************)
EXTENDS Integers, Sequences

CONSTANTS nBlocks, BLOCK_SIZE

-----------------------------------------------------------------------------
(* The recursion: the calls a routine makes, in groups.  What a group      *)
(* needs from memory is to be computed by the groups before it.            *)

MATRIX(M, I, J) == M + I * nBlocks + J

\* Mutant: the first column of V in both halves, as one call commented out in the code has it.
schurV00(M, V, W, nb) ==
  LET h == nb \div 2
      Call(I, J, K) == <<"schur", MATRIX(M, I * h, J * h), MATRIX(V, I * h, 0),
                         MATRIX(W, K * h, J * h), h>>
  IN [K \in 1..2 |-> <<Call(0, 0, K - 1), Call(0, 1, K - 1), Call(1, 0, K - 1), Call(1, 1, K - 1)>>]

schur(M, V, W, nb) ==
  LET h == nb \div 2
      Call(I, J, K) == <<"schur", MATRIX(M, I * h, J * h), MATRIX(V, I * h, K * h),
                         MATRIX(W, K * h, J * h), h>>
  IN [K \in 1..2 |-> <<Call(0, 0, K - 1), Call(0, 1, K - 1), Call(1, 0, K - 1), Call(1, 1, K - 1)>>]

aux_lower_solve(Ma, Mb, L, nb) ==
  << <<<<"lower_solve", Ma, L, nb>>>>,
     <<<<"schur", Mb, MATRIX(L, nb, 0), Ma, nb>>>>,
     <<<<"lower_solve", Mb, MATRIX(L, nb, nb), nb>>>> >>

lower_solve(M, L, nb) ==
  LET h == nb \div 2
  IN <<[J \in 1..2 |-> <<"aux_lower_solve", MATRIX(M, 0, (J - 1) * h),
                          MATRIX(M, h, (J - 1) * h), L, h>>]>>

aux_upper_solve(Ma, Mb, U, nb) ==
  << <<<<"upper_solve", Ma, U, nb>>>>,
     <<<<"schur", Mb, Ma, MATRIX(U, 0, nb), nb>>>>,
     <<<<"upper_solve", Mb, MATRIX(U, nb, nb), nb>>>> >>

upper_solve(M, U, nb) ==
  LET h == nb \div 2
  IN <<[I \in 1..2 |-> <<"aux_upper_solve", MATRIX(M, (I - 1) * h, 0),
                          MATRIX(M, (I - 1) * h, h), U, h>>]>>

lu(M, nb) ==
  LET h == nb \div 2
  IN << <<<<"lu", M, h>>>>,
        << <<"lower_solve", MATRIX(M, 0, h), M, h>>, <<"upper_solve", MATRIX(M, h, 0), M, h>> >>,
        <<<<"schur", MATRIX(M, h, h), MATRIX(M, h, 0), MATRIX(M, 0, h), h>>>>,
        <<<<"lu", MATRIX(M, h, h), h>>>> >>

Groups(c) ==
  CASE c[1] = "g_main" -> <<<<<<"lu", 0, nBlocks>>>>>>
    [] c[1] = "lu" -> lu(c[2], c[3])
    [] c[1] = "schur" -> schur(c[2], c[3], c[4], c[5])
    [] c[1] = "lower_solve" -> lower_solve(c[2], c[3], c[4])
    [] c[1] = "aux_lower_solve" -> aux_lower_solve(c[2], c[3], c[4], c[5])
    [] c[1] = "upper_solve" -> upper_solve(c[2], c[3], c[4])
    [] c[1] = "aux_upper_solve" -> aux_upper_solve(c[2], c[3], c[4], c[5])

\* One sequence behind the other.
Concat(ss) ==
  LET upto[i \in 0..Len(ss)] == IF i = 0 THEN <<>> ELSE upto[i - 1] \o ss[i]
  IN upto[Len(ss)]

\* Who waits for whom.
Serial(group) == [i \in DOMAIN group |-> <<"call", group[i]>>]

\* Mutant: the spawned call of lu is not waited for.
GregorNoSync(group) ==
  [i \in DOMAIN group |-> IF group[i][1] = "lu" THEN <<"spawn", group[i]>> ELSE <<"call", group[i]>>]

\* lu_para.c spawns the calls of lu and waits for each at once.
Gregor(group) ==
  Concat([i \in DOMAIN group |-> IF group[i][1] = "lu"
                                     THEN <<<<"spawn", group[i]>>, <<"sync", 0>>>>
                                     ELSE <<<<"call", group[i]>>>>])

Cilk(group) == [i \in DOMAIN group |-> <<"spawn", group[i]>>] \o <<<<"sync", 0>>>>

Schedule(variant, group) == CASE variant = "serial" -> Serial(group)
                              [] variant = "gregor" -> Gregor(group)
                              [] variant = "cilk" -> Cilk(group)

\* The last component is the size, except that the halves of an aux routine are blocks
\* already when it is 1.
IsBlock(c) == /\ c[1] \in {"lu", "schur", "lower_solve", "upper_solve"}
              /\ c[Len(c)] = 1

Body(variant, c) ==
  IF IsBlock(c) THEN <<<<"do", c>>>>
  ELSE LET g == Groups(c) IN Concat([i \in DOMAIN g |-> Schedule(variant, g[i])])

-----------------------------------------------------------------------------
(* The kernels.  Element e of the result is what was in the matrix minus   *)
(* L[i,k] * U[k,j] for the k in sub, divided by U[j,j] if div; it is junk  *)
(* as soon as something else was subtracted from it or divided it.         *)

Idx == 0..BLOCK_SIZE - 1
N == nBlocks * BLOCK_SIZE
Elements == (0..N - 1) \X (0..N - 1)

BLOCK(B, i, k) == <<(B \div nBlocks) * BLOCK_SIZE + i, (B % nBlocks) * BLOCK_SIZE + k>>

Junk == [sub |-> {-1}, div |-> TRUE]

Decomposed(e) == [sub |-> {k \in 0..N - 1 : k < e[1] /\ k < e[2]}, div |-> e[1] > e[2]]

\* A[e] - A[a] * A[x]
Minus(A, e, a, x) ==
  IF /\ a[1] = e[1] /\ a[2] = x[1] /\ x[2] = e[2]
     /\ a[1] > a[2] /\ x[1] <= x[2]
     /\ A[a] = Decomposed(a) /\ A[x] = Decomposed(x)
     /\ ~A[e].div /\ a[2] \notin A[e].sub
    THEN [A[e] EXCEPT !.sub = @ \cup {a[2]}]
    ELSE Junk

\* A[e] /= A[d]
Divide(A, e, d) ==
  [A EXCEPT ![e] = IF e[2] = d[1] /\ d[1] = d[2] /\ A[d] = Decomposed(d) /\ ~A[e].div
                     THEN [A[e] EXCEPT !.div = TRUE] ELSE Junk]

elem_daxmy(A, a, x, y, n) ==
  [e \in Elements |-> IF e[1] = y[1] /\ e[2] - y[2] \in 0..n - 1
                        THEN Minus(A, e, a, <<x[1], x[2] + e[2] - y[2]>>) ELSE A[e]]

\* The values <<p, q>> of two nested loops.
Nested == Concat([p \in 1..BLOCK_SIZE |-> [q \in 1..BLOCK_SIZE |-> <<p - 1, q - 1>>]])

\* A after the updates for all values in s, in order.
Updated(update(_, _), A, s) ==
  LET after[i \in 0..Len(s)] == IF i = 0 THEN A ELSE update(after[i - 1], s[i])
  IN after[Len(s)]

block_lu(A, B) ==
  Updated(LAMBDA a, ki : LET k == ki[1]  i == ki[2] IN
             elem_daxmy(Divide(a, BLOCK(B, i, k), BLOCK(B, k, k)), BLOCK(B, i, k),
                        BLOCK(B, k, k + 1), BLOCK(B, i, k + 1), BLOCK_SIZE - k - 1),
           A, SelectSeq(Nested, LAMBDA ki : ki[1] < ki[2]))

block_lower_solve(A, B, L) ==
  Updated(LAMBDA a, ik : elem_daxmy(a, BLOCK(L, ik[1], ik[2]), BLOCK(B, ik[2], 0),
                                     BLOCK(B, ik[1], 0), BLOCK_SIZE),
           A, SelectSeq(Nested, LAMBDA ik : ik[2] < ik[1]))

block_upper_solve(A, B, U) ==
  Updated(LAMBDA a, ik : LET i == ik[1]  k == ik[2] IN
             elem_daxmy(Divide(a, BLOCK(B, i, k), BLOCK(U, k, k)), BLOCK(B, i, k),
                        BLOCK(U, k, k + 1), BLOCK(B, i, k + 1), BLOCK_SIZE - k - 1),
           A, Nested)

block_schur(A, B, V, W) ==
  Updated(LAMBDA a, ik : elem_daxmy(a, BLOCK(V, ik[1], ik[2]), BLOCK(W, ik[2], 0),
                                     BLOCK(B, ik[1], 0), BLOCK_SIZE),
           A, Nested)

Kernel(A, c) ==
  CASE c[1] = "lu" -> block_lu(A, c[2])
    [] c[1] = "schur" -> block_schur(A, c[2], c[3], c[4])
    [] c[1] = "lower_solve" -> block_lower_solve(A, c[2], c[3])
    [] c[1] = "upper_solve" -> block_upper_solve(A, c[2], c[3])

init_matrix == [e \in Elements |-> [sub |-> {}, div |-> FALSE]]

\* What test_result compares with the saved matrix: the product of the two factors at
\* <<i, j>>, whose last term is LU[i,j] alone on and above the diagonal.
test_result(LU) ==
  \A e \in Elements :
    LET terms == {k \in 0..N - 1 : k < e[1] /\ k <= e[2]}
    IN IF e[1] <= e[2] THEN LU[e] = [sub |-> terms, div |-> FALSE]
                       ELSE LU[e] = [sub |-> terms \ {e[2]}, div |-> TRUE]

\* The blocks a kernel writes, and those it reads or writes.
Written(c) == {c[2]}
Used(c) == {c[i] : i \in 2..Len(c) - 1}
=============================================================================
