------------------------------ MODULE LUProofs ------------------------------
(***************************************************************************)
(* Proofs about the recursion of LU: the blocks a call may write and read  *)
(* (its footprint), and that the calls it makes stay inside of them and    *)
(* keep apart from each other wherever they are not ordered by a sync.     *)
(***************************************************************************)
EXTENDS LU, WellFoundedInduction, TLAPS

Size == Nat \ {0}

\* The block in row r and column k.
Cell(r, k) == r * nBlocks + k

\* The square of nb x nb blocks at M.
Square(M, nb) == {MATRIX(M, I, J) : I \in 0..nb - 1, J \in 0..nb - 1}

\* It does not stick out of the matrix on the right.
Fits(M, nb) == /\ M \in Nat /\ nb \in Size
               /\ \E r, k \in Nat : M = Cell(r, k) /\ k + nb <= nBlocks

\* What one piece of code writes (w), and what it reads or writes (u).
Apart(f, g) == f.w \cap g.u = {} /\ g.w \cap f.u = {}
Within(f, g) == f.w \subseteq g.w /\ f.u \subseteq g.u

IsLu(c) == \E M, nb \in Nat : c = <<"lu", M, nb>> /\ Fits(M, nb)

IsSchur(c) == \E M, V, W, nb \in Nat :
  /\ c = <<"schur", M, V, W, nb>>
  /\ Fits(M, nb) /\ Fits(V, nb) /\ Fits(W, nb)
  /\ Square(M, nb) \cap (Square(V, nb) \cup Square(W, nb)) = {}

IsSolve(c) == \E M, L, nb \in Nat :
  /\ c \in {<<"lower_solve", M, L, nb>>, <<"upper_solve", M, L, nb>>}
  /\ Fits(M, nb) /\ Fits(L, nb)
  /\ Square(M, nb) \cap Square(L, nb) = {}

IsAuxOn(c, Ma, Mb, L, nb) ==
  /\ c \in {<<"aux_lower_solve", Ma, Mb, L, nb>>, <<"aux_upper_solve", Ma, Mb, L, nb>>}
  /\ Fits(Ma, nb) /\ Fits(Mb, nb) /\ Fits(L, 2 * nb)
  /\ Square(Ma, nb) \cap Square(Mb, nb) = {}
  /\ (Square(Ma, nb) \cup Square(Mb, nb)) \cap Square(L, 2 * nb) = {}

IsAux(c) == \E Ma, Mb, L, nb \in Nat : IsAuxOn(c, Ma, Mb, L, nb)

\* The calls that are ever made.
Good(c) == c = <<"g_main">> \/ IsLu(c) \/ IsSchur(c) \/ IsSolve(c) \/ IsAux(c)

\* The footprint of a call.
Foot(c) ==
  CASE c[1] = "g_main" -> [w |-> Square(0, nBlocks), u |-> Square(0, nBlocks)]
    [] c[1] = "lu" -> [w |-> Square(c[2], c[3]), u |-> Square(c[2], c[3])]
    [] c[1] = "schur" -> [w |-> Square(c[2], c[5]),
                          u |-> Square(c[2], c[5]) \cup Square(c[3], c[5]) \cup Square(c[4], c[5])]
    [] c[1] \in {"lower_solve", "upper_solve"} ->
         [w |-> Square(c[2], c[4]), u |-> Square(c[2], c[4]) \cup Square(c[3], c[4])]
    [] c[1] \in {"aux_lower_solve", "aux_upper_solve"} ->
         [w |-> Square(c[2], c[5]) \cup Square(c[3], c[5]),
          u |-> Square(c[2], c[5]) \cup Square(c[3], c[5]) \cup Square(c[4], 2 * c[5])]

\* How deep the calls below a call can be nested.
Height(c) ==
  CASE c[1] = "g_main" -> 2 * nBlocks + 1
    [] c[1] = "lu" -> 2 * c[3]
    [] c[1] = "schur" -> 2 * c[5]
    [] c[1] \in {"lower_solve", "upper_solve"} -> 2 * c[4]
    [] c[1] \in {"aux_lower_solve", "aux_upper_solve"} -> 2 * c[5] + 1
-----------------------------------------------------------------------------
(* Squares *)

\* Rows of a matrix do not overlap.
LEMMA RowsApart ==
  ASSUME nBlocks \in Size, NEW r \in Nat, NEW s \in Nat, r < s
  PROVE  r * nBlocks + nBlocks <= s * nBlocks
<1> DEFINE d == s - r - 1
<1>1. d \in Nat /\ s = r + 1 + d
  OBVIOUS
<1>2. d * nBlocks \in Nat /\ r * nBlocks \in Nat
  BY <1>1 DEF Size
<1> HIDE DEF d
<1>3. s * nBlocks = r * nBlocks + nBlocks + d * nBlocks
  BY <1>1 DEF Size
<1> QED BY <1>2, <1>3 DEF Size

\* An offset names one row and column.
LEMMA RowMajor ==
  ASSUME nBlocks \in Size
  PROVE  \A r, s \in Nat : \A k, l \in 0..nBlocks - 1 : Cell(r, k) = Cell(s, l) => r = s /\ k = l
<1> SUFFICES ASSUME NEW r \in Nat, NEW s \in Nat, NEW k \in 0..nBlocks - 1, NEW l \in 0..nBlocks - 1,
                    Cell(r, k) = Cell(s, l)
             PROVE  r = s /\ k = l
  OBVIOUS
<1>1. r * nBlocks \in Nat /\ s * nBlocks \in Nat
  BY DEF Size
<1>2. ~(r < s)
  BY <1>1, RowsApart DEF Size, Cell
<1>3. ~(s < r)
  BY <1>1, RowsApart DEF Size, Cell
<1> QED BY <1>2, <1>3, <1>1 DEF Size, Cell

\* The row and the column of a block in a square.
LEMMA Coordinates ==
  ASSUME nBlocks \in Size
  PROVE  \A r, k, I, J \in Nat : MATRIX(Cell(r, k), I, J) = Cell(r + I, k + J)
  BY DEF MATRIX, Size, Cell

\* MATRIX of MATRIX adds up.
LEMMA MatrixAdds ==
  ASSUME nBlocks \in Size
  PROVE  \A M, I, J, A, B \in Nat :
           MATRIX(MATRIX(M, I, J), A, B) = MATRIX(M, I + A, J + B)
<1> TAKE M, I, J, A, B \in Nat
<1>1. I * nBlocks \in Nat /\ (I + A) * nBlocks = I * nBlocks + A * nBlocks
  BY DEF Size
<1> QED BY <1>1 DEF MATRIX, Size

\* MATRIX gives offsets.
LEMMA MatrixType ==
  ASSUME nBlocks \in Size PROVE \A M, I, J \in Nat : MATRIX(M, I, J) \in Nat
  BY DEF MATRIX, Size

\* A part of a square that fits fits, and is a part of it.
LEMMA SubSquare ==
  ASSUME nBlocks \in Size, NEW M, NEW nb, Fits(M, nb),
         NEW I \in Nat, NEW J \in Nat, NEW m \in Size, I + m <= nb, J + m <= nb
  PROVE  /\ Fits(MATRIX(M, I, J), m)
         /\ Square(MATRIX(M, I, J), m) \subseteq Square(M, nb)
<1>1. PICK r, k \in Nat : M = Cell(r, k) /\ k + nb <= nBlocks
  BY DEF Fits
<1>2. MATRIX(M, I, J) = Cell(r + I, k + J) /\ MATRIX(M, I, J) \in Nat
  <2>1. MATRIX(M, I, J) \in Nat
    BY MatrixType DEF Fits
  <2>2. MATRIX(M, I, J) = Cell(r + I, k + J)
    BY <1>1, Coordinates
  <2> QED BY <2>1, <2>2
<1>3. r + I \in Nat /\ k + J \in Nat /\ (k + J) + m <= nBlocks
  BY <1>1 DEF Size, Fits
<1>4. Fits(MATRIX(M, I, J), m)
  BY <1>2, <1>3 DEF Fits
<1>5. ASSUME NEW A \in 0..m - 1, NEW B \in 0..m - 1
      PROVE  MATRIX(MATRIX(M, I, J), A, B) \in Square(M, nb)
  <2> DEFINE IA == I + A  JB == J + B
  <2>1. M \in Nat /\ A \in Nat /\ B \in Nat
    BY DEF Fits, Size
  <2>2. MATRIX(MATRIX(M, I, J), A, B) = MATRIX(M, IA, JB)
    BY <2>1, MatrixAdds
  <2>3. IA \in 0..nb - 1 /\ JB \in 0..nb - 1
    BY DEF Fits, Size
  <2> HIDE DEF IA, JB
  <2> QED BY <2>2, <2>3 DEF Square
<1>6. Square(MATRIX(M, I, J), m) \subseteq Square(M, nb)
  BY <1>5 DEF Square
<1> QED BY <1>4, <1>6

\* Where the blocks of a part of a square are.
LEMMA BlocksOfPart ==
  ASSUME nBlocks \in Size, NEW M, NEW nb, NEW r \in Nat, NEW k \in Nat,
         M = Cell(r, k), k + nb <= nBlocks, M \in Nat, nb \in Size,
         NEW I \in Nat, NEW J \in Nat, NEW m \in Size, J + m <= nb,
         NEW x \in Square(MATRIX(M, I, J), m)
  PROVE  \E s \in (r + I)..(r + I + m - 1), l \in (k + J)..(k + J + m - 1) :
           x = Cell(s, l) /\ s \in Nat /\ l \in 0..nBlocks - 1
<1>1. PICK A \in 0..m - 1, B \in 0..m - 1 : x = MATRIX(MATRIX(M, I, J), A, B)
  BY DEF Square
<1> DEFINE IA == I + A  JB == J + B  s == r + IA  l == k + JB
<1>2. A \in Nat /\ B \in Nat
  BY DEF Size
<1>3. x = MATRIX(M, IA, JB)
  BY <1>1, <1>2, MatrixAdds
<1>4. IA \in Nat /\ JB \in Nat
  BY <1>2
<1>5. /\ s \in (r + I)..(r + I + m - 1) /\ l \in (k + J)..(k + J + m - 1)
      /\ s \in Nat /\ l \in 0..nBlocks - 1
  BY DEF Size
<1>6. x = Cell(s, l)
  <2> HIDE DEF IA, JB
  <2> QED BY <1>3, <1>4, Coordinates
<1> HIDE DEF s, l
<1> QED BY <1>5, <1>6

\* Parts of a square in other rows or columns are apart.
LEMMA PartsApart ==
  ASSUME nBlocks \in Size, NEW M, NEW nb, Fits(M, nb), NEW m \in Size,
         NEW I \in Nat, NEW J \in Nat, NEW A \in Nat, NEW B \in Nat,
         J + m <= nb, B + m <= nb,
         I + m <= A \/ A + m <= I \/ J + m <= B \/ B + m <= J
  PROVE  Square(MATRIX(M, I, J), m) \cap Square(MATRIX(M, A, B), m) = {}
<1>1. PICK r, k \in Nat : M = Cell(r, k) /\ k + nb <= nBlocks
  BY DEF Fits
<1>2. M \in Nat /\ nb \in Size
  BY DEF Fits
<1> SUFFICES ASSUME NEW x, x \in Square(MATRIX(M, I, J), m), x \in Square(MATRIX(M, A, B), m)
             PROVE  FALSE
  OBVIOUS
<1>3. PICK s \in (r + I)..(r + I + m - 1), l \in (k + J)..(k + J + m - 1) :
        x = Cell(s, l) /\ s \in Nat /\ l \in 0..nBlocks - 1
  BY <1>1, <1>2, BlocksOfPart
<1>4. PICK p \in (r + A)..(r + A + m - 1), q \in (k + B)..(k + B + m - 1) :
        x = Cell(p, q) /\ p \in Nat /\ q \in 0..nBlocks - 1
  BY <1>1, <1>2, BlocksOfPart
<1>5. s = p /\ l = q
  <2>1. Cell(s, l) = Cell(p, q)
    BY <1>3, <1>4
  <2> QED BY <2>1, <1>3, <1>4, RowMajor
<1> QED BY <1>5 DEF Size

\* A square has a block.
LEMMA SquareNonempty ==
  ASSUME NEW M \in Nat, NEW nb \in Size, nBlocks \in Size PROVE M \in Square(M, nb)
<1>1. 0 \in 0..nb - 1 /\ MATRIX(M, 0, 0) = M
  BY DEF MATRIX, Size
<1> QED BY <1>1 DEF Square
-----------------------------------------------------------------------------
(* The groups of calls *)

\* The calls, as a set of tuples.
Calls == {<<"g_main">>} \cup ({"lu"} \X Nat \X Nat)
         \cup ({"lower_solve", "upper_solve"} \X Nat \X Nat \X Nat)
         \cup ({"schur", "aux_lower_solve", "aux_upper_solve"} \X Nat \X Nat \X Nat \X Nat)

\* What is to be known of a call y that c makes.
Made(c, y) == /\ y \in Calls /\ Good(y)
              /\ Within(Foot(y), Foot(c)) /\ Height(y) < Height(c)
              /\ y[1] = "lu" => c[1] \in {"g_main", "lu"}
              /\ y[1] # "g_main"

\* The calls of a group do not need each other's results.
GroupOK(c, g) == /\ g \in Seq(Calls)
                 /\ \A p \in DOMAIN g : Made(c, g[p])
                 /\ \A p, q \in DOMAIN g : p # q => Apart(Foot(g[p]), Foot(g[q]))

GroupsOK(c, gs) == /\ gs \in Seq(Seq(Calls)) /\ gs # <<>>
                   /\ \A a \in DOMAIN gs : GroupOK(c, gs[a])

Half(nb) == nb \div 2

\* Half of a square, and what its four quarters are.
LEMMA Quarters ==
  ASSUME nBlocks \in Size, NEW M, NEW nb, Fits(M, nb), nb # 1, NEW h, h = Half(nb)
  PROVE  /\ h \in Size /\ 2 * h <= nb /\ h < nb
         /\ \A I, J \in {0, h} : /\ Fits(MATRIX(M, I, J), h)
                                 /\ Square(MATRIX(M, I, J), h) \subseteq Square(M, nb)
         /\ \A I, J, A, B \in {0, h} :
              I # A \/ J # B => Square(MATRIX(M, I, J), h) \cap Square(MATRIX(M, A, B), h) = {}
         /\ MATRIX(M, 0, 0) = M
<1>1. nb \in Size /\ M \in Nat
  BY DEF Fits
<1>2. h \in Size /\ 2 * h <= nb /\ h < nb
  BY <1>1 DEF Size, Half
<1>3. \A I \in {0, h} : I \in Nat /\ I + h <= nb
  BY <1>1, <1>2 DEF Size
<1>4. \A I, J \in {0, h} : /\ Fits(MATRIX(M, I, J), h)
                           /\ Square(MATRIX(M, I, J), h) \subseteq Square(M, nb)
  BY <1>2, <1>3, SubSquare
<1>5. ASSUME NEW I \in {0, h}, NEW J \in {0, h}, NEW A \in {0, h}, NEW B \in {0, h},
             I # A \/ J # B
      PROVE  Square(MATRIX(M, I, J), h) \cap Square(MATRIX(M, A, B), h) = {}
  <2>1. I + h <= A \/ A + h <= I \/ J + h <= B \/ B + h <= J
    BY <1>5, <1>2 DEF Size
  <2>2. I \in Nat /\ J \in Nat /\ A \in Nat /\ B \in Nat /\ J + h <= nb /\ B + h <= nb
    BY <1>3
  <2> QED BY <2>1, <2>2, <1>2, PartsApart
<1>6. MATRIX(M, 0, 0) = M
  BY <1>1 DEF MATRIX, Size
<1> QED BY <1>2, <1>4, <1>5, <1>6

\* The footprint and the height of a call of each kind.
LEMMA FootLu == \A M, nb : LET c == <<"lu", M, nb>> IN
  Foot(c) = [w |-> Square(M, nb), u |-> Square(M, nb)] /\ Height(c) = 2 * nb
  BY DEF Foot, Height

\* The footprint of a schur: it writes the first square and reads all three.
LEMMA FootSchur == \A M, V, W, nb : LET c == <<"schur", M, V, W, nb>> IN
  /\ Foot(c) = [w |-> Square(M, nb), u |-> Square(M, nb) \cup Square(V, nb) \cup Square(W, nb)]
  /\ Height(c) = 2 * nb
  BY DEF Foot, Height

\* The footprint of a solve: it writes the first square and reads both.
LEMMA FootSolve == \A f \in {"lower_solve", "upper_solve"}, M, L, nb \in Nat :
  LET c == <<f, M, L, nb>> IN
  /\ Foot(c) = [w |-> Square(M, nb), u |-> Square(M, nb) \cup Square(L, nb)]
  /\ Height(c) = 2 * nb
  BY DEF Foot, Height

\* The footprint of an aux routine: it writes both halves and reads the square as well.
LEMMA FootAux == \A f \in {"aux_lower_solve", "aux_upper_solve"}, Ma, Mb, L, nb \in Nat :
  LET c == <<f, Ma, Mb, L, nb>> IN
  /\ Foot(c) = [w |-> Square(Ma, nb) \cup Square(Mb, nb),
                u |-> Square(Ma, nb) \cup Square(Mb, nb) \cup Square(L, 2 * nb)]
  /\ Height(c) = 2 * nb + 1
  BY DEF Foot, Height

\* The footprint of g_main: the whole matrix.
LEMMA FootMain == LET c == <<"g_main">> IN
  /\ Foot(c) = [w |-> Square(0, nBlocks), u |-> Square(0, nBlocks)]
  /\ Height(c) = 2 * nBlocks + 1
  BY DEF Foot, Height

\* A group of one call.
LEMMA GroupOfOne ==
  ASSUME NEW c, NEW y, Made(c, y) PROVE GroupOK(c, <<y>>)
  BY DEF GroupOK, Made

\* A group of two calls that are apart.
LEMMA GroupOfTwo ==
  ASSUME NEW c, NEW y, NEW z, Made(c, y), Made(c, z), Apart(Foot(y), Foot(z))
  PROVE  GroupOK(c, <<y, z>>)
<1>1. Apart(Foot(z), Foot(y)) /\ y \in Calls /\ z \in Calls
  BY DEF Apart, Made
<1>2. <<y, z>> \in Seq(Calls) /\ DOMAIN <<y, z>> = {1, 2}
  BY <1>1
<1> QED BY <1>1, <1>2 DEF GroupOK

\* A group of four calls that are apart.
LEMMA GroupOfFour ==
  ASSUME NEW c, NEW x \in [1..4 -> Calls], \A i \in 1..4 : Made(c, x[i]),
         \A i, j \in 1..4 : i # j => Apart(Foot(x[i]), Foot(x[j]))
  PROVE  GroupOK(c, <<x[1], x[2], x[3], x[4]>>)
<1> DEFINE s == <<x[1], x[2], x[3], x[4]>>
<1>1. DOMAIN s = 1..4 /\ DOMAIN x = 1..4 /\ x[1] \in Calls /\ x[2] \in Calls /\ x[3] \in Calls /\ x[4] \in Calls
  OBVIOUS
<1>2. s \in Seq(Calls)
  BY <1>1
<1>3. \A i \in 1..4 : s[i] = x[i]
  <2> TAKE i \in 1..4
  <2>1. i = 1 \/ i = 2 \/ i = 3 \/ i = 4
    OBVIOUS
  <2> QED BY <2>1
<1> HIDE DEF s
<1>4. GroupOK(c, s)
  BY <1>1, <1>2, <1>3 DEF GroupOK
<1> QED BY <1>4 DEF s

\* Fitting squares are given by numbers.
LEMMA FitsType == \A M, nb : Fits(M, nb) => M \in Nat /\ nb \in Size /\ nb \in Nat
  BY DEF Fits, Size

Quarter(M, V, W, h, I, J, K) == <<"schur", MATRIX(M, I, J), MATRIX(V, I, K), MATRIX(W, K, J), h>>

QuarterOK(M, V, W, nb, h, I, J, K) ==
  LET y == Quarter(M, V, W, h, I, J, K)
  IN  /\ Made(<<"schur", M, V, W, nb>>, y)
      /\ Foot(y).w = Square(MATRIX(M, I, J), h)
      /\ Foot(y).u \subseteq Square(MATRIX(M, I, J), h) \cup Square(V, nb) \cup Square(W, nb)

\* A call of schur on quarters, made by schur on the whole.
LEMMA SchurOnQuarters ==
  ASSUME nBlocks \in Size, NEW M \in Nat, NEW V \in Nat, NEW W \in Nat, NEW nb \in Nat,
         Fits(M, nb), Fits(V, nb), Fits(W, nb), nb # 1, NEW h, h = Half(nb),
         Square(M, nb) \cap (Square(V, nb) \cup Square(W, nb)) = {},
         NEW I \in {0, h}, NEW J \in {0, h}, NEW K \in {0, h}
  PROVE  QuarterOK(M, V, W, nb, h, I, J, K)
<1> DEFINE m == MATRIX(M, I, J)  v == MATRIX(V, I, K)  w == MATRIX(W, K, J)
           c == <<"schur", M, V, W, nb>>  y == <<"schur", m, v, w, h>>
<1>1. /\ Fits(m, h) /\ Square(m, h) \subseteq Square(M, nb)
      /\ Fits(v, h) /\ Square(v, h) \subseteq Square(V, nb)
      /\ Fits(w, h) /\ Square(w, h) \subseteq Square(W, nb)
      /\ h \in Size /\ h < nb
  <2>0. h \in Size /\ h < nb
    BY Quarters
  <2>1. Fits(m, h) /\ Square(m, h) \subseteq Square(M, nb)
    BY Quarters
  <2>2. Fits(v, h) /\ Square(v, h) \subseteq Square(V, nb)
    BY Quarters
  <2>3. Fits(w, h) /\ Square(w, h) \subseteq Square(W, nb)
    BY Quarters
  <2> QED BY <2>0, <2>1, <2>2, <2>3
<1>2. m \in Nat /\ v \in Nat /\ w \in Nat /\ h \in Nat
  BY <1>1, FitsType
<1>3. /\ Foot(c) = [w |-> Square(M, nb), u |-> Square(M, nb) \cup Square(V, nb) \cup Square(W, nb)]
      /\ Height(c) = 2 * nb
  BY FootSchur
<1>4. /\ Foot(y) = [w |-> Square(m, h), u |-> Square(m, h) \cup Square(v, h) \cup Square(w, h)]
      /\ Height(y) = 2 * h
  BY FootSchur
<1>5. y \in Calls /\ y[1] = "schur"
  BY <1>2 DEF Calls
<1>6. Square(m, h) \cap (Square(v, h) \cup Square(w, h)) = {}
  BY <1>1
<1> HIDE DEF m, v, w
<1>7. Good(y)
  BY <1>1, <1>2, <1>6 DEF Good, IsSchur
<1>8. Height(y) < Height(c)
  BY <1>3, <1>4, <1>2, <1>1
<1> HIDE DEF c, y
<1>9. Within(Foot(y), Foot(c))
  BY <1>3, <1>4, <1>1 DEF Within
<1>10. Made(c, y)
  BY <1>5, <1>7, <1>8, <1>9 DEF Made
<1>11. /\ Foot(y).w = Square(m, h)
       /\ Foot(y).u \subseteq Square(m, h) \cup Square(V, nb) \cup Square(W, nb)
  BY <1>4, <1>1
<1> QED BY <1>10, <1>11 DEF c, y, m, v, w, Quarter, QuarterOK

\* The groups of schur: the four quarters of M, twice.
LEMMA SchurGroups ==
  ASSUME nBlocks \in Size, NEW M \in Nat, NEW V \in Nat, NEW W \in Nat, NEW nb \in Nat,
         Fits(M, nb), Fits(V, nb), Fits(W, nb), nb # 1,
         Square(M, nb) \cap (Square(V, nb) \cup Square(W, nb)) = {}
  PROVE  GroupsOK(<<"schur", M, V, W, nb>>, schur(M, V, W, nb))
<1> DEFINE h == Half(nb)
           c == <<"schur", M, V, W, nb>>
           Call(I, J, K) == Quarter(M, V, W, h, I, J, K)
           G(K) == <<Call(0, 0, K), Call(0, h, K), Call(h, 0, K), Call(h, h, K)>>
<1>1. /\ h \in Size
      /\ \A I, J, A, B \in {0, h} :
           I # A \/ J # B => Square(MATRIX(M, I, J), h) \cap Square(MATRIX(M, A, B), h) = {}
      /\ \A I, J \in {0, h} : Square(MATRIX(M, I, J), h) \subseteq Square(M, nb)
  BY Quarters
<1>2. schur(M, V, W, nb) = <<G(0), G(h)>>
  <2>1. 0 * h = 0 /\ 1 * h = h /\ (1 - 1) * h = 0 /\ (2 - 1) * h = h
    BY <1>1 DEF Size
  <2> HIDE DEF h
  <2> QED BY <2>1 DEF schur, h, Half, Quarter
<1>3. \A I, J, K \in {0, h} :
        /\ Made(c, Call(I, J, K))
        /\ Foot(Call(I, J, K)).w = Square(MATRIX(M, I, J), h)
        /\ Foot(Call(I, J, K)).u \subseteq Square(MATRIX(M, I, J), h) \cup Square(V, nb) \cup Square(W, nb)
  <2> TAKE I, J, K \in {0, h}
  <2>1. h = Half(nb)
    OBVIOUS
  <2> HIDE DEF h
  <2>2. QuarterOK(M, V, W, nb, h, I, J, K)
    BY <2>1, SchurOnQuarters
  <2> QED BY <2>2 DEF QuarterOK
<1> HIDE DEF Call, c
<1>4. \A I, J, A, B, K \in {0, h} : I # A \/ J # B => Apart(Foot(Call(I, J, K)), Foot(Call(A, B, K)))
  BY <1>1, <1>3 DEF Apart
<1>5. ASSUME NEW K \in {0, h} PROVE GroupOK(c, G(K))
  <2> DEFINE x == [i \in 1..4 |-> IF i = 1 THEN Call(0, 0, K) ELSE IF i = 2 THEN Call(0, h, K)
                                  ELSE IF i = 3 THEN Call(h, 0, K) ELSE Call(h, h, K)]
  <2>1. \A i \in 1..4 : Made(c, x[i])
    BY <1>3
  <2>2. x \in [1..4 -> Calls]
    BY <1>3 DEF Made
  <2>3. h # 0
    BY <1>1 DEF Size
  <2>4. \A i, j \in 1..4 : i # j => Apart(Foot(x[i]), Foot(x[j]))
    BY <1>4, <2>3
  <2>5. x[1] = Call(0, 0, K) /\ x[2] = Call(0, h, K) /\ x[3] = Call(h, 0, K) /\ x[4] = Call(h, h, K)
    OBVIOUS
  <2> HIDE DEF x
  <2> QED BY <2>1, <2>2, <2>4, <2>5, GroupOfFour
<1>6. GroupOK(c, G(0)) /\ GroupOK(c, G(h))
  BY <1>5
<1> HIDE DEF G
<1>7. G(0) \in Seq(Calls) /\ G(h) \in Seq(Calls)
  BY <1>6 DEF GroupOK
<1>8. GroupsOK(c, <<G(0), G(h)>>)
  BY <1>6, <1>7 DEF GroupsOK
<1> QED BY <1>2, <1>8 DEF c

\* A smaller square at the same place.
LEMMA FitsSmaller ==
  ASSUME nBlocks \in Size, NEW L, NEW nb, Fits(L, nb), NEW m \in Size, m <= nb
  PROVE  Fits(L, m) /\ Square(L, m) \subseteq Square(L, nb)
<1>1. L \in Nat /\ nb \in Size
  BY DEF Fits
<1>2. MATRIX(L, 0, 0) = L
  BY <1>1 DEF MATRIX, Size
<1>3. 0 + m <= nb
  BY <1>1 DEF Size
<1> QED BY <1>2, <1>3, SubSquare

\* A call of an aux routine on two quarters, made by lower_solve or upper_solve.
AuxOK(c, f, y, M, Ma, Mb, L, nb, h) ==
  /\ y = <<f, Ma, Mb, L, h>>
  /\ Made(c, y)
  /\ Foot(y).w = Square(Ma, h) \cup Square(Mb, h)
  /\ Foot(y).u \subseteq Square(Ma, h) \cup Square(Mb, h) \cup Square(L, nb)

\* An aux routine that a solve calls works on two quarters of its square.
LEMMA AuxOnQuarters ==
  ASSUME nBlocks \in Size, NEW M \in Nat, NEW L \in Nat, NEW nb \in Nat,
         Fits(M, nb), Fits(L, nb), nb # 1, NEW h, h = Half(nb),
         Square(M, nb) \cap Square(L, nb) = {},
         NEW I \in {0, h}, NEW J \in {0, h}, NEW A \in {0, h}, NEW B \in {0, h}, I # A \/ J # B,
         NEW e \in {"lower_solve", "upper_solve"}, NEW f \in {"aux_lower_solve", "aux_upper_solve"}
  PROVE  AuxOK(<<e, M, L, nb>>, f, <<f, MATRIX(M, I, J), MATRIX(M, A, B), L, h>>,
               M, MATRIX(M, I, J), MATRIX(M, A, B), L, nb, h)
<1> DEFINE m == MATRIX(M, I, J)  k == MATRIX(M, A, B)
           c == <<e, M, L, nb>>  y == <<f, m, k, L, h>>
<1>1. h \in Size /\ 2 * h <= nb /\ h < nb
  BY Quarters
<1>2. Fits(m, h) /\ Square(m, h) \subseteq Square(M, nb)
  BY Quarters
<1>3. Fits(k, h) /\ Square(k, h) \subseteq Square(M, nb)
  BY Quarters
<1>4. Square(m, h) \cap Square(k, h) = {}
  BY Quarters
<1>5. 2 * h \in Size
  BY <1>1 DEF Size
<1>6. Fits(L, 2 * h) /\ Square(L, 2 * h) \subseteq Square(L, nb)
  BY <1>1, <1>5, FitsSmaller
<1>7. m \in Nat /\ k \in Nat /\ h \in Nat
  BY <1>1, <1>2, <1>3, FitsType
<1>8. /\ Foot(c) = [w |-> Square(M, nb), u |-> Square(M, nb) \cup Square(L, nb)]
      /\ Height(c) = 2 * nb
  BY FootSolve
<1> HIDE DEF m, k
<1>9. /\ Foot(y) = [w |-> Square(m, h) \cup Square(k, h),
                    u |-> Square(m, h) \cup Square(k, h) \cup Square(L, 2 * h)]
      /\ Height(y) = 2 * h + 1
  BY DEF Foot, Height
<1>10. y \in Calls /\ y[1] # "lu" /\ y[1] # "g_main"
  BY <1>7 DEF Calls
<1>11. (Square(m, h) \cup Square(k, h)) \cap Square(L, 2 * h) = {}
  BY <1>2, <1>3, <1>6
<1>12. Good(y)
  <2>1. IsAuxOn(y, m, k, L, h)
    BY <1>2, <1>3, <1>4, <1>6, <1>11 DEF IsAuxOn
  <2> QED BY <2>1, <1>7 DEF Good, IsAux
<1>13. Height(y) < Height(c)
  BY <1>1, <1>7, <1>8, <1>9 DEF Size
<1> HIDE DEF c, y
<1>14. Within(Foot(y), Foot(c))
  BY <1>2, <1>3, <1>6, <1>8, <1>9 DEF Within
<1>15. Made(c, y)
  BY <1>10, <1>12, <1>13, <1>14 DEF Made
<1>16. /\ Foot(y).w = Square(m, h) \cup Square(k, h)
       /\ Foot(y).u \subseteq Square(m, h) \cup Square(k, h) \cup Square(L, nb)
  BY <1>6, <1>9
<1> QED BY <1>15, <1>16 DEF AuxOK, c, y, m, k

\* Two aux calls on different quarters of M do not touch each other's.
LEMMA AuxApart ==
  ASSUME NEW c, NEW f, NEW y, NEW z, NEW M, NEW L, NEW nb, NEW h, NEW a, NEW b, NEW d, NEW e,
         AuxOK(c, f, y, M, a, b, L, nb, h), AuxOK(c, f, z, M, d, e, L, nb, h),
         Square(M, nb) \cap Square(L, nb) = {},
         \A p \in {a, b, d, e} : Square(p, h) \subseteq Square(M, nb),
         \A p \in {a, b}, q \in {d, e} : Square(p, h) \cap Square(q, h) = {}
  PROVE  Apart(Foot(y), Foot(z))
  BY DEF AuxOK, Apart

\* The group of lower_solve: the two halves of the columns.
LEMMA LowerSolveGroups ==
  ASSUME nBlocks \in Size, NEW M \in Nat, NEW L \in Nat, NEW nb \in Nat,
         Fits(M, nb), Fits(L, nb), nb # 1, Square(M, nb) \cap Square(L, nb) = {}
  PROVE  GroupsOK(<<"lower_solve", M, L, nb>>, lower_solve(M, L, nb))
<1> DEFINE h == Half(nb)
           c == <<"lower_solve", M, L, nb>>
           f == "aux_lower_solve"
           y == <<f, MATRIX(M, 0, 0), MATRIX(M, h, 0), L, h>>
           z == <<f, MATRIX(M, 0, h), MATRIX(M, h, h), L, h>>
<1>1. h \in Size /\ h = Half(nb)
  BY Quarters
<1>2. lower_solve(M, L, nb) = <<<<y, z>>>>
  <2>1. (1 - 1) * h = 0 /\ (2 - 1) * h = h
    BY <1>1 DEF Size
  <2> HIDE DEF h
  <2> QED BY <2>1 DEF lower_solve, h, Half
<1> HIDE DEF h
<1>3. h # 0
  BY <1>1 DEF Size
<1>4. AuxOK(c, f, y, M, MATRIX(M, 0, 0), MATRIX(M, h, 0), L, nb, h)
  BY <1>1, <1>3, AuxOnQuarters
<1>5. AuxOK(c, f, z, M, MATRIX(M, 0, h), MATRIX(M, h, h), L, nb, h)
  BY <1>1, <1>3, AuxOnQuarters
<1> HIDE DEF c, f, y, z
<1>6. \A I, J \in {0, h} : Square(MATRIX(M, I, J), h) \subseteq Square(M, nb)
  BY <1>1, Quarters
<1>7. \A I, J, A, B \in {0, h} :
        I # A \/ J # B => Square(MATRIX(M, I, J), h) \cap Square(MATRIX(M, A, B), h) = {}
  BY <1>1, Quarters
<1>8. Apart(Foot(y), Foot(z))
  BY <1>3, <1>4, <1>5, <1>6, <1>7, AuxApart
<1>9. GroupOK(c, <<y, z>>)
  BY <1>4, <1>5, <1>8, GroupOfTwo DEF AuxOK
<1>10. GroupsOK(c, <<<<y, z>>>>)
  <2> DEFINE g == <<y, z>>
  <2>1. GroupOK(c, g) /\ g \in Seq(Calls)
    BY <1>9 DEF GroupOK
  <2> HIDE DEF g
  <2>2. GroupsOK(c, <<g>>)
    BY <2>1 DEF GroupsOK
  <2> QED BY <2>2 DEF g
<1> QED BY <1>2, <1>10 DEF c

\* The group of upper_solve: the two halves of the rows.
LEMMA UpperSolveGroups ==
  ASSUME nBlocks \in Size, NEW M \in Nat, NEW U \in Nat, NEW nb \in Nat,
         Fits(M, nb), Fits(U, nb), nb # 1, Square(M, nb) \cap Square(U, nb) = {}
  PROVE  GroupsOK(<<"upper_solve", M, U, nb>>, upper_solve(M, U, nb))
<1> DEFINE h == Half(nb)
           c == <<"upper_solve", M, U, nb>>
           f == "aux_upper_solve"
           y == <<f, MATRIX(M, 0, 0), MATRIX(M, 0, h), U, h>>
           z == <<f, MATRIX(M, h, 0), MATRIX(M, h, h), U, h>>
<1>1. h \in Size /\ h = Half(nb)
  BY Quarters
<1>2. upper_solve(M, U, nb) = <<<<y, z>>>>
  <2>1. (1 - 1) * h = 0 /\ (2 - 1) * h = h
    BY <1>1 DEF Size
  <2> HIDE DEF h
  <2> QED BY <2>1 DEF upper_solve, h, Half
<1> HIDE DEF h
<1>3. h # 0
  BY <1>1 DEF Size
<1>4. AuxOK(c, f, y, M, MATRIX(M, 0, 0), MATRIX(M, 0, h), U, nb, h)
  BY <1>1, <1>3, AuxOnQuarters
<1>5. AuxOK(c, f, z, M, MATRIX(M, h, 0), MATRIX(M, h, h), U, nb, h)
  BY <1>1, <1>3, AuxOnQuarters
<1> HIDE DEF c, f, y, z
<1>6. \A I, J \in {0, h} : Square(MATRIX(M, I, J), h) \subseteq Square(M, nb)
  BY <1>1, Quarters
<1>7. \A I, J, A, B \in {0, h} :
        I # A \/ J # B => Square(MATRIX(M, I, J), h) \cap Square(MATRIX(M, A, B), h) = {}
  BY <1>1, Quarters
<1>8. Apart(Foot(y), Foot(z))
  BY <1>3, <1>4, <1>5, <1>6, <1>7, AuxApart
<1>9. GroupOK(c, <<y, z>>)
  BY <1>4, <1>5, <1>8, GroupOfTwo DEF AuxOK
<1>10. GroupsOK(c, <<<<y, z>>>>)
  <2> DEFINE g == <<y, z>>
  <2>1. GroupOK(c, g) /\ g \in Seq(Calls)
    BY <1>9 DEF GroupOK
  <2> HIDE DEF g
  <2>2. GroupsOK(c, <<g>>)
    BY <2>1 DEF GroupsOK
  <2> QED BY <2>2 DEF g
<1> QED BY <1>2, <1>10 DEF c

\* Groups one after the other.
LEMMA ThreeGroups ==
  ASSUME NEW c, NEW a, NEW b, NEW d, GroupOK(c, a), GroupOK(c, b), GroupOK(c, d)
  PROVE  GroupsOK(c, <<a, b, d>>)
<1>1. a \in Seq(Calls) /\ b \in Seq(Calls) /\ d \in Seq(Calls)
  BY DEF GroupOK
<1> QED BY <1>1 DEF GroupsOK

\* Four groups, as lu has them.
LEMMA FourGroups ==
  ASSUME NEW c, NEW a, NEW b, NEW d, NEW e,
         GroupOK(c, a), GroupOK(c, b), GroupOK(c, d), GroupOK(c, e)
  PROVE  GroupsOK(c, <<a, b, d, e>>)
<1>1. a \in Seq(Calls) /\ b \in Seq(Calls) /\ d \in Seq(Calls) /\ e \in Seq(Calls)
  BY DEF GroupOK
<1> QED BY <1>1 DEF GroupsOK

\* How a call made by c is recognised.
LEMMA MadeSolve ==
  ASSUME nBlocks \in Size, NEW c, NEW f \in {"lower_solve", "upper_solve"},
         NEW M, NEW L, NEW nb, Fits(M, nb), Fits(L, nb), Square(M, nb) \cap Square(L, nb) = {},
         Square(M, nb) \subseteq Foot(c).w, Square(M, nb) \subseteq Foot(c).u,
         Square(L, nb) \subseteq Foot(c).u, 2 * nb < Height(c)
  PROVE  Made(c, <<f, M, L, nb>>)
<1> DEFINE y == <<f, M, L, nb>>
<1>1. M \in Nat /\ L \in Nat /\ nb \in Nat
  BY FitsType
<1>2. y \in Calls /\ y[1] # "lu" /\ y[1] # "g_main"
  BY <1>1 DEF Calls
<1>3. Good(y)
  BY <1>1 DEF Good, IsSolve
<1>4. Foot(y) = [w |-> Square(M, nb), u |-> Square(M, nb) \cup Square(L, nb)] /\ Height(y) = 2 * nb
  BY <1>1 DEF Foot, Height
<1> HIDE DEF y
<1>5. Within(Foot(y), Foot(c))
  BY <1>4 DEF Within
<1>6. Made(c, y)
  BY <1>2, <1>3, <1>4, <1>5 DEF Made
<1> QED BY <1>6 DEF y

\* A schur on smaller squares is a call that may be made.
LEMMA MadeSchur ==
  ASSUME nBlocks \in Size, NEW c, NEW M, NEW V, NEW W, NEW nb,
         Fits(M, nb), Fits(V, nb), Fits(W, nb),
         Square(M, nb) \cap (Square(V, nb) \cup Square(W, nb)) = {},
         Square(M, nb) \subseteq Foot(c).w, Square(M, nb) \subseteq Foot(c).u,
         Square(V, nb) \subseteq Foot(c).u, Square(W, nb) \subseteq Foot(c).u, 2 * nb < Height(c)
  PROVE  Made(c, <<"schur", M, V, W, nb>>)
<1> DEFINE y == <<"schur", M, V, W, nb>>
<1>1. M \in Nat /\ V \in Nat /\ W \in Nat /\ nb \in Nat
  BY FitsType
<1>2. y \in Calls /\ y[1] # "lu" /\ y[1] # "g_main"
  BY <1>1 DEF Calls
<1>3. Good(y)
  BY <1>1 DEF Good, IsSchur
<1>4. /\ Foot(y) = [w |-> Square(M, nb), u |-> Square(M, nb) \cup Square(V, nb) \cup Square(W, nb)]
      /\ Height(y) = 2 * nb
  BY <1>1 DEF Foot, Height
<1> HIDE DEF y
<1>5. Within(Foot(y), Foot(c))
  BY <1>4 DEF Within
<1>6. Made(c, y)
  BY <1>2, <1>3, <1>4, <1>5 DEF Made
<1> QED BY <1>6 DEF y

\* A lu of a smaller square is a call that may be made.
LEMMA MadeLu ==
  ASSUME nBlocks \in Size, NEW c, c[1] \in {"g_main", "lu"}, NEW M, NEW nb, Fits(M, nb),
         Square(M, nb) \subseteq Foot(c).w, Square(M, nb) \subseteq Foot(c).u, 2 * nb < Height(c)
  PROVE  Made(c, <<"lu", M, nb>>)
<1> DEFINE y == <<"lu", M, nb>>
<1>1. M \in Nat /\ nb \in Nat
  BY FitsType
<1>2. y \in Calls /\ y[1] # "g_main"
  BY <1>1 DEF Calls
<1>3. Good(y)
  BY <1>1 DEF Good, IsLu
<1>4. Foot(y) = [w |-> Square(M, nb), u |-> Square(M, nb)] /\ Height(y) = 2 * nb
  BY DEF Foot, Height
<1> HIDE DEF y
<1>5. Within(Foot(y), Foot(c))
  BY <1>4 DEF Within
<1>6. Made(c, y)
  BY <1>2, <1>3, <1>4, <1>5 DEF Made
<1> QED BY <1>6 DEF y

\* The groups of aux_lower_solve, one call each.
LEMMA AuxLowerGroups ==
  ASSUME nBlocks \in Size, NEW Ma, NEW Mb, NEW L, NEW nb, NEW c, IsAuxOn(c, Ma, Mb, L, nb),
         c = <<"aux_lower_solve", Ma, Mb, L, nb>>
  PROVE  GroupsOK(c, aux_lower_solve(Ma, Mb, L, nb))
<1>0. Ma \in Nat /\ Mb \in Nat /\ L \in Nat /\ nb \in Nat /\ nb \in Size
  BY FitsType DEF IsAuxOn
<1>1. nb = Half(2 * nb) /\ 2 * nb # 1 /\ nb <= 2 * nb
  BY <1>0 DEF Half, Size
<1> DEFINE dbl == 2 * nb
<1>2. /\ Fits(Ma, nb) /\ Fits(Mb, nb) /\ Fits(L, dbl)
      /\ Square(Ma, nb) \cap Square(Mb, nb) = {}
      /\ (Square(Ma, nb) \cup Square(Mb, nb)) \cap Square(L, dbl) = {}
  BY DEF IsAuxOn
<1>3. nb = Half(dbl) /\ dbl # 1 /\ nb <= dbl
  BY <1>1
<1>4. /\ Foot(c) = [w |-> Square(Ma, nb) \cup Square(Mb, nb),
                    u |-> Square(Ma, nb) \cup Square(Mb, nb) \cup Square(L, dbl)]
      /\ dbl < Height(c)
  BY <1>0 DEF Foot, Height
<1> DEFINE l10 == MATRIX(L, nb, 0)  l11 == MATRIX(L, nb, nb)
<1>5. aux_lower_solve(Ma, Mb, L, nb) = << <<<<"lower_solve", Ma, L, nb>>>>,
        <<<<"schur", Mb, l10, Ma, nb>>>>, <<<<"lower_solve", Mb, l11, nb>>>> >>
  BY DEF aux_lower_solve
<1> HIDE DEF dbl
<1>6. Fits(L, nb) /\ Square(L, nb) \subseteq Square(L, dbl)
  BY <1>0, <1>2, <1>3, FitsSmaller
<1>7. Fits(l10, nb) /\ Square(l10, nb) \subseteq Square(L, dbl)
  BY <1>2, <1>3, Quarters
<1>8. Fits(l11, nb) /\ Square(l11, nb) \subseteq Square(L, dbl)
  BY <1>2, <1>3, Quarters
<1> HIDE DEF l10, l11
<1>9. 2 * nb < Height(c)
  BY <1>4 DEF dbl
<1>10. Made(c, <<"lower_solve", Ma, L, nb>>)
  BY <1>2, <1>4, <1>6, <1>9, MadeSolve
<1>11. Made(c, <<"schur", Mb, l10, Ma, nb>>)
  BY <1>2, <1>4, <1>7, <1>9, MadeSchur
<1>12. Made(c, <<"lower_solve", Mb, l11, nb>>)
  BY <1>2, <1>4, <1>8, <1>9, MadeSolve
<1> QED BY <1>5, <1>10, <1>11, <1>12, GroupOfOne, ThreeGroups

\* The groups of aux_upper_solve.
LEMMA AuxUpperGroups ==
  ASSUME nBlocks \in Size, NEW Ma, NEW Mb, NEW U, NEW nb, NEW c, IsAuxOn(c, Ma, Mb, U, nb),
         c = <<"aux_upper_solve", Ma, Mb, U, nb>>
  PROVE  GroupsOK(c, aux_upper_solve(Ma, Mb, U, nb))
<1>0. Ma \in Nat /\ Mb \in Nat /\ U \in Nat /\ nb \in Nat /\ nb \in Size
  BY FitsType DEF IsAuxOn
<1>1. nb = Half(2 * nb) /\ 2 * nb # 1 /\ nb <= 2 * nb
  BY <1>0 DEF Half, Size
<1> DEFINE dbl == 2 * nb
<1>2. /\ Fits(Ma, nb) /\ Fits(Mb, nb) /\ Fits(U, dbl)
      /\ Square(Ma, nb) \cap Square(Mb, nb) = {}
      /\ (Square(Ma, nb) \cup Square(Mb, nb)) \cap Square(U, dbl) = {}
  BY DEF IsAuxOn
<1>3. nb = Half(dbl) /\ dbl # 1 /\ nb <= dbl
  BY <1>1
<1>4. /\ Foot(c) = [w |-> Square(Ma, nb) \cup Square(Mb, nb),
                    u |-> Square(Ma, nb) \cup Square(Mb, nb) \cup Square(U, dbl)]
      /\ dbl < Height(c)
  BY <1>0 DEF Foot, Height
<1> DEFINE u01 == MATRIX(U, 0, nb)  u11 == MATRIX(U, nb, nb)
<1>5. aux_upper_solve(Ma, Mb, U, nb) = << <<<<"upper_solve", Ma, U, nb>>>>,
        <<<<"schur", Mb, Ma, u01, nb>>>>, <<<<"upper_solve", Mb, u11, nb>>>> >>
  BY DEF aux_upper_solve
<1> HIDE DEF dbl
<1>6. Fits(U, nb) /\ Square(U, nb) \subseteq Square(U, dbl)
  BY <1>0, <1>2, <1>3, FitsSmaller
<1>7. Fits(u01, nb) /\ Square(u01, nb) \subseteq Square(U, dbl)
  BY <1>2, <1>3, Quarters
<1>8. Fits(u11, nb) /\ Square(u11, nb) \subseteq Square(U, dbl)
  BY <1>2, <1>3, Quarters
<1> HIDE DEF u01, u11
<1>9. 2 * nb < Height(c)
  BY <1>4 DEF dbl
<1>10. Made(c, <<"upper_solve", Ma, U, nb>>)
  BY <1>2, <1>4, <1>6, <1>9, MadeSolve
<1>11. Made(c, <<"schur", Mb, Ma, u01, nb>>)
  BY <1>2, <1>4, <1>7, <1>9, MadeSchur
<1>12. Made(c, <<"upper_solve", Mb, u11, nb>>)
  BY <1>2, <1>4, <1>8, <1>9, MadeSolve
<1> QED BY <1>5, <1>10, <1>11, <1>12, GroupOfOne, ThreeGroups

\* The groups of lu.
LEMMA LuGroups ==
  ASSUME nBlocks \in Size, NEW M \in Nat, NEW nb \in Nat, Fits(M, nb), nb # 1
  PROVE  GroupsOK(<<"lu", M, nb>>, lu(M, nb))
<1> DEFINE h == Half(nb)  c == <<"lu", M, nb>>
           m01 == MATRIX(M, 0, h)  m10 == MATRIX(M, h, 0)  m11 == MATRIX(M, h, h)
<1>1. h \in Size /\ h < nb /\ h = Half(nb) /\ MATRIX(M, 0, 0) = M
  BY Quarters
<1>2. lu(M, nb) = << <<<<"lu", M, h>>>>,
                     << <<"lower_solve", m01, M, h>>, <<"upper_solve", m10, M, h>> >>,
                     <<<<"schur", m11, m10, m01, h>>>>,
                     <<<<"lu", m11, h>>>> >>
  BY DEF lu, Half
<1>3. /\ Foot(c) = [w |-> Square(M, nb), u |-> Square(M, nb)]
      /\ Height(c) = 2 * nb /\ c[1] = "lu"
  BY FootLu
<1> HIDE DEF h, c
<1>4. 2 * h < Height(c)
  BY <1>1, <1>3 DEF Size
<1>5. h # 0
  BY <1>1 DEF Size
<1>6. \A I, J \in {0, h} : /\ Fits(MATRIX(M, I, J), h)
                           /\ Square(MATRIX(M, I, J), h) \subseteq Square(M, nb)
  BY <1>1, Quarters
<1>7. \A I, J, A, B \in {0, h} :
        I # A \/ J # B => Square(MATRIX(M, I, J), h) \cap Square(MATRIX(M, A, B), h) = {}
  BY <1>1, Quarters
<1>8. /\ Fits(M, h) /\ Square(M, h) \subseteq Square(M, nb)
      /\ Fits(m01, h) /\ Square(m01, h) \subseteq Square(M, nb)
      /\ Fits(m10, h) /\ Square(m10, h) \subseteq Square(M, nb)
      /\ Fits(m11, h) /\ Square(m11, h) \subseteq Square(M, nb)
  BY <1>1, <1>6
<1>9. /\ Square(m01, h) \cap Square(M, h) = {}
      /\ Square(m10, h) \cap Square(M, h) = {}
  BY <1>1, <1>5, <1>7
<1>10. /\ Square(m11, h) \cap Square(m10, h) = {}
       /\ Square(m11, h) \cap Square(m01, h) = {}
       /\ Square(m01, h) \cap Square(m10, h) = {}
  BY <1>5, <1>7
<1> HIDE DEF m01, m10, m11
<1>11. Made(c, <<"lu", M, h>>) /\ Made(c, <<"lu", m11, h>>)
  BY <1>3, <1>4, <1>8, MadeLu
<1>12. Made(c, <<"lower_solve", m01, M, h>>)
  BY <1>3, <1>4, <1>8, <1>9, MadeSolve
<1>13. Made(c, <<"upper_solve", m10, M, h>>)
  BY <1>3, <1>4, <1>8, <1>9, MadeSolve
<1>14. Made(c, <<"schur", m11, m10, m01, h>>)
  BY <1>3, <1>4, <1>8, <1>10, MadeSchur
<1>15. Apart(Foot(<<"lower_solve", m01, M, h>>), Foot(<<"upper_solve", m10, M, h>>))
  <2>1. Foot(<<"lower_solve", m01, M, h>>)
          = [w |-> Square(m01, h), u |-> Square(m01, h) \cup Square(M, h)]
    BY DEF Foot
  <2>2. Foot(<<"upper_solve", m10, M, h>>)
          = [w |-> Square(m10, h), u |-> Square(m10, h) \cup Square(M, h)]
    BY DEF Foot
  <2> QED BY <2>1, <2>2, <1>9, <1>10 DEF Apart
<1>16. GroupOK(c, << <<"lower_solve", m01, M, h>>, <<"upper_solve", m10, M, h>> >>)
  BY <1>12, <1>13, <1>15, GroupOfTwo
<1>17. GroupsOK(c, lu(M, nb))
  BY <1>2, <1>11, <1>14, <1>16, GroupOfOne, FourGroups
<1> QED BY <1>17 DEF c

\* And of g_main.
LEMMA MainGroups ==
  ASSUME nBlocks \in Size
  PROVE  GroupsOK(<<"g_main">>, <<<<<<"lu", 0, nBlocks>>>>>>)
<1> DEFINE c == <<"g_main">>  y == <<"lu", 0, nBlocks>>  g == <<y>>
<1>1. Foot(c) = [w |-> Square(0, nBlocks), u |-> Square(0, nBlocks)] /\ Height(c) = 2 * nBlocks + 1
  BY FootMain
<1>2. Fits(0, nBlocks)
  BY DEF Fits, Size, Cell
<1>3. c[1] = "g_main" /\ 2 * nBlocks < Height(c)
  BY <1>1 DEF Size
<1> HIDE DEF c
<1>4. Made(c, y)
  BY <1>1, <1>2, <1>3, MadeLu
<1> HIDE DEF y
<1>5. GroupOK(c, g)
  BY <1>4, GroupOfOne
<1>6. g \in Seq(Calls)
  BY <1>5 DEF GroupOK
<1> HIDE DEF g
<1>7. GroupsOK(c, <<g>>)
  BY <1>5, <1>6 DEF GroupsOK
<1> QED BY <1>7 DEF c, y, g

\* Every call that is made keeps to its groups: the geometry of the decomposition.
LEMMA GroupsCorrect ==
  ASSUME nBlocks \in Size, NEW c, Good(c), ~IsBlock(c)
  PROVE  GroupsOK(c, Groups(c))
<1>1. CASE c = <<"g_main">>
  <2>1. Groups(c) = <<<<<<"lu", 0, nBlocks>>>>>>
    BY <1>1 DEF Groups
  <2> QED BY <2>1, <1>1, MainGroups
<1>2. CASE IsLu(c)
  <2>1. PICK M, nb \in Nat : c = <<"lu", M, nb>> /\ Fits(M, nb)
    BY <1>2 DEF IsLu
  <2>2. nb # 1 /\ Groups(c) = lu(M, nb)
    BY <2>1 DEF IsBlock, Groups
  <2> QED BY <2>1, <2>2, LuGroups
<1>3. CASE IsSchur(c)
  <2>1. PICK M, V, W, nb \in Nat :
          /\ c = <<"schur", M, V, W, nb>>
          /\ Fits(M, nb) /\ Fits(V, nb) /\ Fits(W, nb)
          /\ Square(M, nb) \cap (Square(V, nb) \cup Square(W, nb)) = {}
    BY <1>3 DEF IsSchur
  <2>2. nb # 1 /\ Groups(c) = schur(M, V, W, nb)
    BY <2>1 DEF IsBlock, Groups
  <2> QED BY <2>1, <2>2, SchurGroups
<1>4. CASE IsSolve(c)
  <2>1. PICK M, L, nb \in Nat :
          /\ c \in {<<"lower_solve", M, L, nb>>, <<"upper_solve", M, L, nb>>}
          /\ Fits(M, nb) /\ Fits(L, nb)
          /\ Square(M, nb) \cap Square(L, nb) = {}
    BY <1>4 DEF IsSolve
  <2>2. nb # 1
    <3>1. CASE c = <<"lower_solve", M, L, nb>>
      BY <3>1 DEF IsBlock
    <3>2. CASE c = <<"upper_solve", M, L, nb>>
      BY <3>2 DEF IsBlock
    <3> QED BY <2>1, <3>1, <3>2
  <2>3. CASE c = <<"lower_solve", M, L, nb>>
    <3>1. Groups(c) = lower_solve(M, L, nb)
      BY <2>3 DEF Groups
    <3> QED BY <2>1, <2>2, <2>3, <3>1, LowerSolveGroups
  <2>4. CASE c = <<"upper_solve", M, L, nb>>
    <3>1. Groups(c) = upper_solve(M, L, nb)
      BY <2>4 DEF Groups
    <3> QED BY <2>1, <2>2, <2>4, <3>1, UpperSolveGroups
  <2> QED BY <2>1, <2>3, <2>4
<1>5. CASE IsAux(c)
  <2>1. PICK Ma, Mb, L, nb \in Nat : IsAuxOn(c, Ma, Mb, L, nb)
    BY <1>5 DEF IsAux
  <2>2. CASE c = <<"aux_lower_solve", Ma, Mb, L, nb>>
    <3>1. Groups(c) = aux_lower_solve(Ma, Mb, L, nb)
      BY <2>2 DEF Groups
    <3> QED BY <2>1, <2>2, <3>1, AuxLowerGroups
  <2>3. CASE c = <<"aux_upper_solve", Ma, Mb, L, nb>>
    <3>1. Groups(c) = aux_upper_solve(Ma, Mb, L, nb)
      BY <2>3 DEF Groups
    <3> QED BY <2>1, <2>3, <3>1, AuxUpperGroups
  <2> QED BY <2>1, <2>2, <2>3 DEF IsAuxOn
<1> QED BY <1>1, <1>2, <1>3, <1>4, <1>5 DEF Good
-----------------------------------------------------------------------------
(* Concatenation *)

\* A set with 0 and the successors of its elements has every natural number.
LEMMA SetInduction ==
  ASSUME NEW S, 0 \in S, \A k \in Nat : k \in S => k + 1 \in S
  PROVE  \A k \in Nat : k \in S
<1> DEFINE T == Nat \ S
<1>1. IsWellFoundedOn(OpToRel(<, Nat), Nat)
  BY NatLessThanWellFounded
<1>2. SUFFICES ASSUME T # {} PROVE FALSE
  OBVIOUS
<1>3. PICK m \in T : \A k \in T : <<k, m>> \notin OpToRel(<, Nat)
  <2>1. T \subseteq Nat
    OBVIOUS
  <2> HIDE DEF T
  <2> QED BY <1>1, <1>2, <2>1, WFMin
<1>4. \A k \in T : ~ (k < m)
  BY <1>3 DEF OpToRel
<1>5. m # 0 /\ m - 1 \in Nat /\ m - 1 + 1 = m
  OBVIOUS
<1>6. m - 1 \in S
  BY <1>4, <1>5
<1> QED BY <1>5, <1>6

\* One sequence behind the other.
Cat(s, t) == s \o t

\* One round of Concat.
Flatten(f, seqs, n) == [i \in 0..n |-> IF i = 0 THEN <<>> ELSE Cat(f[i - 1], seqs[i])]

\* The function that Concat is made of exists.
LEMMA FlattenExists == ASSUME NEW seqs, NEW n \in Nat PROVE \E f : f = Flatten(f, seqs, n)
<1> DEFINE S == {m \in Nat : \E f : f = Flatten(f, seqs, m)}
<1>1. 0 \in S
  <2> DEFINE f == [i \in 0..0 |-> <<>>]
  <2>1. f = Flatten(f, seqs, 0)
    BY DEF Flatten
  <2> QED BY <2>1
<1>2. ASSUME NEW m \in Nat, m \in S PROVE m + 1 \in S
  <2>1. PICK f : f = Flatten(f, seqs, m)
    BY <1>2
  <2> DEFINE last == Cat(f[m], seqs[m + 1])
             g == [i \in 0..m + 1 |-> IF i <= m THEN f[i] ELSE last]
  <2>2. ASSUME NEW i \in 0..m + 1 PROVE g[i] = Flatten(g, seqs, m + 1)[i]
    <3> DEFINE other == Cat(g[i - 1], seqs[i])
    <3>1. Flatten(g, seqs, m + 1)[i] = IF i = 0 THEN <<>> ELSE other
      BY DEF Flatten
    <3>2. CASE i <= m
      <4>1. f[i] = IF i = 0 THEN <<>> ELSE Cat(f[i - 1], seqs[i])
        <5>1. f[i] = Flatten(f, seqs, m)[i]
          BY <2>1
        <5> QED BY <3>2, <5>1 DEF Flatten
      <4>2. i # 0 => g[i - 1] = f[i - 1]
        BY <3>2
      <4> QED BY <3>1, <3>2, <4>1, <4>2
    <3>3. CASE i = m + 1
      <4>1. g[i - 1] = f[m]
        BY <3>3
      <4>2. g[i] = last
        BY <3>3
      <4> QED BY <3>1, <3>3, <4>1, <4>2
    <3> QED BY <3>2, <3>3
  <2>3. g = Flatten(g, seqs, m + 1)
    <3>1. g = [i \in 0..m + 1 |-> g[i]]
      OBVIOUS
    <3>2. Flatten(g, seqs, m + 1) = [i \in 0..m + 1 |-> Flatten(g, seqs, m + 1)[i]]
      BY DEF Flatten
    <3> HIDE DEF g
    <3> QED BY <2>2, <3>1, <3>2
  <2> QED BY <2>3
<1>3. \A m \in Nat : m \in S
  <2> HIDE DEF S
  <2> QED BY <1>1, <1>2, SetInduction
<1> QED BY <1>3

\* What holds of nothing, of pieces, and of two pieces one behind the other, holds of all.
LEMMA FlattenClosed ==
  ASSUME NEW S, NEW seqs, Len(seqs) \in Nat, <<>> \in S, \A i \in 1..Len(seqs) : seqs[i] \in S,
         \A s, t \in S : s \o t \in S
  PROVE  Concat(seqs) \in S
<1> DEFINE n == Len(seqs)
           f == CHOOSE g : g = Flatten(g, seqs, n)
           T == {k \in Nat : k <= n => f[k] \in S}
<1>1. f = Flatten(f, seqs, n)
  BY FlattenExists
<1>2. ASSUME NEW i \in 0..n PROVE f[i] = IF i = 0 THEN <<>> ELSE Cat(f[i - 1], seqs[i])
  <2>1. f[i] = Flatten(f, seqs, n)[i]
    BY <1>1
  <2> HIDE DEF f
  <2> QED BY <2>1 DEF Flatten
<1>3. Concat(seqs) = f[n]
  BY DEF Concat, Flatten, Cat
<1> HIDE DEF f
<1>4. 0 \in T
  BY <1>2
<1>5. ASSUME NEW k \in Nat, k \in T PROVE k + 1 \in T
  <2>1. SUFFICES ASSUME k + 1 <= n PROVE f[k + 1] \in S
    OBVIOUS
  <2>2. f[k] \in S /\ seqs[k + 1] \in S
    BY <1>5, <2>1
  <2>3. f[k + 1] = Cat(f[k], seqs[k + 1])
    <3> DEFINE i == k + 1
    <3>1. i \in 0..n /\ i # 0 /\ i - 1 = k
      BY <2>1
    <3> HIDE DEF i
    <3>2. f[i] = Cat(f[i - 1], seqs[i])
      BY <1>2, <3>1
    <3> QED BY <3>1, <3>2 DEF i
  <2> QED BY <2>2, <2>3 DEF Cat
<1>6. \A k \in Nat : k \in T
  <2> HIDE DEF T
  <2> QED BY <1>4, <1>5, SetInduction
<1>7. f[n] \in S
  BY <1>6
<1> QED BY <1>3, <1>7
-----------------------------------------------------------------------------
(* Bodies *)

Instrs == {"call", "spawn", "sync", "do"} \X (Calls \cup {0})

Variants == {"serial", "gregor", "cilk"}

\* What a routine that was called as c may do next.
Step(variant, c, q) ==
  \/ q[1] = "sync" /\ (variant = "cilk" \/ (variant = "gregor" /\ c[1] \in {"g_main", "lu"}))
  \/ q[1] = "do" /\ q[2] = c /\ IsBlock(c)
  \/ /\ q[1] \in {"call", "spawn"} /\ Made(c, q[2]) /\ ~IsBlock(c)
     /\ q[1] = "spawn" <=> variant = "cilk" \/ (variant = "gregor" /\ q[2][1] = "lu")

\* A spawned call, and what comes before the next sync, touch different blocks.
Ordered(b) ==
  \A i, j \in DOMAIN b :
    /\ i < j /\ b[i][1] = "spawn" /\ \A l \in i + 1..j : b[l][1] # "sync"
    => Apart(Foot(b[i][2]), Foot(b[j][2]))

\* Every spawn is followed by a sync.
Joined(b) ==
  \A i \in DOMAIN b : b[i][1] = "spawn" => \E j \in DOMAIN b : i < j /\ b[j][1] = "sync"

Fragments(variant, c) ==
  {b \in Seq(Instrs) : (\A i \in DOMAIN b : Step(variant, c, b[i])) /\ Joined(b) /\ Ordered(b)}

\* What is where in a concatenation.
LEMMA CatFacts ==
  ASSUME NEW X, NEW s \in Seq(X), NEW t \in Seq(X), NEW i \in DOMAIN (s \o t)
  PROVE  /\ i <= Len(s) => i \in DOMAIN s /\ (s \o t)[i] = s[i]
         /\ ~(i <= Len(s)) => i - Len(s) \in DOMAIN t /\ (s \o t)[i] = t[i - Len(s)]
  OBVIOUS

\* Fragments of a body make a fragment.
LEMMA FragmentsCat ==
  ASSUME NEW variant, NEW c, NEW s \in Fragments(variant, c), NEW t \in Fragments(variant, c)
  PROVE  s \o t \in Fragments(variant, c)
<1> DEFINE b == s \o t  n == Len(s)
<1>1. /\ s \in Seq(Instrs) /\ Joined(s) /\ Ordered(s) /\ \A i \in DOMAIN s : Step(variant, c, s[i])
      /\ t \in Seq(Instrs) /\ Joined(t) /\ Ordered(t) /\ \A i \in DOMAIN t : Step(variant, c, t[i])
  BY DEF Fragments
<1>2. /\ b \in Seq(Instrs) /\ n \in Nat /\ DOMAIN b = 1..n + Len(t) /\ DOMAIN s = 1..n
      /\ DOMAIN t = 1..Len(t) /\ Len(t) \in Nat
  BY <1>1
<1>3. \A i \in DOMAIN b : i <= n => i \in DOMAIN s /\ b[i] = s[i]
  BY <1>1, CatFacts
<1>4. \A i \in DOMAIN b : ~(i <= n) => i - n \in DOMAIN t /\ b[i] = t[i - n]
  BY <1>1, CatFacts
<1>5. \A i \in DOMAIN t : i + n \in DOMAIN b /\ b[i + n] = t[i]
  BY <1>1
<1>6. \A i \in DOMAIN s : i \in DOMAIN b /\ b[i] = s[i]
  BY <1>1
<1> HIDE DEF b, n
<1>7. \A i \in DOMAIN b : Step(variant, c, b[i])
  BY <1>1, <1>3, <1>4
<1>8. Joined(b)
  <2> SUFFICES ASSUME NEW i \in DOMAIN b, b[i][1] = "spawn"
               PROVE  \E j \in DOMAIN b : i < j /\ b[j][1] = "sync"
    BY DEF Joined
  <2>1. CASE i <= n
    <3>1. PICK j \in DOMAIN s : i < j /\ s[j][1] = "sync"
      BY <1>1, <1>3, <2>1 DEF Joined
    <3> QED BY <3>1, <1>6
  <2>2. CASE ~(i <= n)
    <3>1. PICK j \in DOMAIN t : i - n < j /\ t[j][1] = "sync"
      BY <1>1, <1>4, <2>2 DEF Joined
    <3>2. i < j + n
      BY <3>1, <1>2
    <3> QED BY <3>1, <3>2, <1>5
  <2> QED BY <2>1, <2>2
<1>9. Ordered(b)
  <2> SUFFICES ASSUME NEW i \in DOMAIN b, NEW j \in DOMAIN b, i < j, b[i][1] = "spawn",
                      \A l \in i + 1..j : b[l][1] # "sync"
               PROVE  Apart(Foot(b[i][2]), Foot(b[j][2]))
    BY DEF Ordered
  <2>0. i \in Nat /\ j \in Nat
    BY <1>2
  <2>1. CASE j <= n
    <3>1. i \in DOMAIN s /\ j \in DOMAIN s /\ b[i] = s[i] /\ b[j] = s[j]
      BY <1>3, <1>2, <2>0, <2>1
    <3>2. \A l \in i + 1..j : s[l][1] # "sync"
      BY <1>2, <1>6, <2>0, <2>1
    <3> QED BY <3>1, <3>2, <1>1 DEF Ordered
  <2>2. CASE ~(i <= n)
    <3> DEFINE p == i - n  q == j - n
    <3>1. p \in DOMAIN t /\ q \in DOMAIN t /\ b[i] = t[p] /\ b[j] = t[q] /\ p < q
      BY <1>2, <1>4, <2>0, <2>2
    <3>2. \A l \in p + 1..q : t[l][1] # "sync"
      <4> TAKE l \in p + 1..q
      <4>1. l \in DOMAIN t /\ l + n \in i + 1..j
        BY <1>2, <2>0, <2>2
      <4> QED BY <4>1, <1>5
    <3> HIDE DEF p, q
    <3> QED BY <3>1, <3>2, <1>1 DEF Ordered
  <2>3. CASE i <= n /\ ~(j <= n)
    <3>1. PICK l \in DOMAIN s : i < l /\ s[l][1] = "sync"
      BY <1>1, <1>3, <2>3 DEF Joined
    <3>2. l \in i + 1..j /\ b[l] = s[l]
      BY <3>1, <1>2, <1>6, <2>0, <2>3
    <3> QED BY <3>1, <3>2
  <2> QED BY <2>1, <2>2, <2>3
<1> QED BY <1>2, <1>7, <1>8, <1>9 DEF Fragments, b

\* The fragments that the three variants make of a group.
LEMMA SerialFragment ==
  ASSUME NEW c, ~IsBlock(c), NEW g, GroupOK(c, g)
  PROVE  Serial(g) \in Fragments("serial", c)
<1>1. g \in Seq(Calls) /\ \A i \in DOMAIN g : Made(c, g[i])
  BY DEF GroupOK
<1> DEFINE b == Serial(g)
<1>2. b \in Seq(Instrs) /\ DOMAIN b = DOMAIN g /\ \A i \in DOMAIN b : b[i] = <<"call", g[i]>>
  BY <1>1 DEF Serial, Instrs
<1> HIDE DEF b
<1>3. (\A i \in DOMAIN b : Step("serial", c, b[i])) /\ Joined(b) /\ Ordered(b)
  BY <1>1, <1>2 DEF Step, Joined, Ordered
<1> QED BY <1>2, <1>3 DEF Fragments, b

\* A group that is spawned and waited for, as the Cilk original does.
LEMMA CilkFragment ==
  ASSUME NEW c, NEW g, GroupOK(c, g), ~IsBlock(c)
  PROVE  Cilk(g) \in Fragments("cilk", c)
<1>1. g \in Seq(Calls) /\ \A i \in DOMAIN g : Made(c, g[i])
  BY DEF GroupOK
<1>2. \A p, q \in DOMAIN g : p # q => Apart(Foot(g[p]), Foot(g[q]))
  BY DEF GroupOK
<1> DEFINE b == Cilk(g)  n == Len(g)
<1>3. n \in Nat /\ DOMAIN g = 1..n
  BY <1>1
<1>4. b \in Seq(Instrs) /\ DOMAIN b = 1..n + 1
  BY <1>1 DEF Cilk, Instrs
<1>5. \A i \in 1..n : b[i] = <<"spawn", g[i]>>
  BY <1>1 DEF Cilk
<1>6. b[n + 1] = <<"sync", 0>>
  <2> DEFINE s == [i \in DOMAIN g |-> <<"spawn", g[i]>>]
  <2>1. s \in Seq(Instrs) /\ Len(s) = n
    BY <1>1 DEF Instrs
  <2>2. b = s \o <<<<"sync", 0>>>>
    BY DEF Cilk
  <2> HIDE DEF b, s, n
  <2> QED BY <1>3, <2>1, <2>2
<1> HIDE DEF b, n
<1>7. \A i \in DOMAIN b : i \in 1..n \/ i = n + 1
  BY <1>3, <1>4
<1>8. \A i \in DOMAIN b : Step("cilk", c, b[i])
  BY <1>1, <1>3, <1>5, <1>6, <1>7 DEF Step
<1>9. Joined(b)
  <2> SUFFICES ASSUME NEW i \in DOMAIN b, b[i][1] = "spawn" PROVE i < n + 1 /\ n + 1 \in DOMAIN b
    BY <1>6 DEF Joined
  <2> QED BY <1>3, <1>4, <1>6
<1>10. Ordered(b)
  <2> SUFFICES ASSUME NEW i \in DOMAIN b, NEW j \in DOMAIN b, i < j,
                      \A l \in i + 1..j : b[l][1] # "sync"
               PROVE  Apart(Foot(b[i][2]), Foot(b[j][2]))
    BY DEF Ordered
  <2>1. j # n + 1
    BY <1>4, <1>6
  <2>2. i \in 1..n /\ j \in 1..n /\ i # j
    BY <1>3, <1>4, <2>1
  <2> QED BY <2>2, <1>2, <1>3, <1>5
<1> QED BY <1>4, <1>8, <1>9, <1>10 DEF Fragments, b

\* A group as lu_para schedules it: each spawn is waited for at once.
LEMMA GregorFragment ==
  ASSUME NEW c, ~IsBlock(c), NEW g, GroupOK(c, g)
  PROVE  Gregor(g) \in Fragments("gregor", c)
<1>1. g \in Seq(Calls) /\ \A i \in DOMAIN g : Made(c, g[i])
  BY DEF GroupOK
<1> DEFINE One(y) == IF y[1] = "lu" THEN <<<<"spawn", y>>, <<"sync", 0>>>> ELSE <<<<"call", y>>>>
           ss == [i \in DOMAIN g |-> One(g[i])]
           F == Fragments("gregor", c)
<1>2. ASSUME NEW y \in Calls, Made(c, y) PROVE One(y) \in F
  <2>1. CASE y[1] = "lu"
    <3> DEFINE b == <<<<"spawn", y>>, <<"sync", 0>>>>
    <3>1. b \in Seq(Instrs) /\ DOMAIN b = 1..2 /\ b[1] = <<"spawn", y>> /\ b[2] = <<"sync", 0>>
      BY DEF Instrs
    <3> HIDE DEF b
    <3>2. \A i \in DOMAIN b : i = 1 \/ i = 2
      BY <3>1
    <3>3. \A i \in DOMAIN b : Step("gregor", c, b[i])
      BY <1>2, <2>1, <3>1, <3>2 DEF Step, Made
    <3>4. Joined(b) /\ Ordered(b)
      BY <3>1, <3>2 DEF Joined, Ordered
    <3> QED BY <2>1, <3>1, <3>3, <3>4 DEF Fragments, b
  <2>2. CASE y[1] # "lu"
    <3> DEFINE b == <<<<"call", y>>>>
    <3>1. b \in Seq(Instrs) /\ DOMAIN b = 1..1 /\ b[1] = <<"call", y>>
      BY DEF Instrs
    <3> HIDE DEF b
    <3>2. \A i \in DOMAIN b : i = 1
      BY <3>1
    <3>3. \A i \in DOMAIN b : Step("gregor", c, b[i])
      BY <1>2, <2>2, <3>1, <3>2 DEF Step
    <3>4. Joined(b) /\ Ordered(b)
      BY <3>1, <3>2 DEF Joined, Ordered
    <3> QED BY <2>2, <3>1, <3>3, <3>4 DEF Fragments, b
  <2> QED BY <2>1, <2>2
<1>3. \A i \in DOMAIN g : One(g[i]) \in F
  BY <1>1, <1>2
<1>4. Len(ss) = Len(g) /\ Len(g) \in Nat /\ DOMAIN ss = 1..Len(g)
  BY <1>1
<1>5. \A s, t \in F : s \o t \in F
  BY FragmentsCat
<1>6. Gregor(g) = Concat(ss)
  BY DEF Gregor
<1>7. <<>> \in F
  BY DEF Fragments, Joined, Ordered
<1>8. \A i \in 1..Len(ss) : ss[i] \in F
  BY <1>1, <1>3, <1>4
<1> HIDE DEF ss, F
<1> QED BY <1>4, <1>5, <1>6, <1>7, <1>8, FlattenClosed DEF F

\* The calls that are made are tuples of the right kinds.
LEMMA GoodIsCall == \A c : Good(c) => c \in Calls
  BY DEF Good, IsLu, IsSchur, IsSolve, IsAux, IsAuxOn, Calls

\* Body in all variants: the calls stay inside their caller's blocks, a spawned call runs
\* beside nothing that touches the same blocks, and every spawn is synced.
LEMMA BodyCorrect ==
  ASSUME nBlocks \in Size, NEW variant \in Variants, NEW c, Good(c)
  PROVE  Body(variant, c) \in Fragments(variant, c)
<1>1. CASE IsBlock(c)
  <2> DEFINE b == <<<<"do", c>>>>
  <2>1. b \in Seq(Instrs) /\ DOMAIN b = 1..1 /\ b[1] = <<"do", c>>
    BY GoodIsCall DEF Instrs
  <2> HIDE DEF b
  <2>2. \A i \in DOMAIN b : i = 1
    BY <2>1
  <2>3. \A i \in DOMAIN b : Step(variant, c, b[i])
    BY <1>1, <2>1, <2>2 DEF Step
  <2>4. Joined(b) /\ Ordered(b)
    BY <2>1, <2>2 DEF Joined, Ordered
  <2>5. Body(variant, c) = b
    BY <1>1 DEF Body, b
  <2> QED BY <2>1, <2>3, <2>4, <2>5 DEF Fragments
<1>2. CASE ~IsBlock(c)
  <2> DEFINE g == Groups(c)
             ss == [i \in DOMAIN g |-> Schedule(variant, g[i])]
             F == Fragments(variant, c)
  <2>1. g \in Seq(Seq(Calls)) /\ g # <<>> /\ \A a \in DOMAIN g : GroupOK(c, g[a])
    BY <1>2, GroupsCorrect DEF GroupsOK
  <2> HIDE DEF g
  <2>2. \A a \in DOMAIN g : Schedule(variant, g[a]) \in F
    BY <1>2, <2>1, SerialFragment, GregorFragment, CilkFragment DEF Schedule, Variants
  <2>3. Len(ss) = Len(g) /\ Len(g) \in Nat /\ DOMAIN g = 1..Len(g) /\ <<>> \in F
    BY <2>1 DEF Fragments, Joined, Ordered
  <2>4. \A i \in 1..Len(ss) : ss[i] \in F
    BY <2>2, <2>3
  <2>5. Body(variant, c) = Concat(ss)
    BY <1>2 DEF Body, g
  <2>6. \A s, t \in F : s \o t \in F
    BY FragmentsCat
  <2> HIDE DEF ss, F
  <2> QED BY <2>3, <2>4, <2>5, <2>6, FlattenClosed DEF F
<1> QED BY <1>1, <1>2

\* A footprint is not empty, and what is written is counted as used.
LEMMA FootFacts ==
  ASSUME nBlocks \in Size, NEW c, Good(c)
  PROVE  Foot(c).w # {} /\ Foot(c).w \subseteq Foot(c).u /\ Height(c) \in Nat
<1>0. \A M, nb : Fits(M, nb) => M \in Square(M, nb)
  BY SquareNonempty, FitsType
<1>1. CASE c = <<"g_main">>
  <2>1. Foot(c).w = Square(0, nBlocks) /\ Foot(c).u = Square(0, nBlocks) /\ Height(c) = 2 * nBlocks + 1
    BY <1>1, FootMain
  <2>2. 0 \in Square(0, nBlocks)
    BY SquareNonempty
  <2> QED BY <2>1, <2>2 DEF Size
<1>2. CASE IsLu(c)
  BY <1>0, <1>2 DEF IsLu, Foot, Height
<1>3. CASE IsSchur(c)
  BY <1>0, <1>3 DEF IsSchur, Foot, Height
<1>4. CASE IsSolve(c)
  BY <1>0, <1>4 DEF IsSolve, Foot, Height
<1>5. CASE IsAux(c)
  BY <1>0, <1>5 DEF IsAux, IsAuxOn, Foot, Height
<1> QED BY <1>1, <1>2, <1>3, <1>4, <1>5 DEF Good

\* The kernel that a call of size 1 runs keeps to the footprint of the call.
LEMMA KernelInFoot ==
  ASSUME nBlocks \in Size, NEW c, Good(c), IsBlock(c)
  PROVE  Written(c) \subseteq Foot(c).w /\ Used(c) \subseteq Foot(c).u
<1>0. \A M, nb : Fits(M, nb) => M \in Square(M, nb)
  BY SquareNonempty, FitsType
<1>1. CASE c = <<"g_main">>
  BY <1>1 DEF IsBlock
<1>2. CASE IsLu(c)
  <2>1. PICK M, nb \in Nat : c = <<"lu", M, nb>> /\ Fits(M, nb)
    BY <1>2 DEF IsLu
  <2>2. Written(c) = {M} /\ Used(c) = {M}
    <3>1. \A i \in 2..Len(c) - 1 : c[i] = M
      BY <2>1
    <3> QED BY <2>1, <3>1 DEF Written, Used
  <2>3. Foot(c) = [w |-> Square(M, nb), u |-> Square(M, nb)]
    BY <2>1, FootLu
  <2> QED BY <1>0, <2>1, <2>2, <2>3
<1>3. CASE IsSchur(c)
  <2>1. PICK M, V, W, nb \in Nat :
          c = <<"schur", M, V, W, nb>> /\ Fits(M, nb) /\ Fits(V, nb) /\ Fits(W, nb)
    BY <1>3 DEF IsSchur
  <2>2. Written(c) = {M} /\ Used(c) \subseteq {M, V, W}
    <3>1. \A i \in 2..Len(c) - 1 : c[i] \in {M, V, W}
      BY <2>1
    <3> QED BY <2>1, <3>1 DEF Written, Used
  <2>3. Foot(c) = [w |-> Square(M, nb), u |-> Square(M, nb) \cup Square(V, nb) \cup Square(W, nb)]
    BY <2>1, FootSchur
  <2> QED BY <1>0, <2>1, <2>2, <2>3
<1>4. CASE IsSolve(c)
  <2>1. PICK M, L, nb \in Nat :
          /\ c \in {<<"lower_solve", M, L, nb>>, <<"upper_solve", M, L, nb>>}
          /\ Fits(M, nb) /\ Fits(L, nb)
    BY <1>4 DEF IsSolve
  <2>2. PICK f \in {"lower_solve", "upper_solve"} : c = <<f, M, L, nb>>
    BY <2>1
  <2>3. Written(c) = {M} /\ Used(c) \subseteq {M, L}
    <3>1. \A i \in 2..Len(c) - 1 : c[i] \in {M, L}
      BY <2>2
    <3> QED BY <2>2, <3>1 DEF Written, Used
  <2>4. Foot(c) = [w |-> Square(M, nb), u |-> Square(M, nb) \cup Square(L, nb)]
    BY <2>2, FootSolve
  <2> QED BY <1>0, <2>1, <2>3, <2>4
<1>5. CASE IsAux(c)
  BY <1>5 DEF IsAux, IsAuxOn, IsBlock
<1> QED BY <1>1, <1>2, <1>3, <1>4, <1>5 DEF Good
=============================================================================
