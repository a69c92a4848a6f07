------------------------------ MODULE MatrixExp ------------------------------
(***************************************************************************)
(* matrix_exp (hal/src/grape/expm.rs): scaling and squaring about the Pade    *)
(* approximant.  PadeCoeffs stands for PADE_COEFFS; norms, which only choose   *)
(* the number s of squarings, are left to the caller of MatrixExp.  The       *)
(* modulus of a number is compared by Size.                                   *)
(***************************************************************************)
EXTENDS ComplexMatrices

CONSTANT PadeCoeffs
ASSUME PadeAssumption == PadeCoeffs \in [0..13 -> Nat]

VARIABLE expm   \* [h, s, u]: the Hamiltonian of a step, the squarings, its propagator

Coefficient(k) == <<Real(PadeCoeffs[k]), 0>>
Combination(a6, a4, a2, k) ==
  Sum(Sum(Scaled(Coefficient(k), a6), Scaled(Coefficient(k - 2), a4)), Scaled(Coefficient(k - 4), a2))

Size(x) == x[1] * x[1] + x[2] * x[2]

\* Mutant: elimination with the diagonal element as the pivot.
MaxRowDiagonal(aug, col) == col

\* Gaussian elimination of one column of [A | B], partial pivoting included.
MaxRow(aug, col) ==
  CHOOSE row \in col..Len(aug) :
    /\ \A other \in col..Len(aug) : Size(aug[other][col]) <= Size(aug[row][col])
    /\ \A other \in col..(row - 1) : Size(aug[other][col]) < Size(aug[row][col])
Swapped(aug, a, b) == [aug EXCEPT ![a] = aug[b], ![b] = aug[a]]
Eliminated(aug, col) ==
  LET swapped == Swapped(aug, col, MaxRow(aug, col))
      pivot == swapped[col][col]
  IN Tuple([row \in DOMAIN aug |->
        IF row <= col THEN swapped[row]
        ELSE LET factor == Over(swapped[row][col], pivot)
             IN Tuple([j \in DOMAIN swapped[row] |->
                         Minus(swapped[row][j], Times(factor, swapped[col][j]))])])
\* A column without a pivot stays, and shows the caller that the fallback applies.
Echelon(aug) ==
  FoldLeft(LAMBDA a, col : IF Size(a[MaxRow(a, col)][col]) = 0 THEN a ELSE Eliminated(a, col),
           aug, [k \in DOMAIN aug |-> k])
Singular(e) == \E k \in DOMAIN e : e[k][k] = Zero

\* solve_linear: X of A * X = B by back substitution; the identity if A is singular.
SolveLinear(a, b) ==
  LET n == Len(a)
      e == Echelon([r \in 1..n |-> a[r] \o b[r]])
      x[row \in 1..n] ==
        Tuple([j \in DOMAIN b[row] |->
           Over(Minus(e[row][n + j], Total([k \in 1..(n - row) |-> Times(e[row][row + k], x[row + k][j])])),
                e[row][row])])
  IN IF Singular(e) THEN Eye(n) ELSE Tuple(x)

\* pade13: the odd part u and the even part v, by Horner's rule in A^6.
PadeParts(a) ==
  LET a2 == Dot(a, a)
      a4 == Dot(a2, a2)
      a6 == Dot(a2, a4)
      w2 == Sum(Sum(Dot(Combination(a6, a4, a2, 13), a6), Combination(a6, a4, a2, 7)),
                Diagonal(Len(a), Coefficient(1)))
      v == Sum(Sum(Dot(Combination(a6, a4, a2, 12), a6), Combination(a6, a4, a2, 6)),
               Diagonal(Len(a), Coefficient(0)))
  IN [u |-> Dot(a, w2), v |-> v]
Pade13(a) ==
  LET p == PadeParts(a) IN SolveLinear(Difference(p.v, p.u), Sum(p.v, p.u))

SquareRepeatedly(m, s) == FoldLeft(LAMBDA a, k : Dot(a, a), m, [k \in 1..s |-> k])

\* matrix_exp: exp(A) as exp(A / 2^s)^(2^s).
MatrixExp(a, s) ==
  IF a = <<>> THEN a
  ELSE LET scale == FoldLeft(LAMBDA x, k : Times(x, Half), One, [k \in 1..s |-> k])
       IN SquareRepeatedly(Pade13(Scaled(scale, a)), s)

-----------------------------------------------------------------------------

NoExponential == [h |-> <<>>, s |-> 0, u |-> <<>>]

\* One step of compute_propagators: U = exp(-i H), the real factor of H included in it.
Exponentiate(h, s) ==
  /\ expm = NoExponential
  /\ expm' = [h |-> h, s |-> s, u |-> MatrixExp(Scaled(MinusI, h), s)]

-----------------------------------------------------------------------------
(* Properties                                                               *)

\* The polynomial the approximant is the quotient of, written out.
Power(a, k) == FoldLeft(LAMBDA m, j : Dot(m, a), Eye(Len(a)), [j \in 1..k |-> j])
Determinant(a) == Minus(Times(a[1][1], a[2][2]), Times(a[1][2], a[2][1]))
Polynomial(a, ks) ==
  FoldLeft(LAMBDA m, k : Sum(m, Scaled(Coefficient(k), Power(a, k))), Zeros(Len(a)), ks)

\* The propagator of a qubit's Hamiltonian is unitary however often it was squared, and the
\* approximant is that of all fourteen coefficients, but for a singular denominator: an index or a sign wrong in
\* pade13, a row swap or a substitution wrong in solve_linear, would lose probability at
\* every step of every pulse (matrix_exp, pade13, solve_linear).
PropagatorUnitary ==
  expm.h # <<>> =>
    LET a == Scaled(MinusI, expm.h)
        odd == Polynomial(a, [k \in 1..7 |-> 2 * k - 1])
        even == Polynomial(a, [k \in 1..7 |-> 2 * k - 2])
    IN /\ Dot(Dagger(expm.u), expm.u) = Eye(Len(expm.h))
       /\ PadeParts(a) = [u |-> odd, v |-> even]
       /\ expm.s = 0 => IF Determinant(Difference(even, odd)) = Zero THEN expm.u = Eye(2)
                        ELSE Dot(Difference(even, odd), expm.u) = Sum(even, odd)
=============================================================================
