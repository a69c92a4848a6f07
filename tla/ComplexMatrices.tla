--------------------------- MODULE ComplexMatrices ---------------------------
(***************************************************************************)
(* Square complex matrices as the HAL's solvers use them (ndarray's           *)
(* Array2<Complex64>), in exact arithmetic: a real number is a residue modulo  *)
(* Modulus, a prime that is 3 modulo 4, so that -1 has no square root and the   *)
(* complex numbers over it are a field with a conjugation.  Whatever holds of  *)
(* complex matrices by algebra holds here; residues are taken about 0, so that  *)
(* reals smaller than half of Modulus keep their order as well.              *)
(***************************************************************************)
EXTENDS Integers, Sequences, SequencesExt

CONSTANT Modulus
ASSUME ModulusAssumption ==
  /\ Modulus \in {p \in Nat : p > 3 /\ p % 4 = 3}
  /\ \A x \in 1..(Modulus - 1) : \E y \in 1..(Modulus - 1) : (x * y) % Modulus = 1
  /\ \A x \in 1..(Modulus - 1) : (x * x + 1) % Modulus # 0

Real(x) == LET r == x % Modulus IN IF 2 * r > Modulus THEN r - Modulus ELSE r
InverseReal(x) == Real(CHOOSE y \in 1..(Modulus - 1) : (x * y) % Modulus = 1)

\* Complex numbers <<re, im>>, and the square matrices of dimension d; residues are what
\* arithmetic leaves.
Complex == Int \X Int
Residues == {z \in Complex : Real(z[1]) = z[1] /\ Real(z[2]) = z[2]}
Square(d) == [1..d -> [1..d -> Complex]]
Reduced(d) == [1..d -> [1..d -> Residues]]
Zero == <<0, 0>>
One == <<1, 0>>
MinusI == <<0, -1>>
Plus(a, b) == <<Real(a[1] + b[1]), Real(a[2] + b[2])>>
Minus(a, b) == <<Real(a[1] - b[1]), Real(a[2] - b[2])>>
Times(a, b) == <<Real(a[1] * b[1] - a[2] * b[2]), Real(a[1] * b[2] + a[2] * b[1])>>
Conj(a) == <<a[1], Real(-a[2])>>
NormSqr(a) == Real(a[1] * a[1] + a[2] * a[2])
Over(a, b) == Times(Times(a, Conj(b)), <<InverseReal(NormSqr(b)), 0>>)
Total(s) == FoldLeft(Plus, Zero, s)

\* A sequence given by a function: as a tuple, TLC evaluates its entries once.
Tuple(f) == f \o <<>>

\* Matrices: sequences of rows.
Matrix(rows, columns, Entry(_, _)) == Tuple([r \in 1..rows |-> Tuple([c \in 1..columns |-> Entry(r, c)])])
Diagonal(d, x) == Matrix(d, d, LAMBDA r, c : IF r = c THEN x ELSE Zero)
Eye(d) == Diagonal(d, One)
Zeros(d) == Diagonal(d, Zero)
Sum(a, b) == Matrix(Len(a), Len(a), LAMBDA r, c : Plus(a[r][c], b[r][c]))
Difference(a, b) == Matrix(Len(a), Len(a), LAMBDA r, c : Minus(a[r][c], b[r][c]))
Scaled(x, a) == Matrix(Len(a), Len(a), LAMBDA r, c : Times(x, a[r][c]))
Dot(a, b) ==
  Matrix(Len(a), Len(b), LAMBDA r, c : Total([k \in DOMAIN b |-> Times(a[r][k], b[k][c])]))
Dagger(a) == Matrix(Len(a), Len(a), LAMBDA r, c : Conj(a[c][r]))
Trace(a) == Total([k \in DOMAIN a |-> a[k][k]])
Commutator(a, b) == Difference(Dot(a, b), Dot(b, a))
Hermitian(a) == Dagger(a) = a

Half == <<InverseReal(2), 0>>
Sixth == <<InverseReal(6), 0>>

\* flat_to_complex_matrix: a flat list of re, im by rows, or an error.
Flattened(data, dim) == Len(data) = dim * dim * 2
FlatToComplexMatrix(data, dim) ==
  Matrix(dim, dim, LAMBDA r, c :
    LET idx == ((r - 1) * dim + (c - 1)) * 2 IN <<data[idx + 1], data[idx + 2]>>)
\* complex_matrix_to_flat
ComplexMatrixToFlat(m) ==
  LET d == Len(m)
      entry(k) == m[(((k - 1) \div 2) \div d) + 1][(((k - 1) \div 2) % d) + 1]
  IN Tuple([k \in 1..(2 * d * d) |-> IF k % 2 = 1 THEN entry(k)[1] ELSE entry(k)[2]])
=============================================================================
