---------------------------- MODULE SolversProofs ----------------------------
(***************************************************************************)
(* Proofs about Solvers, for any calls, tables of propagators and ensembles:     *)
(* an ensemble that is returned is complete; both optimisers return the best    *)
(* they evaluated; the states of the integrators keep their trace and stay      *)
(* Hermitian; the gradient of the closed system is the derivative; the           *)
(* propagators of a qubit are unitary; feedback never drives a qubit away.     *)
(***************************************************************************)
EXTENDS Solvers, FoldLemmas, SequenceTheorems, TLAPS

-----------------------------------------------------------------------------
(* Sums and matrices                                                        *)

LEMMA RealInt ==
  ASSUME NEW x \in Int
  PROVE  Real(x) \in Int
<1>1. Modulus \in Nat /\ Modulus > 3
  BY ModulusAssumption
<1>2. x % Modulus \in Int
  BY <1>1
<1> QED
  BY <1>1, <1>2 DEF Real

LEMMA ArithmeticTyped ==
  ASSUME NEW a \in Complex, NEW b \in Complex
  PROVE  /\ Plus(a, b) \in Complex /\ Minus(a, b) \in Complex /\ Times(a, b) \in Complex
         /\ Conj(a) \in Complex /\ NormSqr(a) \in Int /\ Zero \in Complex /\ One \in Complex
<1>1. a[1] \in Int /\ a[2] \in Int /\ b[1] \in Int /\ b[2] \in Int
  BY DEF Complex
<1>2. \A x \in Int : Real(x) \in Int
  BY RealInt
<1>3. Plus(a, b) \in Complex /\ Minus(a, b) \in Complex
  <2>1. Real(a[1] + b[1]) \in Int /\ Real(a[2] + b[2]) \in Int
        /\ Real(a[1] - b[1]) \in Int /\ Real(a[2] - b[2]) \in Int
    BY <1>1, <1>2
  <2> QED
    BY <2>1 DEF Plus, Minus, Complex
<1>4. Times(a, b) \in Complex
  <2>1. a[1] * b[1] - a[2] * b[2] \in Int /\ a[1] * b[2] + a[2] * b[1] \in Int
    BY <1>1
  <2>2. Real(a[1] * b[1] - a[2] * b[2]) \in Int /\ Real(a[1] * b[2] + a[2] * b[1]) \in Int
    BY <1>2, <2>1
  <2> QED
    BY <2>2 DEF Times, Complex
<1>5. Conj(a) \in Complex /\ NormSqr(a) \in Int
  <2>1. -a[2] \in Int /\ a[1] * a[1] + a[2] * a[2] \in Int
    BY <1>1
  <2>2. Real(-a[2]) \in Int /\ Real(a[1] * a[1] + a[2] * a[2]) \in Int
    BY <1>2, <2>1
  <2> QED
    BY <1>1, <2>2 DEF Conj, NormSqr, Complex
<1>6. Zero \in Complex /\ One \in Complex
  BY DEF Zero, One, Complex
<1> QED
  BY <1>3, <1>4, <1>5, <1>6

LEMMA TotalRuns ==
  ASSUME NEW s \in Seq(Complex)
  PROVE  \E w \in [0..Len(s) -> Complex] :
           /\ w[0] = Zero /\ Total(s) = w[Len(s)]
           /\ \A k \in 1..Len(s) : w[k] = Plus(w[k - 1], s[k])
<1> DEFINE n == Len(s)
           Is(g) == g = [t \in SUBSET (1..n) |->
                           IF t = {} THEN Zero ELSE Plus(g[t \ {Max(t)}], s[Max(t)])]
           f == CHOOSE g : Is(g)
<1>0. \A a, b \in Complex : Plus(a, b) \in Complex
  BY ArithmeticTyped
<1>1. DOMAIN s = 1..n /\ n \in Nat
  OBVIOUS
<1>2. Total(s) = f[1..n]
  BY <1>1 DEF Total, FoldLeft, MapThenFoldSet
<1> DEFINE G == [p \in (1..n) \X Complex |-> Plus(p[2], s[p[1]])]
<1>3. Zero \in Complex /\ \A k \in 1..n : s[k] \in Complex
  BY <1>1 DEF Zero, Complex
<1>4. G \in [(1..n) \X Complex -> Complex]
  BY <1>0, <1>3
<1>5. PICK h \in [SUBSET (1..n) -> Complex] : IsFold(h, n, Zero, G)
  <2> HIDE DEF G
  <2>1. n \in Nat
    BY <1>1
  <2> HIDE DEF n
  <2> QED
    BY <1>3, <1>4, <2>1, FoldExists
<1>6. ASSUME NEW t \in SUBSET (1..n), t # {}
      PROVE  h[t] = Plus(h[t \ {Max(t)}], s[Max(t)])
  <2>1. Max(t) \in 1..n /\ t \ {Max(t)} \in SUBSET (1..n)
    BY <1>1, <1>6, MaxFacts
  <2>2. h[t] = G[<<Max(t), h[t \ {Max(t)}]>>] /\ h[t \ {Max(t)}] \in Complex
    BY <1>5, <1>6, <2>1 DEF IsFold
  <2> QED
    BY <2>1, <2>2
<1>7. Is(h)
  <2>1. h[{}] = Zero /\ {} \in SUBSET (1..n)
    BY <1>5 DEF IsFold
  <2>2. \A t \in SUBSET (1..n) :
          h[t] = IF t = {} THEN Zero ELSE Plus(h[t \ {Max(t)}], s[Max(t)])
    BY <1>6, <2>1
  <2> HIDE DEF G
  <2> QED
    BY <1>5, <2>2
<1> HIDE DEF G
<1>8. Is(f)
  BY <1>7
<1> HIDE DEF f
<1>9. f[{}] = Zero /\ \A t \in SUBSET (1..n) : t # {} => f[t] = Plus(f[t \ {Max(t)}], s[Max(t)])
  BY <1>8
<1>10. ASSUME NEW t \in SUBSET (1..n), t # {}, f[t \ {Max(t)}] \in Complex PROVE f[t] \in Complex
  <2>1. Max(t) \in 1..n
    BY <1>1, <1>10, MaxFacts
  <2>2. f[t] = Plus(f[t \ {Max(t)}], s[Max(t)])
    BY <1>9, <1>10
  <2>3. s[Max(t)] \in Complex
    BY <1>3, <2>1
  <2>4. Plus(f[t \ {Max(t)}], s[Max(t)]) \in Complex
    BY <1>0, <1>10, <2>3
  <2> QED
    BY <2>2, <2>4
<1>11. \A t \in SUBSET (1..n) : f[t] \in Complex
  BY <1>1, <1>3, <1>9, <1>10, FoldTyped
<1> DEFINE w == [k \in 0..n |-> f[1..k]]
<1>12. w \in [0..n -> Complex]
  <2>1. \A k \in 0..n : 1..k \in SUBSET (1..n)
    BY <1>1
  <2> QED
    BY <1>11, <2>1
<1>13. w[0] = Zero /\ w[n] = f[1..n]
  <2>1. 1..0 = {} /\ 0 \in 0..n /\ n \in 0..n
    BY <1>1
  <2> QED
    BY <1>9, <2>1
<1>14. ASSUME NEW k \in 1..n PROVE w[k] = Plus(w[k - 1], s[k])
  <2>1. k \in Nat \ {0} /\ k \in 0..n /\ k - 1 \in 0..n /\ 1..k \in SUBSET (1..n)
    BY <1>1
  <2>2. 1..k # {} /\ Max(1..k) = k /\ (1..k) \ {k} = 1..(k - 1)
    BY <2>1, FirstFacts
  <2>3. f[1..k] = Plus(f[1..(k - 1)], s[k])
    BY <1>9, <2>1, <2>2
  <2> QED
    BY <2>1, <2>3
<1> HIDE DEF w
<1> QED
  BY <1>2, <1>12, <1>13, <1>14


\* A total of complex numbers is one.
LEMMA TotalTyped ==
  ASSUME NEW s \in Seq(Complex)
  PROVE  Total(s) \in Complex
<1>1. PICK w \in [0..Len(s) -> Complex] : Total(s) = w[Len(s)]
  BY TotalRuns
<1>2. Len(s) \in 0..Len(s)
  OBVIOUS
<1> QED
  BY <1>1, <1>2

LEMMA TupleSame ==
  ASSUME NEW n \in Nat, NEW S, NEW f \in [1..n -> S]
  PROVE  Tuple(f) = f
<1>1. f \in Seq(S) /\ <<>> \in Seq(S)
  OBVIOUS
<1>2. Len(f) = n
  BY <1>1
<1> QED
  BY <1>1, <1>2 DEF Tuple

LEMMA SquareLen ==
  ASSUME NEW d \in Nat, NEW a \in Square(d)
  PROVE  Len(a) = d /\ DOMAIN a = 1..d /\ \A r, c \in 1..d : a[r][c] \in Complex
BY DEF Square

\* The entries of a product.
LEMMA DotEntries ==
  ASSUME NEW d \in Nat, NEW a \in Square(d), NEW b \in Square(d)
  PROVE  /\ \A r, c \in 1..d : [k \in 1..d |-> Times(a[r][k], b[k][c])] \in Seq(Complex)
         /\ Dot(a, b) = [r \in 1..d |-> [c \in 1..d |-> Total([k \in 1..d |-> Times(a[r][k], b[k][c])])]]
         /\ Dot(a, b) \in Square(d)
<1>1. Len(a) = d /\ Len(b) = d /\ DOMAIN b = 1..d
  BY SquareLen
<1>2. ASSUME NEW r \in 1..d, NEW c \in 1..d
      PROVE  [k \in 1..d |-> Times(a[r][k], b[k][c])] \in Seq(Complex)
  <2>1. \A k \in 1..d : Times(a[r][k], b[k][c]) \in Complex
    BY SquareLen, ArithmeticTyped
  <2>2. [k \in 1..d |-> Times(a[r][k], b[k][c])] \in [1..d -> Complex]
    BY <2>1
  <2> QED
    BY <2>2
<1> DEFINE entry(r, c) == Total([k \in 1..d |-> Times(a[r][k], b[k][c])])
           row(r) == [c \in 1..d |-> entry(r, c)]
           f == [r \in 1..d |-> row(r)]
<1>3. \A r, c \in 1..d : entry(r, c) \in Complex
  BY <1>2, TotalTyped
<1>4. Dot(a, b) = Tuple([r \in 1..d |-> Tuple(row(r))])
  BY <1>1 DEF Dot, Matrix
<1> HIDE DEF entry
<1>5. \A r \in 1..d : row(r) \in [1..d -> Complex]
  BY <1>3
<1>6. \A r \in 1..d : Tuple(row(r)) = row(r)
  BY <1>5, TupleSame
<1> HIDE DEF row
<1>7. f \in [1..d -> [1..d -> Complex]] /\ [r \in 1..d |-> Tuple(row(r))] = f
  BY <1>5, <1>6
<1> HIDE DEF f
<1>8. Dot(a, b) = f /\ f \in Square(d)
  BY <1>4, <1>7, TupleSame DEF Square
<1> QED
  BY <1>2, <1>8 DEF f, row, entry

\* The entries of the conjugate transpose, of the identity, and the trace.
LEMMA DaggerEntries ==
  ASSUME NEW d \in Nat, NEW a \in Square(d)
  PROVE  /\ Dagger(a) = [r \in 1..d |-> [c \in 1..d |-> Conj(a[c][r])]]
         /\ Dagger(a) \in Square(d)
<1>1. Len(a) = d
  BY SquareLen
<1> DEFINE row(r) == [c \in 1..d |-> Conj(a[c][r])]
           f == [r \in 1..d |-> row(r)]
<1>2. Dagger(a) = Tuple([r \in 1..d |-> Tuple(row(r))])
  BY <1>1 DEF Dagger, Matrix
<1>3. \A r, c \in 1..d : Conj(a[c][r]) \in Complex
  BY SquareLen, ArithmeticTyped
<1>4. \A r \in 1..d : row(r) \in [1..d -> Complex]
  BY <1>3
<1>5. \A r \in 1..d : Tuple(row(r)) = row(r)
  BY <1>4, TupleSame
<1> HIDE DEF row
<1>6. f \in [1..d -> [1..d -> Complex]] /\ [r \in 1..d |-> Tuple(row(r))] = f
  BY <1>4, <1>5
<1> HIDE DEF f
<1>7. Dagger(a) = f /\ f \in Square(d)
  BY <1>2, <1>6, TupleSame DEF Square
<1> QED
  BY <1>7 DEF f, row

LEMMA EyeTyped ==
  ASSUME NEW d \in Nat
  PROVE  Eye(d) \in Square(d)
<1> DEFINE row(r) == [c \in 1..d |-> IF r = c THEN One ELSE Zero]
           f == [r \in 1..d |-> row(r)]
<1>2. Eye(d) = Tuple([r \in 1..d |-> Tuple(row(r))])
  BY DEF Eye, Diagonal, Matrix
<1>4. \A r \in 1..d : row(r) \in [1..d -> Complex]
  BY DEF Zero, One, Complex
<1>5. \A r \in 1..d : Tuple(row(r)) = row(r)
  BY <1>4, TupleSame
<1> HIDE DEF row
<1>6. f \in [1..d -> [1..d -> Complex]] /\ [r \in 1..d |-> Tuple(row(r))] = f
  BY <1>4, <1>5
<1> HIDE DEF f
<1> QED
  BY <1>2, <1>6, TupleSame DEF Square

LEMMA TraceTyped ==
  ASSUME NEW d \in Nat, NEW a \in Square(d)
  PROVE  Trace(a) \in Complex
<1>1. [k \in 1..d |-> a[k][k]] \in [1..d -> Complex]
  BY SquareLen
<1>2. [k \in 1..d |-> a[k][k]] \in Seq(Complex)
  BY <1>1
<1> QED
  BY <1>2, SquareLen, TotalTyped DEF Trace

\* A flat list of the right length reads as a square matrix.
LEMMA FlatTyped ==
  ASSUME NEW d \in Nat, NEW data \in Seq(Int), Flattened(data, d)
  PROVE  FlatToComplexMatrix(data, d) \in Square(d)
<1> DEFINE idx(r, c) == ((r - 1) * d + (c - 1)) * 2
           entry(r, c) == <<data[idx(r, c) + 1], data[idx(r, c) + 2]>>
           row(r) == [c \in 1..d |-> entry(r, c)]
           f == [r \in 1..d |-> row(r)]
<1>1. FlatToComplexMatrix(data, d) = Tuple([r \in 1..d |-> Tuple(row(r))])
  BY DEF FlatToComplexMatrix, Matrix
<1>2. ASSUME NEW r \in 1..d, NEW c \in 1..d PROVE idx(r, c) + 1 \in 1..(d * d * 2) /\ idx(r, c) + 2 \in 1..(d * d * 2)
  <2> DEFINE e == (r - 1) * d
  <2>1. e \in Nat /\ e + d <= d * d
    <3>1. r - 1 \in Nat /\ d - r \in Nat /\ d * d \in Nat /\ e \in Nat
      OBVIOUS
    <3>2. (d - r) * d \in Nat
      BY <3>1
    <3>3. d * d = e + d + (d - r) * d
      OBVIOUS
    <3> QED
      BY <3>1, <3>2, <3>3
  <2>2. d * d \in Nat
    OBVIOUS
  <2>3. idx(r, c) = (e + (c - 1)) * 2
    OBVIOUS
  <2> HIDE DEF e, idx
  <2> DEFINE dd == d * d
  <2> HIDE DEF dd
  <2>4. e \in Nat /\ e + d <= dd /\ dd \in Nat /\ idx(r, c) = (e + (c - 1)) * 2
    BY <2>1, <2>2, <2>3 DEF dd
  <2>5. idx(r, c) + 1 \in 1..(dd * 2) /\ idx(r, c) + 2 \in 1..(dd * 2)
    BY <2>4
  <2> QED
    BY <2>5 DEF dd
<1>3. \A k \in 1..(d * d * 2) : data[k] \in Int
  BY DEF Flattened
<1> HIDE DEF idx
<1>4. \A r, c \in 1..d : entry(r, c) \in Complex
  BY <1>2, <1>3 DEF Complex
<1> HIDE DEF entry
<1>5. \A r \in 1..d : row(r) \in [1..d -> Complex]
  BY <1>4
<1>6. \A r \in 1..d : Tuple(row(r)) = row(r)
  BY <1>5, TupleSame
<1> HIDE DEF row
<1>7. f \in [1..d -> [1..d -> Complex]] /\ [r \in 1..d |-> Tuple(row(r))] = f
  BY <1>5, <1>6
<1> HIDE DEF f
<1> QED
  BY <1>1, <1>7, TupleSame DEF Square

-----------------------------------------------------------------------------
(* Residues and complex numbers                                             *)

LEMMA ModulusFacts == Modulus \in Nat /\ Modulus > 3 /\ Modulus % 4 = 3
BY ModulusAssumption

\* A residue is the number up to a multiple of the modulus.
LEMMA RealShift ==
  ASSUME NEW x \in Int
  PROVE  \E k \in Int : Real(x) = x + k * Modulus
<1> DEFINE q == x \div Modulus
           r == x % Modulus
<1>1. Modulus \in Nat /\ Modulus > 3
  BY ModulusFacts
<1>2. q \in Int /\ r \in Int /\ x = Modulus * q + r
  BY <1>1
<1> HIDE DEF q
<1>3. Real(x) = IF 2 * r > Modulus THEN r - Modulus ELSE r
  BY DEF Real
<1> HIDE DEF r
<1>4. CASE 2 * r > Modulus
  <2>1. -q - 1 \in Int /\ Real(x) = x + (-q - 1) * Modulus
    BY <1>1, <1>2, <1>3, <1>4
  <2> QED
    BY <2>1
<1>5. CASE ~(2 * r > Modulus)
  <2>1. -q \in Int /\ Real(x) = x + (-q) * Modulus
    BY <1>1, <1>2, <1>3, <1>5
  <2> QED
    BY <2>1
<1> QED
  BY <1>4, <1>5

\* Numbers that differ by a multiple of the modulus have the same residue.
LEMMA RealSame ==
  ASSUME NEW x \in Int, NEW y \in Int, NEW k \in Int, x = y + k * Modulus
  PROVE  Real(x) = Real(y)
<1>1. Modulus \in Nat /\ Modulus > 3
  BY ModulusFacts
<1> DEFINE q == x \div Modulus
           r == x % Modulus
           s == y \div Modulus
           t == y % Modulus
<1>2. /\ q \in Int /\ r \in 0..(Modulus - 1) /\ x = Modulus * q + r
      /\ s \in Int /\ t \in 0..(Modulus - 1) /\ y = Modulus * s + t
  BY <1>1
<1>3. x % Modulus = r /\ y % Modulus = t
  OBVIOUS
<1> HIDE DEF q, r, s, t
<1> DEFINE m == q - s - k
<1>4. m \in Int /\ Modulus * m = t - r
  BY <1>1, <1>2
<1>5. -Modulus < t - r /\ t - r < Modulus
  BY <1>1, <1>2
<1> HIDE DEF m
<1>6. m = 0
  <2>1. CASE m >= 1
    <3>1. Modulus * m >= Modulus
      BY <1>1, <1>4, <2>1
    <3> QED
      BY <1>1, <1>2, <1>4, <1>5, <3>1
  <2>2. CASE m <= -1
    <3>1. Modulus * m <= -Modulus
      BY <1>1, <1>4, <2>2
    <3> QED
      BY <1>1, <1>2, <1>4, <1>5, <3>1
  <2> QED
    BY <1>4, <2>1, <2>2
<1>7. r = t
  BY <1>1, <1>2, <1>4, <1>6
<1> QED
  BY <1>3, <1>7 DEF Real

\* A residue may stand for its number in a sum, a difference and a product.
LEMMA RealAbsorbs ==
  ASSUME NEW x \in Int, NEW y \in Int
  PROVE  /\ Real(Real(x)) = Real(x) /\ Real(-Real(x)) = Real(-x)
         /\ Real(Real(x) + y) = Real(x + y) /\ Real(y + Real(x)) = Real(y + x)
         /\ Real(Real(x) - y) = Real(x - y) /\ Real(y - Real(x)) = Real(y - x)
         /\ Real(Real(x) * y) = Real(x * y) /\ Real(y * Real(x)) = Real(y * x)
<1>1. PICK k \in Int : Real(x) = x + k * Modulus
  BY RealShift
<1>2. Modulus \in Int /\ Real(x) \in Int
  BY ModulusFacts, RealInt
<1> DEFINE z == Real(x)
<1>3. z \in Int /\ z = x + k * Modulus
  BY <1>1, <1>2
<1> HIDE DEF z
<1>4. Real(z) = Real(x)
  BY <1>3, RealSame
<1>5. Real(-z) = Real(-x)
  <2>1. -z = -x + (-k) * Modulus /\ -k \in Int /\ -z \in Int /\ -x \in Int
    BY <1>2, <1>3
  <2> QED
    BY <2>1, RealSame
<1>6. Real(z + y) = Real(x + y) /\ Real(y + z) = Real(y + x)
  <2>1. z + y = (x + y) + k * Modulus /\ y + z = (y + x) + k * Modulus
    BY <1>2, <1>3
  <2>2. z + y \in Int /\ x + y \in Int /\ y + z \in Int /\ y + x \in Int
    BY <1>3
  <2> QED
    BY <2>1, <2>2, RealSame
<1>7. Real(z - y) = Real(x - y) /\ Real(y - z) = Real(y - x)
  <2>1. z - y = (x - y) + k * Modulus /\ y - z = (y - x) + (-k) * Modulus /\ -k \in Int
    BY <1>2, <1>3
  <2>2. z - y \in Int /\ x - y \in Int /\ y - z \in Int /\ y - x \in Int
    BY <1>3
  <2> QED
    BY <2>1, <2>2, RealSame
<1>8. Real(z * y) = Real(x * y) /\ Real(y * z) = Real(y * x)
  <2>1. z * y = x * y + (k * y) * Modulus /\ y * z = y * x + (k * y) * Modulus
    BY <1>2, <1>3
  <2>2. z * y \in Int /\ x * y \in Int /\ y * z \in Int /\ y * x \in Int /\ k * y \in Int
    BY <1>3
  <2> QED
    BY <2>1, <2>2, RealSame
<1> QED
  BY <1>4, <1>5, <1>6, <1>7, <1>8 DEF z

LEMMA RealSums ==
  ASSUME NEW x \in Int, NEW y \in Int
  PROVE  Real(Real(x) + Real(y)) = Real(x + y)
<1>1. PICK k \in Int : Real(x) = x + k * Modulus
  BY RealShift
<1>2. PICK l \in Int : Real(y) = y + l * Modulus
  BY RealShift
<1>3. Modulus \in Int /\ Real(x) \in Int /\ Real(y) \in Int
  BY ModulusFacts, RealInt
<1> DEFINE p == Real(x)
           q == Real(y)
<1>4. p \in Int /\ q \in Int /\ p = x + k * Modulus /\ q = y + l * Modulus
  BY <1>1, <1>2, <1>3
<1> HIDE DEF p, q
<1>5. p + q = (x + y) + (k + l) * Modulus /\ k + l \in Int /\ p + q \in Int /\ x + y \in Int
  BY <1>3, <1>4
<1>6. Real(p + q) = Real(x + y)
  BY <1>5, RealSame
<1> QED
  BY <1>6 DEF p, q

\* The sum and the difference of two products.
MulAdd(x, y, u, v) == Real(x * u + y * v)
MulSub(x, y, u, v) == Real(x * u - y * v)

LEMMA MulAbsorbs ==
  ASSUME NEW x \in Int, NEW y \in Int, NEW u \in Int, NEW v \in Int
  PROVE  /\ MulAdd(Real(x), Real(y), u, v) = MulAdd(x, y, u, v)
         /\ MulSub(Real(x), Real(y), u, v) = MulSub(x, y, u, v)
         /\ MulAdd(u, v, Real(x), Real(y)) = MulAdd(u, v, x, y)
         /\ MulSub(u, v, Real(x), Real(y)) = MulSub(u, v, x, y)
<1>1. PICK k \in Int : Real(x) = x + k * Modulus
  BY RealShift
<1>2. PICK l \in Int : Real(y) = y + l * Modulus
  BY RealShift
<1>3. Modulus \in Int /\ Real(x) \in Int /\ Real(y) \in Int
  BY ModulusFacts, RealInt
<1> DEFINE p == Real(x)
           q == Real(y)
<1>4. p \in Int /\ q \in Int /\ p = x + k * Modulus /\ q = y + l * Modulus
  BY <1>1, <1>2, <1>3
<1> HIDE DEF p, q
<1>6. p * u + q * v = (x * u + y * v) + (k * u + l * v) * Modulus
  BY <1>3, <1>4
<1>7. p * u - q * v = (x * u - y * v) + (k * u - l * v) * Modulus
  BY <1>3, <1>4
<1>8. /\ p * u + q * v \in Int /\ x * u + y * v \in Int /\ k * u + l * v \in Int
      /\ p * u - q * v \in Int /\ x * u - y * v \in Int /\ k * u - l * v \in Int
  BY <1>4
<1>9. Real(p * u + q * v) = Real(x * u + y * v) /\ Real(p * u - q * v) = Real(x * u - y * v)
  BY <1>6, <1>7, <1>8, RealSame
<1>10. u * p + v * q = p * u + q * v /\ u * p - v * q = p * u - q * v
       /\ u * x + v * y = x * u + y * v /\ u * x - v * y = x * u - y * v
  BY <1>4
<1> QED
  BY <1>9, <1>10 DEF p, q, MulAdd, MulSub

LEMMA TimesParts == \A a, b : Times(a, b) = <<MulSub(a[1], a[2], b[1], b[2]), MulAdd(a[1], a[2], b[2], b[1])>>
BY DEF Times, MulAdd, MulSub

LEMMA ComplexParts ==
  ASSUME NEW a \in Complex
  PROVE  a[1] \in Int /\ a[2] \in Int /\ a = <<a[1], a[2]>>
BY DEF Complex

LEMMA ResiduesLeft ==
  ASSUME NEW a \in Complex, NEW b \in Complex
  PROVE  /\ Plus(a, b) \in Residues /\ Minus(a, b) \in Residues /\ Times(a, b) \in Residues
         /\ a \in Residues => Conj(a) \in Residues
<1>1. a[1] \in Int /\ a[2] \in Int /\ b[1] \in Int /\ b[2] \in Int
  BY ComplexParts
<1>2. \A x \in Int : Real(x) \in Int /\ Real(Real(x)) = Real(x)
  BY RealInt, RealAbsorbs
<1>3. /\ a[1] + b[1] \in Int /\ a[2] + b[2] \in Int /\ a[1] - b[1] \in Int /\ a[2] - b[2] \in Int
      /\ a[1] * b[1] - a[2] * b[2] \in Int /\ a[1] * b[2] + a[2] * b[1] \in Int /\ -a[2] \in Int
  BY <1>1
<1>4. \A x, y \in Int : Real(x) = x /\ Real(y) = y => <<x, y>> \in Residues
  BY DEF Residues, Complex
<1>5. Plus(a, b) \in Residues
  BY <1>2, <1>3, <1>4 DEF Plus
<1>6. Minus(a, b) \in Residues
  BY <1>2, <1>3, <1>4 DEF Minus
<1>7. Times(a, b) \in Residues
  BY <1>2, <1>3, <1>4 DEF Times
<1>8. a \in Residues => Conj(a) \in Residues
  BY <1>1, <1>2, <1>3, <1>4 DEF Conj, Residues
<1> QED
  BY <1>5, <1>6, <1>7, <1>8

LEMMA PlusAlgebra ==
  ASSUME NEW a \in Complex, NEW b \in Complex, NEW c \in Complex
  PROVE  /\ Plus(a, b) = Plus(b, a) /\ Plus(Plus(a, b), c) = Plus(a, Plus(b, c))
         /\ a \in Residues => Plus(a, Zero) = a /\ Plus(Zero, a) = a
<1>1. /\ a[1] \in Int /\ a[2] \in Int /\ b[1] \in Int /\ b[2] \in Int /\ c[1] \in Int /\ c[2] \in Int
      /\ a = <<a[1], a[2]>>
  BY ComplexParts
<1>2. \A x, y \in Int : Real(x + y) = Real(y + x)
  OBVIOUS
<1>3. \A x, y, z \in Int : Real(Real(x + y) + z) = Real(x + Real(y + z))
  <2> TAKE x, y, z \in Int
  <2>1. x + y \in Int /\ y + z \in Int
    OBVIOUS
  <2>2. Real(Real(x + y) + z) = Real((x + y) + z) /\ Real(x + Real(y + z)) = Real(x + (y + z))
    BY <2>1, RealAbsorbs
  <2> QED
    BY <2>2
<1>4. Plus(a, b) = Plus(b, a)
  BY <1>1, <1>2 DEF Plus
<1>5. Plus(Plus(a, b), c) = Plus(a, Plus(b, c))
  BY <1>1, <1>3 DEF Plus
<1>6. a \in Residues => Plus(a, Zero) = a /\ Plus(Zero, a) = a
  <2>1. \A x \in Int : Real(x) = x => Real(x + 0) = x /\ Real(0 + x) = x
    OBVIOUS
  <2> QED
    BY <1>1, <2>1 DEF Plus, Zero, Residues
<1> QED
  BY <1>4, <1>5, <1>6

LEMMA TimesAlgebra ==
  ASSUME NEW a \in Complex, NEW b \in Complex, NEW c \in Complex
  PROVE  /\ Times(a, b) = Times(b, a) /\ Times(Times(a, b), c) = Times(a, Times(b, c))
         /\ Times(a, Plus(b, c)) = Plus(Times(a, b), Times(a, c))
         /\ Times(a, Zero) = Zero /\ Times(Zero, a) = Zero
         /\ a \in Residues => Times(One, a) = a
         /\ Minus(a, b) = Plus(a, Times(<<-1, 0>>, b))
<1> DEFINE a1 == a[1]
           a2 == a[2]
           b1 == b[1]
           b2 == b[2]
           c1 == c[1]
           c2 == c[2]
<1>1. /\ a1 \in Int /\ a2 \in Int /\ b1 \in Int /\ b2 \in Int /\ c1 \in Int /\ c2 \in Int
      /\ a = <<a1, a2>>
  BY ComplexParts
<1>2. /\ Times(a, b) = <<Real(a1 * b1 - a2 * b2), Real(a1 * b2 + a2 * b1)>>
      /\ Times(b, a) = <<Real(b1 * a1 - b2 * a2), Real(b1 * a2 + b2 * a1)>>
      /\ Times(b, c) = <<Real(b1 * c1 - b2 * c2), Real(b1 * c2 + b2 * c1)>>
      /\ Times(a, c) = <<Real(a1 * c1 - a2 * c2), Real(a1 * c2 + a2 * c1)>>
      /\ Plus(b, c) = <<Real(b1 + c1), Real(b2 + c2)>>
  BY DEF Times, Plus
<1> HIDE DEF a1, a2, b1, b2, c1, c2
<1> DEFINE p1 == a1 * b1 - a2 * b2
           p2 == a1 * b2 + a2 * b1
           q1 == b1 * c1 - b2 * c2
           q2 == b1 * c2 + b2 * c1
           r1 == a1 * c1 - a2 * c2
           r2 == a1 * c2 + a2 * c1
           s1 == b1 + c1
           s2 == b2 + c2
<1>3. /\ p1 \in Int /\ p2 \in Int /\ q1 \in Int /\ q2 \in Int /\ r1 \in Int /\ r2 \in Int
      /\ s1 \in Int /\ s2 \in Int
  BY <1>1
<1>4. Times(a, b) = Times(b, a)
  <2>1. b1 * a1 - b2 * a2 = p1 /\ b1 * a2 + b2 * a1 = p2
    BY <1>1
  <2> QED
    BY <1>2, <2>1
<1>5. Times(Times(a, b), c) = Times(a, Times(b, c))
  <2>1. /\ MulSub(p1, p2, c1, c2) = MulSub(a1, a2, q1, q2)
        /\ MulAdd(p1, p2, c2, c1) = MulAdd(a1, a2, q2, q1)
    <3>1. /\ p1 * c1 - p2 * c2 = a1 * q1 - a2 * q2
          /\ p1 * c2 + p2 * c1 = a1 * q2 + a2 * q1
      BY <1>1
    <3> QED
      BY <3>1 DEF MulAdd, MulSub
  <2>2. /\ Times(Times(a, b), c) = <<MulSub(Real(p1), Real(p2), c1, c2), MulAdd(Real(p1), Real(p2), c2, c1)>>
        /\ Times(a, Times(b, c)) = <<MulSub(a1, a2, Real(q1), Real(q2)), MulAdd(a1, a2, Real(q2), Real(q1))>>
    BY <1>2, TimesParts DEF a1, a2, c1, c2
  <2> HIDE DEF p1, p2, q1, q2, r1, r2, s1, s2
  <2>3. /\ MulSub(Real(p1), Real(p2), c1, c2) = MulSub(p1, p2, c1, c2)
        /\ MulAdd(Real(p1), Real(p2), c2, c1) = MulAdd(p1, p2, c2, c1)
        /\ MulSub(a1, a2, Real(q1), Real(q2)) = MulSub(a1, a2, q1, q2)
        /\ MulAdd(a1, a2, Real(q2), Real(q1)) = MulAdd(a1, a2, q2, q1)
    BY <1>1, <1>3, MulAbsorbs
  <2> QED
    BY <2>1, <2>2, <2>3
<1>6. Times(a, Plus(b, c)) = Plus(Times(a, b), Times(a, c))
  <2>1. MulSub(a1, a2, s1, s2) = Real(p1 + r1) /\ MulAdd(a1, a2, s2, s1) = Real(p2 + r2)
    <3>1. a1 * s1 - a2 * s2 = p1 + r1 /\ a1 * s2 + a2 * s1 = p2 + r2
      BY <1>1
    <3> QED
      BY <3>1 DEF MulAdd, MulSub
  <2>2. /\ Times(a, Plus(b, c)) = <<MulSub(a1, a2, Real(s1), Real(s2)), MulAdd(a1, a2, Real(s2), Real(s1))>>
        /\ Plus(Times(a, b), Times(a, c)) = <<Real(Real(p1) + Real(r1)), Real(Real(p2) + Real(r2))>>
    BY <1>2, TimesParts DEF Plus, a1, a2
  <2> HIDE DEF p1, p2, q1, q2, r1, r2, s1, s2
  <2>3. /\ MulSub(a1, a2, Real(s1), Real(s2)) = MulSub(a1, a2, s1, s2)
        /\ MulAdd(a1, a2, Real(s2), Real(s1)) = MulAdd(a1, a2, s2, s1)
    BY <1>1, <1>3, MulAbsorbs
  <2>4. Real(Real(p1) + Real(r1)) = Real(p1 + r1) /\ Real(Real(p2) + Real(r2)) = Real(p2 + r2)
    BY <1>3, RealSums
  <2> QED
    BY <2>1, <2>2, <2>3, <2>4
<1>7. Real(0) = 0
  <2>1. 0 % Modulus = 0 /\ ~(2 * 0 > Modulus)
    BY ModulusFacts
  <2> QED
    BY <2>1 DEF Real
<1>8. Times(a, Zero) = Zero /\ Times(Zero, a) = Zero
  <2>1. /\ a1 * 0 - a2 * 0 = 0 /\ a1 * 0 + a2 * 0 = 0 /\ 0 * a1 - 0 * a2 = 0 /\ 0 * a2 + 0 * a1 = 0
    BY <1>1
  <2> QED
    BY <1>7, <2>1 DEF Times, Zero, a1, a2
<1>9. a \in Residues => Times(One, a) = a
  <2>1. 1 * a1 - 0 * a2 = a1 /\ 1 * a2 + 0 * a1 = a2
    BY <1>1
  <2> QED
    BY <1>1, <2>1 DEF Times, One, Residues, a1, a2
<1>10. Minus(a, b) = Plus(a, Times(<<-1, 0>>, b))
  <2>1. /\ (-1) * b1 - 0 * b2 = -b1 /\ (-1) * b2 + 0 * b1 = -b2
        /\ -b1 \in Int /\ -b2 \in Int /\ a1 + (-b1) = a1 - b1 /\ a2 + (-b2) = a2 - b2
    BY <1>1
  <2>2. Times(<<-1, 0>>, b) = <<Real(-b1), Real(-b2)>>
    BY <2>1 DEF Times, b1, b2
  <2>3. Real(a1 + Real(-b1)) = Real(a1 - b1) /\ Real(a2 + Real(-b2)) = Real(a2 - b2)
    BY <1>1, <2>1, RealAbsorbs
  <2> QED
    BY <2>2, <2>3 DEF Plus, Minus, a1, a2, b1, b2
<1> QED
  BY <1>4, <1>5, <1>6, <1>8, <1>9, <1>10

LEMMA ConjAlgebra ==
  ASSUME NEW a \in Complex, NEW b \in Complex
  PROVE  /\ Conj(Plus(a, b)) = Plus(Conj(a), Conj(b)) /\ Conj(Times(a, b)) = Times(Conj(a), Conj(b))
         /\ a \in Residues => Conj(Conj(a)) = a
         /\ Conj(Zero) = Zero
<1> DEFINE a1 == a[1]
           a2 == a[2]
           b1 == b[1]
           b2 == b[2]
           p1 == a1 * b1 - a2 * b2
           p2 == a1 * b2 + a2 * b1
<1>1. a1 \in Int /\ a2 \in Int /\ b1 \in Int /\ b2 \in Int /\ a = <<a1, a2>>
  BY ComplexParts
<1>2. Conj(a) = <<a1, Real(-a2)>> /\ Conj(b) = <<b1, Real(-b2)>>
  BY DEF Conj
<1>3. Conj(Plus(a, b)) = <<Real(a1 + b1), Real(-Real(a2 + b2))>>
      /\ Plus(Conj(a), Conj(b)) = <<Real(a1 + b1), Real(Real(-a2) + Real(-b2))>>
  BY <1>2 DEF Conj, Plus
<1>4. Conj(Times(a, b)) = <<Real(p1), Real(-Real(p2))>>
      /\ Times(Conj(a), Conj(b)) = <<Real(a1 * b1 - Real(-a2) * Real(-b2)),
                                     Real(a1 * Real(-b2) + Real(-a2) * b1)>>
  BY <1>2 DEF Conj, Times
<1> HIDE DEF a1, a2, b1, b2
<1>5. Conj(Plus(a, b)) = Plus(Conj(a), Conj(b))
  <2>1. a2 + b2 \in Int /\ -a2 \in Int /\ -b2 \in Int /\ -(a2 + b2) = (-a2) + (-b2)
    BY <1>1
  <2>2. Real(-Real(a2 + b2)) = Real(-(a2 + b2)) /\ Real(Real(-a2) + Real(-b2)) = Real((-a2) + (-b2))
    BY <2>1, RealAbsorbs, RealSums
  <2> QED
    BY <1>3, <2>1, <2>2
<1>6. Conj(Times(a, b)) = Times(Conj(a), Conj(b))
  <2>1. /\ -a2 \in Int /\ -b2 \in Int /\ p1 \in Int /\ p2 \in Int
        /\ Real(-a2) \in Int /\ Real(-b2) \in Int
    BY <1>1, RealInt
  <2>2. Real(-Real(p2)) = Real(-p2)
    BY <2>1, RealAbsorbs
  <2>3. PICK k \in Int : Real(-a2) = -a2 + k * Modulus
    BY <2>1, RealShift
  <2>4. PICK l \in Int : Real(-b2) = -b2 + l * Modulus
    BY <2>1, RealShift
  <2> DEFINE u == Real(-a2)
             v == Real(-b2)
  <2>5. u \in Int /\ v \in Int /\ u = -a2 + k * Modulus /\ v = -b2 + l * Modulus /\ Modulus \in Int
    BY <2>1, <2>3, <2>4, ModulusFacts
  <2> HIDE DEF u, v
  <2>6. a1 * b1 - u * v = p1 + (a2 * l + b2 * k - k * l * Modulus) * Modulus
    BY <1>1, <2>5
  <2>7. a1 * v + u * b1 = -p2 + (a1 * l + k * b1) * Modulus
    BY <1>1, <2>5
  <2>8. /\ a1 * b1 - u * v \in Int /\ a1 * v + u * b1 \in Int /\ -p2 \in Int
        /\ a2 * l + b2 * k - k * l * Modulus \in Int /\ a1 * l + k * b1 \in Int
    BY <1>1, <2>5
  <2> HIDE DEF p1, p2
  <2>9. Real(a1 * b1 - u * v) = Real(p1) /\ Real(a1 * v + u * b1) = Real(-p2)
    BY <2>1, <2>6, <2>7, <2>8, RealSame
  <2> QED
    BY <1>4, <2>2, <2>9 DEF u, v
<1>7. a \in Residues => Conj(Conj(a)) = a
  <2>1. -a2 \in Int /\ -(-a2) = a2
    BY <1>1
  <2>2. Conj(Conj(a)) = <<a1, Real(-Real(-a2))>>
    BY <1>2 DEF Conj
  <2>3. Real(-Real(-a2)) = Real(a2)
    BY <2>1, RealAbsorbs
  <2> QED
    BY <1>1, <2>2, <2>3 DEF Residues, a2
<1>8. Conj(Zero) = Zero
  <2>1. 0 % Modulus = 0 /\ ~(2 * 0 > Modulus)
    BY ModulusFacts
  <2>2. 0 \in Int /\ 0 + 0 = 0 /\ \A x \in Int : x + x = x => -x = x
    OBVIOUS
  <2>3. -0 = 0
    BY <2>2, Zenon
  <2> QED
    BY <2>1, <2>3 DEF Conj, Zero, Real
<1> QED
  BY <1>5, <1>6, <1>7, <1>8

\* The squared size of a sum less that of the difference is four times the real part of
\* the one conjugated times the other.
LEMMA SquaresDiffer ==
  ASSUME NEW a \in Complex, NEW b \in Complex
  PROVE  Real(2 * Real(2 * Times(Conj(a), b)[1])) = Real(NormSqr(Plus(a, b)) - NormSqr(Minus(a, b)))
<1> DEFINE w == a[1]
           x == a[2]
           y == b[1]
           z == b[2]
           product == w * y + x * z
           sum == (w + y) * (w + y) + (x + z) * (x + z)
           difference == (w - y) * (w - y) + (x - z) * (x - z)
<1>1. w \in Int /\ x \in Int /\ y \in Int /\ z \in Int
  BY ComplexParts
<1>2. product \in Int /\ sum \in Int /\ difference \in Int
  <2> HIDE DEF w, x, y, z
  <2>1. \A p, q \in Int : p * q \in Int /\ p + q \in Int /\ p - q \in Int
    OBVIOUS
  <2> QED
    BY <1>1, <2>1
<1>3. sum - difference = 2 * (2 * product)
  <2> HIDE DEF w, x, y, z
  <2> QED
    BY <1>1
<1>4. Times(Conj(a), b)[1] = Real(product)
  <2>1. Conj(a)[1] = w /\ Conj(a)[2] = Real(-x)
    BY DEF Conj
  <2>2. Times(Conj(a), b)[1] = MulSub(w, Real(-x), y, z)
    BY <2>1, TimesParts
  <2>3. -x \in Int /\ Real(-x) \in Int /\ w \in Int
    BY <1>1, RealInt
  <2> HIDE DEF w, x, y, z
  <2>4. Real(w) \in Int
    BY <2>3, RealInt
  <2>5. MulSub(w, Real(-x), y, z) = MulSub(Real(w), Real(Real(-x)), y, z)
    BY <1>1, <2>3, MulAbsorbs
  <2>6. Real(Real(-x)) = Real(-x)
    BY <2>3, <1>1, RealAbsorbs
  <2>7. MulSub(Real(w), Real(-x), y, z) = MulSub(w, -x, y, z)
    BY <1>1, <2>3, MulAbsorbs
  <2>8. w * y - (-x) * z = product
    BY <1>1
  <2>9. MulSub(w, -x, y, z) = Real(product)
    BY <2>8 DEF MulSub
  <2> QED
    BY <2>2, <2>5, <2>6, <2>7, <2>9
<1>5. NormSqr(Plus(a, b)) = Real(sum)
  <2>1. NormSqr(Plus(a, b)) = MulAdd(Real(w + y), Real(x + z), Real(w + y), Real(x + z))
    BY DEF NormSqr, Plus, MulAdd
  <2> HIDE DEF w, x, y, z
  <2>2. w + y \in Int /\ x + z \in Int /\ Real(w + y) \in Int /\ Real(x + z) \in Int
    BY <1>1, RealInt
  <2>3. MulAdd(Real(w + y), Real(x + z), Real(w + y), Real(x + z)) = MulAdd(w + y, x + z, Real(w + y), Real(x + z))
    BY <2>2, MulAbsorbs
  <2>4. MulAdd(w + y, x + z, Real(w + y), Real(x + z)) = MulAdd(w + y, x + z, w + y, x + z)
    BY <2>2, MulAbsorbs
  <2> QED
    BY <2>1, <2>3, <2>4 DEF MulAdd
<1>6. NormSqr(Minus(a, b)) = Real(difference)
  <2>1. NormSqr(Minus(a, b)) = MulAdd(Real(w - y), Real(x - z), Real(w - y), Real(x - z))
    BY DEF NormSqr, Minus, MulAdd
  <2> HIDE DEF w, x, y, z
  <2>2. w - y \in Int /\ x - z \in Int /\ Real(w - y) \in Int /\ Real(x - z) \in Int
    BY <1>1, RealInt
  <2>3. MulAdd(Real(w - y), Real(x - z), Real(w - y), Real(x - z)) = MulAdd(w - y, x - z, Real(w - y), Real(x - z))
    BY <2>2, MulAbsorbs
  <2>4. MulAdd(w - y, x - z, Real(w - y), Real(x - z)) = MulAdd(w - y, x - z, w - y, x - z)
    BY <2>2, MulAbsorbs
  <2> QED
    BY <2>1, <2>3, <2>4 DEF MulAdd
<1> HIDE DEF sum, difference, product
<1>7. Real(2 * Real(2 * Real(product))) = Real(2 * (2 * product))
  <2>1. 2 * product \in Int /\ Real(product) \in Int
    BY <1>2, RealInt
  <2>2. Real(2 * Real(product)) = Real(2 * product)
    BY <1>2, RealAbsorbs
  <2> QED
    BY <2>1, <2>2, RealAbsorbs
<1>8. Real(Real(sum) - Real(difference)) = Real(sum - difference)
  <2>1. Real(difference) \in Int
    BY <1>2, RealInt
  <2>2. Real(Real(sum) - Real(difference)) = Real(sum - Real(difference))
    BY <1>2, <2>1, RealAbsorbs
  <2> QED
    BY <1>2, <2>2, RealAbsorbs
<1> QED
  BY <1>3, <1>4, <1>5, <1>6, <1>7, <1>8

-----------------------------------------------------------------------------
(* Totals                                                                   *)

LEMMA TypedNumbers ==
  /\ \A a, b \in Complex : Plus(a, b) \in Complex /\ Minus(a, b) \in Complex /\ Times(a, b) \in Complex
  /\ \A a \in Complex : Conj(a) \in Complex
  /\ Zero \in Residues /\ One \in Residues /\ Residues \subseteq Complex
<1>1. Zero \in Residues /\ One \in Residues
  <2>1. 0 % Modulus = 0 /\ ~(2 * 0 > Modulus) /\ 1 % Modulus = 1 /\ ~(2 * 1 > Modulus)
    BY ModulusFacts
  <2>2. Real(0) = 0 /\ Real(1) = 1
    BY <2>1 DEF Real
  <2> QED
    BY <2>2 DEF Residues, Zero, One, Complex
<1> QED
  BY <1>1, ArithmeticTyped DEF Residues

\* The total of the first m numbers.
Summed(f, m) == Total([k \in 1..m |-> f[k]])

LEMMA SumSteps ==
  ASSUME NEW n \in Nat, NEW f \in [1..n -> Complex]
  PROVE  /\ Summed(f, 0) = Zero /\ Summed(f, n) = Total(f)
         /\ \A m \in 0..n : Summed(f, m) \in Complex
         /\ \A m \in 0..(n - 1) : Summed(f, m + 1) = Plus(Summed(f, m), f[m + 1])
<1>1. f \in Seq(Complex) /\ Len(f) = n
  OBVIOUS
<1>2. PICK w \in [0..n -> Complex] :
        /\ w[0] = Zero /\ Total(f) = w[n]
        /\ \A k \in 1..n : w[k] = Plus(w[k - 1], f[k])
  BY <1>1, TotalRuns
<1>3. ASSUME NEW m \in 0..n PROVE Summed(f, m) = w[m]
  <2> DEFINE s == [k \in 1..m |-> f[k]]
  <2>1. m \in Nat /\ \A k \in 1..m : f[k] \in Complex /\ k \in 1..n
    OBVIOUS
  <2>2. s \in [1..m -> Complex] /\ \A k \in 1..m : s[k] = f[k]
    BY <2>1
  <2> HIDE DEF s
  <2>3. s \in Seq(Complex) /\ Len(s) = m
    BY <2>1, <2>2
  <2>4. PICK v \in [0..m -> Complex] :
          /\ v[0] = Zero /\ Total(s) = v[m]
          /\ \A k \in 1..m : v[k] = Plus(v[k - 1], s[k])
    BY <2>3, TotalRuns
  <2> DEFINE T == {k \in 0..m : v[k] = w[k]}
  <2>5. 0 \in T
    BY <1>2, <2>1, <2>4
  <2>6. ASSUME NEW k \in 0..(m - 1), k \in T PROVE k + 1 \in T
    <3>1. k + 1 \in 1..m /\ k + 1 \in 1..n /\ k + 1 - 1 = k /\ k + 1 \in 0..m
      OBVIOUS
    <3>2. v[k + 1] = Plus(v[k], f[k + 1]) /\ w[k + 1] = Plus(w[k], f[k + 1])
      BY <1>2, <2>2, <2>4, <3>1
    <3> QED
      BY <2>6, <3>1, <3>2
  <2> HIDE DEF T
  <2>7. 0..m \subseteq T
    BY <2>1, <2>5, <2>6, UpTo
  <2>8. v[m] = w[m]
    BY <2>1, <2>7 DEF T
  <2> QED
    BY <2>4, <2>8 DEF Summed, s
<1>4. ASSUME NEW m \in 0..(n - 1) PROVE Summed(f, m + 1) = Plus(Summed(f, m), f[m + 1])
  <2>1. m \in 0..n /\ m + 1 \in 0..n /\ m + 1 \in 1..n /\ m + 1 - 1 = m
    OBVIOUS
  <2> QED
    BY <1>2, <1>3, <2>1
<1>5. 0 \in 0..n /\ n \in 0..n
  OBVIOUS
<1> QED
  BY <1>2, <1>3, <1>4, <1>5

LEMMA PlusSwap ==
  ASSUME NEW a \in Complex, NEW b \in Complex, NEW c \in Complex, NEW d \in Complex
  PROVE  Plus(Plus(a, b), Plus(c, d)) = Plus(Plus(a, c), Plus(b, d))
<1>1. Plus(a, b) \in Complex /\ Plus(c, d) \in Complex /\ Plus(a, c) \in Complex /\ Plus(b, d) \in Complex
      /\ Plus(b, c) \in Complex
  BY TypedNumbers
<1>2. Plus(Plus(a, b), Plus(c, d)) = Plus(a, Plus(b, Plus(c, d)))
  BY <1>1, PlusAlgebra
<1>3. Plus(b, Plus(c, d)) = Plus(Plus(b, c), d) /\ Plus(b, c) = Plus(c, b)
  BY <1>1, PlusAlgebra
<1>4. Plus(Plus(c, b), d) = Plus(c, Plus(b, d))
  BY PlusAlgebra
<1>5. Plus(a, Plus(c, Plus(b, d))) = Plus(Plus(a, c), Plus(b, d))
  BY <1>1, PlusAlgebra
<1> QED
  BY <1>2, <1>3, <1>4, <1>5

\* Totals are linear, conjugate termwise, and may be taken in either order.
LEMMA TotalOfSums ==
  ASSUME NEW n \in Nat, NEW f \in [1..n -> Complex], NEW g \in [1..n -> Complex],
         NEW h \in [1..n -> Complex], \A k \in 1..n : h[k] = Plus(f[k], g[k])
  PROVE  Total(h) = Plus(Total(f), Total(g))
<1> DEFINE T == {m \in 0..n : Summed(h, m) = Plus(Summed(f, m), Summed(g, m))}
<1>1. 0 \in T
  <2>1. Plus(Zero, Zero) = Zero /\ 0 \in 0..n
    BY TypedNumbers, PlusAlgebra
  <2> QED
    BY <2>1, SumSteps
<1>2. ASSUME NEW m \in 0..(n - 1), m \in T PROVE m + 1 \in T
  <2>1. m + 1 \in 1..n /\ m + 1 \in 0..n /\ m \in 0..n
    OBVIOUS
  <2>2. /\ Summed(h, m + 1) = Plus(Summed(h, m), h[m + 1])
        /\ Summed(f, m + 1) = Plus(Summed(f, m), f[m + 1])
        /\ Summed(g, m + 1) = Plus(Summed(g, m), g[m + 1])
        /\ Summed(f, m) \in Complex /\ Summed(g, m) \in Complex
    BY <2>1, SumSteps
  <2>3. f[m + 1] \in Complex /\ g[m + 1] \in Complex /\ h[m + 1] = Plus(f[m + 1], g[m + 1])
    BY <2>1
  <2> QED
    BY <1>2, <2>1, <2>2, <2>3, PlusSwap
<1> HIDE DEF T
<1>3. 0..n \subseteq T
  BY <1>1, <1>2, UpTo
<1>4. n \in 0..n
  OBVIOUS
<1> QED
  BY <1>3, <1>4, SumSteps DEF T

LEMMA TotalOfProducts ==
  ASSUME NEW n \in Nat, NEW x \in Complex, NEW f \in [1..n -> Complex],
         NEW h \in [1..n -> Complex], \A k \in 1..n : h[k] = Times(x, f[k])
  PROVE  Total(h) = Times(x, Total(f))
<1> DEFINE T == {m \in 0..n : Summed(h, m) = Times(x, Summed(f, m))}
<1>1. 0 \in T
  <2>1. Times(x, Zero) = Zero /\ 0 \in 0..n
    BY TypedNumbers, TimesAlgebra
  <2> QED
    BY <2>1, SumSteps
<1>2. ASSUME NEW m \in 0..(n - 1), m \in T PROVE m + 1 \in T
  <2>1. m + 1 \in 1..n /\ m + 1 \in 0..n /\ m \in 0..n
    OBVIOUS
  <2>2. /\ Summed(h, m + 1) = Plus(Summed(h, m), h[m + 1])
        /\ Summed(f, m + 1) = Plus(Summed(f, m), f[m + 1])
        /\ Summed(f, m) \in Complex
    BY <2>1, SumSteps
  <2>3. f[m + 1] \in Complex /\ h[m + 1] = Times(x, f[m + 1])
    BY <2>1
  <2>4. Times(x, Plus(Summed(f, m), f[m + 1])) = Plus(Times(x, Summed(f, m)), Times(x, f[m + 1]))
    BY <2>2, <2>3, TimesAlgebra
  <2> QED
    BY <1>2, <2>1, <2>2, <2>3, <2>4
<1> HIDE DEF T
<1>3. 0..n \subseteq T
  BY <1>1, <1>2, UpTo
<1>4. n \in 0..n
  OBVIOUS
<1> QED
  BY <1>3, <1>4, SumSteps DEF T

LEMMA TotalOfConjugates ==
  ASSUME NEW n \in Nat, NEW f \in [1..n -> Complex],
         NEW h \in [1..n -> Complex], \A k \in 1..n : h[k] = Conj(f[k])
  PROVE  Total(h) = Conj(Total(f))
<1> DEFINE T == {m \in 0..n : Summed(h, m) = Conj(Summed(f, m))}
<1>1. 0 \in T
  <2>1. Conj(Zero) = Zero /\ 0 \in 0..n
    BY TypedNumbers, ConjAlgebra
  <2> QED
    BY <2>1, SumSteps
<1>2. ASSUME NEW m \in 0..(n - 1), m \in T PROVE m + 1 \in T
  <2>1. m + 1 \in 1..n /\ m + 1 \in 0..n /\ m \in 0..n
    OBVIOUS
  <2>2. /\ Summed(h, m + 1) = Plus(Summed(h, m), h[m + 1])
        /\ Summed(f, m + 1) = Plus(Summed(f, m), f[m + 1])
        /\ Summed(f, m) \in Complex
    BY <2>1, SumSteps
  <2>3. f[m + 1] \in Complex /\ h[m + 1] = Conj(f[m + 1])
    BY <2>1
  <2>4. Conj(Plus(Summed(f, m), f[m + 1])) = Plus(Conj(Summed(f, m)), Conj(f[m + 1]))
    BY <2>2, <2>3, ConjAlgebra
  <2> QED
    BY <1>2, <2>1, <2>2, <2>3, <2>4
<1> HIDE DEF T
<1>3. 0..n \subseteq T
  BY <1>1, <1>2, UpTo
<1>4. n \in 0..n
  OBVIOUS
<1> QED
  BY <1>3, <1>4, SumSteps DEF T

LEMMA TotalTypedOf ==
  ASSUME NEW n \in Nat, NEW f \in [1..n -> Complex]
  PROVE  Total(f) \in Complex
<1>1. f \in Seq(Complex)
  OBVIOUS
<1> QED
  BY <1>1, TotalTyped

LEMMA TotalOfZeros ==
  ASSUME NEW n \in Nat, NEW h \in [1..n -> Complex], \A k \in 1..n : h[k] = Zero
  PROVE  Total(h) = Zero
<1>1. Zero \in Complex /\ Times(Zero, Zero) = Zero
  BY TypedNumbers, TimesAlgebra
<1>2. \A k \in 1..n : h[k] = Times(Zero, h[k])
  BY <1>1
<1>3. Total(h) = Times(Zero, Total(h))
  BY <1>1, <1>2, TotalOfProducts
<1> QED
  BY <1>3, TotalTypedOf, TimesAlgebra

LEMMA TotalExchanged ==
  ASSUME NEW n \in Nat, NEW F \in Square(n), NEW G \in Square(n),
         \A j, k \in 1..n : G[k][j] = F[j][k]
  PROVE  Total([j \in 1..n |-> Total(F[j])]) = Total([k \in 1..n |-> Total(G[k])])
<1> DEFINE rows == [j \in 1..n |-> Total(F[j])]
           part(m) == [k \in 1..n |-> Summed(G[k], m)]
           T == {m \in 0..n : Summed(rows, m) = Total(part(m))}
<1>1. \A k \in 1..n : F[k] \in [1..n -> Complex] /\ G[k] \in [1..n -> Complex]
  BY DEF Square
<1>2. rows \in [1..n -> Complex]
  <2>1. \A j \in 1..n : Total(F[j]) \in Complex
    BY <1>1, TotalTypedOf
  <2> QED
    BY <2>1
<1>3. \A m \in 0..n : part(m) \in [1..n -> Complex]
  BY <1>1, SumSteps
<1>4. 0 \in T
  <2>1. 0 \in 0..n /\ \A k \in 1..n : part(0)[k] = Zero
    <3>1. \A k \in 1..n : Summed(G[k], 0) = Zero
      BY <1>1, SumSteps
    <3> QED
      BY <3>1
  <2>2. Total(part(0)) = Zero
    BY <1>3, <2>1, TotalOfZeros
  <2> QED
    BY <1>2, <2>1, <2>2, SumSteps
<1>5. ASSUME NEW m \in 0..(n - 1), m \in T PROVE m + 1 \in T
  <2>1. m + 1 \in 1..n /\ m + 1 \in 0..n /\ m \in 0..n
    OBVIOUS
  <2>2. \A k \in 1..n : part(m + 1)[k] = Plus(part(m)[k], F[m + 1][k])
    BY <1>1, <2>1, SumSteps
  <2>3. F[m + 1] \in [1..n -> Complex] /\ part(m) \in [1..n -> Complex] /\ part(m + 1) \in [1..n -> Complex]
    BY <1>1, <1>3, <2>1
  <2> HIDE DEF part
  <2>4. Total(part(m + 1)) = Plus(Total(part(m)), Total(F[m + 1]))
    BY <2>2, <2>3, TotalOfSums
  <2>5. Summed(rows, m + 1) = Plus(Summed(rows, m), Total(F[m + 1]))
    BY <1>2, <2>1, SumSteps
  <2> QED
    BY <1>5, <2>1, <2>4, <2>5
<1> HIDE DEF T
<1>6. 0..n \subseteq T
  BY <1>4, <1>5, UpTo
<1>7. Summed(rows, n) = Total(part(n))
  <2>1. n \in 0..n
    OBVIOUS
  <2> QED
    BY <1>6, <2>1 DEF T
<1>8. part(n) = [k \in 1..n |-> Total(G[k])]
  BY <1>1, SumSteps
<1>9. Summed(rows, n) = Total(rows)
  BY <1>2, SumSteps
<1> HIDE DEF part
<1> QED
  BY <1>7, <1>8, <1>9

\* A total of zeros but for one entry.
LEMMA TotalOfOne ==
  ASSUME NEW n \in Nat, NEW r \in 1..n, NEW x \in Residues, NEW h \in [1..n -> Complex],
         \A k \in 1..n : h[k] = IF k = r THEN x ELSE Zero
  PROVE  Total(h) = x
<1> DEFINE T == {m \in 0..n : Summed(h, m) = IF m < r THEN Zero ELSE x}
<1>1. /\ Summed(h, 0) = Zero /\ Summed(h, n) = Total(h)
      /\ \A m \in 0..(n - 1) : Summed(h, m + 1) = Plus(Summed(h, m), h[m + 1])
  BY SumSteps
<1>2. Zero \in Residues /\ x \in Complex /\ Zero \in Complex
  BY TypedNumbers
<1>3. Plus(Zero, x) = x /\ Plus(x, Zero) = x /\ Plus(Zero, Zero) = Zero
  BY <1>2, PlusAlgebra
<1>4. 0 \in T
  BY <1>1
<1>5. ASSUME NEW m \in 0..(n - 1), m \in T PROVE m + 1 \in T
  <2>1. m + 1 \in 1..n /\ Summed(h, m + 1) = Plus(Summed(h, m), h[m + 1])
    BY <1>1
  <2>2. CASE m + 1 < r
    <3>1. m + 1 # r /\ m < r
      BY <2>2
    <3> QED
      BY <1>3, <1>5, <2>1, <2>2, <3>1
  <2>3. CASE m + 1 = r
    <3>1. m < r
      BY <2>3
    <3> QED
      BY <1>3, <1>5, <2>1, <2>3, <3>1
  <2>4. CASE m + 1 > r
    <3>1. m + 1 # r /\ ~(m < r)
      BY <2>4
    <3> QED
      BY <1>3, <1>5, <2>1, <2>4, <3>1
  <2> QED
    BY <2>2, <2>3, <2>4
<1>6. n \in T
  <2>1. 0..n \subseteq T
    <3> HIDE DEF T
    <3> QED
      BY <1>4, <1>5, UpTo
  <2> QED
    BY <2>1
<1> QED
  BY <1>1, <1>6

-----------------------------------------------------------------------------
(* Matrices entry by entry                                                  *)

LEMMA ReducedSquare ==
  ASSUME NEW d \in Nat
  PROVE  Reduced(d) \subseteq Square(d)
<1>1. Residues \subseteq Complex
  BY TypedNumbers
<1> QED
  BY <1>1 DEF Reduced, Square

LEMMA MatrixSame ==
  ASSUME NEW d \in Nat, NEW f \in Square(d)
  PROVE  Tuple([r \in 1..d |-> Tuple(f[r])]) = f
<1>1. \A r \in 1..d : f[r] \in [1..d -> Complex]
  BY DEF Square
<1>2. \A r \in 1..d : Tuple(f[r]) = f[r]
  BY <1>1, TupleSame
<1>3. [r \in 1..d |-> Tuple(f[r])] = f /\ f \in [1..d -> [1..d -> Complex]]
  BY <1>2 DEF Square
<1> QED
  BY <1>3, TupleSame

LEMMA MatrixEqual ==
  ASSUME NEW d \in Nat, NEW a \in Square(d), NEW b \in Square(d),
         \A r, c \in 1..d : a[r][c] = b[r][c]
  PROVE  a = b
<1>1. a \in [1..d -> [1..d -> Complex]] /\ b \in [1..d -> [1..d -> Complex]]
  BY DEF Square
<1>2. \A r \in 1..d : a[r] = b[r]
  BY <1>1
<1> QED
  BY <1>1, <1>2

\* The entries of what an operation makes.
LEMMA SumEntries ==
  ASSUME NEW d \in Nat, NEW a \in Square(d), NEW b \in Square(d)
  PROVE  Sum(a, b) \in Reduced(d) /\ \A r, c \in 1..d : Sum(a, b)[r][c] = Plus(a[r][c], b[r][c])
<1> DEFINE row(r) == [c \in 1..d |-> Plus(a[r][c], b[r][c])]
           f == [r \in 1..d |-> row(r)]
<1>1. Len(a) = d /\ Len(b) = d /\ DOMAIN b = 1..d
  BY SquareLen
<1>2. Sum(a, b) = Tuple([r \in 1..d |-> Tuple(row(r))])
  BY <1>1 DEF Sum, Matrix
<1>3. \A r, c \in 1..d : Plus(a[r][c], b[r][c]) \in Residues
  BY SquareLen, ResiduesLeft
<1>4. f \in Reduced(d) /\ \A r \in 1..d : f[r] = row(r)
  BY <1>3 DEF Reduced
<1>5. Sum(a, b) = Tuple([r \in 1..d |-> Tuple(f[r])])
  BY <1>2, <1>4
<1> HIDE DEF f
<1>6. Sum(a, b) = f
  BY <1>4, <1>5, MatrixSame, ReducedSquare
<1>7. \A r, c \in 1..d : f[r][c] = Plus(a[r][c], b[r][c])
  BY <1>4
<1> QED
  BY <1>4, <1>6, <1>7

LEMMA DifferenceEntries ==
  ASSUME NEW d \in Nat, NEW a \in Square(d), NEW b \in Square(d)
  PROVE  Difference(a, b) \in Reduced(d) /\ \A r, c \in 1..d : Difference(a, b)[r][c] = Minus(a[r][c], b[r][c])
<1> DEFINE row(r) == [c \in 1..d |-> Minus(a[r][c], b[r][c])]
           f == [r \in 1..d |-> row(r)]
<1>1. Len(a) = d /\ Len(b) = d /\ DOMAIN b = 1..d
  BY SquareLen
<1>2. Difference(a, b) = Tuple([r \in 1..d |-> Tuple(row(r))])
  BY <1>1 DEF Difference, Matrix
<1>3. \A r, c \in 1..d : Minus(a[r][c], b[r][c]) \in Residues
  BY SquareLen, ResiduesLeft
<1>4. f \in Reduced(d) /\ \A r \in 1..d : f[r] = row(r)
  BY <1>3 DEF Reduced
<1>5. Difference(a, b) = Tuple([r \in 1..d |-> Tuple(f[r])])
  BY <1>2, <1>4
<1> HIDE DEF f
<1>6. Difference(a, b) = f
  BY <1>4, <1>5, MatrixSame, ReducedSquare
<1>7. \A r, c \in 1..d : f[r][c] = Minus(a[r][c], b[r][c])
  BY <1>4
<1> QED
  BY <1>4, <1>6, <1>7

LEMMA ScaledEntries ==
  ASSUME NEW d \in Nat, NEW x \in Complex, NEW a \in Square(d)
  PROVE  Scaled(x, a) \in Reduced(d) /\ \A r, c \in 1..d : Scaled(x, a)[r][c] = Times(x, a[r][c])
<1> DEFINE row(r) == [c \in 1..d |-> Times(x, a[r][c])]
           f == [r \in 1..d |-> row(r)]
<1>1. Len(a) = d
  BY SquareLen
<1>2. Scaled(x, a) = Tuple([r \in 1..d |-> Tuple(row(r))])
  BY <1>1 DEF Scaled, Matrix
<1>3. \A r, c \in 1..d : Times(x, a[r][c]) \in Residues
  BY SquareLen, ResiduesLeft
<1>4. f \in Reduced(d) /\ \A r \in 1..d : f[r] = row(r)
  BY <1>3 DEF Reduced
<1>5. Scaled(x, a) = Tuple([r \in 1..d |-> Tuple(f[r])])
  BY <1>2, <1>4
<1> HIDE DEF f
<1>6. Scaled(x, a) = f
  BY <1>4, <1>5, MatrixSame, ReducedSquare
<1>7. \A r, c \in 1..d : f[r][c] = Times(x, a[r][c])
  BY <1>4
<1> QED
  BY <1>4, <1>6, <1>7

LEMMA ZerosEntries ==
  ASSUME NEW d \in Nat
  PROVE  Zeros(d) \in Reduced(d) /\ \A r, c \in 1..d : Zeros(d)[r][c] = Zero
<1> DEFINE row(r) == [c \in 1..d |-> Zero]
           f == [r \in 1..d |-> row(r)]
<1>2. Zeros(d) = Tuple([r \in 1..d |-> Tuple(row(r))])
  BY DEF Zeros, Diagonal, Matrix
<1>3. \A r, c \in 1..d : Zero \in Residues
  BY TypedNumbers
<1>4. f \in Reduced(d) /\ \A r \in 1..d : f[r] = row(r)
  BY <1>3 DEF Reduced
<1>5. Zeros(d) = Tuple([r \in 1..d |-> Tuple(f[r])])
  BY <1>2, <1>4
<1> HIDE DEF f
<1>6. Zeros(d) = f
  BY <1>4, <1>5, MatrixSame, ReducedSquare
<1>7. \A r, c \in 1..d : f[r][c] = Zero
  BY <1>4
<1> QED
  BY <1>4, <1>6, <1>7


LEMMA TotalResidue ==
  ASSUME NEW n \in Nat, NEW f \in [1..n -> Complex]
  PROVE  Total(f) \in Residues
<1>1. CASE n = 0
  <2>1. 0 \in 0..n
    BY <1>1
  <2> QED
    BY <1>1, SumSteps, TypedNumbers
<1>2. CASE n # 0
  <2>1. n - 1 \in 0..(n - 1) /\ n - 1 \in 0..n /\ n - 1 + 1 = n /\ n \in 1..n
    BY <1>2
  <2>2. Total(f) = Plus(Summed(f, n - 1), f[n]) /\ Summed(f, n - 1) \in Complex /\ f[n] \in Complex
    BY <2>1, SumSteps
  <2> QED
    BY <2>2, ResiduesLeft
<1> QED
  BY <1>1, <1>2

LEMMA DotParts ==
  ASSUME NEW d \in Nat, NEW a \in Square(d), NEW b \in Square(d)
  PROVE  /\ Dot(a, b) \in Reduced(d)
         /\ \A r, c \in 1..d : /\ [k \in 1..d |-> Times(a[r][k], b[k][c])] \in [1..d -> Complex]
                               /\ Dot(a, b)[r][c] = Total([k \in 1..d |-> Times(a[r][k], b[k][c])])
<1> DEFINE term(r, c) == [k \in 1..d |-> Times(a[r][k], b[k][c])]
<1>1. \A r, c \in 1..d : term(r, c) \in [1..d -> Complex]
  BY SquareLen, TypedNumbers
<1>2. Dot(a, b) = [r \in 1..d |-> [c \in 1..d |-> Total(term(r, c))]]
  BY DotEntries
<1> HIDE DEF term
<1>3. \A r, c \in 1..d : Total(term(r, c)) \in Residues
  BY <1>1, TotalResidue
<1>4. Dot(a, b) \in Reduced(d) /\ \A r, c \in 1..d : Dot(a, b)[r][c] = Total(term(r, c))
  BY <1>2, <1>3 DEF Reduced
<1> QED
  BY <1>1, <1>4 DEF term

LEMMA DaggerParts ==
  ASSUME NEW d \in Nat, NEW a \in Square(d)
  PROVE  /\ Dagger(a) \in Square(d)
         /\ a \in Reduced(d) => Dagger(a) \in Reduced(d)
         /\ \A r, c \in 1..d : Dagger(a)[r][c] = Conj(a[c][r])
<1>1. Dagger(a) \in Square(d) /\ Dagger(a) = [r \in 1..d |-> [c \in 1..d |-> Conj(a[c][r])]]
  BY DaggerEntries
<1>2. \A r, c \in 1..d : Dagger(a)[r][c] = Conj(a[c][r])
  BY <1>1
<1>3. ASSUME a \in Reduced(d) PROVE Dagger(a) \in Reduced(d)
  <2>1. \A r, c \in 1..d : a[c][r] \in Residues /\ a[c][r] \in Complex
    BY <1>3, SquareLen DEF Reduced
  <2>2. \A r, c \in 1..d : Conj(a[c][r]) \in Residues
    BY <2>1, ResiduesLeft
  <2> QED
    BY <1>1, <2>2 DEF Reduced
<1> QED
  BY <1>1, <1>2, <1>3

\* Every operation makes square matrices of residues.
LEMMA MatrixTypes ==
  ASSUME NEW d \in Nat
  PROVE  /\ \A a, b \in Square(d) : /\ Sum(a, b) \in Reduced(d) /\ Difference(a, b) \in Reduced(d)
                                    /\ Dot(a, b) \in Reduced(d) /\ Commutator(a, b) \in Reduced(d)
         /\ \A x \in Complex, a \in Square(d) : Scaled(x, a) \in Reduced(d)
         /\ \A a \in Square(d) : Dagger(a) \in Square(d) /\ Len(a) = d /\ Trace(a) \in Residues
         /\ \A a \in Reduced(d) : Dagger(a) \in Reduced(d) /\ a \in Square(d)
         /\ Zeros(d) \in Reduced(d)
<1>1. \A a, b \in Square(d) : Sum(a, b) \in Reduced(d) /\ Difference(a, b) \in Reduced(d) /\ Dot(a, b) \in Reduced(d)
  <2> TAKE a, b \in Square(d)
  <2>1. Sum(a, b) \in Reduced(d)
    BY SumEntries
  <2>2. Difference(a, b) \in Reduced(d)
    BY DifferenceEntries
  <2>3. Dot(a, b) \in Reduced(d)
    BY DotParts
  <2> QED
    BY <2>1, <2>2, <2>3
<1>2. \A a \in Reduced(d) : Dagger(a) \in Reduced(d) /\ a \in Square(d)
  <2> TAKE a \in Reduced(d)
  <2>1. a \in Square(d)
    BY ReducedSquare
  <2>2. Dagger(a) \in Reduced(d)
    BY <2>1, DaggerParts
  <2> QED
    BY <2>1, <2>2
<1>3. \A a, b \in Square(d) : Commutator(a, b) \in Reduced(d)
  <2> TAKE a, b \in Square(d)
  <2>1. Dot(a, b) \in Square(d) /\ Dot(b, a) \in Square(d)
    BY <1>1, ReducedSquare
  <2> QED
    BY <1>1, <2>1 DEF Commutator
<1>4. \A a \in Square(d) : Trace(a) \in Residues
  <2> TAKE a \in Square(d)
  <2>1. [k \in 1..d |-> a[k][k]] \in [1..d -> Complex] /\ DOMAIN a = 1..d
    BY SquareLen
  <2> QED
    BY <2>1, TotalResidue DEF Trace
<1>5. \A x \in Complex, a \in Square(d) : Scaled(x, a) \in Reduced(d)
  <2> TAKE x \in Complex, a \in Square(d)
  <2> QED
    BY ScaledEntries
<1>6. \A a \in Square(d) : Dagger(a) \in Square(d) /\ Len(a) = d
  <2> TAKE a \in Square(d)
  <2>1. Dagger(a) \in Square(d)
    BY DaggerParts
  <2>2. Len(a) = d
    BY SquareLen
  <2> QED
    BY <2>1, <2>2
<1>7. Zeros(d) \in Reduced(d)
  BY ZerosEntries
<1> QED
  BY <1>1, <1>2, <1>3, <1>4, <1>5, <1>6, <1>7

LEMMA DotAssociates ==
  ASSUME NEW d \in Nat, NEW a \in Square(d), NEW b \in Square(d), NEW c \in Square(d)
  PROVE  Dot(Dot(a, b), c) = Dot(a, Dot(b, c))
<1>1. /\ Dot(a, b) \in Square(d) /\ Dot(b, c) \in Square(d)
      /\ Dot(Dot(a, b), c) \in Square(d) /\ Dot(a, Dot(b, c)) \in Square(d)
  BY MatrixTypes
<1>2. \A r, s \in 1..d : Dot(a, b)[r][s] = Total([k \in 1..d |-> Times(a[r][k], b[k][s])])
  BY DotParts
<1>3. \A r, s \in 1..d : Dot(b, c)[r][s] = Total([k \in 1..d |-> Times(b[r][k], c[k][s])])
  BY DotParts
<1>4. \A r, s \in 1..d : Dot(Dot(a, b), c)[r][s] = Total([k \in 1..d |-> Times(Dot(a, b)[r][k], c[k][s])])
  BY <1>1, DotParts
<1>5. \A r, s \in 1..d : Dot(a, Dot(b, c))[r][s] = Total([k \in 1..d |-> Times(a[r][k], Dot(b, c)[k][s])])
  BY <1>1, DotParts
<1>6. ASSUME NEW r \in 1..d, NEW s \in 1..d
      PROVE  Dot(Dot(a, b), c)[r][s] = Dot(a, Dot(b, c))[r][s]
  <2> DEFINE F == [j \in 1..d |-> [k \in 1..d |-> Times(a[r][j], Times(b[j][k], c[k][s]))]]
             G == [k \in 1..d |-> [j \in 1..d |-> Times(a[r][j], Times(b[j][k], c[k][s]))]]
  <2>1. \A j, k \in 1..d : /\ a[r][j] \in Complex /\ b[j][k] \in Complex /\ c[k][s] \in Complex
                           /\ Times(b[j][k], c[k][s]) \in Complex
                           /\ Times(a[r][j], b[j][k]) \in Complex
                           /\ Times(a[r][j], Times(b[j][k], c[k][s])) \in Complex
    <3>1. \A j, k \in 1..d : a[r][j] \in Complex /\ b[j][k] \in Complex /\ c[k][s] \in Complex
      BY SquareLen
    <3> QED
      BY <3>1, TypedNumbers
  <2>2. F \in Square(d) /\ G \in Square(d) /\ \A j, k \in 1..d : G[k][j] = F[j][k]
    BY <2>1 DEF Square
  <2>3. Total([j \in 1..d |-> Total(F[j])]) = Total([k \in 1..d |-> Total(G[k])])
    BY <2>2, TotalExchanged
  <2>4. ASSUME NEW j \in 1..d PROVE Total(F[j]) = Times(a[r][j], Dot(b, c)[j][s])
    <3> DEFINE f == [k \in 1..d |-> Times(b[j][k], c[k][s])]
    <3>1. f \in [1..d -> Complex] /\ F[j] \in [1..d -> Complex] /\ a[r][j] \in Complex
      BY <2>1
    <3>2. \A k \in 1..d : F[j][k] = Times(a[r][j], f[k])
      OBVIOUS
    <3>3. Dot(b, c)[j][s] = Total(f)
      BY <1>3
    <3> HIDE DEF f, F
    <3>4. Total(F[j]) = Times(a[r][j], Total(f))
      BY <3>1, <3>2, TotalOfProducts
    <3> QED
      BY <3>3, <3>4
  <2>5. ASSUME NEW k \in 1..d PROVE Total(G[k]) = Times(Dot(a, b)[r][k], c[k][s])
    <3> DEFINE f == [j \in 1..d |-> Times(a[r][j], b[j][k])]
    <3>1. f \in [1..d -> Complex] /\ G[k] \in [1..d -> Complex] /\ c[k][s] \in Complex
      BY <2>1
    <3>2. \A j \in 1..d : G[k][j] = Times(c[k][s], f[j])
      <4> TAKE j \in 1..d
      <4>1. /\ a[r][j] \in Complex /\ b[j][k] \in Complex /\ c[k][s] \in Complex
            /\ Times(a[r][j], b[j][k]) \in Complex
        BY <2>1
      <4>2. Times(a[r][j], Times(b[j][k], c[k][s])) = Times(Times(a[r][j], b[j][k]), c[k][s])
        BY <4>1, TimesAlgebra
      <4>3. Times(Times(a[r][j], b[j][k]), c[k][s]) = Times(c[k][s], Times(a[r][j], b[j][k]))
        BY <4>1, TimesAlgebra
      <4>4. G[k][j] = Times(a[r][j], Times(b[j][k], c[k][s])) /\ f[j] = Times(a[r][j], b[j][k])
        OBVIOUS
      <4> QED
        BY <4>2, <4>3, <4>4
    <3>3. Dot(a, b)[r][k] = Total(f)
      BY <1>2
    <3> HIDE DEF f, G
    <3>4. Total(G[k]) = Times(c[k][s], Total(f)) /\ Total(f) \in Complex
      BY <3>1, <3>2, TotalOfProducts, TotalTypedOf
    <3> QED
      BY <3>1, <3>3, <3>4, TimesAlgebra
  <2> HIDE DEF F, G
  <2>8. /\ [j \in 1..d |-> Total(F[j])] = [j \in 1..d |-> Times(a[r][j], Dot(b, c)[j][s])]
        /\ [k \in 1..d |-> Total(G[k])] = [k \in 1..d |-> Times(Dot(a, b)[r][k], c[k][s])]
    BY <2>4, <2>5
  <2> QED
    BY <1>4, <1>5, <2>3, <2>8
<1> QED
  BY <1>1, <1>6, MatrixEqual

LEMMA DotOfSums ==
  ASSUME NEW d \in Nat, NEW a \in Square(d), NEW b \in Square(d), NEW c \in Square(d)
  PROVE  /\ Dot(a, Sum(b, c)) = Sum(Dot(a, b), Dot(a, c))
         /\ Dot(Sum(b, c), a) = Sum(Dot(b, a), Dot(c, a))
<1>1. /\ Sum(b, c) \in Square(d) /\ Dot(a, b) \in Square(d) /\ Dot(a, c) \in Square(d)
      /\ Dot(b, a) \in Square(d) /\ Dot(c, a) \in Square(d)
      /\ Dot(a, Sum(b, c)) \in Square(d) /\ Dot(Sum(b, c), a) \in Square(d)
      /\ Sum(Dot(a, b), Dot(a, c)) \in Square(d) /\ Sum(Dot(b, a), Dot(c, a)) \in Square(d)
  BY MatrixTypes
<1>2. ASSUME NEW r \in 1..d, NEW s \in 1..d
      PROVE  /\ Dot(a, Sum(b, c))[r][s] = Sum(Dot(a, b), Dot(a, c))[r][s]
             /\ Dot(Sum(b, c), a)[r][s] = Sum(Dot(b, a), Dot(c, a))[r][s]
  <2>1. /\ Sum(Dot(a, b), Dot(a, c))[r][s] = Plus(Dot(a, b)[r][s], Dot(a, c)[r][s])
        /\ Sum(Dot(b, a), Dot(c, a))[r][s] = Plus(Dot(b, a)[r][s], Dot(c, a)[r][s])
        /\ \A j, k \in 1..d : Sum(b, c)[j][k] = Plus(b[j][k], c[j][k])
    BY <1>1, SumEntries
  <2>2. \A j, k \in 1..d : a[j][k] \in Complex /\ b[j][k] \in Complex /\ c[j][k] \in Complex
    BY SquareLen
  <2> DEFINE f == [k \in 1..d |-> Times(a[r][k], b[k][s])]
             g == [k \in 1..d |-> Times(a[r][k], c[k][s])]
             h == [k \in 1..d |-> Times(a[r][k], Sum(b, c)[k][s])]
             u == [k \in 1..d |-> Times(b[r][k], a[k][s])]
             v == [k \in 1..d |-> Times(c[r][k], a[k][s])]
             w == [k \in 1..d |-> Times(Sum(b, c)[r][k], a[k][s])]
  <2>3. /\ f \in [1..d -> Complex] /\ g \in [1..d -> Complex] /\ h \in [1..d -> Complex]
        /\ u \in [1..d -> Complex] /\ v \in [1..d -> Complex] /\ w \in [1..d -> Complex]
        /\ Dot(a, b)[r][s] = Total(f) /\ Dot(a, c)[r][s] = Total(g) /\ Dot(a, Sum(b, c))[r][s] = Total(h)
        /\ Dot(b, a)[r][s] = Total(u) /\ Dot(c, a)[r][s] = Total(v) /\ Dot(Sum(b, c), a)[r][s] = Total(w)
    <3>1. f \in [1..d -> Complex] /\ Dot(a, b)[r][s] = Total(f)
      BY DotParts
    <3>2. g \in [1..d -> Complex] /\ Dot(a, c)[r][s] = Total(g)
      BY DotParts
    <3>3. h \in [1..d -> Complex] /\ Dot(a, Sum(b, c))[r][s] = Total(h)
      BY <1>1, DotParts
    <3>4. u \in [1..d -> Complex] /\ Dot(b, a)[r][s] = Total(u)
      BY DotParts
    <3>5. v \in [1..d -> Complex] /\ Dot(c, a)[r][s] = Total(v)
      BY DotParts
    <3>6. w \in [1..d -> Complex] /\ Dot(Sum(b, c), a)[r][s] = Total(w)
      BY <1>1, DotParts
    <3> QED
      BY <3>1, <3>2, <3>3, <3>4, <3>5, <3>6
  <2>4. \A k \in 1..d : h[k] = Plus(f[k], g[k])
    BY <2>1, <2>2, TimesAlgebra
  <2>5. \A k \in 1..d : w[k] = Plus(u[k], v[k])
    <3> TAKE k \in 1..d
    <3>1. Plus(b[r][k], c[r][k]) \in Complex
      BY <2>2, TypedNumbers
    <3>2. Times(Plus(b[r][k], c[r][k]), a[k][s]) = Times(a[k][s], Plus(b[r][k], c[r][k]))
      BY <2>2, <3>1, TimesAlgebra
    <3>3. Times(a[k][s], Plus(b[r][k], c[r][k])) = Plus(Times(a[k][s], b[r][k]), Times(a[k][s], c[r][k]))
      BY <2>2, TimesAlgebra
    <3>4. Times(a[k][s], b[r][k]) = Times(b[r][k], a[k][s]) /\ Times(a[k][s], c[r][k]) = Times(c[r][k], a[k][s])
      BY <2>2, TimesAlgebra
    <3> QED
      BY <2>1, <3>2, <3>3, <3>4
  <2> HIDE DEF f, g, h, u, v, w
  <2>6. Total(h) = Plus(Total(f), Total(g)) /\ Total(w) = Plus(Total(u), Total(v))
    BY <2>3, <2>4, <2>5, TotalOfSums
  <2> QED
    BY <2>1, <2>3, <2>6
<1>3. Dot(a, Sum(b, c)) = Sum(Dot(a, b), Dot(a, c))
  <2>1. Dot(a, Sum(b, c)) \in Square(d) /\ Sum(Dot(a, b), Dot(a, c)) \in Square(d)
    BY <1>1
  <2>2. \A r, s \in 1..d : Dot(a, Sum(b, c))[r][s] = Sum(Dot(a, b), Dot(a, c))[r][s]
    BY <1>2
  <2> QED
    BY <2>1, <2>2, MatrixEqual
<1>4. Dot(Sum(b, c), a) = Sum(Dot(b, a), Dot(c, a))
  <2>1. Dot(Sum(b, c), a) \in Square(d) /\ Sum(Dot(b, a), Dot(c, a)) \in Square(d)
    BY <1>1
  <2>2. \A r, s \in 1..d : Dot(Sum(b, c), a)[r][s] = Sum(Dot(b, a), Dot(c, a))[r][s]
    BY <1>2
  <2> QED
    BY <2>1, <2>2, MatrixEqual
<1> QED
  BY <1>3, <1>4

LEMMA DotOfScaled ==
  ASSUME NEW d \in Nat, NEW a \in Square(d), NEW b \in Square(d), NEW x \in Complex
  PROVE  /\ Dot(a, Scaled(x, b)) = Scaled(x, Dot(a, b))
         /\ Dot(Scaled(x, a), b) = Scaled(x, Dot(a, b))
<1>1. /\ Scaled(x, a) \in Square(d) /\ Scaled(x, b) \in Square(d) /\ Dot(a, b) \in Square(d)
      /\ Dot(a, Scaled(x, b)) \in Square(d) /\ Dot(Scaled(x, a), b) \in Square(d)
      /\ Scaled(x, Dot(a, b)) \in Square(d)
  BY MatrixTypes
<1>2. ASSUME NEW r \in 1..d, NEW s \in 1..d
      PROVE  /\ Dot(a, Scaled(x, b))[r][s] = Scaled(x, Dot(a, b))[r][s]
             /\ Dot(Scaled(x, a), b)[r][s] = Scaled(x, Dot(a, b))[r][s]
  <2>1. /\ Scaled(x, Dot(a, b))[r][s] = Times(x, Dot(a, b)[r][s])
        /\ \A j, k \in 1..d : Scaled(x, a)[j][k] = Times(x, a[j][k]) /\ Scaled(x, b)[j][k] = Times(x, b[j][k])
    BY <1>1, ScaledEntries
  <2>2. \A j, k \in 1..d : a[j][k] \in Complex /\ b[j][k] \in Complex
    BY SquareLen
  <2> DEFINE f == [k \in 1..d |-> Times(a[r][k], b[k][s])]
             g == [k \in 1..d |-> Times(a[r][k], Scaled(x, b)[k][s])]
             h == [k \in 1..d |-> Times(Scaled(x, a)[r][k], b[k][s])]
  <2>3. /\ f \in [1..d -> Complex] /\ g \in [1..d -> Complex] /\ h \in [1..d -> Complex]
        /\ Dot(a, b)[r][s] = Total(f) /\ Dot(a, Scaled(x, b))[r][s] = Total(g)
        /\ Dot(Scaled(x, a), b)[r][s] = Total(h)
    BY <1>1, DotParts
  <2>4. \A k \in 1..d : h[k] = Times(x, f[k])
    BY <2>1, <2>2, TimesAlgebra
  <2>5. \A k \in 1..d : g[k] = Times(x, f[k])
    <3> TAKE k \in 1..d
    <3>1. Times(a[r][k], Times(x, b[k][s])) = Times(Times(a[r][k], x), b[k][s])
      BY <2>2, TimesAlgebra
    <3>2. Times(a[r][k], x) = Times(x, a[r][k])
      BY <2>2, TimesAlgebra
    <3>3. Times(Times(x, a[r][k]), b[k][s]) = Times(x, Times(a[r][k], b[k][s]))
      BY <2>2, TimesAlgebra
    <3> QED
      BY <2>1, <3>1, <3>2, <3>3
  <2> HIDE DEF f, g, h
  <2>6. Total(h) = Times(x, Total(f)) /\ Total(g) = Times(x, Total(f))
    BY <2>3, <2>4, <2>5, TotalOfProducts
  <2> QED
    BY <2>1, <2>3, <2>6
<1>3. Dot(a, Scaled(x, b)) = Scaled(x, Dot(a, b))
  <2>1. Dot(a, Scaled(x, b)) \in Square(d) /\ Scaled(x, Dot(a, b)) \in Square(d)
    BY <1>1
  <2>2. \A r, s \in 1..d : Dot(a, Scaled(x, b))[r][s] = Scaled(x, Dot(a, b))[r][s]
    BY <1>2
  <2> QED
    BY <2>1, <2>2, MatrixEqual
<1>4. Dot(Scaled(x, a), b) = Scaled(x, Dot(a, b))
  <2>1. Dot(Scaled(x, a), b) \in Square(d) /\ Scaled(x, Dot(a, b)) \in Square(d)
    BY <1>1
  <2>2. \A r, s \in 1..d : Dot(Scaled(x, a), b)[r][s] = Scaled(x, Dot(a, b))[r][s]
    BY <1>2
  <2> QED
    BY <2>1, <2>2, MatrixEqual
<1> QED
  BY <1>3, <1>4

LEMMA DaggerOfDot ==
  ASSUME NEW d \in Nat, NEW a \in Square(d), NEW b \in Square(d)
  PROVE  Dagger(Dot(a, b)) = Dot(Dagger(b), Dagger(a))
<1>1. /\ Dot(a, b) \in Square(d) /\ Dagger(a) \in Square(d) /\ Dagger(b) \in Square(d)
      /\ Dagger(Dot(a, b)) \in Square(d) /\ Dot(Dagger(b), Dagger(a)) \in Square(d)
  BY MatrixTypes
<1>2. ASSUME NEW r \in 1..d, NEW s \in 1..d
      PROVE  Dagger(Dot(a, b))[r][s] = Dot(Dagger(b), Dagger(a))[r][s]
  <2>1. /\ Dagger(Dot(a, b))[r][s] = Conj(Dot(a, b)[s][r])
        /\ \A j, k \in 1..d : Dagger(a)[j][k] = Conj(a[k][j]) /\ Dagger(b)[j][k] = Conj(b[k][j])
    BY <1>1, DaggerParts
  <2>2. \A j, k \in 1..d : a[j][k] \in Complex /\ b[j][k] \in Complex
    BY SquareLen
  <2> DEFINE f == [k \in 1..d |-> Times(a[s][k], b[k][r])]
             g == [k \in 1..d |-> Times(Dagger(b)[r][k], Dagger(a)[k][s])]
  <2>3. /\ f \in [1..d -> Complex] /\ g \in [1..d -> Complex]
        /\ Dot(a, b)[s][r] = Total(f) /\ Dot(Dagger(b), Dagger(a))[r][s] = Total(g)
    <3>1. f \in [1..d -> Complex] /\ Dot(a, b)[s][r] = Total(f)
      BY DotParts
    <3>2. g \in [1..d -> Complex] /\ Dot(Dagger(b), Dagger(a))[r][s] = Total(g)
      BY <1>1, DotParts
    <3> QED
      BY <3>1, <3>2
  <2>4. \A k \in 1..d : g[k] = Conj(f[k])
    <3> TAKE k \in 1..d
    <3>1. Conj(b[k][r]) \in Complex /\ Conj(a[s][k]) \in Complex
      BY <2>2, TypedNumbers
    <3>2. Times(Conj(b[k][r]), Conj(a[s][k])) = Times(Conj(a[s][k]), Conj(b[k][r]))
      BY <3>1, TimesAlgebra
    <3>3. Times(Conj(a[s][k]), Conj(b[k][r])) = Conj(Times(a[s][k], b[k][r]))
      BY <2>2, ConjAlgebra
    <3> QED
      BY <2>1, <3>2, <3>3
  <2> HIDE DEF f, g
  <2>5. Total(g) = Conj(Total(f))
    BY <2>3, <2>4, TotalOfConjugates
  <2> QED
    BY <2>1, <2>3, <2>5
<1> QED
  BY <1>1, <1>2, MatrixEqual

\* The conjugate transpose of sums and multiples, and of itself.
LEMMA DaggerLinear ==
  ASSUME NEW d \in Nat, NEW a \in Square(d), NEW b \in Square(d), NEW x \in Complex
  PROVE  /\ Dagger(Sum(a, b)) = Sum(Dagger(a), Dagger(b))
         /\ Dagger(Scaled(x, a)) = Scaled(Conj(x), Dagger(a))
         /\ a \in Reduced(d) => Dagger(Dagger(a)) = a
<1>1. /\ Dagger(a) \in Square(d) /\ Dagger(b) \in Square(d) /\ Sum(a, b) \in Square(d)
      /\ Dagger(Sum(a, b)) \in Square(d) /\ Sum(Dagger(a), Dagger(b)) \in Square(d)
      /\ Conj(x) \in Complex /\ Scaled(x, a) \in Square(d) /\ Dagger(Scaled(x, a)) \in Square(d)
      /\ Scaled(Conj(x), Dagger(a)) \in Square(d) /\ Dagger(Dagger(a)) \in Square(d)
  <2>1. Conj(x) \in Complex
    BY TypedNumbers
  <2> QED
    BY <2>1, MatrixTypes
<1>2. \A j, k \in 1..d : a[j][k] \in Complex /\ b[j][k] \in Complex
  BY SquareLen
<1>3. \A j, k \in 1..d : Dagger(a)[j][k] = Conj(a[k][j]) /\ Dagger(b)[j][k] = Conj(b[k][j])
  BY DaggerParts
<1>4. Dagger(Sum(a, b)) = Sum(Dagger(a), Dagger(b))
  <2>1. ASSUME NEW r \in 1..d, NEW s \in 1..d
        PROVE  Dagger(Sum(a, b))[r][s] = Sum(Dagger(a), Dagger(b))[r][s]
    <3>1. Dagger(Sum(a, b))[r][s] = Conj(Plus(a[s][r], b[s][r]))
      <4>1. Dagger(Sum(a, b))[r][s] = Conj(Sum(a, b)[s][r])
        BY <1>1, DaggerParts
      <4>2. Sum(a, b)[s][r] = Plus(a[s][r], b[s][r])
        BY SumEntries
      <4> QED
        BY <4>1, <4>2
    <3>2. Sum(Dagger(a), Dagger(b))[r][s] = Plus(Conj(a[s][r]), Conj(b[s][r]))
      BY <1>1, <1>3, SumEntries
    <3> QED
      BY <1>2, <3>1, <3>2, ConjAlgebra
  <2> QED
    BY <1>1, <2>1, MatrixEqual
<1>5. Dagger(Scaled(x, a)) = Scaled(Conj(x), Dagger(a))
  <2>1. ASSUME NEW r \in 1..d, NEW s \in 1..d
        PROVE  Dagger(Scaled(x, a))[r][s] = Scaled(Conj(x), Dagger(a))[r][s]
    <3>1. Dagger(Scaled(x, a))[r][s] = Conj(Times(x, a[s][r]))
      <4>1. Dagger(Scaled(x, a))[r][s] = Conj(Scaled(x, a)[s][r])
        BY <1>1, DaggerParts
      <4>2. Scaled(x, a)[s][r] = Times(x, a[s][r])
        BY ScaledEntries
      <4> QED
        BY <4>1, <4>2
    <3>2. Scaled(Conj(x), Dagger(a))[r][s] = Times(Conj(x), Conj(a[s][r]))
      BY <1>1, <1>3, ScaledEntries
    <3> QED
      BY <1>2, <3>1, <3>2, ConjAlgebra
  <2> QED
    BY <1>1, <2>1, MatrixEqual
<1>6. ASSUME a \in Reduced(d) PROVE Dagger(Dagger(a)) = a
  <2>1. \A r, s \in 1..d : Dagger(Dagger(a))[r][s] = Conj(Conj(a[r][s]))
    BY <1>1, <1>3, DaggerParts
  <2>2. \A r, s \in 1..d : a[r][s] \in Residues
    BY <1>6 DEF Reduced
  <2>3. \A r, s \in 1..d : Dagger(Dagger(a))[r][s] = a[r][s]
    BY <1>2, <2>1, <2>2, ConjAlgebra
  <2> QED
    BY <1>1, <2>3, MatrixEqual
<1> QED
  BY <1>4, <1>5, <1>6

\* The trace is linear, takes its factors in either order, and is conjugated with a matrix.
LEMMA TraceLinear ==
  ASSUME NEW d \in Nat, NEW a \in Square(d), NEW b \in Square(d), NEW x \in Complex
  PROVE  /\ Trace(Sum(a, b)) = Plus(Trace(a), Trace(b))
         /\ Trace(Scaled(x, a)) = Times(x, Trace(a))
         /\ Trace(Dagger(a)) = Conj(Trace(a))
<1> DEFINE f == [k \in 1..d |-> a[k][k]]
           g == [k \in 1..d |-> b[k][k]]
           h == [k \in 1..d |-> Sum(a, b)[k][k]]
           u == [k \in 1..d |-> Scaled(x, a)[k][k]]
           v == [k \in 1..d |-> Dagger(a)[k][k]]
<1>1. Sum(a, b) \in Square(d) /\ Scaled(x, a) \in Square(d) /\ Dagger(a) \in Square(d)
  BY MatrixTypes
<1>2. /\ f \in [1..d -> Complex] /\ g \in [1..d -> Complex] /\ h \in [1..d -> Complex]
      /\ u \in [1..d -> Complex] /\ v \in [1..d -> Complex]
  BY <1>1, SquareLen
<1>3. /\ Trace(a) = Total(f) /\ Trace(b) = Total(g) /\ Trace(Sum(a, b)) = Total(h)
      /\ Trace(Scaled(x, a)) = Total(u) /\ Trace(Dagger(a)) = Total(v)
  BY <1>1, SquareLen DEF Trace
<1>4. /\ \A k \in 1..d : h[k] = Plus(f[k], g[k])
      /\ \A k \in 1..d : u[k] = Times(x, f[k])
      /\ \A k \in 1..d : v[k] = Conj(f[k])
  BY SumEntries, ScaledEntries, DaggerParts
<1> HIDE DEF f, g, h, u, v
<1>5. Total(h) = Plus(Total(f), Total(g))
  BY <1>2, <1>4, TotalOfSums
<1>6. Total(u) = Times(x, Total(f))
  BY <1>2, <1>4, TotalOfProducts
<1>7. Total(v) = Conj(Total(f))
  BY <1>2, <1>4, TotalOfConjugates
<1> QED
  BY <1>3, <1>5, <1>6, <1>7

LEMMA TraceCyclic ==
  ASSUME NEW d \in Nat, NEW a \in Square(d), NEW b \in Square(d)
  PROVE  Trace(Dot(a, b)) = Trace(Dot(b, a))
<1> DEFINE F == [j \in 1..d |-> [k \in 1..d |-> Times(a[j][k], b[k][j])]]
           G == [k \in 1..d |-> [j \in 1..d |-> Times(b[k][j], a[j][k])]]
<1>1. \A j, k \in 1..d : a[j][k] \in Complex /\ b[k][j] \in Complex
  BY SquareLen
<1>2. \A j, k \in 1..d : /\ Times(a[j][k], b[k][j]) \in Complex
                         /\ Times(b[k][j], a[j][k]) = Times(a[j][k], b[k][j])
  BY <1>1, TypedNumbers, TimesAlgebra
<1>3. F \in Square(d) /\ G \in Square(d) /\ \A j, k \in 1..d : G[k][j] = F[j][k]
  BY <1>2 DEF Square
<1>4. Total([j \in 1..d |-> Total(F[j])]) = Total([k \in 1..d |-> Total(G[k])])
  BY <1>3, TotalExchanged
<1>5. Dot(a, b) \in Square(d) /\ Dot(b, a) \in Square(d)
  BY MatrixTypes
<1>6. /\ \A j \in 1..d : Dot(a, b)[j][j] = Total(F[j])
      /\ \A k \in 1..d : Dot(b, a)[k][k] = Total(G[k])
  BY DotParts
<1> HIDE DEF F, G
<1>7. /\ Trace(Dot(a, b)) = Total([j \in 1..d |-> Total(F[j])])
      /\ Trace(Dot(b, a)) = Total([k \in 1..d |-> Total(G[k])])
  <2>1. /\ Trace(Dot(a, b)) = Total([j \in 1..d |-> Dot(a, b)[j][j]])
        /\ Trace(Dot(b, a)) = Total([k \in 1..d |-> Dot(b, a)[k][k]])
    BY <1>5, SquareLen DEF Trace
  <2>2. /\ [j \in 1..d |-> Dot(a, b)[j][j]] = [j \in 1..d |-> Total(F[j])]
        /\ [k \in 1..d |-> Dot(b, a)[k][k]] = [k \in 1..d |-> Total(G[k])]
    BY <1>6
  <2> QED
    BY <2>1, <2>2
<1> QED
  BY <1>4, <1>7

\* The identity matrix leaves a product as it is.
LEMMA EyeLeaves ==
  ASSUME NEW d \in Nat, NEW m \in Reduced(d)
  PROVE  Dot(Eye(d), m) = m
<1>1. m \in Square(d) /\ Eye(d) \in Square(d)
  BY ReducedSquare, EyeTyped
<1>2. \A r, c \in 1..d : Eye(d)[r][c] = IF r = c THEN One ELSE Zero
  <2> DEFINE f == [r \in 1..d |-> [c \in 1..d |-> IF r = c THEN One ELSE Zero]]
  <2>1. f \in Square(d)
    BY TypedNumbers DEF Square
  <2>2. Eye(d) = Tuple([r \in 1..d |-> Tuple([c \in 1..d |-> IF r = c THEN One ELSE Zero])])
    BY DEF Eye, Diagonal, Matrix
  <2>3. \A r \in 1..d : f[r] = [c \in 1..d |-> IF r = c THEN One ELSE Zero]
    OBVIOUS
  <2>4. Eye(d) = Tuple([r \in 1..d |-> Tuple(f[r])])
    BY <2>2, <2>3
  <2>5. Eye(d) = f
    <3> HIDE DEF f
    <3> QED
      BY <2>1, <2>4, MatrixSame
  <2> QED
    BY <2>5
<1>3. ASSUME NEW r \in 1..d, NEW c \in 1..d PROVE Dot(Eye(d), m)[r][c] = m[r][c]
  <2> DEFINE h == [k \in 1..d |-> Times(Eye(d)[r][k], m[k][c])]
  <2>1. h \in [1..d -> Complex] /\ Dot(Eye(d), m)[r][c] = Total(h)
    BY <1>1, DotParts
  <2>2. m[r][c] \in Residues /\ \A k \in 1..d : m[k][c] \in Residues /\ m[k][c] \in Complex
    BY TypedNumbers DEF Reduced
  <2>3. ASSUME NEW k \in 1..d PROVE h[k] = IF k = r THEN m[r][c] ELSE Zero
    <3>1. Times(One, m[k][c]) = m[k][c] /\ Times(Zero, m[k][c]) = Zero
      BY <2>2, TimesAlgebra
    <3> QED
      BY <1>2, <3>1
  <2> HIDE DEF h
  <2> QED
    BY <2>1, <2>2, <2>3, TotalOfOne
<1>4. Dot(Eye(d), m) \in Square(d)
  BY <1>1, DotEntries
<1> QED
  BY <1>1, <1>3, <1>4, MatrixEqual

-----------------------------------------------------------------------------
(* Real numbers, quotients and fractions                                    *)

\* Numbers without an imaginary part.
RealNumbers == {z \in Complex : z[2] = 0}

LEMMA RealOfSmall == Real(0) = 0 /\ Real(1) = 1 /\ -0 = 0
<1>1. 0 % Modulus = 0 /\ ~(2 * 0 > Modulus) /\ 1 % Modulus = 1 /\ ~(2 * 1 > Modulus)
  BY ModulusFacts
<1>2. 0 \in Int /\ 0 + 0 = 0 /\ \A x \in Int : x + x = x => -x = x
  OBVIOUS
<1>3. -0 = 0
  BY <1>2, Zenon
<1> QED
  BY <1>1, <1>3 DEF Real

LEMMA RealNumbersClosed ==
  /\ RealNumbers \subseteq Complex /\ Zero \in RealNumbers /\ \A x \in Int : <<x, 0>> \in RealNumbers
  /\ \A a \in RealNumbers : Conj(a) = a
  /\ \A a, b \in RealNumbers : Times(a, b) \in RealNumbers /\ Minus(a, b) \in RealNumbers
<1>1. \A x \in Int : <<x, 0>> \in RealNumbers
  BY DEF RealNumbers, Complex
<1>2. RealNumbers \subseteq Complex /\ Zero \in RealNumbers
  BY <1>1 DEF RealNumbers, Zero
<1>3. \A a \in RealNumbers : a[1] \in Int /\ a[2] = 0 /\ a = <<a[1], a[2]>>
  BY ComplexParts DEF RealNumbers
<1>4. \A a \in RealNumbers : Conj(a) = a
  BY <1>3, RealOfSmall DEF Conj
<1>5. \A a, b \in RealNumbers : Times(a, b) \in RealNumbers /\ Minus(a, b) \in RealNumbers
  <2> TAKE a, b \in RealNumbers
  <2>1. a[1] * 0 + 0 * b[1] = 0 /\ a[1] * b[1] - 0 * 0 \in Int /\ 0 - 0 = 0 /\ a[1] - b[1] \in Int
    BY <1>3
  <2>2. Real(a[1] * b[1] - 0 * 0) \in Int /\ Real(a[1] - b[1]) \in Int
    BY <2>1, RealInt
  <2>3. Times(a, b) = <<Real(a[1] * b[1] - 0 * 0), 0>>
    BY <1>3, <2>1, RealOfSmall DEF Times
  <2>4. Minus(a, b) = <<Real(a[1] - b[1]), 0>>
    BY <1>3, <2>1, RealOfSmall DEF Minus
  <2> QED
    BY <1>1, <2>2, <2>3, <2>4
<1> QED
  BY <1>1, <1>2, <1>4, <1>5

\* What is a multiple of the modulus.
LEMMA Multiples ==
  ASSUME NEW x \in Int
  PROVE  /\ x % Modulus = 0 <=> \E k \in Int : x = k * Modulus
         /\ x % Modulus = 1 <=> \E k \in Int : x = 1 + k * Modulus
<1>1. Modulus \in Nat /\ Modulus > 3
  BY ModulusFacts
<1> DEFINE q == x \div Modulus
           r == x % Modulus
<1>2. q \in Int /\ r \in 0..(Modulus - 1) /\ x = Modulus * q + r /\ r = x % Modulus
  BY <1>1
<1> HIDE DEF q, r
<1>3. ASSUME NEW b \in {0, 1}, NEW k \in Int, x = b + k * Modulus PROVE r = b
  <2> DEFINE m == k - q
  <2>1. m \in Int /\ Modulus * m = r - b
    BY <1>1, <1>2, <1>3
  <2>2. -Modulus < r - b /\ r - b < Modulus
    BY <1>1, <1>2
  <2> HIDE DEF m
  <2>3. CASE m >= 1
    <3>1. Modulus * m >= Modulus
      BY <1>1, <2>1, <2>3
    <3> QED
      BY <1>1, <1>2, <2>1, <2>2, <3>1
  <2>4. CASE m <= -1
    <3>1. Modulus * m <= -Modulus
      BY <1>1, <2>1, <2>4
    <3> QED
      BY <1>1, <1>2, <2>1, <2>2, <3>1
  <2>5. CASE m = 0
    BY <1>1, <1>2, <2>1, <2>5
  <2> QED
    BY <2>1, <2>3, <2>4, <2>5
<1>4. ASSUME NEW b \in {0, 1}, r = b PROVE \E k \in Int : x = b + k * Modulus
  <2>1. q * Modulus = Modulus * q /\ b \in Int
    BY <1>1, <1>2
  <2>2. Modulus * q + b = b + Modulus * q
    BY <1>1, <1>2, <2>1
  <2>3. x = b + q * Modulus
    BY <1>2, <1>4, <2>1, <2>2
  <2> QED
    BY <1>2, <2>3
<1>5. 0 \in {0, 1} /\ 1 \in {0, 1} /\ \A k \in Int : 0 + k * Modulus = k * Modulus
  BY <1>1
<1>6. \A b \in {0, 1} : x % Modulus = b <=> \E k \in Int : x = b + k * Modulus
  BY <1>2, <1>3, <1>4
<1>7. x % Modulus = 0 <=> \E k \in Int : x = 0 + k * Modulus
  BY <1>5, <1>6
<1>8. x % Modulus = 1 <=> \E k \in Int : x = 1 + k * Modulus
  BY <1>5, <1>6
<1> QED
  BY <1>5, <1>7, <1>8

\* Numbers that are no multiple of the modulus have an inverse, and so have their products.
LEMMA Inverses ==
  ASSUME NEW x \in Int, x % Modulus # 0
  PROVE  /\ InverseReal(x) \in Int /\ Real(InverseReal(x)) = InverseReal(x)
         /\ Real(x * InverseReal(x)) = 1
         /\ \E a \in Int : x * InverseReal(x) = 1 + a * Modulus
<1>1. Modulus \in Nat /\ Modulus > 3
  BY ModulusFacts
<1> DEFINE q == x \div Modulus
           r == x % Modulus
<1>2. q \in Int /\ r \in 0..(Modulus - 1) /\ x = Modulus * q + r /\ r # 0
  BY <1>1
<1>3. r \in 1..(Modulus - 1)
  BY <1>1, <1>2
<1> HIDE DEF q, r
<1>4. PICK y \in 1..(Modulus - 1) : (r * y) % Modulus = 1
  BY <1>3, ModulusAssumption
<1>5. r * y \in Int /\ x * y \in Int /\ y \in Int
  BY <1>1, <1>2
<1>6. PICK k \in Int : r * y = 1 + k * Modulus
  BY <1>4, <1>5, Multiples
<1>7. (q * y + k) \in Int /\ x * y = 1 + (q * y + k) * Modulus
  BY <1>1, <1>2, <1>5, <1>6
<1>8. (x * y) % Modulus = 1
  BY <1>5, <1>7, Multiples
<1> DEFINE z == CHOOSE u \in 1..(Modulus - 1) : (x * u) % Modulus = 1
<1>9. z \in 1..(Modulus - 1) /\ (x * z) % Modulus = 1
  BY <1>8
<1>10. InverseReal(x) = Real(z)
  BY DEF InverseReal
<1> HIDE DEF z
<1>11. z \in Int /\ x * z \in Int
  BY <1>1, <1>9
<1>12. PICK a \in Int : x * z = 1 + a * Modulus
  BY <1>9, <1>11, Multiples
<1>13. PICK b \in Int : Real(z) = z + b * Modulus
  BY <1>11, RealShift
<1>14. Real(z) \in Int /\ Real(Real(z)) = Real(z)
  BY <1>11, RealInt, RealAbsorbs
<1> DEFINE w == Real(z)
<1>15. w \in Int /\ w = z + b * Modulus
  BY <1>13, <1>14
<1> HIDE DEF w
<1>16. a + x * b \in Int /\ x * w = 1 + (a + x * b) * Modulus /\ x * w \in Int
  BY <1>1, <1>11, <1>12, <1>15
<1>17. Real(x * w) = Real(1)
  BY <1>16, RealSame
<1> QED
  BY <1>10, <1>14, <1>16, <1>17, RealOfSmall DEF w

LEMMA NoMultiples ==
  ASSUME NEW x \in Int, NEW y \in Int, x % Modulus # 0, y % Modulus # 0
  PROVE  (x * y) % Modulus # 0
<1>1. Modulus \in Nat /\ Modulus > 3
  BY ModulusFacts
<1> SUFFICES ASSUME (x * y) % Modulus = 0 PROVE FALSE
  OBVIOUS
<1>2. x * y \in Int
  OBVIOUS
<1>3. PICK j \in Int : x * y = j * Modulus
  BY <1>2, Multiples
<1> DEFINE u == InverseReal(y)
<1>4. u \in Int /\ \E a \in Int : y * u = 1 + a * Modulus
  BY Inverses
<1> HIDE DEF u
<1>5. PICK a \in Int : y * u = 1 + a * Modulus
  BY <1>4
<1>6. (x * y) * u = x * (y * u)
  BY <1>4
<1>7. (j * Modulus) * u = x * (1 + a * Modulus)
  BY <1>3, <1>5, <1>6
<1>8. j * u - x * a \in Int /\ x = (j * u - x * a) * Modulus
  BY <1>1, <1>4, <1>7
<1> QED
  BY <1>8, Multiples

LEMMA Quotients ==
  ASSUME NEW a \in Int, NEW b \in Int, b % Modulus # 0
  PROVE  Ratio(a, b) \in RealNumbers
<1>1. (b * b) % Modulus # 0 /\ b * b \in Int /\ b * b + 0 * 0 = b * b
  BY NoMultiples
<1>2. PICK k \in Int : Real(b * b) = b * b + k * Modulus
  BY <1>1, RealShift
<1>3. Real(b * b) \in Int /\ Modulus \in Nat
  BY <1>1, RealInt, ModulusFacts
<1>4. Real(b * b) % Modulus # 0
  <2> SUFFICES ASSUME Real(b * b) % Modulus = 0 PROVE FALSE
    OBVIOUS
  <2> DEFINE c == Real(b * b)
             e == b * b
  <2>1. c \in Int /\ e \in Int /\ c = e + k * Modulus /\ c % Modulus = 0 /\ e % Modulus # 0
    BY <1>1, <1>2, <1>3
  <2> HIDE DEF c, e
  <2>2. PICK j \in Int : c = j * Modulus
    BY <2>1, Multiples
  <2>3. j - k \in Int /\ e = (j - k) * Modulus
    BY <1>3, <2>1, <2>2
  <2> QED
    BY <2>1, <2>3, Multiples
<1>5. NormSqr(<<b, 0>>) = Real(b * b)
  BY <1>1 DEF NormSqr
<1>6. <<InverseReal(NormSqr(<<b, 0>>)), 0>> \in RealNumbers
  BY <1>3, <1>4, <1>5, Inverses, RealNumbersClosed
<1>7. <<a, 0>> \in RealNumbers /\ <<b, 0>> \in RealNumbers
  BY RealNumbersClosed
<1> QED
  BY <1>6, <1>7, RealNumbersClosed DEF Ratio, Over

\* A half and a sixth.
LEMMA Fractions ==
  /\ Half \in RealNumbers /\ Half \in Residues /\ Sixth \in RealNumbers
  /\ \A z \in Complex : Minus(Minus(z, Times(Half, z)), Times(Half, z)) = Zero
  /\ \A z \in Residues : Times(Half, Plus(z, z)) = z
<1>1. Modulus \in Nat /\ Modulus > 6
  BY ModulusFacts
<1>2. 2 % Modulus # 0 /\ 6 % Modulus # 0
  BY <1>1
<1>3. Half \in RealNumbers /\ Half \in Residues /\ Sixth \in RealNumbers
  BY <1>2, Inverses, RealNumbersClosed, RealOfSmall DEF Half, Sixth, Residues, RealNumbers
<1> DEFINE h == InverseReal(2)
<1>4. h \in Int /\ \E a \in Int : 2 * h = 1 + a * Modulus
  BY <1>2, Inverses
<1>5. Half = <<h, 0>>
  BY DEF Half
<1> HIDE DEF h
<1>6. PICK a \in Int : 2 * h = 1 + a * Modulus
  BY <1>4
<1>7. \A x \in Int : Real(Real(x - Real(h * x)) - Real(h * x)) = 0
  <2> TAKE x \in Int
  <2>1. h * x \in Int /\ x - h * x \in Int /\ x - h * x - h * x \in Int /\ Real(h * x) \in Int
    BY <1>4, RealInt
  <2>2. Real(x - Real(h * x)) = Real(x - h * x)
    BY <2>1, RealAbsorbs
  <2> DEFINE u == h * x
             v == x - u
             w == Real(u)
  <2>3. u \in Int /\ v \in Int /\ w \in Int /\ w = Real(u)
    BY <2>1
  <2> HIDE DEF u, v, w
  <2>4. Real(Real(v) - w) = Real(v - w) /\ Real(v - Real(u)) = Real(v - u)
    BY <2>3, RealAbsorbs
  <2>5. v - u = 0 + (-a * x) * Modulus /\ -a * x \in Int /\ v - u \in Int
    <3>1. u = h * x /\ v = x - u
      BY DEF u, v
    <3>2. v - u = x - (2 * h) * x
      BY <1>4, <3>1
    <3>3. v - u = x - (1 + a * Modulus) * x
      BY <1>6, <3>2
    <3> QED
      BY <1>1, <3>3
  <2>6. Real(v - u) = Real(0)
    BY <2>5, RealSame
  <2> QED
    BY <2>2, <2>3, <2>4, <2>6, RealOfSmall DEF u, v, w
<1>8. \A x \in Int : Real(h * Real(x + x)) = Real(x)
  <2> TAKE x \in Int
  <2>1. x + x \in Int /\ h * (x + x) \in Int /\ a * x \in Int
    BY <1>4
  <2>2. Real(h * Real(x + x)) = Real(h * (x + x))
    BY <1>4, <2>1, RealAbsorbs
  <2>3. h * (x + x) = (2 * h) * x
    BY <1>4
  <2>4. h * (x + x) = x + (a * x) * Modulus
    BY <1>1, <1>6, <2>3
  <2> QED
    BY <2>1, <2>2, <2>4, RealSame
<1>9. ASSUME NEW z \in Complex
      PROVE  Times(Half, z) = <<Real(h * z[1]), Real(h * z[2])>> /\ z[1] \in Int /\ z[2] \in Int
  <2>1. z[1] \in Int /\ z[2] \in Int
    BY ComplexParts
  <2>2. h * z[1] - 0 * z[2] = h * z[1] /\ h * z[2] + 0 * z[1] = h * z[2]
    BY <1>4, <2>1
  <2> QED
    BY <1>5, <2>1, <2>2 DEF Times
<1>10. \A z \in Complex : Minus(Minus(z, Times(Half, z)), Times(Half, z)) = Zero
  BY <1>7, <1>9 DEF Minus, Zero
<1>11. \A z \in Residues : Times(Half, Plus(z, z)) = z
  <2> TAKE z \in Residues
  <2>1. z \in Complex /\ z[1] \in Int /\ z[2] \in Int /\ z = <<z[1], z[2]>> /\ Real(z[1]) = z[1] /\ Real(z[2]) = z[2]
    BY ComplexParts DEF Residues
  <2>2. Plus(z, z) \in Complex
    BY <2>1, TypedNumbers
  <2>3. Times(Half, Plus(z, z)) = <<Real(h * Real(z[1] + z[1])), Real(h * Real(z[2] + z[2]))>>
    BY <1>9, <2>2 DEF Plus
  <2> QED
    BY <1>8, <2>1, <2>3
<1> QED
  BY <1>3, <1>10, <1>11

-----------------------------------------------------------------------------
(* Traceless and Hermitian matrices                                         *)

\* A difference is a sum, and what it keeps.
MinusOne == <<-1, 0>>

LEMMA DifferenceIsSum ==
  ASSUME NEW d \in Nat, NEW a \in Square(d), NEW b \in Square(d)
  PROVE  /\ Difference(a, b) = Sum(a, Scaled(MinusOne, b))
         /\ MinusOne \in RealNumbers
<1>1. MinusOne \in RealNumbers /\ MinusOne \in Complex
  BY RealNumbersClosed DEF MinusOne
<1>2. Scaled(MinusOne, b) \in Square(d)
  BY <1>1, MatrixTypes
<1>3. Sum(a, Scaled(MinusOne, b)) \in Square(d) /\ Difference(a, b) \in Square(d)
  BY <1>2, MatrixTypes
<1>4. ASSUME NEW r \in 1..d, NEW c \in 1..d
      PROVE  Difference(a, b)[r][c] = Sum(a, Scaled(MinusOne, b))[r][c]
  <2>1. a[r][c] \in Complex /\ b[r][c] \in Complex
    BY SquareLen
  <2>2. Difference(a, b)[r][c] = Minus(a[r][c], b[r][c])
    BY DifferenceEntries
  <2>3. Sum(a, Scaled(MinusOne, b))[r][c] = Plus(a[r][c], Scaled(MinusOne, b)[r][c])
    BY <1>2, SumEntries
  <2>4. Scaled(MinusOne, b)[r][c] = Times(MinusOne, b[r][c])
    BY <1>1, ScaledEntries
  <2> QED
    BY <2>1, <2>2, <2>3, <2>4, TimesAlgebra DEF MinusOne
<1>5. Difference(a, b) = Sum(a, Scaled(MinusOne, b))
  BY <1>3, <1>4, MatrixEqual
<1> QED
  BY <1>1, <1>5

LEMMA DifferenceLinear ==
  ASSUME NEW d \in Nat, NEW a \in Square(d), NEW b \in Square(d)
  PROVE  /\ Dagger(Difference(a, b)) = Difference(Dagger(a), Dagger(b))
         /\ Trace(Difference(a, b)) = Minus(Trace(a), Trace(b))
<1>1. MinusOne \in RealNumbers /\ MinusOne \in Complex /\ Conj(MinusOne) = MinusOne
  BY DifferenceIsSum, RealNumbersClosed
<1>2. /\ Scaled(MinusOne, b) \in Square(d) /\ Dagger(a) \in Square(d) /\ Dagger(b) \in Square(d)
      /\ Trace(a) \in Complex /\ Trace(b) \in Complex
  BY <1>1, MatrixTypes, TypedNumbers
<1>3. Difference(a, b) = Sum(a, Scaled(MinusOne, b))
  BY DifferenceIsSum
<1>4. Difference(Dagger(a), Dagger(b)) = Sum(Dagger(a), Scaled(MinusOne, Dagger(b)))
  BY <1>2, DifferenceIsSum
<1>5. Dagger(Sum(a, Scaled(MinusOne, b))) = Sum(Dagger(a), Dagger(Scaled(MinusOne, b)))
  BY <1>1, <1>2, DaggerLinear
<1>6. Dagger(Scaled(MinusOne, b)) = Scaled(Conj(MinusOne), Dagger(b))
  BY <1>1, DaggerLinear
<1>7. Trace(Sum(a, Scaled(MinusOne, b))) = Plus(Trace(a), Trace(Scaled(MinusOne, b)))
  BY <1>1, <1>2, TraceLinear
<1>8. Trace(Scaled(MinusOne, b)) = Times(MinusOne, Trace(b))
  BY <1>1, TraceLinear
<1>9. Minus(Trace(a), Trace(b)) = Plus(Trace(a), Times(MinusOne, Trace(b)))
  BY <1>2, TimesAlgebra DEF MinusOne
<1> QED
  BY <1>1, <1>3, <1>4, <1>5, <1>6, <1>7, <1>8, <1>9

\* What leaves a trace where it is, and what is its own conjugate transpose.
Traceless(d) == {m \in Reduced(d) : Trace(m) = Zero}
SelfAdjoint(d) == {m \in Square(d) : Hermitian(m)}

LEMMA TracelessClosed ==
  ASSUME NEW d \in Nat
  PROVE  /\ Traceless(d) \subseteq Square(d)
         /\ \A a, b \in Traceless(d) : Sum(a, b) \in Traceless(d)
         /\ \A a \in Traceless(d), x \in Complex : Scaled(x, a) \in Traceless(d)
         /\ \A a \in Square(d), b \in Traceless(d) : Trace(Sum(a, b)) = Trace(a)
         /\ Zeros(d) \in Traceless(d)
<1>1. Traceless(d) \subseteq Square(d)
  BY MatrixTypes DEF Traceless
<1>2. \A a \in Square(d), b \in Traceless(d) : Trace(Sum(a, b)) = Trace(a)
  <2> TAKE a \in Square(d), b \in Traceless(d)
  <2>1. b \in Square(d) /\ Trace(b) = Zero
    BY <1>1 DEF Traceless
  <2>2. Trace(a) \in Residues /\ Trace(a) \in Complex
    BY MatrixTypes, TypedNumbers
  <2>3. Trace(Sum(a, b)) = Plus(Trace(a), Zero)
    BY <2>1, TypedNumbers, TraceLinear
  <2> QED
    BY <2>2, <2>3, TypedNumbers, PlusAlgebra
<1>3. \A a, b \in Traceless(d) : Sum(a, b) \in Traceless(d)
  <2> TAKE a, b \in Traceless(d)
  <2>1. Sum(a, b) \in Reduced(d)
    BY <1>1, MatrixTypes
  <2> QED
    BY <1>1, <1>2, <2>1 DEF Traceless
<1>4. \A a \in Traceless(d), x \in Complex : Scaled(x, a) \in Traceless(d)
  <2> TAKE a \in Traceless(d), x \in Complex
  <2>1. a \in Square(d) /\ Scaled(x, a) \in Reduced(d)
    BY <1>1, MatrixTypes
  <2>2. Trace(Scaled(x, a)) = Times(x, Zero)
    BY <2>1, TraceLinear DEF Traceless
  <2> QED
    BY <2>1, <2>2, TypedNumbers, TimesAlgebra DEF Traceless
<1>5. Zeros(d) \in Traceless(d)
  <2>1. Zeros(d) \in Reduced(d) /\ Zeros(d) \in Square(d)
    BY MatrixTypes
  <2>2. [k \in 1..d |-> Zeros(d)[k][k]] \in [1..d -> Complex] /\ \A k \in 1..d : Zeros(d)[k][k] = Zero
    BY <2>1, SquareLen, ZerosEntries
  <2>3. Total([k \in 1..d |-> Zeros(d)[k][k]]) = Zero
    BY <2>2, TotalOfZeros
  <2> QED
    BY <2>1, <2>3, SquareLen DEF Trace, Traceless
<1> QED
  BY <1>1, <1>2, <1>3, <1>4, <1>5

LEMMA SelfAdjointClosed ==
  ASSUME NEW d \in Nat
  PROVE  /\ \A a, b \in SelfAdjoint(d) : Sum(a, b) \in SelfAdjoint(d)
         /\ \A a \in SelfAdjoint(d), x \in RealNumbers : Scaled(x, a) \in SelfAdjoint(d)
         /\ Zeros(d) \in SelfAdjoint(d)
<1>1. \A a, b \in SelfAdjoint(d) : Sum(a, b) \in SelfAdjoint(d)
  <2> TAKE a, b \in SelfAdjoint(d)
  <2>1. a \in Square(d) /\ b \in Square(d) /\ Dagger(a) = a /\ Dagger(b) = b
    BY DEF SelfAdjoint, Hermitian
  <2>2. Sum(a, b) \in Square(d)
    BY <2>1, MatrixTypes
  <2>3. Dagger(Sum(a, b)) = Sum(a, b)
    BY <2>1, TypedNumbers, DaggerLinear
  <2> QED
    BY <2>2, <2>3 DEF SelfAdjoint, Hermitian
<1>2. \A a \in SelfAdjoint(d), x \in RealNumbers : Scaled(x, a) \in SelfAdjoint(d)
  <2> TAKE a \in SelfAdjoint(d), x \in RealNumbers
  <2>1. a \in Square(d) /\ Dagger(a) = a /\ x \in Complex /\ Conj(x) = x
    BY RealNumbersClosed DEF SelfAdjoint, Hermitian
  <2>2. Scaled(x, a) \in Square(d)
    BY <2>1, MatrixTypes
  <2>3. Dagger(Scaled(x, a)) = Scaled(x, a)
    BY <2>1, DaggerLinear
  <2> QED
    BY <2>2, <2>3 DEF SelfAdjoint, Hermitian
<1>3. Zeros(d) \in SelfAdjoint(d)
  <2>1. Zeros(d) \in Square(d) /\ Dagger(Zeros(d)) \in Square(d)
    BY MatrixTypes
  <2>2. \A r, c \in 1..d : Dagger(Zeros(d))[r][c] = Zeros(d)[r][c]
    <3> TAKE r, c \in 1..d
    <3>1. Dagger(Zeros(d))[r][c] = Conj(Zeros(d)[c][r])
      BY <2>1, DaggerParts
    <3>2. Zeros(d)[c][r] = Zero /\ Zeros(d)[r][c] = Zero
      BY ZerosEntries
    <3>3. Conj(Zero) = Zero
      BY RealNumbersClosed
    <3> QED
      BY <3>1, <3>2, <3>3
  <2>3. Dagger(Zeros(d)) = Zeros(d)
    BY <2>1, <2>2, MatrixEqual
  <2> QED
    BY <2>1, <2>3 DEF SelfAdjoint, Hermitian
<1> QED
  BY <1>1, <1>2, <1>3

\* -i times a commutator: no trace, and Hermitian where its factors are.
LEMMA TurnedDifference ==
  ASSUME NEW x \in Complex, NEW y \in Complex
  PROVE  /\ Times(<<0, 1>>, Minus(y, x)) = Times(MinusI, Minus(x, y))
         /\ Minus(x, x) = Zero
<1> DEFINE x1 == x[1]
           x2 == x[2]
           y1 == y[1]
           y2 == y[2]
<1>1. x1 \in Int /\ x2 \in Int /\ y1 \in Int /\ y2 \in Int
  BY ComplexParts
<1>2. Minus(y, x) = <<Real(y1 - x1), Real(y2 - x2)>> /\ Minus(x, y) = <<Real(x1 - y1), Real(x2 - y2)>>
      /\ Minus(x, x) = <<Real(x1 - x1), Real(x2 - x2)>>
  BY DEF Minus
<1> HIDE DEF x1, x2, y1, y2
<1>3. \A u, v \in Int : 0 * u - 1 * v = -v /\ 0 * v + u * 1 = u /\ 0 * v + 1 * u = u
                        /\ 0 * u - (-1) * v = v /\ 0 * v + (-1) * u = -u
                        /\ -(u - v) = v - u /\ u - v \in Int /\ u - u = 0
  OBVIOUS
<1>4. \A u, v \in Int : Real(u - v) \in Int /\ Real(-Real(u - v)) = Real(v - u) /\ Real(Real(u - v)) = Real(u - v)
  BY <1>3, RealInt, RealAbsorbs
<1>5. Times(<<0, 1>>, Minus(y, x)) = <<Real(x2 - y2), Real(y1 - x1)>>
  <2>0. \A u, v \in Int : Times(<<0, 1>>, <<u, v>>) = <<Real(-v), Real(u)>>
    BY <1>3 DEF Times
  <2>1. Times(<<0, 1>>, Minus(y, x)) = <<Real(-Real(y2 - x2)), Real(Real(y1 - x1))>>
    <3>1. Real(y1 - x1) \in Int /\ Real(y2 - x2) \in Int
      BY <1>1, <1>4
    <3>2. Minus(y, x) = <<Real(y1 - x1), Real(y2 - x2)>>
      BY <1>2
    <3> QED
      BY <2>0, <3>1, <3>2
  <2> QED
    BY <1>1, <1>4, <2>1
<1>6. Times(MinusI, Minus(x, y)) = <<Real(x2 - y2), Real(y1 - x1)>>
  <2>0. \A u, v \in Int : Times(MinusI, <<u, v>>) = <<Real(v), Real(-u)>>
    BY <1>3 DEF Times, MinusI
  <2>1. Times(MinusI, Minus(x, y)) = <<Real(Real(x2 - y2)), Real(-Real(x1 - y1))>>
    BY <1>1, <1>2, <1>4, <2>0
  <2> QED
    BY <1>1, <1>4, <2>1
<1> QED
  BY <1>1, <1>2, <1>3, <1>5, <1>6, RealOfSmall DEF Zero

LEMMA CommutatorTurns ==
  ASSUME NEW d \in Nat, NEW h \in Square(d), NEW r \in Square(d)
  PROVE  /\ Scaled(MinusI, Commutator(h, r)) \in Traceless(d)
         /\ h \in SelfAdjoint(d) /\ r \in SelfAdjoint(d) => Scaled(MinusI, Commutator(h, r)) \in SelfAdjoint(d)
<1>1. MinusI \in Complex /\ Conj(MinusI) = <<0, 1>> /\ <<0, 1>> \in Complex
  <2>1. \A x \in Int : -(-x) = x /\ -x \in Int
    OBVIOUS
  <2>2. 1 \in Int /\ 0 \in Int
    OBVIOUS
  <2>3. -(-1) = 1 /\ -1 \in Int
    BY <2>1, <2>2, Zenon
  <2>4. MinusI \in Complex /\ <<0, 1>> \in Complex
    BY <2>2, <2>3 DEF MinusI, Complex
  <2>5. Conj(MinusI) = <<0, Real(-(-1))>>
    BY DEF Conj, MinusI
  <2> QED
    BY <2>3, <2>4, <2>5, RealOfSmall
<1> DEFINE p == Dot(h, r)
           q == Dot(r, h)
           c == Commutator(h, r)
<1>2. p \in Square(d) /\ q \in Square(d) /\ c = Difference(p, q) /\ Trace(p) \in Complex
  BY MatrixTypes, TypedNumbers DEF Commutator
<1>3. Trace(p) = Trace(q)
  BY TraceCyclic
<1>4. ASSUME h \in SelfAdjoint(d), r \in SelfAdjoint(d) PROVE Dagger(p) = q /\ Dagger(q) = p
  <2>1. Dagger(h) = h /\ Dagger(r) = r
    BY <1>4 DEF SelfAdjoint, Hermitian
  <2> QED
    BY <2>1, DaggerOfDot
<1> HIDE DEF p, q, c
<1>5. c \in Reduced(d) /\ c \in Square(d)
  BY <1>2, MatrixTypes
<1>6. Trace(c) = Zero
  <2>1. Trace(c) = Minus(Trace(p), Trace(q))
    BY <1>2, DifferenceLinear
  <2> QED
    BY <1>2, <1>3, <2>1, TurnedDifference
<1>7. Scaled(MinusI, c) \in Traceless(d)
  BY <1>1, <1>5, <1>6, TracelessClosed DEF Traceless
<1>8. ASSUME h \in SelfAdjoint(d), r \in SelfAdjoint(d) PROVE Scaled(MinusI, c) \in SelfAdjoint(d)
  <2>1. Dagger(c) = Difference(q, p)
    BY <1>2, <1>4, <1>8, DifferenceLinear
  <2>2. Dagger(Scaled(MinusI, c)) = Scaled(<<0, 1>>, Difference(q, p))
    BY <1>1, <1>5, <2>1, DaggerLinear
  <2>3. Difference(q, p) \in Square(d)
    BY <1>2, MatrixTypes
  <2>4. Scaled(MinusI, c) \in Square(d) /\ Scaled(<<0, 1>>, Difference(q, p)) \in Square(d)
    BY <1>1, <1>5, <2>3, MatrixTypes
  <2>5. ASSUME NEW j \in 1..d, NEW k \in 1..d
        PROVE  Scaled(<<0, 1>>, Difference(q, p))[j][k] = Scaled(MinusI, c)[j][k]
    <3>1. p[j][k] \in Complex /\ q[j][k] \in Complex
      BY <1>2, SquareLen
    <3>2. Scaled(<<0, 1>>, Difference(q, p))[j][k] = Times(<<0, 1>>, Difference(q, p)[j][k])
      BY <1>1, <2>3, ScaledEntries
    <3>3. Scaled(MinusI, c)[j][k] = Times(MinusI, Difference(p, q)[j][k])
      BY <1>1, <1>2, <1>5, ScaledEntries
    <3>4. Difference(q, p)[j][k] = Minus(q[j][k], p[j][k]) /\ Difference(p, q)[j][k] = Minus(p[j][k], q[j][k])
      BY <1>2, DifferenceEntries
    <3> QED
      BY <3>1, <3>2, <3>3, <3>4, TurnedDifference
  <2>6. Scaled(<<0, 1>>, Difference(q, p)) = Scaled(MinusI, c)
    BY <2>4, <2>5, MatrixEqual
  <2> QED
    BY <2>2, <2>4, <2>6 DEF SelfAdjoint, Hermitian
<1> QED
  BY <1>7, <1>8 DEF c

-----------------------------------------------------------------------------
(* One step of the integrators                                              *)

\* A collapse operator takes no trace, and no Hermiticity (dissipator).
LEMMA DissipatorKeeps ==
  ASSUME NEW d \in Nat, NEW op, op.matrix \in Reduced(d), op.rate \in RealNumbers, NEW r \in Square(d)
  PROVE  /\ Dissipator(op, r) \in Traceless(d)
         /\ r \in SelfAdjoint(d) => Dissipator(op, r) \in SelfAdjoint(d)
<1> DEFINE l == op.matrix
           decay == Dot(Dagger(l), l)
           a == Dot(Dot(l, r), Dagger(l))
           p == Dot(decay, r)
           q == Dot(r, decay)
           u == Scaled(Half, p)
           v == Scaled(Half, q)
           m == Difference(Difference(a, u), v)
<1>1. l \in Reduced(d) /\ l \in Square(d) /\ Dagger(l) \in Square(d) /\ op.rate \in Complex
  BY MatrixTypes, RealNumbersClosed
<1>2. decay \in Square(d) /\ Dot(l, r) \in Square(d) /\ Dot(r, Dagger(l)) \in Square(d)
  BY <1>1, MatrixTypes
<1>3. Half \in Complex /\ Half \in RealNumbers
  BY Fractions, RealNumbersClosed
<1>4. a \in Square(d) /\ p \in Square(d) /\ q \in Square(d) /\ u \in Square(d) /\ v \in Square(d)
  <2>1. a \in Square(d) /\ p \in Square(d) /\ q \in Square(d)
    BY <1>1, <1>2, MatrixTypes
  <2> HIDE DEF p, q
  <2>2. u \in Square(d) /\ v \in Square(d)
    BY <1>3, <2>1, MatrixTypes
  <2> QED
    BY <2>1, <2>2
<1>5. Trace(a) = Trace(p) /\ Trace(q) = Trace(p)
  <2>1. Trace(a) = Trace(Dot(Dagger(l), Dot(l, r)))
    BY <1>1, <1>2, TraceCyclic
  <2>2. Dot(Dot(Dagger(l), l), r) = Dot(Dagger(l), Dot(l, r))
    BY <1>1, DotAssociates
  <2>3. Trace(Dot(r, decay)) = Trace(Dot(decay, r))
    BY <1>2, TraceCyclic
  <2> QED
    BY <2>1, <2>2, <2>3
<1>6. ASSUME r \in SelfAdjoint(d) PROVE Dagger(a) = a /\ Dagger(p) = q /\ Dagger(q) = p
  <2>1. Dagger(r) = r /\ Dagger(Dagger(l)) = l
    BY <1>1, <1>6, TypedNumbers, DaggerLinear DEF SelfAdjoint, Hermitian
  <2>2. Dagger(decay) = decay
    BY <1>1, <2>1, DaggerOfDot
  <2>3. Dagger(p) = q /\ Dagger(q) = p
    <3> HIDE DEF decay
    <3>1. Dagger(Dot(decay, r)) = Dot(Dagger(r), Dagger(decay))
      BY <1>2, DaggerOfDot
    <3>2. Dagger(Dot(r, decay)) = Dot(Dagger(decay), Dagger(r))
      BY <1>2, DaggerOfDot
    <3> QED
      BY <2>1, <2>2, <3>1, <3>2
  <2>4. Dagger(a) = Dot(Dagger(Dagger(l)), Dagger(Dot(l, r)))
    BY <1>1, <1>2, DaggerOfDot
  <2>5. Dagger(Dot(l, r)) = Dot(Dagger(r), Dagger(l))
    BY <1>1, DaggerOfDot
  <2>6. Dot(Dot(l, r), Dagger(l)) = Dot(l, Dot(r, Dagger(l)))
    BY <1>1, DotAssociates
  <2> QED
    BY <2>1, <2>3, <2>4, <2>5, <2>6
<1>7. Dissipator(op, r) = IF op.rate = Zero THEN Zeros(d) ELSE Scaled(op.rate, m)
  BY SquareLen DEF Dissipator
<1> HIDE DEF l, decay, a, p, q
<1>8. Difference(a, u) \in Square(d) /\ m \in Reduced(d) /\ m \in Square(d)
  <2>1. Difference(a, u) \in Square(d)
    BY <1>4, MatrixTypes
  <2> QED
    BY <1>4, <2>1, MatrixTypes
<1>9. Trace(m) = Zero
  <2>1. Trace(m) = Minus(Trace(Difference(a, u)), Trace(v))
    BY <1>4, <1>8, DifferenceLinear
  <2>2. Trace(Difference(a, u)) = Minus(Trace(a), Trace(u))
    BY <1>4, DifferenceLinear
  <2>3. Trace(u) = Times(Half, Trace(p)) /\ Trace(v) = Times(Half, Trace(q))
    BY <1>3, <1>4, TraceLinear
  <2>4. Trace(p) \in Complex
    BY <1>4, MatrixTypes, TypedNumbers
  <2> QED
    BY <1>5, <2>1, <2>2, <2>3, <2>4, Fractions
<1>10. m \in Traceless(d)
  BY <1>8, <1>9 DEF Traceless
<1>11. ASSUME r \in SelfAdjoint(d) PROVE m \in SelfAdjoint(d)
  <2>1. Dagger(u) = v /\ Dagger(v) = u
    <3>1. Conj(Half) = Half
      BY <1>3, RealNumbersClosed
    <3>2. Dagger(u) = Scaled(Half, Dagger(p)) /\ Dagger(v) = Scaled(Half, Dagger(q))
      BY <1>3, <1>4, <3>1, DaggerLinear
    <3> QED
      BY <1>6, <1>11, <3>2
  <2>2. Dagger(m) = Difference(Dagger(Difference(a, u)), Dagger(v))
    BY <1>4, <1>8, DifferenceLinear
  <2>3. Dagger(Difference(a, u)) = Difference(Dagger(a), Dagger(u))
    BY <1>4, DifferenceLinear
  <2>4. Dagger(m) = Difference(Difference(a, v), u)
    BY <1>6, <1>11, <2>1, <2>2, <2>3
  <2> HIDE DEF u, v
  <2>5. Difference(a, v) \in Square(d) /\ Difference(Difference(a, v), u) \in Square(d)
    <3>1. Difference(a, v) \in Square(d)
      BY <1>4, MatrixTypes
    <3> QED
      BY <1>4, <3>1, MatrixTypes
  <2>6. ASSUME NEW j \in 1..d, NEW k \in 1..d PROVE Difference(Difference(a, v), u)[j][k] = m[j][k]
    <3>1. a[j][k] \in Complex /\ u[j][k] \in Complex /\ v[j][k] \in Complex
      BY <1>4, SquareLen
    <3>2. Difference(Difference(a, v), u)[j][k] = Minus(Difference(a, v)[j][k], u[j][k])
      BY <1>4, <2>5, DifferenceEntries
    <3>3. m[j][k] = Minus(Difference(a, u)[j][k], v[j][k])
      BY <1>4, <1>8, DifferenceEntries
    <3>4. Difference(a, v)[j][k] = Minus(a[j][k], v[j][k]) /\ Difference(a, u)[j][k] = Minus(a[j][k], u[j][k])
      BY <1>4, DifferenceEntries
    <3> DEFINE x == a[j][k]
               y == Times(MinusOne, u[j][k])
               z == Times(MinusOne, v[j][k])
    <3>5. x \in Complex /\ y \in Complex /\ z \in Complex
      BY <3>1, DifferenceIsSum, RealNumbersClosed, TypedNumbers
    <3>6. Minus(a[j][k], v[j][k]) = Plus(x, z) /\ Minus(a[j][k], u[j][k]) = Plus(x, y)
      BY <3>1, TimesAlgebra DEF MinusOne
    <3>7. \A w \in Complex : Minus(w, v[j][k]) = Plus(w, z) /\ Minus(w, u[j][k]) = Plus(w, y)
      BY <3>1, TimesAlgebra DEF MinusOne
    <3> HIDE DEF x, y, z
    <3>8. Plus(x, z) \in Complex /\ Plus(x, y) \in Complex
      BY <3>5, TypedNumbers
    <3>9. Plus(Plus(x, z), y) = Plus(Plus(x, y), z)
      <4>1. Plus(Plus(x, z), y) = Plus(x, Plus(z, y)) /\ Plus(Plus(x, y), z) = Plus(x, Plus(y, z))
        BY <3>5, PlusAlgebra
      <4>2. Plus(z, y) = Plus(y, z)
        BY <3>5, PlusAlgebra
      <4> QED
        BY <4>1, <4>2
    <3> QED
      BY <3>2, <3>3, <3>4, <3>6, <3>7, <3>8, <3>9
  <2>7. Difference(Difference(a, v), u) = m
    BY <1>8, <2>5, <2>6, MatrixEqual
  <2> QED
    BY <1>8, <2>4, <2>7 DEF SelfAdjoint, Hermitian
<1> HIDE DEF m
<1>12. CASE op.rate = Zero
  BY <1>7, <1>12, TracelessClosed, SelfAdjointClosed
<1>13. CASE op.rate # Zero
  <2>1. Scaled(op.rate, m) \in Traceless(d)
    BY <1>1, <1>10, TracelessClosed
  <2>2. r \in SelfAdjoint(d) => Scaled(op.rate, m) \in SelfAdjoint(d)
    BY <1>11, SelfAdjointClosed
  <2> QED
    BY <1>7, <1>13, <2>1, <2>2
<1> QED
  BY <1>12, <1>13

\* Numbers of a call by which its arithmetic divides.
Divisors(t1, t2) == t1 \in Int /\ t2 \in Int /\ t1 % Modulus # 0 /\ t2 % Modulus # 0

LEMMA Decays ==
  ASSUME NEW t1, NEW t2, Divisors(t1, t2)
  PROVE  /\ Len(FromT1T2(t1, t2)) = 2 /\ DOMAIN FromT1T2(t1, t2) = 1..2
         /\ \A k \in 1..2 : /\ FromT1T2(t1, t2)[k].matrix \in Reduced(2)
                            /\ Len(FromT1T2(t1, t2)[k].matrix) = 2
                            /\ FromT1T2(t1, t2)[k].rate \in RealNumbers
<1>1. t1 \in Int /\ t2 \in Int /\ t1 % Modulus # 0 /\ t2 % Modulus # 0 /\ 2 \in Int /\ 1 \in Int /\ 2 * t1 \in Int
  BY DEF Divisors
<1>2. 2 % Modulus # 0
  BY ModulusFacts
<1>3. (2 * t1) % Modulus # 0
  BY <1>1, <1>2, NoMultiples
<1>4. Ratio(1, t1) \in RealNumbers /\ Ratio(1, t2) \in RealNumbers /\ Ratio(1, 2 * t1) \in RealNumbers
  BY <1>1, <1>3, Quotients
<1>5. AmplitudeDamping(t1).rate \in RealNumbers /\ PureDephasing(t1, t2).rate \in RealNumbers
  BY <1>4, RealNumbersClosed DEF AmplitudeDamping, PureDephasing
<1>6. Zero \in Residues /\ One \in Residues /\ Half \in Residues
  BY TypedNumbers, Fractions
<1>7. <<Real(-Half[1]), 0>> \in Residues
  <2>1. Half[1] \in Int /\ -Half[1] \in Int
    BY <1>6, ComplexParts DEF Residues
  <2>2. Real(-Half[1]) \in Int /\ Real(Real(-Half[1])) = Real(-Half[1])
    BY <2>1, RealInt, RealAbsorbs
  <2> QED
    BY <2>2, RealOfSmall DEF Residues, Complex
<1>8. \A w, x, y, z \in Residues : <<<<w, x>>, <<y, z>>>> \in Reduced(2) /\ Len(<<<<w, x>>, <<y, z>>>>) = 2
  BY DEF Reduced
<1>9. AmplitudeDamping(t1).matrix \in Reduced(2) /\ Len(AmplitudeDamping(t1).matrix) = 2
  BY <1>6, <1>8 DEF AmplitudeDamping
<1>10. PureDephasing(t1, t2).matrix \in Reduced(2) /\ Len(PureDephasing(t1, t2).matrix) = 2
  BY <1>6, <1>7, <1>8 DEF PureDephasing
<1>11. \A k \in 1..2 : k = 1 \/ k = 2
  OBVIOUS
<1> QED
  BY <1>5, <1>9, <1>10, <1>11 DEF FromT1T2

\* An operator added to the dissipator of those before it.
Added(op, r, sum) == IF Len(op.matrix) # Len(r) THEN sum ELSE Sum(sum, Dissipator(op, r))

LEMMA TotalOfTwo ==
  ASSUME NEW d \in Nat, NEW r \in Square(d), NEW x, NEW y,
         \A sum \in Square(d) : Added(x, r, sum) \in Square(d) /\ Added(y, r, sum) \in Square(d)
  PROVE  TotalDissipator(<<x, y>>, r) = Added(y, r, Added(x, r, Zeros(d)))
<1> DEFINE s == <<x, y>>
           Is(g) == g = [t \in SUBSET (1..2) |->
                           IF t = {} THEN Zeros(Len(r)) ELSE Added(s[Max(t)], r, g[t \ {Max(t)}])]
           f == CHOOSE g : Is(g)
<1>1. DOMAIN s = 1..2 /\ Len(r) = d /\ s[1] = x /\ s[2] = y
  BY SquareLen
<1>2. TotalDissipator(s, r) = f[1..2]
  BY <1>1 DEF TotalDissipator, FoldLeft, MapThenFoldSet, Added
<1> HIDE DEF s
<1> DEFINE G == [p \in (1..2) \X Square(d) |-> Added(s[p[1]], r, p[2])]
<1>3. Zeros(d) \in Square(d) /\ \A k \in 1..2 : k = 1 \/ k = 2
  BY MatrixTypes
<1>4. \A k \in 1..2, sum \in Square(d) : Added(s[k], r, sum) \in Square(d)
  BY <1>1, <1>3
<1>5. G \in [(1..2) \X Square(d) -> Square(d)]
  BY <1>4
<1>6. PICK h \in [SUBSET (1..2) -> Square(d)] : IsFold(h, 2, Zeros(d), G)
  <2> HIDE DEF G
  <2> QED
    BY <1>3, <1>5, FoldExists
<1>7. \A t \in SUBSET (1..2) : t # {} => Max(t) \in 1..2 /\ t \ {Max(t)} \in SUBSET (1..2)
  BY MaxFacts
<1>8. ASSUME NEW t \in SUBSET (1..2), t # {}
      PROVE  h[t] = Added(s[Max(t)], r, h[t \ {Max(t)}])
  <2>1. h[t] = G[<<Max(t), h[t \ {Max(t)}]>>] /\ h[t \ {Max(t)}] \in Square(d)
    BY <1>6, <1>7, <1>8 DEF IsFold
  <2> QED
    BY <1>7, <1>8, <2>1
<1>9. Is(h)
  <2>1. h[{}] = Zeros(Len(r)) /\ {} \in SUBSET (1..2)
    BY <1>1, <1>6 DEF IsFold
  <2>2. \A t \in SUBSET (1..2) :
          h[t] = IF t = {} THEN Zeros(Len(r)) ELSE Added(s[Max(t)], r, h[t \ {Max(t)}])
    BY <1>8, <2>1
  <2> HIDE DEF G
  <2> QED
    BY <1>6, <2>2
<1>10. Is(f)
  BY <1>9
<1> HIDE DEF f
<1>11. f[{}] = Zeros(d) /\ \A t \in SUBSET (1..2) : t # {} => f[t] = Added(s[Max(t)], r, f[t \ {Max(t)}])
  BY <1>1, <1>10
<1>12. /\ 1..2 # {} /\ Max(1..2) = 2 /\ (1..2) \ {2} = 1..1
       /\ 1..1 # {} /\ Max(1..1) = 1 /\ (1..1) \ {1} = {}
  <2>1. 2 \in Nat \ {0} /\ 1 \in Nat \ {0} /\ 2 - 1 = 1 /\ 1 - 1 = 0 /\ 1..0 = {}
    OBVIOUS
  <2> QED
    BY <2>1, FirstFacts
<1>13. f[1..2] = Added(s[2], r, f[1..1]) /\ f[1..1] = Added(s[1], r, f[{}])
  <2>1. 1..2 \in SUBSET (1..2) /\ 1..1 \in SUBSET (1..2)
    OBVIOUS
  <2> QED
    BY <1>11, <1>12, <2>1
<1> QED
  BY <1>1, <1>2, <1>11, <1>13 DEF s

LEMMA DissipationKeeps ==
  ASSUME NEW d \in Nat, NEW r \in Square(d), NEW t1, NEW t2, Divisors(t1, t2)
  PROVE  /\ TotalDissipator(FromT1T2(t1, t2), r) \in Traceless(d)
         /\ r \in SelfAdjoint(d) => TotalDissipator(FromT1T2(t1, t2), r) \in SelfAdjoint(d)
<1> DEFINE x == FromT1T2(t1, t2)[1]
           y == FromT1T2(t1, t2)[2]
<1>1. FromT1T2(t1, t2) = <<x, y>> /\ 1 \in 1..2 /\ 2 \in 1..2
  BY DEF FromT1T2
<1>2. /\ x.matrix \in Reduced(2) /\ Len(x.matrix) = 2 /\ x.rate \in RealNumbers
      /\ y.matrix \in Reduced(2) /\ Len(y.matrix) = 2 /\ y.rate \in RealNumbers
  BY <1>1, Decays
<1> HIDE DEF x, y
<1>3. Len(r) = d
  BY SquareLen
<1>4. ASSUME d = 2
      PROVE  /\ Dissipator(x, r) \in Traceless(d) /\ Dissipator(y, r) \in Traceless(d)
             /\ r \in SelfAdjoint(d) => Dissipator(x, r) \in SelfAdjoint(d) /\ Dissipator(y, r) \in SelfAdjoint(d)
  BY <1>2, <1>4, DissipatorKeeps
<1>5. /\ \A sum \in Square(d) : Added(x, r, sum) \in Square(d) /\ Added(y, r, sum) \in Square(d)
      /\ \A sum \in Traceless(d) : Added(x, r, sum) \in Traceless(d) /\ Added(y, r, sum) \in Traceless(d)
      /\ r \in SelfAdjoint(d) => \A sum \in SelfAdjoint(d) :
           Added(x, r, sum) \in SelfAdjoint(d) /\ Added(y, r, sum) \in SelfAdjoint(d)
  <2>1. CASE d # 2
    BY <1>2, <1>3, <2>1 DEF Added
  <2>2. CASE d = 2
    <3>1. \A sum \in Square(d) : Added(x, r, sum) = Sum(sum, Dissipator(x, r))
                                 /\ Added(y, r, sum) = Sum(sum, Dissipator(y, r))
      BY <1>2, <1>3, <2>2 DEF Added
    <3>2. Dissipator(x, r) \in Square(d) /\ Dissipator(y, r) \in Square(d)
      BY <1>4, <2>2, TracelessClosed
    <3>3. \A sum \in Square(d) : Sum(sum, Dissipator(x, r)) \in Square(d) /\ Sum(sum, Dissipator(y, r)) \in Square(d)
      BY <3>2, MatrixTypes
    <3>4. \A sum \in Traceless(d) : Sum(sum, Dissipator(x, r)) \in Traceless(d) /\ Sum(sum, Dissipator(y, r)) \in Traceless(d)
      BY <1>4, <2>2, TracelessClosed
    <3>5. r \in SelfAdjoint(d) => \A sum \in SelfAdjoint(d) :
            Sum(sum, Dissipator(x, r)) \in SelfAdjoint(d) /\ Sum(sum, Dissipator(y, r)) \in SelfAdjoint(d)
      BY <1>4, <2>2, SelfAdjointClosed
    <3>6. Traceless(d) \subseteq Square(d) /\ SelfAdjoint(d) \subseteq Square(d)
      BY TracelessClosed DEF SelfAdjoint
    <3> QED
      BY <3>1, <3>3, <3>4, <3>5, <3>6
  <2> QED
    BY <2>1, <2>2
<1>6. TotalDissipator(<<x, y>>, r) = Added(y, r, Added(x, r, Zeros(d)))
  BY <1>5, TotalOfTwo
<1> QED
  BY <1>1, <1>5, <1>6, TracelessClosed, SelfAdjointClosed

LEMMA RhsKeeps ==
  ASSUME NEW d \in Nat, NEW h \in Square(d), NEW r \in Square(d), NEW t1, NEW t2, Divisors(t1, t2)
  PROVE  /\ LindbladRhs(h, FromT1T2(t1, t2), r) \in Traceless(d)
         /\ h \in SelfAdjoint(d) /\ r \in SelfAdjoint(d) => LindbladRhs(h, FromT1T2(t1, t2), r) \in SelfAdjoint(d)
<1> DEFINE p == Scaled(MinusI, Commutator(h, r))
           q == TotalDissipator(FromT1T2(t1, t2), r)
<1>1. p \in Traceless(d) /\ (h \in SelfAdjoint(d) /\ r \in SelfAdjoint(d) => p \in SelfAdjoint(d))
  BY CommutatorTurns
<1>2. q \in Traceless(d) /\ (r \in SelfAdjoint(d) => q \in SelfAdjoint(d))
  BY DissipationKeeps
<1>3. LindbladRhs(h, FromT1T2(t1, t2), r) = Sum(p, q)
  BY DEF LindbladRhs
<1> HIDE DEF p, q
<1> QED
  BY <1>1, <1>2, <1>3, TracelessClosed, SelfAdjointClosed

\* A step of the integrator keeps the trace, and Hermiticity (rk4_step).
LEMMA StepKeeps ==
  ASSUME NEW d \in Nat, NEW h \in Square(d), NEW r \in Square(d), NEW t1, NEW t2, Divisors(t1, t2),
         NEW dt \in RealNumbers
  PROVE  LET next == Rk4Step(r, h, FromT1T2(t1, t2), dt)
         IN /\ next \in Square(d) /\ Trace(next) = Trace(r)
            /\ h \in SelfAdjoint(d) /\ r \in SelfAdjoint(d) => next \in SelfAdjoint(d)
<1> DEFINE ops == FromT1T2(t1, t2)
           half == Times(Half, dt)
           two == <<2, 0>>
           sixth == Times(Sixth, dt)
           k1 == LindbladRhs(h, ops, r)
           r2 == Sum(r, Scaled(half, k1))
           k2 == LindbladRhs(h, ops, r2)
           r3 == Sum(r, Scaled(half, k2))
           k3 == LindbladRhs(h, ops, r3)
           r4 == Sum(r, Scaled(dt, k3))
           k4 == LindbladRhs(h, ops, r4)
           slopes == Sum(Sum(k1, Scaled(two, k2)), Sum(Scaled(two, k3), k4))
           kept == h \in SelfAdjoint(d) /\ r \in SelfAdjoint(d)
<1>1. half \in RealNumbers /\ two \in RealNumbers /\ sixth \in RealNumbers
  BY RealNumbersClosed, Fractions
<1>2. half \in Complex /\ two \in Complex /\ sixth \in Complex /\ dt \in Complex
  BY <1>1, RealNumbersClosed
<1>3. \A s \in Square(d) : /\ LindbladRhs(h, ops, s) \in Traceless(d)
                           /\ kept /\ s \in SelfAdjoint(d) => LindbladRhs(h, ops, s) \in SelfAdjoint(d)
  <2> TAKE s \in Square(d)
  <2> QED
    BY RhsKeeps
<1>4. Rk4Step(r, h, ops, dt) = Sum(r, Scaled(sixth, slopes))
  BY DEF Rk4Step
<1> HIDE DEF half, two, sixth, ops
<1>5. \A s \in Traceless(d), x \in RealNumbers :
        /\ Sum(r, Scaled(x, s)) \in Square(d) /\ Trace(Sum(r, Scaled(x, s))) = Trace(r)
        /\ kept /\ s \in SelfAdjoint(d) => Sum(r, Scaled(x, s)) \in SelfAdjoint(d)
  <2> TAKE s \in Traceless(d), x \in RealNumbers
  <2>1. Scaled(x, s) \in Traceless(d) /\ Scaled(x, s) \in Square(d)
    BY RealNumbersClosed, TracelessClosed
  <2>2. Sum(r, Scaled(x, s)) \in Square(d)
    BY <2>1, MatrixTypes
  <2>3. Trace(Sum(r, Scaled(x, s))) = Trace(r)
    BY <2>1, TracelessClosed
  <2>4. kept /\ s \in SelfAdjoint(d) => Sum(r, Scaled(x, s)) \in SelfAdjoint(d)
    BY SelfAdjointClosed
  <2> QED
    BY <2>2, <2>3, <2>4
<1> HIDE DEF kept
<1>6. k1 \in Traceless(d) /\ (kept => k1 \in SelfAdjoint(d))
  BY <1>3 DEF kept
<1> HIDE DEF k1
<1>7. r2 \in Square(d) /\ (kept => r2 \in SelfAdjoint(d))
  BY <1>1, <1>5, <1>6
<1> HIDE DEF r2
<1>8. k2 \in Traceless(d) /\ (kept => k2 \in SelfAdjoint(d))
  BY <1>3, <1>7
<1> HIDE DEF k2
<1>9. r3 \in Square(d) /\ (kept => r3 \in SelfAdjoint(d))
  BY <1>1, <1>5, <1>8
<1> HIDE DEF r3
<1>10. k3 \in Traceless(d) /\ (kept => k3 \in SelfAdjoint(d))
  BY <1>3, <1>9
<1> HIDE DEF k3
<1>11. r4 \in Square(d) /\ (kept => r4 \in SelfAdjoint(d))
  BY <1>5, <1>10
<1> HIDE DEF r4
<1>12. k4 \in Traceless(d) /\ (kept => k4 \in SelfAdjoint(d))
  BY <1>3, <1>11
<1> HIDE DEF k4
<1>13. /\ Scaled(two, k2) \in Traceless(d) /\ Scaled(two, k3) \in Traceless(d)
       /\ kept => Scaled(two, k2) \in SelfAdjoint(d) /\ Scaled(two, k3) \in SelfAdjoint(d)
  BY <1>1, <1>2, <1>8, <1>10, TracelessClosed, SelfAdjointClosed
<1>14. slopes \in Traceless(d) /\ (kept => slopes \in SelfAdjoint(d))
  BY <1>6, <1>12, <1>13, TracelessClosed, SelfAdjointClosed
<1> HIDE DEF slopes
<1> QED
  BY <1>1, <1>4, <1>5, <1>14 DEF kept, ops

-----------------------------------------------------------------------------
(* The integrators keep the state                                           *)

\* The state of a solution that has begun: its call was accepted, and the matrix reached
\* has the trace and the Hermiticity of the one it started from.
Integrated(call, r, k, states) ==
  LET initial == FlatToComplexMatrix(call.rho, call.dim)
      hermitian == \A j \in DOMAIN call.hamiltonians :
                     FlatToComplexMatrix(call.hamiltonians[j], call.dim) \in SelfAdjoint(call.dim)
  IN /\ call \in LindbladCalls /\ TimesAccepted(call.t1, call.t2) /\ call.num_time_steps # 0
     /\ Flattened(call.rho, call.dim)
     /\ \A j \in DOMAIN call.hamiltonians : Flattened(call.hamiltonians[j], call.dim)
     /\ k \in 0..Len(call.hamiltonians)
     /\ r \in Square(call.dim) /\ Trace(r) = Trace(initial)
     /\ initial \in SelfAdjoint(call.dim) /\ hermitian => r \in SelfAdjoint(call.dim)
     /\ call.store_trajectory =>
          /\ states \in Seq(Square(call.dim)) /\ Len(states) = k + 1
          /\ states[1] = initial /\ states[k + 1] = r

LindbladInv ==
  /\ lphase = "idle" => slice = 0
  /\ lphase \in {"integrating", "returned"} => Integrated(lcall, rho, slice, trajectory)

LEMMA CallTyped ==
  ASSUME NEW call \in LindbladCalls, TimesAccepted(call.t1, call.t2), call.num_time_steps # 0
  PROVE  /\ call.dim \in Nat /\ call.rho \in Seq(Int) /\ call.hamiltonians \in Seq(Seq(Int))
         /\ Divisors(call.t1, call.t2) /\ Ratio(call.duration_ns, call.num_time_steps) \in RealNumbers
<1>1. /\ call.num_time_steps \in Nat /\ call.dim \in Nat /\ call.duration_ns \in Int
      /\ call.rho \in Seq(Int) /\ call.hamiltonians \in Seq(Seq(Int))
      /\ Divisor(call.t1) /\ Divisor(call.t2) /\ Divisor(call.num_time_steps)
  BY LindbladAssumption
<1>2. call.t1 \in Int /\ call.t2 \in Int /\ call.t1 > 0 /\ call.t2 > 0
  BY <1>1 DEF Divisor, TimesAccepted
<1>3. Divisors(call.t1, call.t2)
  BY <1>1, <1>2 DEF Divisor, Divisors
<1>4. call.num_time_steps \in Int /\ call.num_time_steps % Modulus # 0
  BY <1>1 DEF Divisor
<1> QED
  BY <1>1, <1>3, <1>4, Quotients

LEMMA SolveLindbladStep ==
  ASSUME LindbladInv, NEW call \in LindbladCalls, SolveLindblad(call)
  PROVE  LindbladInv'
<1> DEFINE initial == FlatToComplexMatrix(call.rho, call.dim)
<1>1. lphase = "idle" /\ slice = 0 /\ slice' = 0
  BY DEF LindbladInv, SolveLindblad
<1>2. CASE lphase' = "refused"
  BY <1>2 DEF LindbladInv
<1>3. CASE lphase' # "refused"
  <2>1. /\ lcall' = call /\ rho' = initial /\ trajectory' = IF call.store_trajectory THEN <<initial>> ELSE <<>>
        /\ TimesAccepted(call.t1, call.t2) /\ call.num_time_steps # 0 /\ Flattened(call.rho, call.dim)
        /\ \A j \in DOMAIN call.hamiltonians : Flattened(call.hamiltonians[j], call.dim)
        /\ lphase' = "integrating"
    BY <1>3 DEF SolveLindblad
  <2>2. call.dim \in Nat /\ call.rho \in Seq(Int) /\ call.hamiltonians \in Seq(Seq(Int))
    BY <2>1, CallTyped
  <2>3. initial \in Square(call.dim)
    BY <2>1, <2>2, FlatTyped
  <2> HIDE DEF initial
  <2>4. 0 \in 0..Len(call.hamiltonians)
    BY <2>2
  <2>5. call.store_trajectory =>
          /\ trajectory' \in Seq(Square(call.dim)) /\ Len(trajectory') = 0 + 1
          /\ trajectory'[1] = initial /\ trajectory'[0 + 1] = initial
    BY <2>1, <2>3
  <2>6. Integrated(call, initial, 0, trajectory')
    BY <2>1, <2>2, <2>3, <2>4, <2>5 DEF Integrated, initial
  <2> QED
    BY <1>1, <2>1, <2>6 DEF LindbladInv
<1> QED
  BY <1>2, <1>3

LEMMA IntegrateSliceStep ==
  ASSUME LindbladInv, IntegrateSlice
  PROVE  LindbladInv'
<1> DEFINE call == lcall
           d == lcall.dim
           h == FlatToComplexMatrix(lcall.hamiltonians[slice'], lcall.dim)
           initial == FlatToComplexMatrix(lcall.rho, lcall.dim)
           hermitian == \A j \in DOMAIN lcall.hamiltonians :
                          FlatToComplexMatrix(lcall.hamiltonians[j], lcall.dim) \in SelfAdjoint(lcall.dim)
           dt == Ratio(lcall.duration_ns, lcall.num_time_steps)
<1>1. /\ lphase = "integrating" /\ lphase' = lphase /\ lcall' = lcall /\ slice < Len(lcall.hamiltonians)
      /\ slice' = slice + 1 /\ rho' = Rk4Step(rho, h, FromT1T2(lcall.t1, lcall.t2), dt)
      /\ trajectory' = IF lcall.store_trajectory THEN Append(trajectory, rho') ELSE trajectory
  BY DEF IntegrateSlice, Hamiltonian, DtSeconds
<1>2. Integrated(lcall, rho, slice, trajectory)
  BY <1>1 DEF LindbladInv
<1>3. lcall \in LindbladCalls /\ TimesAccepted(lcall.t1, lcall.t2) /\ lcall.num_time_steps # 0
  BY <1>2 DEF Integrated
<1>4. /\ d \in Nat /\ lcall.rho \in Seq(Int) /\ lcall.hamiltonians \in Seq(Seq(Int))
      /\ Divisors(lcall.t1, lcall.t2) /\ dt \in RealNumbers
  BY <1>3, CallTyped
<1>5. slice \in 0..Len(lcall.hamiltonians) /\ Len(lcall.hamiltonians) \in Nat
  BY <1>2, <1>4 DEF Integrated
<1>6. slice' \in 1..Len(lcall.hamiltonians) /\ slice' \in 0..Len(lcall.hamiltonians) /\ slice \in Nat
  BY <1>1, <1>5
<1>7. slice' \in DOMAIN lcall.hamiltonians /\ lcall.hamiltonians[slice'] \in Seq(Int)
  BY <1>4, <1>6
<1>8. Flattened(lcall.hamiltonians[slice'], d)
  BY <1>2, <1>7 DEF Integrated
<1>9. h \in Square(d)
  BY <1>4, <1>7, <1>8, FlatTyped
<1>10. /\ rho \in Square(d) /\ Trace(rho) = Trace(initial)
       /\ initial \in SelfAdjoint(d) /\ hermitian => rho \in SelfAdjoint(d)
  BY <1>2 DEF Integrated
<1>11. hermitian => h \in SelfAdjoint(d)
  BY <1>7
<1> HIDE DEF h, dt
<1>12. /\ rho' \in Square(d) /\ Trace(rho') = Trace(rho)
       /\ h \in SelfAdjoint(d) /\ rho \in SelfAdjoint(d) => rho' \in SelfAdjoint(d)
  BY <1>1, <1>4, <1>9, <1>10, StepKeeps
<1>13. lcall.store_trajectory =>
         /\ trajectory' \in Seq(Square(d)) /\ Len(trajectory') = slice' + 1
         /\ trajectory'[1] = initial /\ trajectory'[slice' + 1] = rho'
  <2> SUFFICES ASSUME lcall.store_trajectory
               PROVE  /\ trajectory' \in Seq(Square(d)) /\ Len(trajectory') = slice' + 1
                      /\ trajectory'[1] = initial /\ trajectory'[slice' + 1] = rho'
    OBVIOUS
  <2>1. /\ trajectory \in Seq(Square(d)) /\ Len(trajectory) = slice + 1
        /\ trajectory[1] = initial /\ trajectory' = Append(trajectory, rho')
    BY <1>1, <1>2 DEF Integrated
  <2> HIDE DEF d, initial
  <2> DEFINE next == rho'
             states == trajectory
  <2>2. next \in Square(d) /\ states \in Seq(Square(d)) /\ Len(states) = slice + 1
    BY <1>12, <2>1
  <2> HIDE DEF next, states
  <2>3. /\ Append(states, next) \in Seq(Square(d)) /\ Len(Append(states, next)) = slice + 1 + 1
        /\ Append(states, next)[1] = states[1] /\ Append(states, next)[slice + 1 + 1] = next
    BY <1>6, <2>2
  <2> QED
    BY <1>1, <2>1, <2>3 DEF next, states
<1>14. Integrated(lcall, rho', slice', trajectory')
  BY <1>2, <1>6, <1>10, <1>11, <1>12, <1>13 DEF Integrated
<1> QED
  BY <1>1, <1>14 DEF LindbladInv

LEMMA LindbladInitially == LindbladInit => LindbladInv
BY DEF LindbladInit, LindbladInv

LEMMA LindbladSteps ==
  ASSUME LindbladInv, LindbladNext
  PROVE  LindbladInv'
<1>1. ASSUME ReturnLindblad PROVE LindbladInv'
  BY <1>1 DEF ReturnLindblad, LindbladInv
<1> QED
  BY <1>1, SolveLindbladStep, IntegrateSliceStep DEF LindbladNext

LEMMA LindbladKept ==
  ASSUME LindbladInv
  PROVE  IntegrationKeepsState
<1> SUFFICES ASSUME lphase \in {"integrating", "returned"}
             PROVE  LET initial == FlatToComplexMatrix(lcall.rho, lcall.dim)
                    IN /\ Trace(rho) = Trace(initial)
                       /\ Hermitian(initial) /\ (\A k \in DOMAIN lcall.hamiltonians : Hermitian(Hamiltonian(k)))
                            => Hermitian(rho)
                       /\ lcall.store_trajectory =>
                            Len(trajectory) = slice + 1 /\ trajectory[1] = initial /\ trajectory[slice + 1] = rho
  BY DEF IntegrationKeepsState
<1> DEFINE initial == FlatToComplexMatrix(lcall.rho, lcall.dim)
<1>1. Integrated(lcall, rho, slice, trajectory)
  BY DEF LindbladInv
<1>2. lcall \in LindbladCalls /\ TimesAccepted(lcall.t1, lcall.t2) /\ lcall.num_time_steps # 0
  BY <1>1 DEF Integrated
<1>3. lcall.dim \in Nat /\ lcall.rho \in Seq(Int) /\ lcall.hamiltonians \in Seq(Seq(Int))
  BY <1>2, CallTyped
<1>4. initial \in Square(lcall.dim)
  BY <1>1, <1>3, FlatTyped DEF Integrated
<1>5. ASSUME NEW k \in DOMAIN lcall.hamiltonians
      PROVE  Hamiltonian(k) = FlatToComplexMatrix(lcall.hamiltonians[k], lcall.dim) /\ Hamiltonian(k) \in Square(lcall.dim)
  <2>1. lcall.hamiltonians[k] \in Seq(Int) /\ Flattened(lcall.hamiltonians[k], lcall.dim)
    BY <1>1, <1>3 DEF Integrated
  <2> QED
    BY <1>3, <2>1, FlatTyped DEF Hamiltonian
<1>6. Hermitian(initial) /\ (\A k \in DOMAIN lcall.hamiltonians : Hermitian(Hamiltonian(k))) => Hermitian(rho)
  <2> SUFFICES ASSUME Hermitian(initial), \A k \in DOMAIN lcall.hamiltonians : Hermitian(Hamiltonian(k))
               PROVE  Hermitian(rho)
    OBVIOUS
  <2>1. initial \in SelfAdjoint(lcall.dim)
    BY <1>4 DEF SelfAdjoint
  <2>2. \A k \in DOMAIN lcall.hamiltonians :
          FlatToComplexMatrix(lcall.hamiltonians[k], lcall.dim) \in SelfAdjoint(lcall.dim)
    BY <1>5 DEF SelfAdjoint
  <2>3. rho \in SelfAdjoint(lcall.dim)
    BY <1>1, <2>1, <2>2 DEF Integrated
  <2> QED
    BY <2>3 DEF SelfAdjoint
<1>7. Trace(rho) = Trace(initial)
  BY <1>1 DEF Integrated
<1>8. lcall.store_trajectory =>
        Len(trajectory) = slice + 1 /\ trajectory[1] = initial /\ trajectory[slice + 1] = rho
  BY <1>1 DEF Integrated
<1> QED
  BY <1>6, <1>7, <1>8

-----------------------------------------------------------------------------
(* A measured step                                                          *)

\* A number and its conjugate have a real sum.
LEMMA ConjugateSum ==
  ASSUME NEW z \in Complex
  PROVE  Plus(z, Conj(z)) = <<Plus(z, Conj(z))[1], 0>>
<1>1. z[2] \in Int /\ -z[2] \in Int /\ z[2] + (-z[2]) = 0
  BY ComplexParts
<1>2. Real(z[2] + Real(-z[2])) = Real(z[2] + (-z[2]))
  BY <1>1, RealAbsorbs
<1>3. Plus(z, Conj(z)) = <<Real(z[1] + z[1]), Real(z[2] + Real(-z[2]))>>
  BY DEF Plus, Conj
<1> QED
  BY <1>1, <1>2, <1>3, RealOfSmall

\* The innovation of a density matrix is Hermitian and has no trace (measurement_superoperator).
LEMMA InnovationKeeps ==
  ASSUME NEW d \in Nat, NEW c \in Reduced(d), NEW r \in SelfAdjoint(d), Trace(r) = One
  PROVE  Innovation(c, r) \in Traceless(d) /\ Innovation(c, r) \in SelfAdjoint(d)
<1> DEFINE p == Dot(c, r)
           q == Dot(r, Dagger(c))
           s == Sum(p, q)
           e == Expectation(c, r)
           t == Scaled(e, r)
<1>1. c \in Square(d) /\ Dagger(c) \in Square(d) /\ r \in Square(d) /\ Dagger(r) = r /\ Dagger(Dagger(c)) = c
  <2>1. c \in Square(d) /\ r \in Square(d) /\ Dagger(r) = r
    BY MatrixTypes DEF SelfAdjoint, Hermitian
  <2>2. Dagger(c) \in Square(d)
    BY <2>1, MatrixTypes
  <2>3. Dagger(Dagger(c)) = c
    BY <2>1, TypedNumbers, DaggerLinear
  <2> QED
    BY <2>1, <2>2, <2>3
<1>2. p \in Square(d) /\ q \in Square(d) /\ Dot(Dagger(c), r) \in Square(d) /\ Sum(c, Dagger(c)) \in Square(d)
  BY <1>1, MatrixTypes
<1>3. Dagger(p) = q /\ Dagger(q) = p
  <2>1. Dagger(p) = Dot(Dagger(r), Dagger(c))
    BY <1>1, DaggerOfDot
  <2>2. Dagger(q) = Dot(Dagger(Dagger(c)), Dagger(r))
    BY <1>1, DaggerOfDot
  <2> QED
    BY <1>1, <2>1, <2>2
<1>4. Trace(p) \in Complex /\ Trace(q) = Conj(Trace(p))
  <2>1. Trace(p) \in Complex
    BY <1>2, MatrixTypes, TypedNumbers
  <2>2. Trace(Dagger(p)) = Conj(Trace(p))
    BY <1>2, TypedNumbers, TraceLinear
  <2> QED
    BY <1>3, <2>1, <2>2
<1>5. Trace(Dot(Sum(c, Dagger(c)), r)) = Plus(Trace(p), Trace(q))
  <2>1. Dot(Sum(c, Dagger(c)), r) = Sum(Dot(c, r), Dot(Dagger(c), r))
    BY <1>1, DotOfSums
  <2>2. Trace(Sum(Dot(c, r), Dot(Dagger(c), r))) = Plus(Trace(Dot(c, r)), Trace(Dot(Dagger(c), r)))
    BY <1>2, TypedNumbers, TraceLinear
  <2>3. Trace(Dot(Dagger(c), r)) = Trace(Dot(r, Dagger(c)))
    BY <1>1, TraceCyclic
  <2> QED
    BY <2>1, <2>2, <2>3
<1>6. e = Plus(Trace(p), Trace(q)) /\ e \in Residues /\ e \in RealNumbers
  <2>1. Plus(Trace(p), Trace(q)) = <<Plus(Trace(p), Trace(q))[1], 0>>
    BY <1>4, ConjugateSum
  <2>2. e = Plus(Trace(p), Trace(q))
    BY <1>5, <2>1 DEF Expectation
  <2>3. Conj(Trace(p)) \in Complex
    BY <1>4, TypedNumbers
  <2>4. e \in Residues /\ e \in Complex
    BY <1>4, <2>2, <2>3, ResiduesLeft, TypedNumbers
  <2>5. e[2] = 0
    BY <2>1, <2>2
  <2> QED
    BY <2>2, <2>4, <2>5 DEF RealNumbers
<1>7. Innovation(c, r) = Difference(s, t)
  BY DEF Innovation
<1> HIDE DEF p, q, e
<1>8. e \in Complex /\ s \in Square(d) /\ t \in Square(d)
  <2>1. e \in Complex
    BY <1>6, RealNumbersClosed
  <2> QED
    BY <1>1, <1>2, <2>1, MatrixTypes
<1>9. s \in SelfAdjoint(d)
  <2>1. Dagger(s) = Sum(q, p)
    BY <1>2, <1>3, TypedNumbers, DaggerLinear
  <2>2. Sum(q, p) \in Square(d)
    BY <1>2, MatrixTypes
  <2>3. \A j, k \in 1..d : Sum(q, p)[j][k] = s[j][k]
    <3> TAKE j, k \in 1..d
    <3>1. Sum(q, p)[j][k] = Plus(q[j][k], p[j][k])
      BY <1>2, SumEntries
    <3>2. s[j][k] = Plus(p[j][k], q[j][k])
      BY <1>2, SumEntries
    <3>3. p[j][k] \in Complex /\ q[j][k] \in Complex
      BY <1>2, SquareLen
    <3> QED
      BY <3>1, <3>2, <3>3, PlusAlgebra
  <2>4. Sum(q, p) = s
    BY <1>8, <2>2, <2>3, MatrixEqual
  <2> QED
    BY <1>8, <2>1, <2>4 DEF SelfAdjoint, Hermitian
<1>10. t \in SelfAdjoint(d)
  BY <1>6, SelfAdjointClosed
<1>11. Trace(s) = e /\ Trace(t) = e
  <2>1. Trace(s) = Plus(Trace(p), Trace(q))
    BY <1>2, TypedNumbers, TraceLinear
  <2>2. Trace(t) = Times(e, One)
    BY <1>1, <1>8, TraceLinear
  <2>3. Times(e, One) = Times(One, e) /\ Times(One, e) = e
    BY <1>6, <1>8, TypedNumbers, TimesAlgebra
  <2> QED
    BY <1>6, <2>1, <2>2, <2>3
<1> HIDE DEF s, t
<1>12. Difference(s, t) \in Reduced(d) /\ Difference(s, t) \in Square(d)
  BY <1>8, MatrixTypes
<1>13. Trace(Difference(s, t)) = Zero
  BY <1>8, <1>11, DifferenceLinear, TurnedDifference
<1>14. Dagger(Difference(s, t)) = Difference(s, t)
  BY <1>8, <1>9, <1>10, DifferenceLinear DEF SelfAdjoint, Hermitian
<1> QED
  BY <1>7, <1>12, <1>13, <1>14 DEF Traceless, SelfAdjoint, Hermitian

\* Nothing to repair: a Hermitian matrix of residues with trace one is left as it is.
LEMMA RepairsLeave ==
  ASSUME NEW d \in Nat, NEW r \in Reduced(d), Hermitian(r), Trace(r) = One
  PROVE  Renormalized(Symmetrized(r)) = r
<1>1. r \in Square(d) /\ Dagger(r) = r /\ Half \in Complex
  BY MatrixTypes, Fractions, RealNumbersClosed DEF Hermitian
<1>2. Sum(r, r) \in Square(d) /\ Scaled(Half, Sum(r, r)) \in Square(d)
  <2>1. Sum(r, r) \in Square(d)
    BY <1>1, MatrixTypes
  <2> QED
    BY <1>1, <2>1, MatrixTypes
<1>3. \A j, k \in 1..d : r[j][k] \in Residues
  BY DEF Reduced
<1>4. \A j, k \in 1..d : Scaled(Half, Sum(r, r))[j][k] = r[j][k]
  <2> TAKE j, k \in 1..d
  <2>1. Scaled(Half, Sum(r, r))[j][k] = Times(Half, Sum(r, r)[j][k])
    BY <1>1, <1>2, ScaledEntries
  <2>2. Sum(r, r)[j][k] = Plus(r[j][k], r[j][k])
    BY <1>1, SumEntries
  <2> QED
    BY <1>3, <2>1, <2>2, Fractions
<1>5. Symmetrized(r) = r
  <2>1. Scaled(Half, Sum(r, r)) = r
    BY <1>1, <1>2, <1>4, MatrixEqual
  <2> QED
    BY <1>1, <2>1 DEF Symmetrized
<1>6. Over(One, One) = One
  <2>1. One \in Complex /\ One \in Residues /\ One \in RealNumbers /\ Conj(One) = One
    BY TypedNumbers, RealNumbersClosed DEF One
  <2>2. Times(One, One) = One
    BY <2>1, TimesAlgebra
  <2>3. NormSqr(One) = 1
    <3>1. 1 * 1 + 0 * 0 = 1
      OBVIOUS
    <3> QED
      BY <3>1, RealOfSmall DEF NormSqr, One
  <2>4. InverseReal(1) = 1
    <3>1. 1 % Modulus # 0 /\ 1 \in Int
      BY ModulusFacts
    <3>2. InverseReal(1) \in Int /\ Real(InverseReal(1)) = InverseReal(1) /\ Real(1 * InverseReal(1)) = 1
      BY <3>1, Inverses
    <3>3. 1 * InverseReal(1) = InverseReal(1)
      BY <3>2
    <3> QED
      BY <3>2, <3>3
  <2> QED
    BY <2>1, <2>2, <2>3, <2>4 DEF Over, One
<1>7. One \in Complex /\ Scaled(One, r) \in Square(d)
  BY <1>1, TypedNumbers, MatrixTypes
<1>8. \A j, k \in 1..d : Scaled(One, r)[j][k] = r[j][k]
  <2> TAKE j, k \in 1..d
  <2>1. Scaled(One, r)[j][k] = Times(One, r[j][k])
    BY <1>1, <1>7, ScaledEntries
  <2>2. r[j][k] \in Complex
    BY <1>1, SquareLen
  <2> QED
    BY <1>3, <1>7, <2>1, <2>2, TimesAlgebra
<1>9. Scaled(One, r) = r
  BY <1>1, <1>7, <1>8, MatrixEqual
<1> QED
  BY <1>5, <1>6, <1>9 DEF Renormalized

LEMMA MeasuredInitially == measured = NotMeasured => RepairsNothing
BY DEF RepairsNothing

LEMMA MeasureStepKeeps ==
  ASSUME NEW step \in MeasuredSteps, MeasureStep(step)
  PROVE  RepairsNothing'
<1> DEFINE d == Len(step.rho)
           c == EffectiveOperator(step)
           i == Innovation(c, step.rho)
           innovation == Scaled(<<step.root, 0>>, i)
           drift == LindbladRhs(step.h, FromT1T2(step.t1, step.t2), step.rho)
           x == Scaled(<<step.dt, 0>>, drift)
           y == Scaled(<<step.noise, 0>>, innovation)
           raw == Sum(Sum(step.rho, x), y)
           refused == ~InnovationValid(i) \/ Trace(raw) = Zero
<1>1. measured' = [step |-> <<step>>, refused |-> refused, raw |-> raw,
                   state |-> IF refused THEN <<>> ELSE Renormalized(Symmetrized(raw))]
  BY DEF MeasureStep
<1>2. /\ d \in Nat /\ step.rho \in Reduced(d) /\ Hermitian(step.rho) /\ Trace(step.rho) = One
      /\ step.h \in Square(d) /\ Hermitian(step.h)
      /\ IF step.operator = <<>> THEN d = 2 ELSE step.operator \in Reduced(d)
      /\ Divisor(step.t1) /\ step.t1 # 0 /\ Divisor(step.t2) /\ step.t2 # 0
      /\ step.root \in Int /\ step.rate \in Int /\ step.dt \in Int /\ step.noise \in Int
  BY MeasuredAssumption
<1>3. Divisors(step.t1, step.t2)
  BY <1>2 DEF Divisor, Divisors
<1>4. step.rho \in SelfAdjoint(d) /\ step.h \in SelfAdjoint(d) /\ step.rho \in Square(d)
  BY <1>2, MatrixTypes DEF SelfAdjoint
<1>5. /\ <<step.root, 0>> \in RealNumbers /\ <<step.rate, 0>> \in RealNumbers
      /\ <<step.dt, 0>> \in RealNumbers /\ <<step.noise, 0>> \in RealNumbers /\ RealNumbers \subseteq Complex
  BY <1>2, RealNumbersClosed
<1>6. c \in Reduced(d)
  <2>1. CASE step.operator # <<>>
    BY <1>2, <2>1 DEF EffectiveOperator
  <2>2. CASE step.operator = <<>>
    <3>1. d = 2 /\ 1 \in 1..2 /\ 2 \in Nat
      BY <1>2, <2>2
    <3>2. FromT1T2(step.t1, step.t2)[1].matrix \in Reduced(2)
      BY <1>3, <3>1, Decays
    <3>3. FromT1T2(step.t1, step.t2)[1].matrix \in Square(2)
      BY <3>1, <3>2, MatrixTypes
    <3>4. Scaled(<<step.rate, 0>>, FromT1T2(step.t1, step.t2)[1].matrix) \in Reduced(2)
      BY <1>5, <3>1, <3>3, MatrixTypes
    <3> QED
      BY <2>2, <3>1, <3>4 DEF EffectiveOperator
  <2> QED
    BY <2>1, <2>2
<1> HIDE DEF c, d
<1>7. i \in Traceless(d) /\ i \in SelfAdjoint(d)
  BY <1>2, <1>4, <1>6, InnovationKeeps
<1> HIDE DEF i
<1>8. drift \in Traceless(d) /\ drift \in SelfAdjoint(d)
  BY <1>2, <1>3, <1>4, RhsKeeps
<1> HIDE DEF drift
<1>9. innovation \in Traceless(d) /\ innovation \in SelfAdjoint(d) /\ x \in Traceless(d) /\ x \in SelfAdjoint(d)
  BY <1>2, <1>5, <1>7, <1>8, TracelessClosed, SelfAdjointClosed
<1> HIDE DEF innovation, x
<1>10. y \in Traceless(d) /\ y \in SelfAdjoint(d)
  BY <1>2, <1>5, <1>9, TracelessClosed, SelfAdjointClosed
<1> HIDE DEF y
<1>11. /\ Sum(step.rho, x) \in Square(d) /\ Sum(step.rho, x) \in SelfAdjoint(d)
       /\ Trace(Sum(step.rho, x)) = One
  <2>1. x \in Square(d)
    BY <1>2, <1>9, TracelessClosed
  <2>2. Sum(step.rho, x) \in Square(d)
    BY <1>2, <1>4, <2>1, MatrixTypes
  <2>3. Sum(step.rho, x) \in SelfAdjoint(d)
    BY <1>2, <1>4, <1>9, SelfAdjointClosed
  <2>4. Trace(Sum(step.rho, x)) = Trace(step.rho)
    BY <1>2, <1>4, <1>9, TracelessClosed
  <2> QED
    BY <1>2, <2>2, <2>3, <2>4
<1>12. raw \in Reduced(d) /\ Hermitian(raw) /\ Trace(raw) = One
  <2>1. y \in Square(d)
    BY <1>2, <1>10, TracelessClosed
  <2>2. raw \in Reduced(d)
    BY <1>2, <1>11, <2>1, MatrixTypes
  <2>3. raw \in SelfAdjoint(d)
    BY <1>2, <1>10, <1>11, SelfAdjointClosed
  <2>4. Trace(raw) = Trace(Sum(step.rho, x))
    BY <1>2, <1>10, <1>11, TracelessClosed
  <2> QED
    BY <1>11, <2>2, <2>3, <2>4 DEF SelfAdjoint
<1> HIDE DEF raw
<1>13. ~refused
  <2>1. InnovationValid(i)
    BY <1>7 DEF InnovationValid, Traceless, SelfAdjoint
  <2>2. One # Zero
    BY DEF One, Zero
  <2> QED
    BY <1>12, <2>1, <2>2
<1>14. Renormalized(Symmetrized(raw)) = raw
  BY <1>2, <1>12, RepairsLeave
<1> HIDE DEF refused
<1>15. measured'.raw = raw /\ measured'.state = raw /\ ~measured'.refused
  BY <1>1, <1>13, <1>14
<1> QED
  BY <1>12, <1>15 DEF RepairsNothing

-----------------------------------------------------------------------------
(* Every state of the whole                                                 *)

KeptInv == LindbladInv /\ RepairsNothing

\* Neither the integrator nor a measured step loses what makes its state a density matrix:
\* for every call and every number of slices.
THEOREM StatesStayKept == Spec => []StatesKept
<1>1. Init => KeptInv
  BY LindbladInitially, MeasuredInitially DEF Init, KeptInv
<1>2. KeptInv /\ [Next]_solverVars => KeptInv'
  <2> SUFFICES ASSUME KeptInv, [Next]_solverVars PROVE KeptInv'
    OBVIOUS
  <2>0. LindbladInv /\ RepairsNothing
    BY DEF KeptInv
  <2>1. UNCHANGED lindbladVars => LindbladInv'
    BY <2>0 DEF LindbladInv, lindbladVars
  <2>2. UNCHANGED measured => RepairsNothing'
    BY <2>0 DEF RepairsNothing
  <2>3. CASE LindbladStep
    BY <2>0, <2>2, <2>3, LindbladSteps DEF LindbladStep, KeptInv
  <2>4. CASE MeasuredStepOf
    BY <2>0, <2>1, <2>4, MeasureStepKeeps DEF MeasuredStepOf, KeptInv
  <2>5. CASE GrapeStep \/ OpenStep \/ FeedbackStep \/ SmeStep \/ ExpmStep
    BY <2>1, <2>2, <2>5 DEF GrapeStep, OpenStep, FeedbackStep, SmeStep, ExpmStep, KeptInv
  <2>6. CASE UNCHANGED solverVars
    BY <2>1, <2>2, <2>6 DEF solverVars, KeptInv
  <2> QED
    BY <2>3, <2>4, <2>5, <2>6 DEF Next
<1>3. KeptInv => StatesKept
  BY LindbladKept DEF KeptInv, StatesKept
<1> QED
  BY <1>1, <1>2, <1>3, PTL DEF Spec

-----------------------------------------------------------------------------
(* The stochastic solver                                                    *)

TrajectoryType ==
  [status : {"waiting", "running", "done", "error"}, seed : Nat, slice : Nat, remaining : Nat,
   current : Nat, covered : Nat, steps : Nat, violations : Nat, rough : Nat, drawn : {0, 1}]

\* What a trajectory has covered and what is left of its slice make whole slices, its next
\* step has a size, and its rough steps had the smallest.
OnItsWay(t) ==
  t.status = "running" =>
    /\ t.slice \in 1..scall.slices /\ t.remaining \in 1..Nominal /\ t.current \in 1..Nominal
    /\ t.covered + t.remaining = t.slice * Nominal
AllCovered(t) == t.status = "done" => t.covered = scall.slices * Nominal

TrajectoryInv(k) ==
  LET t == trajectories[k]
  IN /\ t \in TrajectoryType /\ OnItsWay(t) /\ AllCovered(t)
     /\ t.status \in {"running", "done"} => t.seed = SeedOf(scall, k) /\ t.rough <= DtMin

\* The trajectories are those the call asked for, unless it was answered without them.
SmeInv ==
  /\ sphase \in {"idle", "refused", "solving", "failed", "returned"}
  /\ sphase \in {"idle", "solving"} => sresult = NoSmeResult
  /\ sphase \in {"solving", "failed", "returned"} /\ ~sresult.shortcut =>
       /\ scall \in SmeCalls /\ SmeValid(scall)
       /\ DOMAIN trajectories = 1..(IF scall.ensemble THEN scall.n ELSE 1)
       /\ trajectories \in Seq(TrajectoryType)
       /\ \A k \in DOMAIN trajectories : TrajectoryInv(k)
  /\ sphase = "returned" /\ ~sresult.shortcut =>
       \A k \in DOMAIN trajectories : trajectories[k].status = "done"

LEMMA SmeInitInv == SmeInit => SmeInv
BY DEF SmeInit, SmeInv, NoSmeResult

\* A retried step still has a size, and no step grows beyond a slice.
LEMMA StepSizes ==
  ASSUME NEW dt \in 1..Nominal
  PROVE  Halved(dt) \in 1..Nominal /\ Grown(dt) \in 1..Nominal
BY SmeAssumption DEF Halved, Grown, Larger, Smaller

\* A call starts with every trajectory waiting.
LEMMA CallStarts == ASSUME SmeInv, NEW call \in SmeCalls, SolveSme(call) PROVE SmeInv'
<1> DEFINE count == IF call.ensemble THEN call.n ELSE 1
<1>1. count \in Nat /\ sresult = NoSmeResult
  BY SmeAssumption DEF SolveSme, SmeInv
<1>2. NotStarted \in TrajectoryType
  BY DEF NotStarted, TrajectoryType
<1>3. CASE sphase' = "solving"
  <2>1. /\ trajectories' = [k \in 1..count |-> NotStarted] /\ scall' = call
        /\ SmeValid(call) /\ sresult' = sresult
    BY <1>3 DEF SolveSme
  <2>2. \A k \in 1..count : trajectories'[k] = NotStarted
    BY <2>1
  <2>3. \A k \in 1..count : TrajectoryInv(k)'
    BY <1>2, <2>2 DEF TrajectoryInv, OnItsWay, AllCovered, NotStarted
  <2>4. trajectories' \in Seq(TrajectoryType)
    BY <1>1, <1>2, <2>1
  <2> QED
    BY <1>1, <1>3, <2>1, <2>3, <2>4 DEF SmeInv
<1>4. CASE sphase' # "solving"
  <2>1. sphase' \in {"refused", "returned"} /\ (sphase' = "returned" => sresult'.shortcut)
    BY <1>4 DEF SolveSme, WithoutMeasurement, NoSmeResult
  <2> QED
    BY <2>1 DEF SmeInv
<1> QED
  BY <1>3, <1>4

\* One trajectory moves, the call and the others stay.
LEMMA OneMoves ==
  ASSUME SmeInv, sphase = "solving", NEW k \in DOMAIN trajectories, NEW t,
         trajectories' = [trajectories EXCEPT ![k] = t], UNCHANGED <<sphase, scall, sresult>>,
         t \in TrajectoryType, OnItsWay(t), AllCovered(t),
         t.status \in {"running", "done"} => t.seed = SeedOf(scall, k) /\ t.rough <= DtMin
  PROVE  SmeInv'
<1>1. ~sresult.shortcut
  BY DEF SmeInv, NoSmeResult
<1>2. /\ DOMAIN trajectories' = DOMAIN trajectories
      /\ trajectories' \in Seq(TrajectoryType)
      /\ trajectories'[k] = t
      /\ \A j \in DOMAIN trajectories \ {k} : trajectories'[j] = trajectories[j]
  BY <1>1 DEF SmeInv
<1>3. ASSUME NEW j \in DOMAIN trajectories PROVE TrajectoryInv(j)'
  <2>1. CASE j = k
    BY <1>2, <2>1 DEF TrajectoryInv, OnItsWay, AllCovered
  <2>2. CASE j # k
    <3>1. TrajectoryInv(j)
      BY <1>1 DEF SmeInv
    <3> QED
      BY <1>2, <2>2, <3>1 DEF TrajectoryInv, OnItsWay, AllCovered
  <2> QED
    BY <2>1, <2>2
<1> QED
  BY <1>1, <1>2, <1>3 DEF SmeInv

LEMMA TrajectoryStarts ==
  ASSUME SmeInv, NEW k \in DOMAIN trajectories, StartTrajectory(k)
  PROVE  SmeInv'
<1> DEFINE t == [NotStarted EXCEPT !.status = IF scall.physical THEN "running" ELSE "error",
                                   !.seed = SeedOf(scall, k), !.slice = 1,
                                   !.remaining = Nominal, !.current = Nominal]
<1>1. ~sresult.shortcut /\ scall \in SmeCalls /\ SmeValid(scall) /\ sphase = "solving"
  BY DEF StartTrajectory, SmeInv, NoSmeResult
<1>2. SeedOf(scall, k) \in Nat
  BY <1>1, SmeAssumption DEF SeedOf, SmeInv
<1>3. t \in TrajectoryType
  BY <1>2, SmeAssumption DEF NotStarted, TrajectoryType
<1>4. OnItsWay(t) /\ AllCovered(t) /\ t.seed = SeedOf(scall, k) /\ t.rough <= DtMin
  BY <1>1, SmeAssumption DEF OnItsWay, AllCovered, NotStarted, SmeValid
<1>5. trajectories' = [trajectories EXCEPT ![k] = t] /\ UNCHANGED <<sphase, scall, sresult>>
  BY DEF StartTrajectory
<1> QED
  BY <1>1, <1>3, <1>4, <1>5, OneMoves

\* An accepted step moves what it covers from what is left to what was covered.
LEMMA AcceptedFacts ==
  ASSUME NEW t \in TrajectoryType, OnItsWay(t), t.status = "running", t.rough <= DtMin,
         NEW out \in StepOutcomes, scall.slices \in Nat,
         NEW dt \in Nat, dt = Smaller(t.current, t.remaining), ~(Unstable(out) /\ dt > DtMin)
  PROVE  LET u == Accepted(t, dt, out)
         IN /\ u \in TrajectoryType /\ OnItsWay(u) /\ AllCovered(u)
            /\ u.seed = t.seed /\ u.rough <= DtMin
<1> DEFINE u == Accepted(t, dt, out)
           left == t.remaining - dt
           next == IF out.stability = "calm" THEN Grown(dt) ELSE dt
           last == left = 0 /\ t.slice = scall.slices
<1>1. dt \in 1..Nominal /\ left \in 0..Nominal /\ next \in 1..Nominal
  BY SmeAssumption, StepSizes DEF OnItsWay, Smaller
<1>2. /\ u.status = (IF last THEN "done" ELSE "running") /\ u.seed = t.seed
      /\ u.slice = (IF left = 0 /\ ~last THEN t.slice + 1 ELSE t.slice)
      /\ u.remaining = (IF left = 0 /\ ~last THEN Nominal ELSE left)
      /\ u.current = next /\ u.covered = t.covered + dt
      /\ u.rough = IF Unstable(out) THEN Larger(t.rough, dt) ELSE t.rough
  BY DEF Accepted, TrajectoryType
<1>3. u.rough \in Nat /\ u.rough <= DtMin
  BY <1>2, SmeAssumption DEF Larger, TrajectoryType
<1>4. t.drawn \in {0, 1} /\ t.steps \in Nat /\ t.violations \in Nat /\ t.covered \in Nat /\ t.slice \in Nat
  BY DEF TrajectoryType
<1>5. u \in TrajectoryType
  <2>1. 1 - t.drawn \in {0, 1} /\ t.steps + 1 \in Nat /\ t.covered + dt \in Nat
    BY <1>1, <1>4
  <2>2. t.violations + (IF out.negative # "none" THEN 1 ELSE 0) \in Nat
    BY <1>4
  <2>3. u.slice \in Nat /\ u.remaining \in Nat /\ u.current \in Nat /\ u.status \in {"done", "running"}
    BY <1>1, <1>2, <1>4, SmeAssumption
  <2>4. /\ u.rough \in Nat /\ u.seed \in Nat
        /\ u.covered = t.covered + dt /\ u.steps = t.steps + 1 /\ u.drawn = 1 - t.drawn
        /\ u.violations = t.violations + (IF out.negative # "none" THEN 1 ELSE 0)
    BY <1>2, <1>3 DEF Accepted, TrajectoryType
  <2>5. u = [status |-> u.status, seed |-> u.seed, slice |-> u.slice, remaining |-> u.remaining,
             current |-> u.current, covered |-> u.covered, steps |-> u.steps,
             violations |-> u.violations, rough |-> u.rough, drawn |-> u.drawn]
    <3>1. DOMAIN t = {"status", "seed", "slice", "remaining", "current", "covered", "steps",
                      "violations", "rough", "drawn"}
      BY DEF TrajectoryType
    <3>2. u = [f \in DOMAIN t |-> u[f]]
      BY DEF Accepted
    <3> HIDE DEF u
    <3> QED
      BY <3>1, <3>2
  <2> HIDE DEF u, last, left, next
  <2> QED
    BY <1>1, <1>2, <2>1, <2>2, <2>3, <2>4, <2>5 DEF TrajectoryType
<1>6. Nominal \in Nat \ {0} /\ t.slice \in 1..scall.slices /\ t.covered + t.remaining = t.slice * Nominal
      /\ t.remaining \in 1..Nominal
  BY SmeAssumption DEF OnItsWay
<1>7. (t.slice + 1) * Nominal = t.slice * Nominal + Nominal
  BY <1>4, <1>6
<1>8. t.covered + dt + left = t.slice * Nominal
  BY <1>1, <1>4, <1>6
<1>9. /\ last => left = 0 /\ t.slice = scall.slices
      /\ left = 0 /\ ~last => t.slice # scall.slices
  OBVIOUS
<1> HIDE DEF u, left, next, last
<1>10. t.slice * Nominal \in Int /\ (t.slice + 1) * Nominal \in Int
  BY <1>4, <1>6
<1>11. ASSUME last PROVE OnItsWay(u) /\ AllCovered(u)
  <2>1. u.status = "done" /\ u.covered = t.covered + dt
    BY <1>2, <1>11
  <2>2. t.covered + dt = t.slice * Nominal
    BY <1>1, <1>4, <1>6, <1>8, <1>9, <1>10, <1>11
  <2>3. u.covered = scall.slices * Nominal
    BY <1>9, <1>11, <2>1, <2>2
  <2> QED
    BY <2>1, <2>3 DEF OnItsWay, AllCovered
<1>12. ASSUME left = 0 /\ ~last PROVE OnItsWay(u) /\ AllCovered(u)
  <2>1. /\ u.status = "running" /\ u.slice = t.slice + 1 /\ u.remaining = Nominal
        /\ u.current = next /\ u.covered = t.covered + dt
    BY <1>2, <1>12
  <2>2. u.slice \in 1..scall.slices
    BY <1>4, <1>6, <1>9, <1>12, <2>1
  <2>3. t.covered + dt = t.slice * Nominal
    BY <1>1, <1>4, <1>6, <1>8, <1>10, <1>12
  <2>4. u.covered + u.remaining = u.slice * Nominal
    BY <1>6, <1>7, <1>10, <2>1, <2>3
  <2>5. Nominal \in 1..Nominal
    BY <1>6
  <2> QED
    BY <1>1, <2>1, <2>2, <2>4, <2>5 DEF OnItsWay, AllCovered
<1>13. ASSUME left # 0 PROVE OnItsWay(u) /\ AllCovered(u)
  <2>1. /\ u.status = "running" /\ u.slice = t.slice /\ u.remaining = left
        /\ u.current = next /\ u.covered = t.covered + dt
    BY <1>2, <1>9, <1>13
  <2>2. u.covered + u.remaining = u.slice * Nominal /\ left \in 1..Nominal
    BY <1>1, <1>4, <1>6, <1>8, <1>10, <1>13, <2>1
  <2> QED
    BY <1>1, <1>6, <2>1, <2>2 DEF OnItsWay, AllCovered
<1>14. OnItsWay(u) /\ AllCovered(u)
  BY <1>11, <1>12, <1>13
<1> QED
  BY <1>2, <1>3, <1>5, <1>14 DEF u

LEMMA TrajectorySteps ==
  ASSUME SmeInv, NEW k \in DOMAIN trajectories, NEW out \in StepOutcomes, StepOfTrajectory(k, out)
  PROVE  SmeInv'
<1> DEFINE t == trajectories[k]
           dt == Smaller(t.current, t.remaining)
           retried == [t EXCEPT !.current = Halved(dt), !.drawn = 1 - @]
           failed == [t EXCEPT !.status = "error"]
           moved == IF ProjectionFails(out) THEN failed
                    ELSE IF Unstable(out) /\ dt > DtMin THEN retried
                    ELSE IF StateAccepted(out) THEN Accepted(t, dt, out)
                    ELSE failed
<1>1. /\ sphase = "solving" /\ t.status = "running" /\ UNCHANGED <<sphase, scall, sresult>>
      /\ trajectories' = [trajectories EXCEPT ![k] = moved]
  BY DEF StepOfTrajectory
<1>2. ~sresult.shortcut /\ scall \in SmeCalls
  BY <1>1 DEF SmeInv, NoSmeResult
<1>3. t \in TrajectoryType /\ OnItsWay(t) /\ t.seed = SeedOf(scall, k) /\ t.rough <= DtMin
  BY <1>1, <1>2 DEF SmeInv, TrajectoryInv
<1>4. scall.slices \in Nat /\ dt \in 1..Nominal /\ dt \in Nat
  BY <1>1, <1>2, <1>3, SmeAssumption DEF OnItsWay, Smaller
<1> HIDE DEF t, dt
<1>5. /\ retried \in TrajectoryType /\ OnItsWay(retried) /\ AllCovered(retried)
      /\ retried.seed = t.seed /\ retried.rough = t.rough
  <2>1. Halved(dt) \in 1..Nominal /\ Halved(dt) \in Nat
    BY <1>4, StepSizes, SmeAssumption
  <2>2. 1 - t.drawn \in {0, 1}
    BY <1>3 DEF TrajectoryType
  <2>3. retried \in TrajectoryType
    BY <1>3, <2>1, <2>2 DEF TrajectoryType
  <2>4. retried.status = "running" /\ retried.current = Halved(dt)
        /\ retried.slice = t.slice /\ retried.remaining = t.remaining /\ retried.covered = t.covered
        /\ retried.seed = t.seed /\ retried.rough = t.rough
    BY <1>1, <1>3 DEF TrajectoryType, t
  <2> HIDE DEF retried
  <2> QED
    BY <1>1, <1>3, <2>1, <2>3, <2>4 DEF OnItsWay, AllCovered, t
<1>6. failed \in TrajectoryType /\ failed.status = "error"
  BY <1>3 DEF TrajectoryType
<1>7. ASSUME ~(Unstable(out) /\ dt > DtMin)
      PROVE  LET u == Accepted(t, dt, out)
             IN /\ u \in TrajectoryType /\ OnItsWay(u) /\ AllCovered(u)
                /\ u.seed = t.seed /\ u.rough <= DtMin
  <2>1. t.status = "running" /\ dt = Smaller(t.current, t.remaining)
    BY <1>1 DEF t, dt
  <2> QED
    BY <1>3, <1>4, <1>7, <2>1, AcceptedFacts
<1> DEFINE accepted == Accepted(t, dt, out)
<1> HIDE DEF retried, failed, accepted
<1> DEFINE Fits(u) ==
             /\ u \in TrajectoryType /\ OnItsWay(u) /\ AllCovered(u)
             /\ u.status \in {"running", "done"} => u.seed = SeedOf(scall, k) /\ u.rough <= DtMin
<1>8. Fits(moved)
  <2>1. ASSUME moved = failed PROVE Fits(moved)
    BY <1>6, <2>1 DEF OnItsWay, AllCovered
  <2>2. ASSUME moved = retried PROVE Fits(moved)
    BY <1>3, <1>5, <2>2
  <2>3. ASSUME moved = accepted, ~(Unstable(out) /\ dt > DtMin) PROVE Fits(moved)
    BY <1>3, <1>7, <2>3 DEF accepted
  <2>4. \/ moved = failed \/ moved = retried
        \/ moved = accepted /\ ~(Unstable(out) /\ dt > DtMin)
    BY DEF accepted
  <2> QED
    BY <2>1, <2>2, <2>3, <2>4
<1> HIDE DEF moved
<1> QED
  BY <1>1, <1>8, OneMoves DEF t

LEMMA CollectKeeps ==
  ASSUME SmeInv, NEW mean \in BOOLEAN, Collect(mean)
  PROVE  SmeInv'
<1> DEFINE failed == \E k \in DOMAIN trajectories : trajectories[k].status = "error"
<1>1. /\ sphase = "solving" /\ UNCHANGED <<scall, trajectories>>
      /\ \A k \in DOMAIN trajectories :
           Finished(trajectories[k]) \/ (failed /\ trajectories[k].status = "waiting")
      /\ sphase' \in {"failed", "returned"} /\ (sphase' = "returned" => ~failed)
      /\ sphase' = "failed" => sresult' = sresult
      /\ sphase' = "returned" => ~sresult'.shortcut
  BY DEF Collect
<1>2. ~sresult.shortcut
  BY <1>1 DEF SmeInv, NoSmeResult
<1>3. sphase' = "returned" => \A k \in DOMAIN trajectories : trajectories[k].status = "done"
  BY <1>1 DEF Finished
<1>4. \A k \in DOMAIN trajectories : TrajectoryInv(k)'
  BY <1>1, <1>2 DEF SmeInv, TrajectoryInv, OnItsWay, AllCovered
<1> HIDE DEF failed
<1> QED
  BY <1>1, <1>2, <1>3, <1>4 DEF SmeInv

LEMMA SmeStays == SmeInv /\ UNCHANGED smeVars => SmeInv'
BY DEF SmeInv, smeVars, TrajectoryInv, OnItsWay, AllCovered

LEMMA SmeStepInv == SmeInv /\ [SmeNext]_smeVars => SmeInv'
<1> SUFFICES ASSUME SmeInv, SmeNext PROVE SmeInv'
  BY SmeStays
<1>1. CASE \E call \in SmeCalls : SolveSme(call)
  BY <1>1, CallStarts
<1>2. CASE \E k \in DOMAIN trajectories :
             StartTrajectory(k) \/ \E out \in StepOutcomes : StepOfTrajectory(k, out)
  BY <1>2, TrajectoryStarts, TrajectorySteps
<1>3. CASE \E accepted \in BOOLEAN : Collect(accepted)
  BY <1>3, CollectKeeps
<1> QED
  BY <1>1, <1>2, <1>3 DEF SmeNext

\* Counting on from a seed and around the end, no seed comes back within one round.
LEMMA SeedsDiffer ==
  ASSUME NEW s \in 0..(Seeds - 1), NEW j \in 1..Seeds, NEW k \in 1..Seeds,
         (s + j) % Seeds = (s + k) % Seeds
  PROVE  j = k
<1>1. Seeds \in Nat \ {0}
  BY SmeAssumption
<1>2. ASSUME NEW x \in Seeds..(2 * Seeds - 1) PROVE x % Seeds = x - Seeds
  BY <1>1
<1>3. ASSUME NEW x \in 0..(Seeds - 1) PROVE x % Seeds = x
  BY <1>1
<1> QED
  BY <1>1, <1>2, <1>3

\* An answer stands for the whole time and the whole ensemble: every trajectory covered
\* every slice exactly, took a rough step only at the smallest size, and drew noise of its
\* own (integrate_nominal_slice, solve_sme_ensemble), whatever halves and grows its steps.
THEOREM EnsemblesComplete == Spec => []EnsembleComplete
<1>1. SmeInv => EnsembleComplete
  <2> SUFFICES ASSUME SmeInv, sphase = "returned", ~sresult.shortcut PROVE EnsembleComplete
    BY DEF EnsembleComplete
  <2>1. /\ DOMAIN trajectories = 1..(IF scall.ensemble THEN scall.n ELSE 1)
        /\ trajectories \in Seq(TrajectoryType) /\ scall \in SmeCalls
        /\ \A k \in DOMAIN trajectories : TrajectoryInv(k) /\ trajectories[k].status = "done"
    BY DEF SmeInv
  <2>2. \A k \in DOMAIN trajectories :
          /\ trajectories[k].status = "done"
          /\ trajectories[k].covered = scall.slices * Nominal
          /\ trajectories[k].rough <= DtMin
          /\ trajectories[k].seed = SeedOf(scall, k)
    BY <2>1 DEF TrajectoryInv, AllCovered
  <2>3. DOMAIN trajectories = 1..Len(trajectories) /\ Len(trajectories) \in Nat
    BY <2>1
  <2>4. scall.n \in Nat /\ scall.seed \in 0..(Seeds - 1) /\ Seeds \in Nat \ {0}
    BY <2>1, SmeAssumption
  <2>5. Len(trajectories) = IF scall.ensemble THEN scall.n ELSE 1
    BY <2>1, <2>3, <2>4
  <2>6. ASSUME Len(trajectories) <= Seeds,
               NEW j \in DOMAIN trajectories, NEW k \in DOMAIN trajectories,
               trajectories[j].seed = trajectories[k].seed
        PROVE  j = k
    <3>1. SeedOf(scall, j) = SeedOf(scall, k) /\ j \in 1..Seeds /\ k \in 1..Seeds
      BY <2>2, <2>3, <2>4, <2>6
    <3>2. CASE scall.ensemble
      BY <2>4, <3>1, <3>2, SeedsDiffer DEF SeedOf
    <3>3. CASE ~scall.ensemble
      BY <2>3, <2>5, <3>3
    <3> QED
      BY <3>2, <3>3
  <2> QED
    BY <2>2, <2>5, <2>6 DEF EnsembleComplete
<1>2. Init => SmeInv
  BY SmeInitInv DEF Init
<1>3. SmeInv /\ [Next]_solverVars => SmeInv'
  <2>1. [Next]_solverVars => [SmeNext]_smeVars
    BY DEF Next, solverVars, GrapeStep, OpenStep, LindbladStep, FeedbackStep, SmeStep, ExpmStep,
           MeasuredStepOf
  <2> QED
    BY <2>1, SmeStepInv
<1> QED
  BY <1>1, <1>2, <1>3, PTL DEF Spec

-----------------------------------------------------------------------------
(* The optimisers                                                           *)

\* The forward chain and the fidelity as functions of what the call gave.
ForwardAt(d, us) ==
  LET chain[k \in 0..Len(us)] == IF k = 0 THEN Eye(d) ELSE Dot(us[k], chain[k - 1]) IN chain
ChainAt(d, p) ==
  LET us == [t \in DOMAIN p.i |-> Propagator[d][<<p.i[t], p.q[t]>>]] IN ForwardAt(d, us)[Len(us)]
FidelityAt(target, p) ==
  IF IsLost(p) THEN NaN ELSE GateFidelity(ChainAt(Len(target), p), target)

LEMMA ChainIs == \A p : Chain(ComputePropagators(p)) = ChainAt(Len(matrices.target), p)
BY DEF Chain, Forward, ComputePropagators, Dim, ChainAt, ForwardAt

LEMMA FidelityIs == \A p : Fidelity(p) = FidelityAt(matrices.target, p)
BY ChainIs DEF Fidelity, FidelityAt

LEMMA FidelityKept ==
  ASSUME UNCHANGED matrices
  PROVE  \A p : Fidelity(p)' = Fidelity(p) /\ Chain(ComputePropagators(p))' = Chain(ComputePropagators(p))
<1>1. (\A p : Fidelity(p) = FidelityAt(matrices.target, p))'
  BY FidelityIs, PTL
<1>2. (\A p : Chain(ComputePropagators(p)) = ChainAt(Len(matrices.target), p))'
  BY ChainIs, PTL
<1> QED
  BY <1>1, <1>2, FidelityIs, ChainIs

\* The forward chain of square matrices, link by link.
LEMMA ForwardRuns ==
  ASSUME NEW d \in Nat, NEW n \in Nat, NEW us \in [1..n -> Square(d)]
  PROVE  /\ ForwardAt(d, us)[0] = Eye(d)
         /\ \A k \in 1..n : ForwardAt(d, us)[k] = Dot(us[k], ForwardAt(d, us)[k - 1])
         /\ \A k \in 0..n : ForwardAt(d, us)[k] \in Square(d)
<1> DEFINE Is(g) == g = [k \in 0..n |-> IF k = 0 THEN Eye(d) ELSE Dot(us[k], g[k - 1])]
           f == CHOOSE g : Is(g)
           G == [p \in (1..n) \X Square(d) |-> Dot(us[p[1]], p[2])]
<1>1. ForwardAt(d, us) = f
  <2>1. Len(us) = n
    OBVIOUS
  <2> QED
    BY <2>1 DEF ForwardAt
<1>2. n \in Nat /\ \A k \in 1..n : us[k] \in Square(d)
  OBVIOUS
<1>3. Eye(d) \in Square(d) /\ \A a, b \in Square(d) : Dot(a, b) \in Square(d)
  BY EyeTyped, DotEntries
<1>4. G \in [(1..n) \X Square(d) -> Square(d)]
  BY <1>2, <1>3
<1>5. PICK h \in [0..n -> Square(d)] : IsRun(h, n, Eye(d), G)
  <2> HIDE DEF G
  <2> QED
    BY <1>2, <1>3, <1>4, RunExists
<1>6. Is(h)
  <2>1. h[0] = Eye(d)
    BY <1>5 DEF IsRun
  <2>2. ASSUME NEW k \in 1..n PROVE h[k] = Dot(us[k], h[k - 1])
    <3>1. k - 1 \in 0..n /\ h[k - 1] \in Square(d)
      OBVIOUS
    <3>2. h[k] = G[<<k, h[k - 1]>>]
      BY <1>5 DEF IsRun
    <3> QED
      BY <3>1, <3>2
  <2>3. \A k \in 0..n : h[k] = IF k = 0 THEN Eye(d) ELSE Dot(us[k], h[k - 1])
    BY <2>1, <2>2
  <2> HIDE DEF G
  <2> QED
    BY <2>3
<1>7. Is(f)
  BY <1>6
<1> HIDE DEF f
<1>8. f[0] = Eye(d) /\ \A k \in 1..n : f[k] = Dot(us[k], f[k - 1])
  BY <1>2, <1>7
<1> DEFINE T == {k \in 0..n : f[k] \in Square(d)}
<1>9. 0 \in T /\ \A k \in 0..(n - 1) : k \in T => k + 1 \in T
  <2>1. 0 \in T
    BY <1>2, <1>3, <1>8
  <2>2. ASSUME NEW k \in 0..(n - 1), k \in T PROVE k + 1 \in T
    <3>1. k + 1 \in 1..n /\ (k + 1) - 1 = k /\ us[k + 1] \in Square(d)
      BY <1>2
    <3>2. f[k + 1] = Dot(us[k + 1], f[k])
      BY <1>8, <3>1
    <3> QED
      BY <1>3, <2>2, <3>1, <3>2
  <2> QED
    BY <2>1, <2>2
<1>10. 0..n \subseteq T
  <2> HIDE DEF T
  <2> QED
    BY <1>9, UpTo
<1> QED
  BY <1>1, <1>8, <1>10

\* The fidelity of a pulse is a number, or lost.
LEMMA FidelityTyped ==
  ASSUME NEW d \in Nat, NEW n \in Nat, NEW target \in Square(d),
         \A a \in Levels \X Levels : Propagator[d][a] \in Square(d),
         NEW p \in [i : [1..n -> Levels \cup {Lost}], q : [1..n -> Levels \cup {Lost}]]
  PROVE  FidelityAt(target, p) \in Int
<1>1. CASE IsLost(p)
  BY <1>1 DEF FidelityAt, NaN
<1>2. CASE ~IsLost(p)
  <2> DEFINE us == [t \in DOMAIN p.i |-> Propagator[d][<<p.i[t], p.q[t]>>]]
  <2>1. DOMAIN p.i = 1..n /\ \A t \in 1..n : p.i[t] \in Levels /\ p.q[t] \in Levels
    <3>1. p.i \in [1..n -> Levels \cup {Lost}] /\ p.q \in [1..n -> Levels \cup {Lost}]
      OBVIOUS
    <3>2. \A t \in 1..n : p.i[t] # Lost /\ p.q[t] # Lost
      BY <1>2, <3>1 DEF IsLost
    <3> QED
      BY <3>1, <3>2
  <2>2. us \in [1..n -> Square(d)]
    <3>1. \A i, q \in Levels : Propagator[d][<<i, q>>] \in Square(d)
      <4>1. \A i, q \in Levels : <<i, q>> \in Levels \X Levels
        OBVIOUS
      <4> QED
        BY <4>1, Zenon
    <3>2. \A t \in 1..n : Propagator[d][<<p.i[t], p.q[t]>>] \in Square(d)
      BY <2>1, <3>1
    <3> QED
      BY <2>1, <3>2
  <2>3. us \in Seq(Square(d))
    <3> HIDE DEF us
    <3> QED
      BY <2>2
  <2>4. ChainAt(d, p) \in Square(d)
    <3>1. ChainAt(d, p) = ForwardAt(d, us)[Len(us)]
      BY DEF ChainAt
    <3> HIDE DEF us
    <3>2. Len(us) = n /\ n \in 0..n
      BY <2>2
    <3>3. \A k \in 0..n : ForwardAt(d, us)[k] \in Square(d)
      BY <2>2, ForwardRuns
    <3> QED
      BY <3>1, <3>2, <3>3
  <2>5. Overlap(ChainAt(d, p), target) \in Complex
    BY <2>4, DaggerEntries, DotEntries, TraceTyped DEF Overlap
  <2>6. NormSqr(Overlap(ChainAt(d, p), target)) \in Int /\ Len(target) = d /\ d * d \in Int
    BY <2>5, ArithmeticTyped, SquareLen
  <2>7. GateFidelity(ChainAt(d, p), target) \in Int
    BY <2>6 DEF GateFidelity, NaN, Full
  <2> QED
    BY <1>2, <2>6, <2>7 DEF FidelityAt
<1> QED
  BY <1>1, <1>2

Seen(h) == {h[k] : k \in DOMAIN h}

\* A fidelity that no entry of a history is above, and that one of them is, or zero.
BestOf(h, fidelity) ==
  /\ fidelity \in Nat /\ fidelity \in Seen(h) \cup {0}
  /\ \A fid \in Seen(h) : ~Above(fid, fidelity)
NotYet(h, target) == \A fid \in Seen(h) : ~AtLeast(fid, target)

LEMMA SeenFacts ==
  ASSUME NEW h \in Seq(Int), NEW fid \in Int
  PROVE  /\ Seen(Append(h, fid)) = Seen(h) \cup {fid} /\ Seen(h) \subseteq Int
         /\ Append(h, fid) \in Seq(Int) /\ Len(Append(h, fid)) = Len(h) + 1
         /\ Append(h, fid)[Len(Append(h, fid))] = fid
<1> DEFINE m == Len(h) + 1
<1>1. /\ Append(h, fid) \in Seq(Int) /\ Len(Append(h, fid)) = m /\ DOMAIN Append(h, fid) = 1..m
      /\ DOMAIN h = 1..Len(h) /\ Len(h) \in Nat /\ Append(h, fid)[m] = fid
      /\ \A k \in 1..Len(h) : Append(h, fid)[k] = h[k] /\ h[k] \in Int
  OBVIOUS
<1>2. 1..m = (1..Len(h)) \cup {m}
  BY <1>1
<1> HIDE DEF m
<1>3. Seen(Append(h, fid)) = Seen(h) \cup {fid}
  BY <1>1, <1>2 DEF Seen
<1> QED
  BY <1>1, <1>3 DEF Seen, m

\* One more fidelity: the best of the history stays the best of it.
LEMMA BestGrows ==
  ASSUME NEW h \in Seq(Int), NEW fid \in Int, NEW fidelity \in Nat, BestOf(h, fidelity),
         NEW grown, grown = IF Above(fid, fidelity) THEN fid ELSE fidelity
  PROVE  BestOf(Append(h, fid), grown)
<1>1. Seen(Append(h, fid)) = Seen(h) \cup {fid} /\ Seen(h) \subseteq Int
  BY SeenFacts
<1>2. CASE Above(fid, fidelity)
  BY <1>1, <1>2 DEF BestOf, Above, NaN
<1>3. CASE ~Above(fid, fidelity)
  BY <1>1, <1>3 DEF BestOf, Above
<1> QED
  BY <1>2, <1>3

\* Where the target is reached for the first time, the best is the last or nothing.
LEMMA ReachedLast ==
  ASSUME NEW h \in Seq(Int), NEW fid \in Int, NEW fidelity \in Nat, NEW target \in Int,
         BestOf(h, fidelity), NotYet(h, target), AtLeast(fid, target)
  PROVE  Above(fid, fidelity) \/ fidelity = 0
<1> SUFFICES ASSUME ~Above(fid, fidelity), fidelity # 0 PROVE FALSE
  OBVIOUS
<1>1. fidelity \in Seen(h) /\ fidelity >= fid /\ fid >= target
  BY DEF BestOf, Above, AtLeast
<1>2. AtLeast(fidelity, target)
  BY <1>1 DEF AtLeast, NaN
<1> QED
  BY <1>1, <1>2 DEF NotYet

-----------------------------------------------------------------------------
(* Gradient ascent on the gate fidelity                                     *)

PulseOver(n) == [i : [1..n -> Levels \cup {Lost}], q : [1..n -> Levels \cup {Lost}]]

\* What the optimiser works on: a call it accepted.
WorksOn(call) ==
  /\ gconfig = call.config /\ matrices.target \in Square(call.dim)
  /\ \A k \in {1, 2} : matrices.controls[k] \in Square(call.dim)
  /\ pulse \in PulseOver(call.config.num_time_steps)

\* Between two iterations: the best pulse is the best of what was seen, with its own
\* fidelity, and nothing seen has reached the target.
Climbing ==
  /\ history \in Seq(Int) /\ Len(history) <= gconfig.max_iterations
  /\ BestOf(history, best.fidelity) /\ NotYet(history, gconfig.target_fidelity)
  /\ best.fidelity > 0 => Fidelity(best.pulse) = best.fidelity

GrapeInv ==
  /\ gphase \in {"idle", "refused", "panicked", "ascending", "returned"}
  /\ gphase = "idle" => history = <<>>
  /\ gphase = "ascending" => Climbing /\ \E call \in GrapeCalls : WorksOn(call)
  /\ ResultIsBest

LEMMA GrapeInitInv == GrapeInit => GrapeInv
BY DEF GrapeInit, GrapeInv, ResultIsBest

LEMMA OptimizeStarts ==
  ASSUME GrapeInv, NEW call \in GrapeCalls, Optimize(call)
  PROVE  GrapeInv'
<1> DEFINE d == call.dim
           n == call.config.num_time_steps
<1>0. /\ gphase = "idle" /\ history = <<>> /\ history' = <<>> /\ gresult' = gresult
      /\ call.config \in GrapeConfigType /\ d \in Nat /\ call.target \in Seq(Int)
      /\ InitialI[n] \in [1..n -> Levels] /\ InitialQ[n] \in [1..n -> Levels]
      /\ call.controls \in Seq(Seq(Int))
  BY GrapeAssumption DEF Optimize, GrapeInv
<1>1. CASE gphase' \in {"panicked", "refused"}
  BY <1>0, <1>1 DEF GrapeInv, ResultIsBest
<1>2. CASE gphase' \notin {"panicked", "refused"}
  <2>1. /\ gphase' = "ascending" /\ gconfig' = call.config /\ Flattened(call.target, d)
        /\ matrices' = [target |-> FlatToComplexMatrix(call.target, d),
                        controls |-> [k \in {1, 2} |-> FlatToComplexMatrix(call.controls[k], d)]]
        /\ Len(call.controls) >= 2 /\ \A k \in DOMAIN call.controls : Flattened(call.controls[k], d)
        /\ pulse' = [i |-> InitialI[n], q |-> InitialQ[n]] /\ best' = [fidelity |-> 0, pulse |-> pulse']
    BY <1>2 DEF Optimize
  <2>2. matrices'.target \in Square(d)
    BY <1>0, <2>1, FlatTyped
  <2>3. pulse' \in PulseOver(n)
    BY <1>0, <2>1 DEF PulseOver
  <2>4. \A k \in {1, 2} : matrices'.controls[k] \in Square(d)
    <3>1. ASSUME NEW k \in {1, 2} PROVE call.controls[k] \in Seq(Int) /\ Flattened(call.controls[k], d)
      BY <1>0, <2>1
    <3>2. ASSUME NEW k \in {1, 2} PROVE FlatToComplexMatrix(call.controls[k], d) \in Square(d)
      BY <1>0, <3>1, FlatTyped
    <3> QED
      BY <2>1, <3>2
  <2>5. WorksOn(call)'
    BY <2>1, <2>2, <2>3, <2>4 DEF WorksOn
  <2>6. Seen(<<>>) = {} /\ <<>> \in Seq(Int) /\ Len(<<>>) = 0
    BY DEF Seen
  <2>7. call.config.max_iterations \in Nat
    BY <1>0 DEF GrapeConfigType
  <2>8. Climbing'
    BY <1>0, <2>1, <2>6, <2>7 DEF Climbing, BestOf, NotYet
  <2> QED
    BY <2>1, <2>5, <2>8 DEF GrapeInv, ResultIsBest
<1> QED
  BY <1>1, <1>2

\* What is returned has what the iterations promise.
LEMMA ReturnsBest ==
  ASSUME NEW fid, NEW converged \in BOOLEAN, Return(fid, converged),
         history' \in Seq(Int), Len(history') <= gconfig'.max_iterations,
         BestOf(history', best'.fidelity),
         UNCHANGED matrices,
         best'.fidelity > 0 =>
           /\ Fidelity(best'.pulse) = best'.fidelity
           /\ gresult'.final_unitary = Chain(ComputePropagators(best'.pulse)),
         converged <=> \E f \in Seen(history') : AtLeast(f, gconfig'.target_fidelity)
  PROVE  ResultIsBest'
<1>1. /\ gresult'.pulse = best'.pulse /\ gresult'.fidelity = best'.fidelity
      /\ gresult'.iterations = Len(history') /\ gresult'.converged = converged
  BY DEF Return
<1>2. Seen(history') = {history'[k] : k \in DOMAIN history'}
  BY DEF Seen
<1>3. gresult'.fidelity > 0 =>
        /\ Fidelity(gresult.pulse)' = gresult'.fidelity
        /\ gresult'.final_unitary = Chain(ComputePropagators(gresult.pulse))'
  <2>1. /\ \A p : Fidelity(p)' = Fidelity(p)
        /\ \A p : Chain(ComputePropagators(p))' = Chain(ComputePropagators(p))
    BY FidelityKept
  <2>2. /\ Fidelity(gresult.pulse)' = Fidelity(gresult'.pulse)
        /\ Chain(ComputePropagators(gresult.pulse))' = Chain(ComputePropagators(gresult'.pulse))
    BY <2>1
  <2> QED
    BY <1>1, <2>2
<1>4. \A f \in Seen(history') : ~Above(f, gresult'.fidelity)
  BY <1>1 DEF BestOf
<1>5. gresult'.fidelity \in Seen(history') \cup {0}
  BY <1>1 DEF BestOf
<1> QED
  BY <1>1, <1>2, <1>3, <1>4, <1>5 DEF ResultIsBest

\* An update leaves a pulse of as many steps.
LEMMA UpdatesTyped ==
  ASSUME NEW p, NEW n \in Nat, gconfig.num_time_steps = n, NEW u \in Updates(p)
  PROVE  u \in PulseOver(n)
<1>1. CASE IsLost(p)
  BY <1>1 DEF Updates, PulseOver, Steps
<1>2. CASE ~IsLost(p)
  <2> DEFINE moved(channel) == {f \in [Steps -> Levels \cup {Lost}] :
                                  \A t \in Steps : f[t] \in Reached(p[channel][t], Gradient(p, channel, t))}
  <2>1. u \in [i : moved("i"), q : moved("q")]
    BY <1>2 DEF Updates
  <2>2. \A c : moved(c) \subseteq [1..n -> Levels \cup {Lost}]
    BY DEF Steps
  <2> HIDE DEF moved
  <2> QED
    BY <2>1, <2>2 DEF PulseOver
<1> QED
  BY <1>1, <1>2

LEMMA AscendKeeps ==
  ASSUME GrapeInv, Ascend
  PROVE  GrapeInv'
<1> DEFINE fid == Fidelity(pulse)
           target == gconfig.target_fidelity
<1>1. /\ gphase = "ascending" /\ Len(history) < gconfig.max_iterations
      /\ history' = Append(history, fid) /\ best' = Better(fid)
      /\ UNCHANGED <<gconfig, matrices>>
      /\ IF AtLeast(fid, target)
           THEN Return(fid, TRUE) /\ UNCHANGED pulse
           ELSE pulse' \in Updates(pulse) /\ UNCHANGED <<gphase, gresult>>
  BY DEF Ascend
<1>2. Climbing /\ \E call \in GrapeCalls : WorksOn(call)
  BY <1>1 DEF GrapeInv
<1>3. PICK call \in GrapeCalls : WorksOn(call)
  BY <1>2
<1> DEFINE n == call.config.num_time_steps
<1>4. /\ gconfig = call.config /\ matrices.target \in Square(call.dim) /\ pulse \in PulseOver(n)
      /\ call.dim \in Nat /\ call.config \in GrapeConfigType
      /\ \A a \in Levels \X Levels : Propagator[call.dim][a] \in Square(call.dim)
  BY <1>3, GrapeAssumption DEF WorksOn
<1>5. n \in Nat /\ target \in Int /\ gconfig.max_iterations \in Nat
  BY <1>4 DEF GrapeConfigType
<1> HIDE DEF n, target
<1>6. fid \in Int
  BY <1>4, <1>5, FidelityIs, FidelityTyped DEF PulseOver
<1> HIDE DEF fid
<1>7. history \in Seq(Int) /\ BestOf(history, best.fidelity) /\ NotYet(history, target)
      /\ best.fidelity \in Nat
  BY <1>2 DEF Climbing, BestOf, target
<1>8. /\ history' \in Seq(Int) /\ Len(history') <= gconfig.max_iterations
      /\ Seen(history') = Seen(history) \cup {fid}
  BY <1>1, <1>5, <1>6, <1>7, SeenFacts
<1>9. best' = IF Above(fid, best.fidelity) THEN [fidelity |-> fid, pulse |-> pulse] ELSE best
  BY <1>1 DEF Better
<1>10. BestOf(history', best'.fidelity)
  <2>1. best'.fidelity = IF Above(fid, best.fidelity) THEN fid ELSE best.fidelity
    BY <1>9
  <2> QED
    BY <1>1, <1>6, <1>7, <2>1, BestGrows
<1>11. best'.fidelity > 0 => Fidelity(best'.pulse) = best'.fidelity
  BY <1>2, <1>9 DEF fid, Climbing
<1>12. CASE AtLeast(fid, target)
  <2>1. Return(fid, TRUE) /\ gphase' = "returned"
    BY <1>1, <1>12 DEF Return
  <2>2. Above(fid, best.fidelity) \/ best.fidelity = 0
    BY <1>5, <1>6, <1>7, <1>12, ReachedLast
  <2>3. best'.fidelity > 0 => gresult'.final_unitary = Chain(ComputePropagators(best'.pulse))
    <3>1. gresult'.final_unitary = Chain(ComputePropagators(pulse))
      BY <2>1 DEF Return
    <3>2. best'.fidelity > 0 => best'.pulse = pulse
      BY <1>9, <2>2
    <3> QED
      BY <3>1, <3>2
  <2>4. TRUE <=> \E f \in Seen(history') : AtLeast(f, gconfig'.target_fidelity)
    BY <1>1, <1>8, <1>12 DEF target
  <2>5. ResultIsBest'
    BY <1>1, <1>8, <1>10, <1>11, <2>1, <2>3, <2>4, ReturnsBest
  <2> QED
    BY <2>1, <2>5 DEF GrapeInv
<1>13. CASE ~AtLeast(fid, target)
  <2>1. pulse' \in Updates(pulse) /\ gphase' = "ascending"
    BY <1>1, <1>13
  <2>2. pulse' \in PulseOver(n)
    BY <1>4, <1>5, <2>1, UpdatesTyped DEF n
  <2>3. WorksOn(call)'
    BY <1>1, <1>3, <1>4, <2>2 DEF WorksOn, n
  <2>4. NotYet(history', target)
    BY <1>7, <1>8, <1>13 DEF NotYet
  <2>5. best'.fidelity > 0 => Fidelity(best.pulse)' = best'.fidelity
    BY <1>1, <1>11, FidelityKept
  <2>6. Climbing'
    BY <1>1, <1>8, <1>10, <2>4, <2>5 DEF Climbing, target
  <2> QED
    BY <2>1, <2>3, <2>6 DEF GrapeInv, ResultIsBest
<1> QED
  BY <1>12, <1>13

LEMMA GiveUpKeeps ==
  ASSUME GrapeInv, GiveUp
  PROVE  GrapeInv'
<1>1. /\ gphase = "ascending" /\ UNCHANGED <<gconfig, matrices, pulse, best, history>>
      /\ Return(best.fidelity, FALSE) /\ gphase' = "returned"
  BY DEF GiveUp, Return
<1>2. Climbing
  BY <1>1 DEF GrapeInv
<1>3. /\ history' \in Seq(Int) /\ Len(history') <= gconfig'.max_iterations
      /\ BestOf(history', best'.fidelity) /\ NotYet(history', gconfig'.target_fidelity)
      /\ best'.fidelity > 0 => Fidelity(best'.pulse) = best'.fidelity
  BY <1>1, <1>2 DEF Climbing
<1>4. best'.fidelity > 0 => ~IsLost(best'.pulse)
  BY <1>3 DEF Fidelity, NaN
<1>5. best'.fidelity > 0 => gresult'.final_unitary = Chain(ComputePropagators(best'.pulse))
  BY <1>1, <1>4 DEF Return
<1>6. FALSE <=> \E f \in Seen(history') : AtLeast(f, gconfig'.target_fidelity)
  BY <1>3 DEF NotYet
<1>7. ResultIsBest'
  BY <1>1, <1>3, <1>5, <1>6, ReturnsBest
<1> QED
  BY <1>1, <1>7 DEF GrapeInv

LEMMA GrapeStays == GrapeInv /\ UNCHANGED grapeVars => GrapeInv'
<1> SUFFICES ASSUME GrapeInv, UNCHANGED grapeVars PROVE GrapeInv'
  OBVIOUS
<1>1. UNCHANGED <<gphase, gconfig, matrices, pulse, best, history, gresult>>
  BY DEF grapeVars
<1>2. /\ \A p : Fidelity(p)' = Fidelity(p)
      /\ \A p : Chain(ComputePropagators(p))' = Chain(ComputePropagators(p))
  BY <1>1, FidelityKept
<1>3. /\ Fidelity(best.pulse)' = Fidelity(best.pulse)
      /\ Fidelity(gresult.pulse)' = Fidelity(gresult.pulse)
      /\ Chain(ComputePropagators(gresult.pulse))' = Chain(ComputePropagators(gresult.pulse))
  BY <1>1, <1>2
<1>4. Climbing => Climbing'
  BY <1>1, <1>3 DEF Climbing
<1>5. \A call : WorksOn(call) => WorksOn(call)'
  BY <1>1 DEF WorksOn
<1>6. ResultIsBest => ResultIsBest'
  BY <1>1, <1>3 DEF ResultIsBest
<1> QED
  BY <1>1, <1>4, <1>5, <1>6 DEF GrapeInv

LEMMA GrapeStepInv == GrapeInv /\ [GrapeNext]_grapeVars => GrapeInv'
BY GrapeStays, OptimizeStarts, AscendKeeps, GiveUpKeeps DEF GrapeNext

-----------------------------------------------------------------------------
(* The gradient of the gate fidelity                                        *)

\* The backward chain as a function of what the call gave.
BackwardAt(d, us) ==
  LET n == Len(us)
      chain[k \in 0..n] == IF k = n THEN Eye(d) ELSE Dot(chain[k + 1], us[k + 1])
  IN chain

LEMMA BackwardRuns ==
  ASSUME NEW d \in Nat, NEW n \in Nat, NEW us \in [1..n -> Square(d)]
  PROVE  /\ BackwardAt(d, us)[n] = Eye(d)
         /\ \A k \in 0..(n - 1) : BackwardAt(d, us)[k] = Dot(BackwardAt(d, us)[k + 1], us[k + 1])
         /\ \A k \in 0..n : BackwardAt(d, us)[k] \in Square(d)
<1> DEFINE Is(g) == g = [k \in 0..n |-> IF k = n THEN Eye(d) ELSE Dot(g[k + 1], us[k + 1])]
           f == CHOOSE g : Is(g)
           G == [p \in (1..n) \X Square(d) |-> Dot(p[2], us[n + 1 - p[1]])]
<1>1. BackwardAt(d, us) = f
  <2>1. Len(us) = n
    OBVIOUS
  <2> QED
    BY <2>1 DEF BackwardAt
<1>2. \A k \in 1..n : us[k] \in Square(d) /\ n + 1 - k \in 1..n
  OBVIOUS
<1>3. Eye(d) \in Square(d) /\ \A a, b \in Square(d) : Dot(a, b) \in Square(d)
  BY EyeTyped, DotEntries
<1>4. G \in [(1..n) \X Square(d) -> Square(d)]
  BY <1>2, <1>3
<1>5. PICK h \in [0..n -> Square(d)] : IsRun(h, n, Eye(d), G)
  <2> HIDE DEF G
  <2> QED
    BY <1>3, <1>4, RunExists
<1> DEFINE g == [k \in 0..n |-> h[n - k]]
<1>6. Is(g)
  <2>1. h[0] = Eye(d) /\ n - n = 0
    BY <1>5 DEF IsRun
  <2>2. ASSUME NEW k \in 0..(n - 1) PROVE h[n - k] = Dot(h[n - (k + 1)], us[k + 1])
    <3>1. n - k \in 1..n /\ (n - k) - 1 = n - (k + 1) /\ n + 1 - (n - k) = k + 1 /\ n - (k + 1) \in 0..n
      OBVIOUS
    <3>2. h[n - k] = G[<<n - k, h[(n - k) - 1]>>]
      BY <1>5, <3>1 DEF IsRun
    <3>3. h[n - (k + 1)] \in Square(d)
      BY <3>1
    <3> QED
      BY <3>1, <3>2, <3>3
  <2>3. ASSUME NEW k \in 0..n PROVE g[k] = IF k = n THEN Eye(d) ELSE Dot(g[k + 1], us[k + 1])
    <3>1. CASE k = n
      BY <2>1, <3>1
    <3>2. CASE k # n
      <4>1. k \in 0..(n - 1) /\ k + 1 \in 0..n
        BY <3>2
      <4> QED
        BY <2>2, <3>2, <4>1
    <3> QED
      BY <3>1, <3>2
  <2> HIDE DEF G
  <2>4. g = [k \in 0..n |-> g[k]]
    OBVIOUS
  <2> HIDE DEF g
  <2> QED
    BY <2>3, <2>4
<1>7. Is(f)
  BY <1>6
<1> HIDE DEF f
<1>8. f[n] = Eye(d) /\ \A k \in 0..(n - 1) : f[k] = Dot(f[k + 1], us[k + 1])
  BY <1>7
<1> DEFINE T == {j \in 0..n : f[n - j] \in Square(d)}
<1>9. 0 \in T /\ \A j \in 0..(n - 1) : j \in T => j + 1 \in T
  <2>1. 0 \in T
    <3>1. n - 0 = n
      OBVIOUS
    <3> QED
      BY <1>3, <1>8, <3>1
  <2>2. ASSUME NEW j \in 0..(n - 1), j \in T PROVE j + 1 \in T
    <3>1. n - (j + 1) \in 0..(n - 1) /\ (n - (j + 1)) + 1 = n - j /\ n - j \in 1..n /\ j + 1 \in 0..n
      OBVIOUS
    <3>2. f[n - (j + 1)] = Dot(f[n - j], us[n - j])
      BY <1>8, <3>1
    <3>3. f[n - j] \in Square(d) /\ us[n - j] \in Square(d)
      BY <2>2, <3>1
    <3> QED
      BY <1>3, <3>1, <3>2, <3>3
  <2> QED
    BY <2>1, <2>2
<1>10. 0..n \subseteq T
  <2> HIDE DEF T
  <2> QED
    BY <1>9, UpTo
<1>11. ASSUME NEW k \in 0..n PROVE f[k] \in Square(d)
  <2>1. n - k \in 0..n /\ n - (n - k) = k
    OBVIOUS
  <2> QED
    BY <1>10, <2>1
<1> QED
  BY <1>1, <1>8, <1>11

\* With another propagator at one step, the chain is what comes after it, the propagator
\* and what came before it.
LEMMA ChainSplits ==
  ASSUME NEW d \in Nat, NEW n \in Nat, NEW us \in [1..n -> Square(d)], NEW t \in 1..n, NEW v \in Square(d)
  PROVE  ForwardAt(d, [us EXCEPT ![t] = v])[n] = Dot(BackwardAt(d, us)[t], Dot(v, ForwardAt(d, us)[t - 1]))
<1> DEFINE ws == [us EXCEPT ![t] = v]
           F == ForwardAt(d, us)
           W == ForwardAt(d, ws)
           B == BackwardAt(d, us)
<1>1. ws \in [1..n -> Square(d)] /\ ws[t] = v /\ \A k \in (1..n) \ {t} : ws[k] = us[k]
  OBVIOUS
<1> HIDE DEF ws
<1>2. F[0] = Eye(d) /\ (\A k \in 1..n : F[k] = Dot(us[k], F[k - 1])) /\ \A k \in 0..n : F[k] \in Square(d)
  BY ForwardRuns
<1>3. W[0] = Eye(d) /\ (\A k \in 1..n : W[k] = Dot(ws[k], W[k - 1])) /\ \A k \in 0..n : W[k] \in Square(d)
  BY <1>1, ForwardRuns
<1>4. B[n] = Eye(d) /\ (\A k \in 0..(n - 1) : B[k] = Dot(B[k + 1], us[k + 1])) /\ \A k \in 0..n : B[k] \in Square(d)
  BY BackwardRuns
<1> HIDE DEF F, W, B
<1>5. W[t - 1] = F[t - 1]
  <2> DEFINE T == {k \in 0..(t - 1) : W[k] = F[k]}
  <2>1. 0 \in T
    BY <1>2, <1>3
  <2>2. ASSUME NEW k \in 0..((t - 1) - 1), k \in T PROVE k + 1 \in T
    <3>1. k + 1 \in (1..n) \ {t} /\ (k + 1) - 1 = k /\ k + 1 \in 0..(t - 1)
      OBVIOUS
    <3> QED
      BY <1>1, <1>2, <1>3, <2>2, <3>1
  <2>3. t - 1 \in Nat /\ t - 1 \in 0..(t - 1)
    OBVIOUS
  <2>4. 0..(t - 1) \subseteq T
    <3> HIDE DEF T
    <3> QED
      BY <2>1, <2>2, <2>3, UpTo
  <2> QED
    BY <2>3, <2>4
<1>6. W[t] = Dot(v, F[t - 1])
  BY <1>1, <1>3, <1>5
<1>7. Dot(B[n], W[n]) = Dot(B[t], W[t])
  <2> DEFINE T == {j \in 0..(n - t) : Dot(B[t + j], W[t + j]) = Dot(B[t], W[t])}
  <2>1. 0 \in T
    <3>1. t + 0 = t /\ 0 \in 0..(n - t)
      OBVIOUS
    <3> QED
      BY <3>1
  <2>2. ASSUME NEW j \in 0..((n - t) - 1), j \in T PROVE j + 1 \in T
    <3> DEFINE k == t + j
    <3>1. /\ k \in 0..(n - 1) /\ k \in 0..n /\ k + 1 \in (1..n) \ {t} /\ k + 1 \in 0..n /\ (k + 1) - 1 = k
          /\ t + (j + 1) = k + 1 /\ j + 1 \in 0..(n - t)
      OBVIOUS
    <3>2. Dot(B[k], W[k]) = Dot(B[t], W[t])
      BY <2>2
    <3> HIDE DEF k
    <3>3. B[k] = Dot(B[k + 1], us[k + 1]) /\ W[k + 1] = Dot(us[k + 1], W[k])
      BY <1>1, <1>3, <1>4, <3>1
    <3>4. B[k + 1] \in Square(d) /\ us[k + 1] \in Square(d) /\ W[k] \in Square(d)
      BY <1>3, <1>4, <3>1
    <3>5. Dot(Dot(B[k + 1], us[k + 1]), W[k]) = Dot(B[k + 1], Dot(us[k + 1], W[k]))
      BY <3>4, DotAssociates
    <3> QED
      BY <3>1, <3>2, <3>3, <3>5
  <2>3. n - t \in Nat /\ n - t \in 0..(n - t) /\ t + (n - t) = n
    OBVIOUS
  <2>4. 0..(n - t) \subseteq T
    <3> HIDE DEF T
    <3> QED
      BY <2>1, <2>2, <2>3, UpTo
  <2>5. n - t \in T
    BY <2>3, <2>4
  <2> QED
    BY <2>3, <2>5
<1>8. Dot(B[n], W[n]) = W[n]
  <2>1. n \in 1..n /\ n - 1 \in 0..n
    OBVIOUS
  <2>2. W[n] = Dot(ws[n], W[n - 1]) /\ ws[n] \in Square(d) /\ W[n - 1] \in Square(d)
    BY <1>1, <1>3, <2>1
  <2>3. W[n] \in Reduced(d)
    BY <2>2, DotParts
  <2> QED
    BY <1>4, <2>3, EyeLeaves
<1> QED
  BY <1>6, <1>7, <1>8 DEF F, W, B, ws

\* The overlap with the target is linear in the propagator of a step.
LEMMA OverlapLinear ==
  ASSUME NEW d \in Nat, NEW target \in Square(d), NEW b \in Square(d), NEW f \in Square(d),
         NEW u \in Square(d), NEW v \in Square(d)
  PROVE  /\ Overlap(Dot(b, Dot(u, f)), target) \in Residues
         /\ Overlap(Dot(b, Dot(Sum(u, v), f)), target) =
              Plus(Overlap(Dot(b, Dot(u, f)), target), Overlap(Dot(b, Dot(v, f)), target))
         /\ Overlap(Dot(b, Dot(Difference(u, v), f)), target) =
              Minus(Overlap(Dot(b, Dot(u, f)), target), Overlap(Dot(b, Dot(v, f)), target))
<1> DEFINE l == Dagger(target)
           x == Dot(l, Dot(b, Dot(u, f)))
           y == Dot(l, Dot(b, Dot(v, f)))
<1>1. l \in Square(d) /\ \A m, k \in Square(d) : Dot(m, k) \in Square(d) /\ Sum(m, k) \in Square(d)
                                               /\ Difference(m, k) \in Square(d)
  BY MatrixTypes
<1> HIDE DEF l
<1>2. /\ Dot(u, f) \in Square(d) /\ Dot(v, f) \in Square(d)
      /\ Dot(b, Dot(u, f)) \in Square(d) /\ Dot(b, Dot(v, f)) \in Square(d)
      /\ x \in Square(d) /\ y \in Square(d)
  BY <1>1
<1>3. Dot(l, Dot(b, Dot(Sum(u, v), f))) = Sum(x, y)
  <2>1. Dot(Sum(u, v), f) = Sum(Dot(u, f), Dot(v, f))
    BY DotOfSums
  <2>2. Dot(b, Sum(Dot(u, f), Dot(v, f))) = Sum(Dot(b, Dot(u, f)), Dot(b, Dot(v, f)))
    BY <1>2, DotOfSums
  <2>3. Dot(l, Sum(Dot(b, Dot(u, f)), Dot(b, Dot(v, f)))) = Sum(x, y)
    BY <1>1, <1>2, DotOfSums
  <2> QED
    BY <2>1, <2>2, <2>3
<1>4. ASSUME NEW m \in Square(d), NEW p \in Square(d), NEW q \in Square(d)
      PROVE  /\ Dot(m, Difference(p, q)) = Difference(Dot(m, p), Dot(m, q))
             /\ Dot(Difference(p, q), m) = Difference(Dot(p, m), Dot(q, m))
  <2> DEFINE s == Scaled(MinusOne, q)
  <2>1. MinusOne \in Complex /\ Difference(p, q) = Sum(p, s)
    BY DifferenceIsSum, RealNumbersClosed
  <2>2. s \in Square(d)
    BY <2>1, MatrixTypes
  <2>3. Dot(m, s) = Scaled(MinusOne, Dot(m, q)) /\ Dot(s, m) = Scaled(MinusOne, Dot(q, m))
    BY <2>1, DotOfScaled
  <2> HIDE DEF s
  <2>4. Dot(m, Sum(p, s)) = Sum(Dot(m, p), Dot(m, s)) /\ Dot(Sum(p, s), m) = Sum(Dot(p, m), Dot(s, m))
    BY <2>2, DotOfSums
  <2>5. /\ Difference(Dot(m, p), Dot(m, q)) = Sum(Dot(m, p), Scaled(MinusOne, Dot(m, q)))
        /\ Difference(Dot(p, m), Dot(q, m)) = Sum(Dot(p, m), Scaled(MinusOne, Dot(q, m)))
    BY <1>1, DifferenceIsSum
  <2> QED
    BY <2>1, <2>3, <2>4, <2>5
<1>5. Dot(l, Dot(b, Dot(Difference(u, v), f))) = Difference(x, y)
  <2>1. Dot(Difference(u, v), f) = Difference(Dot(u, f), Dot(v, f))
    BY <1>4
  <2>2. Dot(b, Difference(Dot(u, f), Dot(v, f))) = Difference(Dot(b, Dot(u, f)), Dot(b, Dot(v, f)))
    BY <1>2, <1>4
  <2>3. Dot(l, Difference(Dot(b, Dot(u, f)), Dot(b, Dot(v, f)))) = Difference(x, y)
    BY <1>1, <1>2, <1>4
  <2> QED
    BY <2>1, <2>2, <2>3
<1> HIDE DEF x, y
<1>6. Trace(Sum(x, y)) = Plus(Trace(x), Trace(y)) /\ Trace(Difference(x, y)) = Minus(Trace(x), Trace(y))
  <2>1. Zero \in Complex
    BY TypedNumbers
  <2> QED
    BY <1>2, <2>1, TraceLinear, DifferenceLinear
<1>7. Trace(x) \in Residues
  BY <1>2, MatrixTypes
<1> QED
  BY <1>3, <1>5, <1>6, <1>7 DEF Overlap, x, y, l

LEMMA GradientFollows == GrapeInv => GradientIsDerivative
<1> SUFFICES ASSUME GrapeInv, gphase = "ascending", ~IsLost(pulse), NEW channel \in Channels, NEW t \in Steps
             PROVE  LET us == ComputePropagators(pulse)
                        squared(f) == NormSqr(Overlap(Chain(f), matrices.target))
                        at(du) == [us EXCEPT ![t] = du]
                        du == Derivative(us, t, channel)
                    IN Real(2 * Gradient(pulse, channel, t)) =
                         Real(squared(at(Sum(us[t], du))) - squared(at(Difference(us[t], du))))
  BY DEF GradientIsDerivative
<1>1. PICK call \in GrapeCalls : WorksOn(call)
  BY DEF GrapeInv
<1> DEFINE d == call.dim
           n == call.config.num_time_steps
           us == ComputePropagators(pulse)
           du == Derivative(us, t, channel)
           target == matrices.target
           at(v) == [us EXCEPT ![t] = v]
<1>2. /\ gconfig = call.config /\ target \in Square(d) /\ pulse \in PulseOver(n)
      /\ d \in Nat /\ n \in Nat /\ \A k \in {1, 2} : matrices.controls[k] \in Square(d)
      /\ \A a \in Levels \X Levels : Propagator[d][a] \in Square(d)
  BY <1>1, GrapeAssumption DEF WorksOn, GrapeConfigType
<1>3. Dim = d /\ t \in 1..n
  <2>1. Len(target) = d
    BY <1>2, SquareLen
  <2> QED
    BY <1>2, <2>1 DEF Dim, Steps
<1>4. us \in [1..n -> Square(d)]
  <2>1. pulse.i \in [1..n -> Levels \cup {Lost}] /\ pulse.q \in [1..n -> Levels \cup {Lost}]
    BY <1>2 DEF PulseOver
  <2>2. \A k \in 1..n : pulse.i[k] \in Levels /\ pulse.q[k] \in Levels
    BY <2>1 DEF IsLost
  <2>3. us = [k \in 1..n |-> Propagator[d][<<pulse.i[k], pulse.q[k]>>]]
    BY <1>3, <2>1 DEF ComputePropagators
  <2>4. \A i, q \in Levels : Propagator[d][<<i, q>>] \in Square(d)
    <3>1. \A i, q \in Levels : <<i, q>> \in Levels \X Levels
      OBVIOUS
    <3> QED
      BY <1>2, <3>1, Zenon
  <2> QED
    BY <2>2, <2>3, <2>4
<1> HIDE DEF d, n, us
<1> DEFINE b == BackwardAt(d, us)[t]
           f == ForwardAt(d, us)[t - 1]
           L(v) == Overlap(Dot(b, Dot(v, f)), target)
<1>5. b \in Square(d) /\ f \in Square(d) /\ us[t] \in Square(d)
  <2>1. t \in 0..n /\ t - 1 \in 0..n
    BY <1>2, <1>3
  <2> QED
    BY <1>2, <1>3, <1>4, <2>1, BackwardRuns, ForwardRuns
<1>6. du \in Square(d)
  <2> DEFINE c == matrices.controls[IF channel = "i" THEN 1 ELSE 2]
  <2>1. du = Dot(Scaled(MinusI, c), us[t]) /\ c \in Square(d)
    BY <1>2 DEF Derivative
  <2>2. MinusI \in Complex
    BY DEF MinusI, Complex
  <2> HIDE DEF c, du
  <2>3. Scaled(MinusI, c) \in Square(d)
    BY <1>2, <2>1, <2>2, MatrixTypes
  <2> QED
    BY <1>2, <1>5, <2>1, <2>3, DotEntries
<1>7. ASSUME NEW v \in Square(d) PROVE Overlap(Chain(at(v)), target) = L(v)
  <2>1. at(v) \in [1..n -> Square(d)] /\ Len(at(v)) = n
    <3>1. at(v) \in [1..n -> Square(d)]
      BY <1>4
    <3> HIDE DEF at
    <3> QED
      BY <1>2, <3>1
  <2>2. Chain(at(v)) = ForwardAt(d, at(v))[n]
    BY <1>3, <2>1 DEF Chain, Forward, ForwardAt
  <2>3. ForwardAt(d, at(v))[n] = Dot(b, Dot(v, f))
    BY <1>2, <1>3, <1>4, ChainSplits
  <2> QED
    BY <2>2, <2>3
<1>8. Overlap(Chain(us), target) = L(us[t])
  <2>1. at(us[t]) = us
    BY <1>4
  <2> QED
    BY <1>5, <1>7, <2>1
<1>9. Gradient(pulse, channel, t) = Real(2 * Times(Conj(L(us[t])), L(du))[1])
  <2>1. Backward(us)[t] = b /\ Forward(us)[t - 1] = f
    BY <1>3 DEF Backward, BackwardAt, Forward, ForwardAt
  <2> DEFINE slope(x, y) == Real(2 * Times(Conj(x), y)[1])
  <2>2. Gradient(pulse, channel, t) =
          slope(Overlap(Chain(us), target), Overlap(Dot(Backward(us)[t], Dot(du, Forward(us)[t - 1])), target))
    BY DEF Gradient, us
  <2>3. Overlap(Dot(Backward(us)[t], Dot(du, Forward(us)[t - 1])), target) = L(du)
    BY <2>1
  <2>4. slope(L(us[t]), L(du)) = Real(2 * Times(Conj(L(us[t])), L(du))[1])
    OBVIOUS
  <2> HIDE DEF L, b, f, du, slope
  <2>5. Gradient(pulse, channel, t) = slope(L(us[t]), L(du))
    BY <1>8, <2>2, <2>3
  <2> QED
    BY <2>4, <2>5
<1> HIDE DEF b, f, du
<1>10. /\ L(us[t]) \in Residues /\ L(du) \in Residues
       /\ L(Sum(us[t], du)) = Plus(L(us[t]), L(du))
       /\ L(Difference(us[t], du)) = Minus(L(us[t]), L(du))
  <2> DEFINE u == us[t]
  <2>1. d \in Nat /\ target \in Square(d) /\ b \in Square(d) /\ f \in Square(d) /\ u \in Square(d) /\ du \in Square(d)
    BY <1>2, <1>5, <1>6
  <2> HIDE DEF u, target
  <2>2. /\ Overlap(Dot(b, Dot(u, f)), target) \in Residues /\ Overlap(Dot(b, Dot(du, f)), target) \in Residues
        /\ Overlap(Dot(b, Dot(Sum(u, du), f)), target) =
             Plus(Overlap(Dot(b, Dot(u, f)), target), Overlap(Dot(b, Dot(du, f)), target))
        /\ Overlap(Dot(b, Dot(Difference(u, du), f)), target) =
             Minus(Overlap(Dot(b, Dot(u, f)), target), Overlap(Dot(b, Dot(du, f)), target))
    BY <2>1, OverlapLinear
  <2> QED
    BY <2>2 DEF u
<1>11. /\ Overlap(Chain(at(Sum(us[t], du))), target) = L(Sum(us[t], du))
       /\ Overlap(Chain(at(Difference(us[t], du))), target) = L(Difference(us[t], du))
  <2>1. Sum(us[t], du) \in Square(d) /\ Difference(us[t], du) \in Square(d)
    BY <1>2, <1>5, <1>6, MatrixTypes
  <2> HIDE DEF at, L
  <2> QED
    BY <1>7, <2>1
<1>12. Real(2 * Gradient(pulse, channel, t)) =
         Real(NormSqr(Overlap(Chain(at(Sum(us[t], du))), target))
              - NormSqr(Overlap(Chain(at(Difference(us[t], du))), target)))
  <2>1. L(us[t]) \in Complex /\ L(du) \in Complex
    BY <1>10, TypedNumbers
  <2> DEFINE chi == L(us[t])
             m == L(du)
  <2> HIDE DEF chi, m
  <2>2. Real(2 * Real(2 * Times(Conj(chi), m)[1])) = Real(NormSqr(Plus(chi, m)) - NormSqr(Minus(chi, m)))
    BY <2>1, SquaresDiffer DEF chi, m
  <2>3. Gradient(pulse, channel, t) = Real(2 * Times(Conj(chi), m)[1])
    BY <1>9 DEF chi, m
  <2>4. /\ Overlap(Chain(at(Sum(us[t], du))), target) = Plus(chi, m)
        /\ Overlap(Chain(at(Difference(us[t], du))), target) = Minus(chi, m)
    BY <1>10, <1>11 DEF chi, m
  <2> QED
    BY <2>2, <2>3, <2>4
<1> QED
  BY <1>12 DEF us, du

\* The gradient the optimiser climbs by is the derivative of the squared overlap with the
\* target along each amplitude, in both channels and at every step (compute_gradients):
\* whatever the propagators, the target and the controls of an accepted call, the chains
\* before and after a step are taken at the right end and multiplied on the right side.
THEOREM GradientCorrect == Spec => []GradientIsDerivative
<1>1. Init => GrapeInv
  BY GrapeInitInv DEF Init
<1>2. GrapeInv /\ [Next]_solverVars => GrapeInv'
  <2>1. [Next]_solverVars => [GrapeNext]_grapeVars
    BY DEF Next, solverVars, GrapeStep, OpenStep, LindbladStep, FeedbackStep, SmeStep, ExpmStep,
           MeasuredStepOf
  <2> QED
    BY <2>1, GrapeStepInv
<1> QED
  BY <1>1, <1>2, GradientFollows, PTL DEF Spec

-----------------------------------------------------------------------------
(* Gradient ascent on the fidelity of an open system                         *)

OpenWorksOn(call) ==
  /\ oconfig = call /\ opulse \in PulseOver(call.grape.num_time_steps)

OpenClimbing ==
  /\ ohistory \in Seq(Int)
  /\ BestOf(ohistory, obest.fidelity) /\ NotYet(ohistory, oconfig.grape.target_fidelity)
  /\ obest.fidelity > 0 => EvaluateFidelity(obest.pulse.i, obest.pulse.q) = obest.fidelity

OpenInv ==
  /\ ophase \in {"idle", "refused", "ascending", "returned"}
  /\ ophase = "idle" => ohistory = <<>>
  /\ ophase = "ascending" => OpenClimbing /\ \E call \in OpenCalls : OpenWorksOn(call)
  /\ OpenResultIsBest

LEMMA OpenInitInv == OpenInit => OpenInv
BY DEF OpenInit, OpenInv, OpenResultIsBest

\* The evolution under a pulse has a fidelity, or is lost.
LEMMA EvaluateTyped ==
  ASSUME NEW call \in OpenCalls, oconfig = call,
         NEW p \in PulseOver(call.grape.num_time_steps)
  PROVE  EvaluateFidelity(p.i, p.q) \in Int
<1> DEFINE n == call.grape.num_time_steps
<1>1. p.i \in [1..n -> Levels \cup {Lost}] /\ p.q \in [1..n -> Levels \cup {Lost}]
  BY DEF PulseOver
<1>2. CASE (\E rate \in oconfig.rates : rate < 0) \/ IsLost([i |-> p.i, q |-> p.q])
  BY <1>2 DEF EvaluateFidelity, NaN
<1>3. CASE ~(\E rate \in oconfig.rates : rate < 0) /\ ~IsLost([i |-> p.i, q |-> p.q])
  <2>1. \A t \in 1..n : p.i[t] # Lost /\ p.q[t] # Lost
    BY <1>1, <1>3 DEF IsLost
  <2>2. p.i \in [1..n -> Levels] /\ p.q \in [1..n -> Levels]
    BY <1>1, <2>1
  <2>3. <<p.i, p.q>> \in [1..n -> Levels] \X [1..n -> Levels]
    BY <2>2
  <2>4. <<p.i, p.q>> \in DOMAIN OpenFidelity
    BY <2>3, OpenAssumption
  <2>5. OpenFidelity[<<p.i, p.q>>] \in Nat \cup {NaN}
    BY <2>4, OpenAssumption
  <2> QED
    BY <1>3, <2>5 DEF EvaluateFidelity, NaN
<1> QED
  BY <1>2, <1>3

LEMMA OptimizeOpenStarts ==
  ASSUME OpenInv, NEW call \in OpenCalls, OptimizeOpen(call)
  PROVE  OpenInv'
<1> DEFINE n == call.grape.num_time_steps
<1>0. /\ ophase = "idle" /\ ohistory = <<>> /\ ohistory' = <<>> /\ oresult' = oresult
      /\ call.grape \in GrapeConfigType
      /\ InitialI[n] \in [1..n -> Levels] /\ InitialQ[n] \in [1..n -> Levels]
  BY OpenAssumption DEF OptimizeOpen, OpenInv
<1>1. CASE ophase' = "refused"
  BY <1>0, <1>1 DEF OpenInv, OpenResultIsBest
<1>2. CASE ophase' # "refused"
  <2>1. /\ ophase' = "ascending" /\ oconfig' = call
        /\ opulse' = [i |-> InitialI[n], q |-> InitialQ[n]] /\ obest' = [fidelity |-> 0, pulse |-> opulse']
    BY <1>2 DEF OptimizeOpen
  <2>2. OpenWorksOn(call)'
    BY <1>0, <2>1 DEF OpenWorksOn, PulseOver
  <2>3. Seen(<<>>) = {} /\ <<>> \in Seq(Int)
    BY DEF Seen
  <2>4. OpenClimbing'
    BY <1>0, <2>1, <2>3 DEF OpenClimbing, BestOf, NotYet
  <2> QED
    BY <2>1, <2>2, <2>4 DEF OpenInv, OpenResultIsBest
<1> QED
  BY <1>1, <1>2

\* What is returned has what the iterations promise.
LEMMA OpenReturnsBest ==
  ASSUME OpenReturn, ohistory' \in Seq(Int), BestOf(ohistory', obest'.fidelity),
         obest'.fidelity > 0 => EvaluateFidelity(obest'.pulse.i, obest'.pulse.q) = obest'.fidelity,
         obest'.fidelity > 0 /\ obest'.fidelity >= oconfig.grape.target_fidelity =>
           obest'.fidelity = ohistory'[Len(ohistory')]
  PROVE  OpenResultIsBest'
<1>1. /\ oresult'.fidelity = obest'.fidelity
      /\ oresult'.converged = (obest'.fidelity >= oconfig.grape.target_fidelity)
      /\ oresult'.open_system_fidelity = EvaluateFidelity(obest'.pulse.i, obest'.pulse.q)
  BY DEF OpenReturn
<1>2. Seen(ohistory') = {ohistory'[k] : k \in DOMAIN ohistory'}
  BY DEF Seen
<1>3. \A f \in Seen(ohistory') : ~Above(f, oresult'.fidelity)
  BY <1>1 DEF BestOf
<1>4. oresult'.fidelity \in Seen(ohistory') \cup {0}
  BY <1>1 DEF BestOf
<1> QED
  BY <1>1, <1>2, <1>3, <1>4 DEF OpenResultIsBest

LEMMA EvaluateKept ==
  ASSUME UNCHANGED oconfig
  PROVE  \A i, q : EvaluateFidelity(i, q)' = EvaluateFidelity(i, q)
BY DEF EvaluateFidelity

LEMMA AscendOpenKeeps ==
  ASSUME OpenInv, AscendOpen
  PROVE  OpenInv'
<1> DEFINE fid == EvaluateFidelity(opulse.i, opulse.q)
           target == oconfig.grape.target_fidelity
<1>1. /\ ophase = "ascending" /\ ohistory' = Append(ohistory, fid) /\ UNCHANGED oconfig
      /\ obest' = IF Above(fid, obest.fidelity) THEN [fidelity |-> fid, pulse |-> opulse] ELSE obest
      /\ IF AtLeast(fid, target)
           THEN OpenReturn /\ UNCHANGED opulse
           ELSE opulse' \in OpenUpdates(opulse, probes') /\ UNCHANGED <<ophase, oresult>>
  BY DEF AscendOpen
<1>2. OpenClimbing /\ \E call \in OpenCalls : OpenWorksOn(call)
  BY <1>1 DEF OpenInv
<1>3. PICK call \in OpenCalls : OpenWorksOn(call)
  BY <1>2
<1> DEFINE n == call.grape.num_time_steps
<1>4. oconfig = call /\ opulse \in PulseOver(n) /\ call.grape \in GrapeConfigType
  BY <1>3, OpenAssumption DEF OpenWorksOn
<1>5. n \in Nat /\ target \in Int
  BY <1>4 DEF GrapeConfigType
<1>6. fid \in Int
  BY <1>4, EvaluateTyped
<1> HIDE DEF fid, target
<1>7. ohistory \in Seq(Int) /\ BestOf(ohistory, obest.fidelity) /\ NotYet(ohistory, target)
      /\ obest.fidelity \in Nat
  BY <1>2 DEF OpenClimbing, BestOf, target
<1>8. /\ ohistory' \in Seq(Int) /\ Seen(ohistory') = Seen(ohistory) \cup {fid}
      /\ ohistory'[Len(ohistory')] = fid
  BY <1>1, <1>6, <1>7, SeenFacts
<1>9. BestOf(ohistory', obest'.fidelity)
  <2>1. obest'.fidelity = IF Above(fid, obest.fidelity) THEN fid ELSE obest.fidelity
    BY <1>1
  <2> QED
    BY <1>1, <1>6, <1>7, <2>1, BestGrows
<1>10. obest'.fidelity > 0 => EvaluateFidelity(obest'.pulse.i, obest'.pulse.q) = obest'.fidelity
  BY <1>1, <1>2 DEF fid, OpenClimbing
<1>11. CASE AtLeast(fid, target)
  <2>1. OpenReturn /\ ophase' = "returned"
    BY <1>1, <1>11 DEF OpenReturn
  <2>2. Above(fid, obest.fidelity) \/ obest.fidelity = 0
    BY <1>5, <1>6, <1>7, <1>11, ReachedLast
  <2>3. obest'.fidelity > 0 => obest'.fidelity = ohistory'[Len(ohistory')]
    BY <1>1, <1>8, <2>2
  <2>4. OpenResultIsBest'
    BY <1>8, <1>9, <1>10, <2>1, <2>3, OpenReturnsBest
  <2> QED
    BY <2>1, <2>4 DEF OpenInv
<1>12. CASE ~AtLeast(fid, target)
  <2>1. opulse' \in OpenUpdates(opulse, probes') /\ ophase' = "ascending"
    BY <1>1, <1>12
  <2>2. opulse' \in PulseOver(n)
    BY <1>4, <2>1 DEF OpenUpdates, OpenSteps, PulseOver
  <2>3. OpenWorksOn(call)'
    BY <1>1, <1>4, <2>2 DEF OpenWorksOn
  <2>4. NotYet(ohistory', target)
    BY <1>7, <1>8, <1>12 DEF NotYet
  <2>5. obest'.fidelity > 0 => EvaluateFidelity(obest.pulse.i, obest.pulse.q)' = obest'.fidelity
    BY <1>1, <1>10, EvaluateKept
  <2>6. OpenClimbing'
    BY <1>1, <1>8, <1>9, <2>4, <2>5 DEF OpenClimbing, target
  <2> QED
    BY <2>1, <2>3, <2>6 DEF OpenInv, OpenResultIsBest
<1> QED
  BY <1>11, <1>12

LEMMA GiveUpOpenKeeps ==
  ASSUME OpenInv, GiveUpOpen
  PROVE  OpenInv'
<1>1. /\ ophase = "ascending" /\ UNCHANGED <<oconfig, obest, ohistory>> /\ OpenReturn
      /\ ophase' = "returned"
  BY DEF GiveUpOpen, OpenReturn
<1>2. OpenClimbing
  BY <1>1 DEF OpenInv
<1>3. /\ ohistory' \in Seq(Int) /\ BestOf(ohistory', obest'.fidelity)
      /\ NotYet(ohistory', oconfig.grape.target_fidelity)
      /\ obest'.fidelity > 0 => EvaluateFidelity(obest'.pulse.i, obest'.pulse.q) = obest'.fidelity
  BY <1>1, <1>2 DEF OpenClimbing
<1>4. ~(obest'.fidelity > 0 /\ obest'.fidelity >= oconfig.grape.target_fidelity)
  <2> SUFFICES ASSUME obest'.fidelity > 0, obest'.fidelity >= oconfig.grape.target_fidelity
               PROVE  FALSE
    OBVIOUS
  <2>1. obest'.fidelity \in Seen(ohistory') /\ obest'.fidelity \in Nat
    BY <1>3 DEF BestOf
  <2> QED
    BY <1>3, <2>1 DEF NotYet, AtLeast, NaN
<1>5. OpenResultIsBest'
  BY <1>1, <1>3, <1>4, OpenReturnsBest
<1> QED
  BY <1>1, <1>5 DEF OpenInv

LEMMA OpenStays == OpenInv /\ UNCHANGED openVars => OpenInv'
<1> SUFFICES ASSUME OpenInv, UNCHANGED openVars PROVE OpenInv'
  OBVIOUS
<1>1. UNCHANGED <<ophase, oconfig, opulse, obest, ohistory, oresult>>
  BY DEF openVars
<1>2. EvaluateFidelity(obest.pulse.i, obest.pulse.q)' = EvaluateFidelity(obest.pulse.i, obest.pulse.q)
  BY <1>1, EvaluateKept
<1>3. OpenClimbing => OpenClimbing'
  BY <1>1, <1>2 DEF OpenClimbing
<1>4. \A call : OpenWorksOn(call) => OpenWorksOn(call)'
  BY <1>1 DEF OpenWorksOn
<1>5. OpenResultIsBest => OpenResultIsBest'
  BY <1>1 DEF OpenResultIsBest
<1> QED
  BY <1>1, <1>3, <1>4, <1>5 DEF OpenInv

LEMMA OpenStepInv == OpenInv /\ [OpenNext]_openVars => OpenInv'
BY OpenStays, OptimizeOpenStarts, AscendOpenKeeps, GiveUpOpenKeeps DEF OpenNext

\* Both optimisers return the best they evaluated, with its own fidelity, whatever the
\* landscape, the updates and the amplitudes lost on the way: GrapeOptimizer::optimize and
\* OpenSystemOptimizer::optimize keep it beside a pulse that has already moved on.
THEOREM OptimaBest == Spec => []OptimaAreBest
<1>1. GrapeInv /\ OpenInv => OptimaAreBest
  BY DEF GrapeInv, OpenInv, OptimaAreBest
<1>2. Init => GrapeInv /\ OpenInv
  BY GrapeInitInv, OpenInitInv DEF Init
<1>3. GrapeInv /\ OpenInv /\ [Next]_solverVars => (GrapeInv /\ OpenInv)'
  <2>1. [Next]_solverVars => [GrapeNext]_grapeVars /\ [OpenNext]_openVars
    BY DEF Next, solverVars, GrapeStep, OpenStep, LindbladStep, FeedbackStep, SmeStep, ExpmStep,
           MeasuredStepOf
  <2> QED
    BY <2>1, GrapeStepInv, OpenStepInv
<1> QED
  BY <1>1, <1>2, <1>3, PTL DEF Spec

-----------------------------------------------------------------------------
(* Division                                                                 *)

\* A number of which Real is zero is a multiple of the modulus, and the other way round.
LEMMA RealIsZero ==
  ASSUME NEW x \in Int
  PROVE  Real(x) = 0 <=> x % Modulus = 0
<1>1. PICK k \in Int : Real(x) = x + k * Modulus
  BY RealShift
<1>2. Modulus \in Nat
  BY ModulusFacts
<1>3. ASSUME Real(x) = 0 PROVE x % Modulus = 0
  <2>1. -k \in Int /\ x = (-k) * Modulus
    BY <1>1, <1>2, <1>3
  <2> QED
    BY <2>1, Multiples
<1>4. ASSUME x % Modulus = 0 PROVE Real(x) = 0
  <2>1. PICK j \in Int : x = j * Modulus
    BY <1>4, Multiples
  <2>2. x = 0 + j * Modulus
    BY <1>2, <2>1
  <2>3. Real(x) = Real(0)
    BY <2>2, RealSame
  <2> QED
    BY <2>3, RealOfSmall
<1> QED
  BY <1>3, <1>4

\* No square is -1: a number is zero when the sum of its squares is.
LEMMA NormIsZero ==
  ASSUME NEW b \in Residues, NormSqr(b) = 0
  PROVE  b = Zero
<1> DEFINE x == b[1]
           y == b[2]
<1>1. x \in Int /\ y \in Int /\ b = <<x, y>> /\ Real(x) = x /\ Real(y) = y
  BY ComplexParts DEF Residues
<1>2. Modulus \in Nat /\ Modulus > 3
  BY ModulusFacts
<1>3. (x * x + y * y) % Modulus = 0 /\ x * x \in Int /\ y * y \in Int /\ x * x + y * y \in Int
  BY <1>1, RealIsZero DEF NormSqr
<1> HIDE DEF x, y
<1>4. PICK k \in Int : x * x + y * y = k * Modulus
  BY <1>3, Multiples
<1>5. CASE x = 0
  <2>1. (y * y) % Modulus = 0
    BY <1>1, <1>3, <1>5
  <2>2. y % Modulus = 0
    BY <1>1, <2>1, NoMultiples
  <2>3. y = 0
    BY <1>1, <2>2, RealIsZero
  <2> QED
    BY <1>1, <1>5, <2>3 DEF Zero
<1>6. CASE x # 0
  <2>1. x % Modulus # 0
    BY <1>1, <1>6, RealIsZero
  <2> DEFINE u == InverseReal(x)
  <2>2. u \in Int /\ \E a \in Int : x * u = 1 + a * Modulus
    BY <1>1, <2>1, Inverses
  <2> HIDE DEF u
  <2>3. PICK a \in Int : x * u = 1 + a * Modulus
    BY <2>2
  <2> DEFINE v == (y * u) % Modulus
             q == (y * u) \div Modulus
  <2>4. y * u \in Int
    BY <1>1, <2>2
  <2>5. q \in Int /\ v \in 0..(Modulus - 1) /\ y * u = Modulus * q + v
    BY <1>2, <2>4
  <2> HIDE DEF v, q
  <2>6. (x * u) * (x * u) + (y * u) * (y * u) = (k * u * u) * Modulus
    <3>1. (x * u) * (x * u) + (y * u) * (y * u) = (x * x + y * y) * (u * u)
      BY <1>1, <2>2
    <3>2. (k * Modulus) * (u * u) = (k * u * u) * Modulus
      BY <1>2, <2>2
    <3> QED
      BY <1>4, <3>1, <3>2
  <2>7. (1 + a * Modulus) * (1 + a * Modulus) = 1 + (2 * a + a * a * Modulus) * Modulus
    BY <1>2
  <2>8. (Modulus * q + v) * (Modulus * q + v) = v * v + (Modulus * q * q + 2 * q * v) * Modulus
    BY <1>2, <2>5
  <2> DEFINE m == k * u * u
             s == 2 * a + a * a * Modulus
             t == Modulus * q * q + 2 * q * v
             w == v * v
  <2>9. m \in Int /\ s \in Int /\ t \in Int /\ w \in Int
    BY <1>2, <2>2, <2>5
  <2>10. (1 + s * Modulus) + (w + t * Modulus) = m * Modulus
    BY <2>3, <2>5, <2>6, <2>7, <2>8
  <2> HIDE DEF m, s, t, w
  <2>11. w + 1 \in Int /\ m - s - t \in Int /\ w + 1 = (m - s - t) * Modulus
    BY <1>2, <2>9, <2>10
  <2>12. (v * v + 1) % Modulus = 0
    BY <2>11, Multiples DEF w
  <2>13. v # 0
    <3>1. 1 % Modulus = 1 /\ 0 * 0 + 1 = 1
      BY <1>2
    <3> QED
      BY <2>12, <3>1
  <2>14. v \in 1..(Modulus - 1)
    BY <1>2, <2>5, <2>13
  <2> QED
    BY <2>12, <2>14, ModulusAssumption
<1> QED
  BY <1>5, <1>6

\* The quotient times the divisor.
LEMMA OverTimes ==
  ASSUME NEW a \in Residues, NEW b \in Residues, b # Zero
  PROVE  Over(a, b) \in Residues /\ Times(Over(a, b), b) = a
<1> DEFINE n == NormSqr(b)
           c == Conj(b)
           v == <<InverseReal(n), 0>>
<1>1. a \in Complex /\ b \in Complex /\ c \in Complex
  BY TypedNumbers
<1>2. b[1] \in Int /\ b[2] \in Int /\ b[1] * b[1] + b[2] * b[2] \in Int
  BY <1>1, ComplexParts
<1>3. n \in Int /\ n # 0 /\ Real(n) = n
  BY <1>2, NormIsZero, RealInt, RealAbsorbs DEF NormSqr
<1>4. n % Modulus # 0
  BY <1>3, RealIsZero
<1>5. InverseReal(n) \in Int /\ Real(n * InverseReal(n)) = 1
  BY <1>3, <1>4, Inverses
<1>6. v \in Complex /\ <<n, 0>> \in Complex
  BY <1>3, <1>5, RealNumbersClosed
<1>7. Times(c, b) = <<n, 0>>
  <2> DEFINE x == b[1]
             y == b[2]
  <2>1. x \in Int /\ y \in Int /\ -y \in Int /\ Real(x) \in Int
    BY <1>2, RealInt
  <2>2. c = <<x, Real(-y)>>
    BY DEF Conj
  <2>3. Times(c, b) = <<Real(x * x - Real(-y) * y), Real(x * y + Real(-y) * x)>>
    BY <2>2 DEF Times
  <2> HIDE DEF x, y
  <2>4. PICK k \in Int : Real(-y) = -y + k * Modulus
    BY <2>1, RealShift
  <2> DEFINE z == Real(-y)
  <2>5. z \in Int /\ z = -y + k * Modulus /\ Modulus \in Int
    BY <2>1, <2>4, RealInt, ModulusFacts
  <2> HIDE DEF z
  <2>6. x * x - z * y = (x * x + y * y) + (-(k * y)) * Modulus /\ x * y + z * x = 0 + (k * x) * Modulus
    BY <2>1, <2>5
  <2>7. x * x - z * y \in Int /\ x * x + y * y \in Int /\ -(k * y) \in Int /\ x * y + z * x \in Int /\ k * x \in Int
    BY <2>1, <2>5
  <2>8. Real(x * x - z * y) = Real(x * x + y * y) /\ Real(x * y + z * x) = Real(0)
    BY <2>6, <2>7, RealSame
  <2> QED
    BY <2>3, <2>8, RealOfSmall DEF z, x, y, NormSqr
<1>8. Times(<<n, 0>>, v) = One
  <2>1. n * InverseReal(n) - 0 * 0 = n * InverseReal(n) /\ n * 0 + 0 * InverseReal(n) = 0
    BY <1>3, <1>5
  <2> QED
    BY <1>5, <2>1, RealOfSmall DEF Times, One
<1>9. Over(a, b) = Times(Times(a, c), v)
  BY DEF Over
<1> HIDE DEF n, c, v
<1>10. Times(a, c) \in Complex /\ Times(b, v) \in Complex /\ Times(c, b) \in Complex /\ Times(v, b) \in Complex
  BY <1>1, <1>6, TypedNumbers
<1>11. Times(Times(Times(a, c), v), b) = Times(Times(a, c), Times(b, v))
  BY <1>1, <1>6, <1>10, TimesAlgebra
<1>12. Times(Times(a, c), Times(b, v)) = Times(a, Times(c, Times(b, v)))
  BY <1>1, <1>6, <1>10, TimesAlgebra
<1>13. Times(c, Times(b, v)) = Times(Times(c, b), v)
  BY <1>1, <1>6, <1>10, TimesAlgebra
<1>14. One \in Complex
  BY TypedNumbers
<1>15. Times(a, One) = a
  BY <1>1, <1>14, TimesAlgebra
<1> QED
  BY <1>6, <1>7, <1>8, <1>9, <1>10, <1>11, <1>12, <1>13, <1>15, ResiduesLeft
-----------------------------------------------------------------------------
(* Elimination of two columns                                               *)

\* A step of the elimination, and a row of the back substitution.
Cleared(aug, col) == IF Size(aug[MaxRow(aug, col)][col]) = 0 THEN aug ELSE Eliminated(aug, col)

\* The columns are taken one after the other.
LEMMA EchelonOfTwo ==
  ASSUME NEW aug, DOMAIN aug = 1..2
  PROVE  Echelon(aug) = Cleared(Cleared(aug, 1), 2)
<1> DEFINE s == [k \in DOMAIN aug |-> k]
           Is(g) == g = [t \in SUBSET (1..2) |->
                           IF t = {} THEN aug ELSE Cleared(g[t \ {Max(t)}], s[Max(t)])]
           f == CHOOSE g : Is(g)
<1>1. s \in Seq(Int) /\ Len(s) = 2 /\ DOMAIN s = 1..2 /\ s[1] = 1 /\ s[2] = 2
  OBVIOUS
<1>2. Echelon(aug) = f[1..2]
  BY <1>1 DEF Echelon, FoldLeft, MapThenFoldSet, Cleared
<1> HIDE DEF s
<1>3. /\ 1..2 # {} /\ Max(1..2) = 2 /\ (1..2) \ {2} = 1..1
      /\ 1..1 # {} /\ Max(1..1) = 1 /\ (1..1) \ {1} = {}
  <2>1. 2 \in Nat \ {0} /\ 1 \in Nat \ {0} /\ 2 - 1 = 1 /\ 1 - 1 = 0 /\ 1..0 = {}
    OBVIOUS
  <2> QED
    BY <2>1, FirstFacts
<1> DEFINE low(t) == IF t = {} THEN aug ELSE Cleared(aug, s[Max(t)])
           h == [t \in SUBSET (1..2) |->
                   IF t = {} THEN aug
                   ELSE IF Max(t) = 1 THEN Cleared(aug, 1) ELSE Cleared(low(t \ {2}), 2)]
<1>4. ASSUME NEW t \in SUBSET (1..2), t # {}
      PROVE  h[t] = Cleared(h[t \ {Max(t)}], s[Max(t)])
  <2>1. Max(t) \in t /\ Max(t) \in 1..2 /\ \A x \in t : x <= Max(t)
    BY <1>4, MaxFacts
  <2>2. CASE Max(t) = 1
    <3>0. 1 \in t /\ \A x \in t : x = 1
      BY <2>1, <2>2
    <3>1. t \ {Max(t)} = {} /\ {} \in SUBSET (1..2)
      BY <2>2, <3>0
    <3>2. h[{}] = aug
      BY <3>1
    <3>3. h[t] = Cleared(aug, 1)
      BY <1>4, <2>2
    <3> QED
      BY <1>1, <2>2, <3>1, <3>2, <3>3
  <2>3. CASE Max(t) # 1
    <3>1. Max(t) = 2
      BY <2>1, <2>3
    <3>2. t \ {2} \in SUBSET (1..2) /\ t \ {2} \in {{}, {1}}
      <4>1. \A x \in t \ {2} : x = 1
        OBVIOUS
      <4>2. CASE 1 \in t
        <5>1. 1 \in t \ {2} /\ \A x \in t \ {2} : x = 1
          BY <4>1, <4>2
        <5>2. t \ {2} = {1}
          BY <5>1, Zenon
        <5> QED
          BY <5>2
      <4>3. CASE 1 \notin t
        <5>1. t \ {2} = {}
          BY <4>1, <4>3
        <5> QED
          BY <5>1
      <4> QED
        BY <4>2, <4>3
    <3>3. h[t \ {2}] = low(t \ {2})
      <4>1. CASE t \ {2} = {}
        BY <3>2, <4>1
      <4>2. CASE t \ {2} = {1}
        <5>1. {1} = 1..1 /\ Max({1}) = 1 /\ {1} # {}
          BY <1>3
        <5>2. low({1}) = Cleared(aug, 1)
          BY <1>1, <5>1
        <5>3. h[{1}] = Cleared(aug, 1)
          BY <5>1
        <5> QED
          BY <4>2, <5>2, <5>3
      <4> QED
        BY <3>2, <4>1, <4>2
    <3> QED
      BY <1>1, <1>4, <2>3, <3>1, <3>3
  <2> QED
    BY <2>2, <2>3
<1>5. Is(h)
  <2>1. h[{}] = aug /\ {} \in SUBSET (1..2)
    OBVIOUS
  <2>2. \A t \in SUBSET (1..2) : h[t] = IF t = {} THEN aug ELSE Cleared(h[t \ {Max(t)}], s[Max(t)])
    BY <1>4, <2>1
  <2> QED
    BY <2>2
<1> HIDE DEF h, low
<1>6. Is(f)
  BY <1>5
<1> HIDE DEF f
<1>7. f[{}] = aug /\ \A t \in SUBSET (1..2) : t # {} => f[t] = Cleared(f[t \ {Max(t)}], s[Max(t)])
  BY <1>6
<1>8. f[1..2] = Cleared(f[1..1], s[2]) /\ f[1..1] = Cleared(f[{}], s[1])
  <2>1. 1..2 \in SUBSET (1..2) /\ 1..1 \in SUBSET (1..2)
    OBVIOUS
  <2> QED
    BY <1>3, <1>7, <2>1
<1> QED
  BY <1>1, <1>2, <1>7, <1>8

\* The rows of the matrices of a system side by side.
Beside(a, b) == [r \in 1..2 |-> a[r] \o b[r]]
Augmented == [1..2 -> [1..4 -> Residues]]

LEMMA BesideEntries ==
  ASSUME NEW a \in Reduced(2), NEW b \in Reduced(2)
  PROVE  /\ Beside(a, b) \in Augmented
         /\ \A r, c \in 1..2 : Beside(a, b)[r][c] = a[r][c] /\ Beside(a, b)[r][2 + c] = b[r][c]
<1>1. ASSUME NEW r \in 1..2
      PROVE  /\ a[r] \o b[r] \in [1..4 -> Residues]
             /\ \A c \in 1..2 : (a[r] \o b[r])[c] = a[r][c] /\ (a[r] \o b[r])[2 + c] = b[r][c]
  <2> DEFINE x == a[r]
             y == b[r]
  <2>1. x \in [1..2 -> Residues] /\ y \in [1..2 -> Residues]
    BY DEF Reduced
  <2> HIDE DEF x, y
  <2>2. x \in Seq(Residues) /\ y \in Seq(Residues) /\ Len(x) = 2 /\ Len(y) = 2
    BY <2>1
  <2>3. /\ x \o y \in Seq(Residues) /\ Len(x \o y) = Len(x) + Len(y)
        /\ \A i \in 1..Len(x) + Len(y) : (x \o y)[i] = IF i <= Len(x) THEN x[i] ELSE y[i - Len(x)]
    BY <2>2, ConcatProperties
  <2> DEFINE z == x \o y
  <2>4. z \in Seq(Residues) /\ Len(z) = 4
    BY <2>2, <2>3
  <2>5. z[1] = x[1] /\ z[2] = x[2] /\ z[3] = y[1] /\ z[4] = y[2]
    BY <2>2, <2>3
  <2> HIDE DEF z
  <2>6. z \in [1..4 -> Residues]
    <3>1. z \in [1..Len(z) -> Residues]
      BY <2>4, LenProperties
    <3> QED
      BY <2>4, <3>1
  <2>7. \A c \in 1..2 : z[c] = x[c] /\ z[2 + c] = y[c]
    <3>1. \A c \in 1..2 : (c = 1 /\ 2 + c = 3) \/ (c = 2 /\ 2 + c = 4)
      OBVIOUS
    <3> QED
      BY <2>5, <3>1
  <2> QED
    BY <2>6, <2>7 DEF z, x, y
<1> QED
  BY <1>1 DEF Beside, Augmented

\* The pivot of a column is the largest of what is left.
LEMMA SizeIsZero ==
  ASSUME NEW z \in Residues
  PROVE  Size(z) \in Nat /\ (Size(z) = 0 <=> z = Zero)
<1> DEFINE x == z[1]
           y == z[2]
<1>1. x \in Int /\ y \in Int /\ z = <<x, y>>
  BY ComplexParts DEF Residues
<1> HIDE DEF x, y
<1>2. \A v \in Int : v * v >= 0 /\ (v * v = 0 <=> v = 0)
  <2> TAKE v \in Int
  <2>1. CASE v > 0
    <3>1. v * v > 0
      BY <2>1
    <3> QED
      BY <2>1, <3>1
  <2>2. CASE v < 0
    <3>1. v * v > 0
      BY <2>2
    <3> QED
      BY <2>2, <3>1
  <2>3. CASE v = 0
    BY <2>3
  <2> QED
    BY <2>1, <2>2, <2>3
<1>3. x * x \in Int /\ y * y \in Int /\ Size(z) = x * x + y * y
  BY <1>1 DEF Size
<1>4. Size(z) \in Nat /\ (Size(z) = 0 <=> x = 0 /\ y = 0)
  <2> DEFINE p == x * x
             q == y * y
  <2>1. p \in Int /\ q \in Int /\ p >= 0 /\ q >= 0 /\ (p = 0 <=> x = 0) /\ (q = 0 <=> y = 0)
    BY <1>1, <1>2
  <2>2. Size(z) = p + q
    BY <1>3
  <2> HIDE DEF p, q
  <2> QED
    BY <2>1, <2>2
<1> QED
  BY <1>1, <1>4 DEF Zero

LEMMA PivotOfTwo ==
  ASSUME NEW aug \in Augmented
  PROVE  /\ MaxRow(aug, 1) \in 1..2
         /\ \A row \in 1..2 : Size(aug[row][1]) <= Size(aug[MaxRow(aug, 1)][1])
         /\ MaxRow(aug, 2) = 2
<1>1. Len(aug) = 2 /\ \A r \in 1..2, c \in 1..4 : aug[r][c] \in Residues
  BY DEF Augmented
<1>2. \A r \in 1..2, c \in 1..4 : Size(aug[r][c]) \in Nat
  BY <1>1, SizeIsZero
<1> DEFINE Best(col, row) == /\ \A other \in col..2 : Size(aug[other][col]) <= Size(aug[row][col])
                             /\ \A other \in col..(row - 1) : Size(aug[other][col]) < Size(aug[row][col])
<1>3. \A col : MaxRow(aug, col) = CHOOSE row \in col..2 : Best(col, row)
  BY <1>1 DEF MaxRow
<1> DEFINE u == Size(aug[1][1])
           v == Size(aug[2][1])
<1>4. \E row \in 1..2 : Best(1, row)
  <2>0. u \in Nat /\ v \in Nat /\ 1..2 = {1, 2} /\ 1..(1 - 1) = {} /\ 1..(2 - 1) = {1}
    BY <1>2
  <2>1. CASE v <= u
    <3>1. Best(1, 1)
      BY <2>0, <2>1
    <3> QED
      BY <3>1
  <2>2. CASE ~(v <= u)
    <3>1. Best(1, 2)
      BY <2>0, <2>2
    <3> QED
      BY <3>1
  <2> QED
    BY <2>1, <2>2
<1>5. \E row \in 2..2 : Best(2, row)
  <2>1. 2..2 = {2} /\ 2..(2 - 1) = {} /\ Size(aug[2][2]) \in Nat
    BY <1>2
  <2>2. Best(2, 2)
    BY <2>1
  <2> QED
    BY <2>1, <2>2
<1>6. MaxRow(aug, 1) \in 1..2 /\ Best(1, MaxRow(aug, 1)) /\ MaxRow(aug, 2) \in 2..2
  BY <1>3, <1>4, <1>5
<1> QED
  BY <1>6

\* The last column has nothing below it.
LEMMA ClearedLast ==
  ASSUME NEW aug \in Augmented
  PROVE  Cleared(aug, 2) = aug
<1>1. /\ MaxRow(aug, 2) = 2 /\ DOMAIN aug = 1..2 /\ aug \in [1..2 -> [1..4 -> Residues]]
  BY PivotOfTwo DEF Augmented
<1>2. Swapped(aug, 2, 2) = aug
  BY <1>1 DEF Swapped
<1> DEFINE cleared(row) == LET factor == Over(aug[row][2], aug[2][2])
                           IN Tuple([j \in DOMAIN aug[row] |-> Minus(aug[row][j], Times(factor, aug[2][j]))])
<1>3. Eliminated(aug, 2) = Tuple([row \in 1..2 |-> IF row <= 2 THEN aug[row] ELSE cleared(row)])
  BY <1>1, <1>2 DEF Eliminated
<1> HIDE DEF cleared
<1>4. [row \in 1..2 |-> IF row <= 2 THEN aug[row] ELSE cleared(row)] = aug
  <2>1. \A row \in 1..2 : row <= 2
    OBVIOUS
  <2> QED
    BY <1>1, <2>1
<1>5. Tuple(aug) = aug
  BY <1>1, TupleSame
<1> QED
  BY <1>3, <1>4, <1>5 DEF Cleared

\* The first column: either nothing in it, or a pivot whose row goes first, and a multiple of it
\* taken from the other.
Reduce(o, top) == [j \in 1..4 |-> Minus(o[j], Times(Over(o[1], top[1]), top[j]))]

LEMMA ClearedFirst ==
  ASSUME NEW aug \in Augmented
  PROVE  \/ /\ aug[1][1] = Zero /\ aug[2][1] = Zero /\ Cleared(aug, 1) = aug
         \/ \E m \in 1..2 : LET e == Cleared(aug, 1)
                            IN /\ aug[m][1] # Zero /\ e \in Augmented
                               /\ e[1] = aug[m] /\ e[2] = Reduce(aug[3 - m], aug[m])
<1> DEFINE m == MaxRow(aug, 1)
<1>1. m \in 1..2 /\ \A row \in 1..2 : Size(aug[row][1]) <= Size(aug[m][1])
  BY PivotOfTwo
<1>2. /\ DOMAIN aug = 1..2 /\ aug \in [1..2 -> [1..4 -> Residues]]
      /\ \A r \in 1..2 : aug[r] \in [1..4 -> Residues] /\ aug[r][1] \in Residues
  BY DEF Augmented
<1>3. \A r \in 1..2 : Size(aug[r][1]) \in Nat /\ (Size(aug[r][1]) = 0 <=> aug[r][1] = Zero)
  BY <1>2, SizeIsZero
<1>4. Cleared(aug, 1) = IF Size(aug[m][1]) = 0 THEN aug ELSE Eliminated(aug, 1)
  BY DEF Cleared
<1> HIDE DEF m
<1>5. CASE Size(aug[m][1]) = 0
  <2>1. \A r \in 1..2 : Size(aug[r][1]) = 0
    BY <1>1, <1>3, <1>5
  <2>2. aug[1][1] = Zero /\ aug[2][1] = Zero
    BY <1>3, <2>1
  <2> QED
    BY <1>4, <1>5, <2>2
<1>6. CASE Size(aug[m][1]) # 0
  <2>1. aug[m][1] # Zero
    BY <1>1, <1>3, <1>6
  <2> DEFINE top == aug[m]
             o == aug[3 - m]
             swapped == Swapped(aug, 1, m)
  <2>2. 3 - m \in 1..2 /\ (m = 1 \/ m = 2)
    BY <1>1
  <2>3. swapped \in [1..2 -> [1..4 -> Residues]] /\ swapped[1] = top /\ swapped[2] = o
    <3>1. CASE m = 1
      BY <1>2, <3>1 DEF Swapped
    <3>2. CASE m = 2
      BY <1>2, <3>2 DEF Swapped
    <3> QED
      BY <2>2, <3>1, <3>2
  <2> DEFINE row2 == [j \in DOMAIN swapped[2] |->
                        Minus(swapped[2][j], Times(Over(swapped[2][1], swapped[1][1]), swapped[1][j]))]
  <2>4. Eliminated(aug, 1) = Tuple([row \in 1..2 |-> IF row <= 1 THEN swapped[row]
           ELSE Tuple([j \in DOMAIN swapped[row] |->
                        Minus(swapped[row][j], Times(Over(swapped[row][1], swapped[1][1]), swapped[1][j]))])])
    BY <1>2 DEF Eliminated, m
  <2>5. top \in [1..4 -> Residues] /\ o \in [1..4 -> Residues]
    BY <1>1, <1>2, <2>2
  <2> HIDE DEF swapped
  <2>6. row2 = Reduce(o, top)
    BY <2>3, <2>5 DEF Reduce
  <2>7. Reduce(o, top) \in [1..4 -> Residues]
    <3>1. Over(o[1], top[1]) \in Complex
      BY <2>1, <2>5, OverTimes, TypedNumbers
    <3>2. ASSUME NEW j \in 1..4 PROVE Minus(o[j], Times(Over(o[1], top[1]), top[j])) \in Residues
      <4>1. o[j] \in Complex /\ top[j] \in Complex
        BY <2>5, TypedNumbers
      <4>2. Times(Over(o[1], top[1]), top[j]) \in Complex
        BY <3>1, <4>1, TypedNumbers
      <4> QED
        BY <4>1, <4>2, ResiduesLeft
    <3> QED
      BY <3>2 DEF Reduce
  <2> DEFINE e == [row \in 1..2 |-> IF row <= 1 THEN top ELSE Reduce(o, top)]
  <2>8. Tuple(Reduce(o, top)) = Reduce(o, top)
    BY <2>7, TupleSame
  <2> DEFINE f == [row \in 1..2 |-> IF row <= 1 THEN swapped[row]
                     ELSE Tuple([j \in DOMAIN swapped[row] |->
                        Minus(swapped[row][j], Times(Over(swapped[row][1], swapped[1][1]), swapped[1][j]))])]
  <2>9. f[1] = top /\ f[2] = Reduce(o, top)
    BY <2>3, <2>6, <2>8
  <2>10. f \in [1..2 -> [1..4 -> Residues]]
    <3>1. DOMAIN f = 1..2 /\ \A r \in 1..2 : r = 1 \/ r = 2
      OBVIOUS
    <3>2. f = [r \in 1..2 |-> f[r]]
      OBVIOUS
    <3> HIDE DEF f
    <3>3. \A r \in 1..2 : f[r] \in [1..4 -> Residues]
      BY <2>5, <2>7, <2>9, <3>1
    <3> QED
      BY <3>2, <3>3
  <2>11. Eliminated(aug, 1) = f
    <3>1. Eliminated(aug, 1) = Tuple(f)
      BY <2>4
    <3> HIDE DEF f
    <3> QED
      BY <2>10, <3>1, TupleSame
  <2> HIDE DEF f
  <2>12. Cleared(aug, 1) = f
    BY <1>4, <1>6, <2>11
  <2> QED
    BY <1>1, <2>1, <2>9, <2>10, <2>12 DEF Augmented
<1> QED
  BY <1>5, <1>6
-----------------------------------------------------------------------------
(* Two equations in two unknowns                                            *)

\* Differences.
LEMMA MinusFacts ==
  ASSUME NEW a \in Residues, NEW b \in Residues
  PROVE  /\ Plus(Minus(a, b), b) = a /\ Minus(a, Zero) = a /\ Minus(a, a) = Zero
         /\ Minus(a, b) = Zero <=> a = b
<1>1. a \in Complex /\ b \in Complex /\ Zero \in Complex /\ MinusOne \in Complex /\ Zero \in Residues
  BY TypedNumbers, RealNumbersClosed DEF MinusOne
<1>2. \A x \in Complex : Plus(Times(MinusOne, x), x) = Zero
  <2> TAKE x \in Complex
  <2> DEFINE u == x[1]
             v == x[2]
  <2>1. u \in Int /\ v \in Int
    BY ComplexParts
  <2> HIDE DEF u, v
  <2>2. /\ -u \in Int /\ -v \in Int /\ -u + u = 0 /\ -v + v = 0
        /\ (-1) * u - 0 * v = -u /\ (-1) * v + 0 * u = -v
    BY <2>1
  <2>3. Times(MinusOne, x) = <<Real(-u), Real(-v)>>
    <3>1. Times(MinusOne, x) = <<Real((-1) * u - 0 * v), Real((-1) * v + 0 * u)>>
      BY DEF Times, MinusOne, u, v
    <3> QED
      BY <2>2, <3>1
  <2>4. Real(Real(-u) + u) = Real(-u + u) /\ Real(Real(-v) + v) = Real(-v + v)
    BY <2>1, <2>2, RealAbsorbs
  <2>5. Plus(Times(MinusOne, x), x) = <<Real(Real(-u) + u), Real(Real(-v) + v)>>
    BY <2>3 DEF Plus, u, v
  <2> QED
    BY <2>2, <2>4, <2>5, RealOfSmall DEF Zero
<1>3. \A x, y \in Complex : Minus(x, y) = Plus(x, Times(MinusOne, y)) /\ Times(MinusOne, y) \in Complex
  BY <1>1, TimesAlgebra, TypedNumbers DEF MinusOne
<1>4. Plus(Minus(a, b), b) = a
  <2>1. Plus(Plus(a, Times(MinusOne, b)), b) = Plus(a, Plus(Times(MinusOne, b), b))
    BY <1>1, <1>3, PlusAlgebra
  <2> QED
    BY <1>1, <1>2, <1>3, <2>1, PlusAlgebra
<1>5. Minus(a, Zero) = a
  BY <1>1, <1>3, TimesAlgebra, PlusAlgebra
<1>6. Minus(a, a) = Zero
  BY <1>1, <1>2, <1>3, PlusAlgebra
<1>7. ASSUME Minus(a, b) = Zero PROVE a = b
  BY <1>1, <1>4, <1>7, PlusAlgebra
<1> QED
  BY <1>4, <1>5, <1>6, <1>7

LEMMA TimesMinus ==
  ASSUME NEW a \in Complex, NEW b \in Complex, NEW c \in Complex
  PROVE  Times(a, Minus(b, c)) = Minus(Times(a, b), Times(a, c))
<1>1. MinusOne \in Complex /\ Times(MinusOne, c) \in Complex /\ Times(a, b) \in Complex /\ Times(a, c) \in Complex
  BY TypedNumbers, RealNumbersClosed DEF MinusOne
<1>2. Times(a, Plus(b, Times(MinusOne, c))) = Plus(Times(a, b), Times(a, Times(MinusOne, c)))
  BY <1>1, TimesAlgebra
<1>3. Times(a, Times(MinusOne, c)) = Times(MinusOne, Times(a, c))
  <2>1. Times(a, Times(MinusOne, c)) = Times(Times(a, MinusOne), c)
    BY <1>1, TimesAlgebra
  <2>2. Times(a, MinusOne) = Times(MinusOne, a)
    BY <1>1, TimesAlgebra
  <2> QED
    BY <1>1, <2>1, <2>2, TimesAlgebra
<1>4. Minus(b, c) = Plus(b, Times(MinusOne, c))
      /\ Minus(Times(a, b), Times(a, c)) = Plus(Times(a, b), Times(MinusOne, Times(a, c)))
  BY <1>1, TimesAlgebra DEF MinusOne
<1> QED
  BY <1>2, <1>3, <1>4

\* A product is zero only with a factor.
LEMMA NoZeroDivisors ==
  ASSUME NEW a \in Residues, NEW b \in Residues, a # Zero, Times(a, b) = Zero
  PROVE  b = Zero
<1>1. a \in Complex /\ b \in Complex /\ One \in Residues
  BY TypedNumbers
<1>2. Over(One, a) \in Complex /\ Times(Over(One, a), a) = One
  BY <1>1, OverTimes, TypedNumbers
<1>3. Times(Times(Over(One, a), a), b) = Times(Over(One, a), Times(a, b))
  BY <1>1, <1>2, TimesAlgebra
<1> QED
  BY <1>1, <1>2, <1>3, TimesAlgebra

\* What eliminating and substituting back does with one column.
LEMMA RowsSolved ==
  ASSUME NEW top \in [1..4 -> Residues], NEW o \in [1..4 -> Residues], top[1] # Zero,
         NEW j \in {3, 4}, NEW x \in Residues, NEW y \in Residues,
         Times(y, Reduce(o, top)[2]) = Reduce(o, top)[j],
         Times(x, top[1]) = Minus(top[j], Times(top[2], y))
  PROVE  /\ Plus(Times(top[1], x), Times(top[2], y)) = top[j]
         /\ Plus(Times(o[1], x), Times(o[2], y)) = o[j]
<1> DEFINE p == top[1]
           s == top[2]
           t == top[j]
           g == o[1]
           h == o[2]
           k == o[j]
           f == Over(g, p)
<1>1. /\ p \in Residues /\ s \in Residues /\ t \in Residues /\ g \in Residues /\ h \in Residues /\ k \in Residues
      /\ p # Zero
  OBVIOUS
<1>2. f \in Residues /\ Times(f, p) = g
  BY <1>1, OverTimes
<1>3. Times(y, Minus(h, Times(f, s))) = Minus(k, Times(f, t)) /\ Times(x, p) = Minus(t, Times(s, y))
  <2>1. 2 \in 1..4 /\ j \in 1..4
    OBVIOUS
  <2> QED
    BY <2>1 DEF Reduce
<1> HIDE DEF p, s, t, g, h, k, f
<1>4. /\ p \in Complex /\ s \in Complex /\ t \in Complex /\ g \in Complex /\ h \in Complex /\ k \in Complex
      /\ f \in Complex /\ x \in Complex /\ y \in Complex
  BY <1>1, <1>2, TypedNumbers
<1> DEFINE sy == Times(s, y)
           A == Times(f, t)
           B == Times(f, sy)
           fs == Times(f, s)
<1>5. sy \in Residues /\ A \in Residues /\ B \in Residues /\ fs \in Residues /\ sy \in Complex
      /\ A \in Complex /\ B \in Complex /\ fs \in Complex
  BY <1>4, ResiduesLeft, TypedNumbers
<1>6. Plus(Times(p, x), sy) = t
  <2>1. Times(p, x) = Minus(t, sy)
    BY <1>3, <1>4, TimesAlgebra
  <2> HIDE DEF sy
  <2> QED
    BY <1>1, <1>5, <2>1, MinusFacts
<1>7. Times(g, x) = Minus(A, B)
  <2>1. Times(Times(f, p), x) = Times(f, Times(p, x))
    BY <1>4, TimesAlgebra
  <2>2. Times(p, x) = Times(x, p)
    BY <1>4, TimesAlgebra
  <2>3. Times(f, Minus(t, sy)) = Minus(A, B)
    <3> HIDE DEF sy
    <3> QED
      BY <1>4, <1>5, TimesMinus
  <2> QED
    BY <1>2, <1>3, <2>1, <2>2, <2>3
<1>8. Times(h, y) = Plus(Minus(k, A), B)
  <2>1. h = Plus(Minus(h, fs), fs) /\ Minus(h, fs) \in Complex
    <3> HIDE DEF fs
    <3> QED
      BY <1>1, <1>4, <1>5, MinusFacts, TypedNumbers
  <2>2. Times(y, Plus(Minus(h, fs), fs)) = Plus(Times(y, Minus(h, fs)), Times(y, fs))
    <3> HIDE DEF fs
    <3> QED
      BY <1>4, <1>5, <2>1, TimesAlgebra
  <2>3. Times(y, fs) = B
    <3>1. Times(y, fs) = Times(fs, y)
      <4> HIDE DEF fs
      <4> QED
        BY <1>4, <1>5, TimesAlgebra
    <3>2. Times(Times(f, s), y) = Times(f, Times(s, y))
      BY <1>4, TimesAlgebra
    <3> QED
      BY <3>1, <3>2
  <2>4. Times(y, h) = Plus(Minus(k, A), B)
    BY <1>3, <2>1, <2>2, <2>3
  <2> QED
    BY <1>4, <2>4, TimesAlgebra
<1> HIDE DEF A, B, sy
<1>9. Plus(Minus(A, B), Plus(Minus(k, A), B)) = k
  <2> DEFINE u == Minus(A, B)
             v == Minus(k, A)
  <2>1. u \in Complex /\ v \in Complex
    BY <1>4, <1>5, TypedNumbers
  <2>2. Plus(u, B) = A /\ Plus(v, A) = k
    BY <1>1, <1>5, MinusFacts
  <2> HIDE DEF u, v
  <2>3. Plus(v, B) = Plus(B, v) /\ Plus(Plus(u, B), v) = Plus(u, Plus(B, v)) /\ Plus(A, v) = Plus(v, A)
    BY <1>5, <2>1, PlusAlgebra
  <2> QED
    BY <2>2, <2>3 DEF u, v
<1> QED
  BY <1>6, <1>7, <1>8, <1>9 DEF p, s, t, g, h, k, sy

\* The second pivot is there when the determinant is.
LEMMA SecondPivot ==
  ASSUME NEW top \in [1..4 -> Residues], NEW o \in [1..4 -> Residues], top[1] # Zero
  PROVE  Reduce(o, top)[2] = Zero <=> Times(top[1], o[2]) = Times(o[1], top[2])
<1> DEFINE p == top[1]
           s == top[2]
           g == o[1]
           h == o[2]
           f == Over(g, p)
<1>1. p \in Residues /\ s \in Residues /\ g \in Residues /\ h \in Residues /\ p # Zero
  OBVIOUS
<1>2. f \in Residues /\ Times(f, p) = g
  BY <1>1, OverTimes
<1>3. Reduce(o, top)[2] = Minus(h, Times(f, s))
  <2>1. 2 \in 1..4
    OBVIOUS
  <2> QED
    BY <2>1 DEF Reduce
<1> HIDE DEF p, s, g, h, f
<1>4. p \in Complex /\ s \in Complex /\ g \in Complex /\ h \in Complex /\ f \in Complex
  BY <1>1, <1>2, TypedNumbers
<1> DEFINE fs == Times(f, s)
           r == Minus(h, fs)
<1>5. fs \in Residues /\ fs \in Complex /\ r \in Residues
  BY <1>4, ResiduesLeft, TypedNumbers
<1>6. Times(p, fs) = Times(g, s)
  <2>1. Times(p, Times(f, s)) = Times(Times(p, f), s) /\ Times(p, f) = Times(f, p)
    BY <1>4, TimesAlgebra
  <2> QED
    BY <1>2, <2>1
<1> HIDE DEF fs
<1>7. Times(p, r) = Minus(Times(p, h), Times(g, s))
  BY <1>4, <1>5, <1>6, TimesMinus
<1>8. Times(p, h) \in Residues /\ Times(g, s) \in Residues
  BY <1>4, ResiduesLeft
<1> HIDE DEF r
<1>9. r = Zero => Times(p, r) = Zero
  BY <1>4, TimesAlgebra
<1>10. Times(p, r) = Zero => r = Zero
  BY <1>1, <1>5, NoZeroDivisors
<1>11. Times(p, r) = Zero <=> Times(p, h) = Times(g, s)
  BY <1>7, <1>8, MinusFacts
<1> QED
  BY <1>3, <1>9, <1>10, <1>11 DEF r, fs, p, s, g, h

\* A product of two rows and columns, and the substitution that runs backwards.
LEMMA DotOfTwo ==
  ASSUME NEW a \in Square(2), NEW b \in Square(2)
  PROVE  \A r, c \in 1..2 : Dot(a, b)[r][c] = Plus(Times(a[r][1], b[1][c]), Times(a[r][2], b[2][c]))
<1>0. \A r, c \in 1..2 : /\ [k \in 1..2 |-> Times(a[r][k], b[k][c])] \in [1..2 -> Complex]
                         /\ Dot(a, b)[r][c] = Total([k \in 1..2 |-> Times(a[r][k], b[k][c])])
  <2> DEFINE d == 2
  <2>1. d \in Nat /\ a \in Square(d) /\ b \in Square(d)
    OBVIOUS
  <2> HIDE DEF d
  <2>2. \A r, c \in 1..d : /\ [k \in 1..d |-> Times(a[r][k], b[k][c])] \in [1..d -> Complex]
                           /\ Dot(a, b)[r][c] = Total([k \in 1..d |-> Times(a[r][k], b[k][c])])
    BY <2>1, DotParts
  <2> QED
    BY <2>2 DEF d
<1> TAKE r \in 1..2, c \in 1..2
<1> DEFINE f == [k \in 1..2 |-> Times(a[r][k], b[k][c])]
<1>1. f \in [1..2 -> Complex] /\ Dot(a, b)[r][c] = Total(f)
  BY <1>0
<1>2. \A i, j \in 1..2 : a[i][j] \in Complex /\ b[i][j] \in Complex
  BY SquareLen
<1>3. f[1] = Times(a[r][1], b[1][c]) /\ f[2] = Times(a[r][2], b[2][c]) /\ f[1] \in Residues /\ f[1] \in Complex
  <2>1. a[r][1] \in Complex /\ b[1][c] \in Complex
    BY <1>2
  <2>2. Times(a[r][1], b[1][c]) \in Residues /\ Times(a[r][1], b[1][c]) \in Complex
    BY <2>1, ResiduesLeft, TypedNumbers
  <2> QED
    BY <2>2
<1> HIDE DEF f
<1>4. Total(f) = Plus(f[1], f[2])
  <2>1. /\ 0 \in 0..(2 - 1) /\ 1 \in 0..(2 - 1) /\ 0 + 1 = 1 /\ 1 + 1 = 2 /\ 2 \in Nat
    OBVIOUS
  <2>2. Summed(f, 0) = Zero /\ Summed(f, 2) = Total(f)
    BY <1>1, <2>1, SumSteps
  <2>3. Summed(f, 0 + 1) = Plus(Summed(f, 0), f[0 + 1]) /\ Summed(f, 1 + 1) = Plus(Summed(f, 1), f[1 + 1])
    BY <1>1, <2>1, SumSteps
  <2>4. Plus(Zero, f[1]) = f[1]
    BY <1>3, PlusAlgebra
  <2> QED
    BY <2>1, <2>2, <2>3, <2>4
<1> QED
  BY <1>1, <1>3, <1>4

LEMMA TotalOfNone == Total([k \in 1..0 |-> Zero]) = Zero
<1> DEFINE f == [k \in 1..0 |-> Zero]
<1>1. f \in [1..0 -> Complex] /\ 0 \in Nat
  OBVIOUS
<1> HIDE DEF f
<1>2. Summed(f, 0) = Zero /\ Summed(f, 0) = Total(f)
  BY <1>1, SumSteps
<1> QED
  BY <1>2 DEF f

LEMMA TotalOfSingle ==
  ASSUME NEW x \in Residues
  PROVE  Total([k \in 1..1 |-> x]) = x
<1> DEFINE f == [k \in 1..1 |-> x]
<1>1. x \in Complex /\ 1 \in Nat /\ 0 \in 0..(1 - 1) /\ 0 + 1 = 1
  BY TypedNumbers
<1>2. f \in [1..1 -> Complex] /\ f[1] = x
  BY <1>1
<1> HIDE DEF f
<1>3. Summed(f, 0) = Zero /\ Summed(f, 1) = Total(f) /\ Summed(f, 0 + 1) = Plus(Summed(f, 0), f[0 + 1])
  BY <1>1, <1>2, SumSteps
<1> QED
  BY <1>1, <1>2, <1>3, PlusAlgebra DEF f

\* The rows substituted back.
LEMMA SubstitutedBack ==
  ASSUME NEW a \in Reduced(2), NEW b \in Reduced(2), NEW e \in Augmented,
         e = Echelon(Beside(a, b)), e[1][1] # Zero, e[2][2] # Zero
  PROVE  \E x \in Reduced(2) :
           /\ SolveLinear(a, b) = x
           /\ \A j \in 1..2 : /\ x[2][j] = Over(e[2][2 + j], e[2][2])
                              /\ x[1][j] = Over(Minus(e[1][2 + j], Times(e[1][2], x[2][j])), e[1][1])
<1> DEFINE n == Len(a)
           system == [r \in 1..n |-> a[r] \o b[r]]
           ee == Echelon(system)
           xs(x, row) == Tuple([j \in DOMAIN b[row] |->
             Over(Minus(ee[row][n + j], Total([k \in 1..(n - row) |-> Times(ee[row][row + k], x[row + k][j])])),
                  ee[row][row])])
           Is(x) == x = [row \in 1..n |-> xs(x, row)]
           f == CHOOSE x : Is(x)
<1>1. SolveLinear(a, b) = IF Singular(ee) THEN Eye(n) ELSE Tuple(f)
  BY DEF SolveLinear
<1>2. n = 2 /\ \A r \in 1..2 : DOMAIN b[r] = 1..2
  BY DEF Reduced
<1>3. system = Beside(a, b)
  BY <1>2 DEF Beside
<1>4. ee = e
  BY <1>3
<1>5. ~Singular(e)
  <2>1. DOMAIN e = 1..2
    BY DEF Augmented
  <2>2. \A k \in 1..2 : k = 1 \/ k = 2
    OBVIOUS
  <2> QED
    BY <2>1, <2>2 DEF Singular
<1> HIDE DEF ee
<1>6. \A r \in 1..2, c \in 1..4 : e[r][c] \in Residues
  BY DEF Augmented
<1> DEFINE low(j) == Over(Minus(e[2][2 + j], Zero), e[2][2])
           below == [j \in 1..2 |-> low(j)]
           up(j) == Over(Minus(e[1][2 + j], Times(e[1][2], below[j])), e[1][1])
           above == [j \in 1..2 |-> up(j)]
           h == [row \in 1..2 |-> IF row = 1 THEN above ELSE below]
<1>7. \A j \in 1..2 : /\ 2 + j \in 1..4 /\ e[2][2 + j] \in Residues /\ e[1][2 + j] \in Residues
                      /\ e[1][2] \in Residues /\ e[1][1] \in Residues /\ e[2][2] \in Residues
  BY <1>6
<1>8. \A j \in 1..2 : low(j) = Over(e[2][2 + j], e[2][2]) /\ low(j) \in Residues
  BY <1>7, MinusFacts, OverTimes
<1>9. ASSUME NEW j \in 1..2
      PROVE  Times(e[1][2], low(j)) \in Residues /\ up(j) = Over(Minus(e[1][2 + j], Times(e[1][2], low(j))), e[1][1])
             /\ up(j) \in Residues
  <2>1. e[1][2] \in Complex /\ low(j) \in Complex /\ e[1][2 + j] \in Complex
    BY <1>7, <1>8, TypedNumbers
  <2>2. up(j) = Over(Minus(e[1][2 + j], Times(e[1][2], low(j))), e[1][1])
    OBVIOUS
  <2> HIDE DEF low, up
  <2>3. Times(e[1][2], low(j)) \in Residues
    BY <2>1, ResiduesLeft
  <2>4. Minus(e[1][2 + j], Times(e[1][2], low(j))) \in Residues
    BY <2>1, <2>3, ResiduesLeft, TypedNumbers
  <2> QED
    BY <1>7, <2>2, <2>3, <2>4, OverTimes
<1> HIDE DEF low
<1>10. below \in [1..2 -> Residues] /\ \A j \in 1..2 : below[j] = low(j)
  BY <1>8
<1>11. above \in [1..2 -> Residues] /\ \A j \in 1..2 : above[j] = up(j)
  <2> HIDE DEF up
  <2> QED
    BY <1>9
<1>12. ASSUME NEW x PROVE xs(x, 2) = below
  <2>1. ASSUME NEW j \in 1..2
        PROVE  Over(Minus(e[2][2 + j], Total([k \in 1..(2 - 2) |-> Times(e[2][2 + k], x[2 + k][j])])), e[2][2]) = low(j)
    <3>1. 1..(2 - 2) = {}
      OBVIOUS
    <3>2. [k \in 1..(2 - 2) |-> Times(e[2][2 + k], x[2 + k][j])] = [k \in 1..0 |-> Zero]
      BY <3>1
    <3>3. Total([k \in 1..0 |-> Zero]) = Zero
      BY TotalOfNone
    <3> QED
      BY <3>2, <3>3 DEF low
  <2>2. [j \in DOMAIN b[2] |->
             Over(Minus(ee[2][n + j], Total([k \in 1..(n - 2) |-> Times(ee[2][2 + k], x[2 + k][j])])),
                  ee[2][2])] = below
    BY <1>2, <1>4, <2>1
  <2> QED
    BY <1>10, <2>2, TupleSame
<1>13. ASSUME NEW x, x[2] = below PROVE xs(x, 1) = above
  <2>1. ASSUME NEW j \in 1..2
        PROVE  Over(Minus(e[1][2 + j], Total([k \in 1..(2 - 1) |-> Times(e[1][1 + k], x[1 + k][j])])), e[1][1]) = up(j)
    <3> DEFINE z == Times(e[1][2], low(j))
    <3>1. z \in Residues /\ up(j) = Over(Minus(e[1][2 + j], z), e[1][1])
      BY <1>9
    <3>2. [k \in 1..(2 - 1) |-> Times(e[1][1 + k], x[1 + k][j])] = [k \in 1..1 |-> z]
      <4>1. 2 - 1 = 1 /\ \A k \in 1..1 : 1 + k = 2
        OBVIOUS
      <4>2. x[2][j] = low(j)
        BY <1>10, <1>13
      <4> QED
        BY <4>1, <4>2
    <3> HIDE DEF z
    <3>3. Total([k \in 1..1 |-> z]) = z
      BY <3>1, TotalOfSingle
    <3> HIDE DEF up
    <3> QED
      BY <3>1, <3>2, <3>3
  <2>2. [j \in DOMAIN b[1] |->
             Over(Minus(ee[1][n + j], Total([k \in 1..(n - 1) |-> Times(ee[1][1 + k], x[1 + k][j])])),
                  ee[1][1])] = above
    <3> HIDE DEF up
    <3> QED
      BY <1>2, <1>4, <2>1
  <2> QED
    BY <1>11, <2>2, TupleSame
<1> HIDE DEF xs, above, below
<1>14. Is(h)
  <2>1. h[1] = above /\ h[2] = below
    OBVIOUS
  <2>2. xs(h, 1) = above /\ xs(h, 2) = below
    <3> HIDE DEF h
    <3> QED
      BY <1>12, <1>13, <2>1
  <2>3. \A row \in 1..2 : row = 1 \/ row = 2
    OBVIOUS
  <2>4. \A row \in 1..2 : h[row] = xs(h, row)
    BY <2>1, <2>2, <2>3
  <2>5. h = [row \in 1..2 |-> h[row]]
    OBVIOUS
  <2> HIDE DEF h
  <2> QED
    BY <1>2, <2>4, <2>5
<1> HIDE DEF h
<1>15. Is(f)
  BY <1>14
<1> HIDE DEF f
<1>16. f[1] = above /\ f[2] = below /\ f = [row \in 1..2 |-> f[row]]
  <2>1. f = [row \in 1..2 |-> xs(f, row)]
    BY <1>2, <1>15
  <2>2. f[1] = xs(f, 1) /\ f[2] = xs(f, 2)
    BY <2>1
  <2> QED
    BY <1>12, <1>13, <2>1, <2>2
<1>17. f \in [1..2 -> [1..2 -> Residues]]
  <2>1. \A row \in 1..2 : f[row] \in [1..2 -> Residues]
    <3>1. \A row \in 1..2 : row = 1 \/ row = 2
      OBVIOUS
    <3> QED
      BY <1>10, <1>11, <1>16, <3>1
  <2> QED
    BY <1>16, <2>1
<1>18. SolveLinear(a, b) = f
  BY <1>1, <1>4, <1>5, <1>17, TupleSame
<1>19. \A j \in 1..2 : f[2][j] = low(j) /\ f[1][j] = Over(Minus(e[1][2 + j], Times(e[1][2], low(j))), e[1][1])
  <2> HIDE DEF up
  <2> QED
    BY <1>9, <1>10, <1>11, <1>16
<1> QED
  BY <1>8, <1>17, <1>18, <1>19 DEF Reduced

LEMMA SingularFound ==
  ASSUME NEW a \in Reduced(2), NEW b \in Reduced(2), Singular(Echelon(Beside(a, b)))
  PROVE  SolveLinear(a, b) = Eye(2)
<1>1. Len(a) = 2
  BY DEF Reduced
<1>2. [r \in 1..2 |-> a[r] \o b[r]] = Beside(a, b)
  BY DEF Beside
<1> QED
  BY <1>1, <1>2 DEF SolveLinear

\* Elimination, pivoting and substitution solve a system of two, and find out when it is singular.
LEMMA SystemSolved ==
  ASSUME NEW a \in Reduced(2), NEW b \in Reduced(2)
  PROVE  IF Determinant(a) = Zero THEN SolveLinear(a, b) = Eye(2)
         ELSE SolveLinear(a, b) \in Reduced(2) /\ Dot(a, SolveLinear(a, b)) = b
<1> DEFINE aug == Beside(a, b)
           e == Cleared(aug, 1)
<1>1. aug \in Augmented /\ \A r, c \in 1..2 : aug[r][c] = a[r][c] /\ aug[r][2 + c] = b[r][c]
  BY BesideEntries
<1> HIDE DEF aug
<1>0. \A m \in 1..2 : 3 - m \in 1..2 /\ ((m = 1 /\ 3 - m = 2) \/ (m = 2 /\ 3 - m = 1))
  OBVIOUS
<1>2. DOMAIN aug = 1..2 /\ \A r \in 1..2 : aug[r] \in [1..4 -> Residues]
  BY <1>1 DEF Augmented
<1>3. \A r, c \in 1..2 : a[r][c] \in Residues /\ a[r][c] \in Complex /\ b[r][c] \in Residues
  BY TypedNumbers DEF Reduced
<1>4. Determinant(a) = Zero <=> Times(a[1][1], a[2][2]) = Times(a[1][2], a[2][1])
  <2>1. Times(a[1][1], a[2][2]) \in Residues /\ Times(a[1][2], a[2][1]) \in Residues
    BY <1>3, ResiduesLeft
  <2> QED
    BY <2>1, MinusFacts DEF Determinant
<1>5. e \in Augmented => Echelon(aug) = e
  BY <1>2, EchelonOfTwo, ClearedLast
<1>6. ASSUME e \in Augmented, e[1][1] = Zero \/ e[2][2] = Zero PROVE SolveLinear(a, b) = Eye(2)
  <2>1. DOMAIN e = 1..2
    BY <1>6 DEF Augmented
  <2>2. Singular(e)
    BY <1>6, <2>1 DEF Singular
  <2> QED
    BY <1>5, <1>6, <2>2, SingularFound DEF aug
<1>7. ASSUME aug[1][1] = Zero, aug[2][1] = Zero, e = aug
      PROVE  Determinant(a) = Zero /\ SolveLinear(a, b) = Eye(2)
  <2>1. a[1][1] = Zero /\ a[2][1] = Zero
    BY <1>1, <1>7
  <2>2. Times(a[1][1], a[2][2]) = Zero /\ Times(a[1][2], a[2][1]) = Zero
    BY <1>3, <2>1, TimesAlgebra
  <2> QED
    BY <1>1, <1>4, <1>6, <1>7, <2>2
<1>8. ASSUME NEW m \in 1..2, aug[m][1] # Zero, e \in Augmented,
             e[1] = aug[m], e[2] = Reduce(aug[3 - m], aug[m])
      PROVE  IF Determinant(a) = Zero THEN SolveLinear(a, b) = Eye(2)
             ELSE SolveLinear(a, b) \in Reduced(2) /\ Dot(a, SolveLinear(a, b)) = b
  <2> DEFINE top == aug[m]
             o == aug[3 - m]
  <2>1. 3 - m \in 1..2 /\ ((m = 1 /\ 3 - m = 2) \/ (m = 2 /\ 3 - m = 1))
    BY <1>0
  <2>2. top \in [1..4 -> Residues] /\ o \in [1..4 -> Residues] /\ top[1] # Zero
    BY <1>2, <1>8, <2>1
  <2>3. e[2][2] = Zero <=> Times(top[1], o[2]) = Times(o[1], top[2])
    <3> HIDE DEF top, o
    <3>1. Reduce(o, top)[2] = Zero <=> Times(top[1], o[2]) = Times(o[1], top[2])
      BY <2>2, SecondPivot
    <3> QED
      BY <1>8, <3>1 DEF top, o
  <2>4. e[2][2] = Zero <=> Determinant(a) = Zero
    <3>1. /\ Times(a[1][1], a[2][2]) = Times(a[2][2], a[1][1])
          /\ Times(a[1][2], a[2][1]) = Times(a[2][1], a[1][2])
      BY <1>3, TimesAlgebra
    <3>2. CASE m = 1
      BY <1>1, <1>4, <2>1, <2>3, <3>1, <3>2
    <3>3. CASE m = 2
      BY <1>1, <1>4, <2>1, <2>3, <3>1, <3>3
    <3> QED
      BY <2>1, <3>2, <3>3
  <2>5. CASE Determinant(a) = Zero
    BY <1>6, <1>8, <2>4, <2>5
  <2>6. CASE Determinant(a) # Zero
    <3>1. e = Echelon(Beside(a, b)) /\ e[1][1] # Zero /\ e[2][2] # Zero
      BY <1>5, <1>8, <2>4, <2>6 DEF aug
    <3> HIDE DEF e
    <3>2. PICK x \in Reduced(2) :
            /\ SolveLinear(a, b) = x
            /\ \A j \in 1..2 : /\ x[2][j] = Over(e[2][2 + j], e[2][2])
                               /\ x[1][j] = Over(Minus(e[1][2 + j], Times(e[1][2], x[2][j])), e[1][1])
      BY <1>8, <3>1, SubstitutedBack
    <3>3. \A r, c \in 1..2 : x[r][c] \in Residues /\ x[r][c] \in Complex
      BY TypedNumbers DEF Reduced
    <3>4. ASSUME NEW j \in 1..2
          PROVE  /\ Plus(Times(top[1], x[1][j]), Times(top[2], x[2][j])) = top[2 + j]
                 /\ Plus(Times(o[1], x[1][j]), Times(o[2], x[2][j])) = o[2 + j]
      <4>1. 2 + j \in {3, 4} /\ 2 + j \in 1..4 /\ \A r \in 1..2 : r \in 1..4
        OBVIOUS
      <4>2. e[1] = top /\ e[2] = Reduce(o, top)
        BY <1>8
      <4> HIDE DEF top, o
      <4>3. e[2][2 + j] \in Residues /\ e[2][2] \in Residues /\ e[1][2 + j] \in Residues /\ e[1][2] \in Residues
            /\ e[1][1] \in Residues
        BY <1>8, <4>1 DEF Augmented
      <4>4. Times(x[2][j], e[2][2]) = e[2][2 + j]
        BY <3>1, <3>2, <4>3, OverTimes
      <4>5. Minus(e[1][2 + j], Times(e[1][2], x[2][j])) \in Residues
        <5>1. e[1][2] \in Complex /\ e[1][2 + j] \in Complex /\ x[2][j] \in Complex
          BY <3>3, <4>3, TypedNumbers
        <5>2. Times(e[1][2], x[2][j]) \in Complex
          BY <5>1, TypedNumbers
        <5> QED
          BY <5>1, <5>2, ResiduesLeft
      <4>6. Times(x[1][j], e[1][1]) = Minus(e[1][2 + j], Times(e[1][2], x[2][j]))
        BY <3>1, <3>2, <4>3, <4>5, OverTimes
      <4> DEFINE u == x[1][j]
                 v == x[2][j]
                 k == 2 + j
      <4>7. /\ Times(v, Reduce(o, top)[2]) = Reduce(o, top)[k]
            /\ Times(u, top[1]) = Minus(top[k], Times(top[2], v))
            /\ u \in Residues /\ v \in Residues /\ k \in {3, 4}
        BY <3>3, <4>1, <4>2, <4>4, <4>6
      <4> HIDE DEF u, v, k
      <4>8. /\ Plus(Times(top[1], u), Times(top[2], v)) = top[k]
            /\ Plus(Times(o[1], u), Times(o[2], v)) = o[k]
        BY <2>2, <4>7, RowsSolved
      <4> QED
        BY <4>8 DEF u, v, k
    <3>5. a \in Square(2) /\ b \in Square(2) /\ x \in Square(2) /\ Dot(a, x) \in Square(2)
      BY ReducedSquare, MatrixTypes
    <3>6. ASSUME NEW r \in 1..2, NEW c \in 1..2 PROVE Dot(a, x)[r][c] = b[r][c]
      <4>1. Dot(a, x)[r][c] = Plus(Times(a[r][1], x[1][c]), Times(a[r][2], x[2][c]))
        BY <3>5, DotOfTwo
      <4>2. /\ Plus(Times(aug[m][1], x[1][c]), Times(aug[m][2], x[2][c])) = aug[m][2 + c]
            /\ Plus(Times(aug[3 - m][1], x[1][c]), Times(aug[3 - m][2], x[2][c])) = aug[3 - m][2 + c]
        BY <3>4
      <4>3. /\ Plus(Times(a[m][1], x[1][c]), Times(a[m][2], x[2][c])) = b[m][c]
            /\ Plus(Times(a[3 - m][1], x[1][c]), Times(a[3 - m][2], x[2][c])) = b[3 - m][c]
        BY <1>1, <2>1, <4>2
      <4>4. r = m \/ r = 3 - m
        BY <2>1
      <4> QED
        BY <4>1, <4>3, <4>4
    <3>7. Dot(a, x) = b
      BY <3>5, <3>6, MatrixEqual
    <3> QED
      BY <2>6, <3>2, <3>7
  <2> QED
    BY <2>5, <2>6
<1>9. \/ aug[1][1] = Zero /\ aug[2][1] = Zero /\ e = aug
      \/ \E m \in 1..2 : aug[m][1] # Zero /\ e \in Augmented /\ e[1] = aug[m] /\ e[2] = Reduce(aug[3 - m], aug[m])
  BY <1>1, ClearedFirst
<1> QED
  BY <1>7, <1>8, <1>9

-----------------------------------------------------------------------------
(* The identity, powers and polynomials                                     *)

\* The identity, and sums.
LEMMA EyeFacts ==
  ASSUME NEW d \in Nat
  PROVE  /\ Eye(d) \in Reduced(d) /\ Dagger(Eye(d)) = Eye(d)
         /\ \A m \in Reduced(d) : Dot(Eye(d), m) = m /\ Dot(m, Eye(d)) = m
         /\ \A x \in Residues : Diagonal(d, x) = Scaled(x, Eye(d))
<1> DEFINE row(x, r) == [c \in 1..d |-> IF r = c THEN x ELSE Zero]
           f(x) == [r \in 1..d |-> row(x, r)]
<1>1. \A x : Diagonal(d, x) = Tuple([r \in 1..d |-> Tuple(row(x, r))])
  BY DEF Diagonal, Matrix
<1>2. Zero \in Residues /\ One \in Residues /\ One \in Complex /\ Zero \in Complex
  BY TypedNumbers
<1>3. ASSUME NEW x \in Complex
      PROVE  f(x) \in Square(d) /\ \A r, c \in 1..d : f(x)[r][c] = IF r = c THEN x ELSE Zero
  BY <1>2 DEF Square
<1>4. ASSUME NEW x \in Complex PROVE Diagonal(d, x) = f(x)
  <2>1. Tuple([r \in 1..d |-> Tuple(f(x)[r])]) = f(x)
    <3>1. f(x) \in Square(d)
      BY <1>3
    <3> HIDE DEF f
    <3> QED
      BY <3>1, MatrixSame
  <2>2. \A r \in 1..d : f(x)[r] = row(x, r)
    OBVIOUS
  <2> HIDE DEF row
  <2>3. [r \in 1..d |-> Tuple(f(x)[r])] = [r \in 1..d |-> Tuple(row(x, r))]
    BY <2>2
  <2> QED
    BY <1>1, <2>1, <2>3
<1>5. Eye(d) = f(One)
  BY <1>2, <1>4 DEF Eye
<1>6. Eye(d) \in Square(d) /\ \A r, c \in 1..d : Eye(d)[r][c] = IF r = c THEN One ELSE Zero
  <2> HIDE DEF f
  <2> QED
    BY <1>2, <1>3, <1>5
<1>7. Eye(d) \in Reduced(d)
  BY <1>2, <1>5 DEF Reduced
<1>8. Dagger(Eye(d)) = Eye(d)
  <2>1. Conj(One) = One /\ Conj(Zero) = Zero
    <3>1. One \in RealNumbers /\ Zero \in RealNumbers
      BY RealNumbersClosed DEF One
    <3> QED
      BY <3>1, RealNumbersClosed
  <2>2. Dagger(Eye(d)) \in Square(d) /\ \A r, c \in 1..d : Dagger(Eye(d))[r][c] = Conj(Eye(d)[c][r])
    BY <1>6, DaggerParts
  <2>3. \A r, c \in 1..d : Dagger(Eye(d))[r][c] = Eye(d)[r][c]
    BY <1>6, <2>1, <2>2
  <2> QED
    BY <1>6, <2>2, <2>3, MatrixEqual
<1> HIDE DEF f, row
<1>9. ASSUME NEW m \in Reduced(d) PROVE Dot(Eye(d), m) = m /\ Dot(m, Eye(d)) = m
  <2>1. m \in Square(d) /\ Dagger(m) \in Reduced(d) /\ Dagger(m) \in Square(d)
    BY ReducedSquare, MatrixTypes
  <2>2. Dot(Eye(d), m) = m /\ Dot(Eye(d), Dagger(m)) = Dagger(m)
    BY <2>1, EyeLeaves
  <2>3. Dagger(Dot(Eye(d), Dagger(m))) = Dot(Dagger(Dagger(m)), Dagger(Eye(d)))
    BY <1>6, <2>1, DaggerOfDot
  <2>4. Dagger(Dagger(m)) = m
    BY <1>2, <2>1, DaggerLinear
  <2> QED
    BY <1>8, <2>2, <2>3, <2>4
<1>10. ASSUME NEW x \in Residues PROVE Diagonal(d, x) = Scaled(x, Eye(d))
  <2>0. x \in Complex
    BY TypedNumbers
  <2>1. Diagonal(d, x) \in Square(d) /\ \A r, c \in 1..d : Diagonal(d, x)[r][c] = IF r = c THEN x ELSE Zero
    BY <1>3, <1>4, <2>0
  <2>2. Scaled(x, Eye(d)) \in Square(d) /\ \A r, c \in 1..d : Scaled(x, Eye(d))[r][c] = Times(x, Eye(d)[r][c])
    BY <1>6, <2>0, ScaledEntries, ReducedSquare
  <2>3. Times(x, One) = x /\ Times(x, Zero) = Zero
    BY <1>2, <2>0, TimesAlgebra
  <2>4. \A r, c \in 1..d : Diagonal(d, x)[r][c] = Scaled(x, Eye(d))[r][c]
    BY <1>6, <2>1, <2>2, <2>3
  <2> QED
    BY <2>1, <2>2, <2>4, MatrixEqual
<1> QED
  BY <1>7, <1>8, <1>9, <1>10

\* Sums of matrices do not depend on their order.
LEMMA SumAlgebra ==
  ASSUME NEW d \in Nat, NEW a \in Square(d), NEW b \in Square(d), NEW c \in Square(d)
  PROVE  /\ Sum(a, b) = Sum(b, a) /\ Sum(Sum(a, b), c) = Sum(a, Sum(b, c))
         /\ a \in Reduced(d) => Sum(Zeros(d), a) = a /\ Scaled(One, a) = a
<1>1. /\ Sum(a, b) \in Square(d) /\ Sum(b, a) \in Square(d) /\ Sum(b, c) \in Square(d)
      /\ Sum(Sum(a, b), c) \in Square(d) /\ Sum(a, Sum(b, c)) \in Square(d) /\ Zeros(d) \in Square(d)
      /\ Sum(Zeros(d), a) \in Square(d) /\ One \in Complex /\ Scaled(One, a) \in Square(d)
  BY MatrixTypes, TypedNumbers
<1>2. ASSUME NEW r \in 1..d, NEW s \in 1..d
      PROVE  /\ Sum(a, b)[r][s] = Sum(b, a)[r][s] /\ Sum(Sum(a, b), c)[r][s] = Sum(a, Sum(b, c))[r][s]
             /\ a \in Reduced(d) => Sum(Zeros(d), a)[r][s] = a[r][s] /\ Scaled(One, a)[r][s] = a[r][s]
  <2>1. a[r][s] \in Complex /\ b[r][s] \in Complex /\ c[r][s] \in Complex
    BY SquareLen
  <2>2. /\ Sum(a, b)[r][s] = Plus(a[r][s], b[r][s]) /\ Sum(b, a)[r][s] = Plus(b[r][s], a[r][s])
        /\ Sum(b, c)[r][s] = Plus(b[r][s], c[r][s])
    BY SumEntries
  <2>3. /\ Sum(Sum(a, b), c)[r][s] = Plus(Sum(a, b)[r][s], c[r][s])
        /\ Sum(a, Sum(b, c))[r][s] = Plus(a[r][s], Sum(b, c)[r][s])
        /\ Sum(Zeros(d), a)[r][s] = Plus(Zeros(d)[r][s], a[r][s])
    BY <1>1, SumEntries
  <2>4. Zeros(d)[r][s] = Zero /\ Scaled(One, a)[r][s] = Times(One, a[r][s])
    BY <1>1, ZerosEntries, ScaledEntries
  <2>5. a \in Reduced(d) => a[r][s] \in Residues
    BY DEF Reduced
  <2> DEFINE x == a[r][s]
             y == b[r][s]
             z == c[r][s]
  <2>6. x \in Complex /\ y \in Complex /\ z \in Complex
    BY <2>1
  <2> HIDE DEF x, y, z
  <2>7. /\ Plus(x, y) = Plus(y, x) /\ Plus(Plus(x, y), z) = Plus(x, Plus(y, z))
        /\ x \in Residues => Plus(Zero, x) = x /\ Times(One, x) = x
    BY <1>1, <2>6, PlusAlgebra, TimesAlgebra
  <2> QED
    BY <2>2, <2>3, <2>4, <2>5, <2>7 DEF x, y, z
<1> DEFINE p == Sum(a, b)
           q == Sum(b, a)
           u == Sum(Sum(a, b), c)
           v == Sum(a, Sum(b, c))
<1>3. p = q
  <2>1. p \in Square(d) /\ q \in Square(d) /\ \A r, s \in 1..d : p[r][s] = q[r][s]
    BY <1>1, <1>2
  <2> HIDE DEF p, q
  <2> QED
    BY <2>1, MatrixEqual
<1>4. u = v
  <2>1. u \in Square(d) /\ v \in Square(d) /\ \A r, s \in 1..d : u[r][s] = v[r][s]
    BY <1>1, <1>2
  <2> HIDE DEF u, v
  <2> QED
    BY <2>1, MatrixEqual
<1>5. ASSUME a \in Reduced(d) PROVE Sum(Zeros(d), a) = a /\ Scaled(One, a) = a
  <2> DEFINE w == Sum(Zeros(d), a)
             x == Scaled(One, a)
  <2>1. w \in Square(d) /\ x \in Square(d) /\ \A r, s \in 1..d : w[r][s] = a[r][s] /\ x[r][s] = a[r][s]
    BY <1>1, <1>2, <1>5
  <2> HIDE DEF w, x
  <2> QED
    BY <2>1, MatrixEqual DEF w, x
<1> QED
  BY <1>3, <1>4, <1>5

\* The powers of a matrix, one product after another.
LEMMA PowerRuns ==
  ASSUME NEW d \in Nat, NEW a \in Square(d), NEW m \in Nat, NEW w \in [0..m -> Square(d)],
         w[0] = Eye(d), \A k \in 1..m : w[k] = Dot(w[k - 1], a), NEW n \in 0..m
  PROVE  Power(a, n) = w[n]
<1> DEFINE s == [j \in 1..n |-> j]
           Is(g) == g = [t \in SUBSET (1..n) |-> IF t = {} THEN Eye(Len(a)) ELSE Dot(g[t \ {Max(t)}], a)]
           f == CHOOSE g : Is(g)
<1>1. DOMAIN s = 1..n /\ n \in Nat /\ Len(s) = n /\ Len(a) = d
  BY SquareLen
<1>2. Power(a, n) = f[1..n]
  BY <1>1 DEF Power, FoldLeft, MapThenFoldSet
<1> HIDE DEF s
<1> DEFINE G == [p \in (1..n) \X Square(d) |-> Dot(p[2], a)]
<1>3. G \in [(1..n) \X Square(d) -> Square(d)] /\ Eye(d) \in Square(d)
  <2>1. \A x \in Square(d) : Dot(x, a) \in Square(d)
    BY MatrixTypes
  <2> QED
    BY <2>1, EyeTyped
<1>4. PICK h \in [SUBSET (1..n) -> Square(d)] : IsFold(h, n, Eye(d), G)
  <2> HIDE DEF G
  <2> QED
    BY <1>1, <1>3, FoldExists
<1>5. ASSUME NEW t \in SUBSET (1..n), t # {} PROVE h[t] = Dot(h[t \ {Max(t)}], a)
  <2>1. Max(t) \in 1..n /\ t \ {Max(t)} \in SUBSET (1..n)
    BY <1>1, <1>5, MaxFacts
  <2>2. h[t] = G[<<Max(t), h[t \ {Max(t)}]>>] /\ h[t \ {Max(t)}] \in Square(d)
    BY <1>4, <1>5, <2>1 DEF IsFold
  <2> QED
    BY <2>1, <2>2
<1>6. Is(h)
  <2>1. h[{}] = Eye(Len(a)) /\ {} \in SUBSET (1..n)
    BY <1>1, <1>4 DEF IsFold
  <2>2. \A t \in SUBSET (1..n) : h[t] = IF t = {} THEN Eye(Len(a)) ELSE Dot(h[t \ {Max(t)}], a)
    BY <1>5, <2>1
  <2> HIDE DEF G
  <2> QED
    BY <1>4, <2>2
<1> HIDE DEF G
<1>7. Is(f)
  BY <1>6
<1> HIDE DEF f
<1>8. f[{}] = Eye(d) /\ \A t \in SUBSET (1..n) : t # {} => f[t] = Dot(f[t \ {Max(t)}], a)
  BY <1>1, <1>7
<1> DEFINE T == {k \in 0..n : f[1..k] = w[k]}
<1>9. 0 \in T
  <2>1. 1..0 = {} /\ 0 \in 0..n
    BY <1>1
  <2> QED
    BY <1>8, <2>1
<1>10. ASSUME NEW k \in 0..(n - 1), k \in T PROVE k + 1 \in T
  <2>1. /\ k + 1 \in Nat \ {0} /\ k + 1 \in 0..n /\ k + 1 - 1 = k /\ k + 1 \in 1..m
        /\ 1..(k + 1) \in SUBSET (1..n)
    BY <1>1
  <2>2. 1..(k + 1) # {} /\ Max(1..(k + 1)) = k + 1 /\ (1..(k + 1)) \ {k + 1} = 1..k
    <3> DEFINE K == k + 1
    <3>1. K \in Nat \ {0} /\ K - 1 = k
      BY <2>1
    <3> HIDE DEF K
    <3>2. 1..K # {} /\ Max(1..K) = K /\ (1..K) \ {K} = 1..(K - 1)
      BY <3>1, FirstFacts
    <3> QED
      BY <3>1, <3>2 DEF K
  <2>3. f[1..(k + 1)] = Dot(f[1..k], a)
    <3> DEFINE t == 1..(k + 1)
    <3>1. t \in SUBSET (1..n) /\ t # {} /\ Max(t) = k + 1 /\ t \ {k + 1} = 1..k
      BY <2>1, <2>2
    <3> HIDE DEF t
    <3>2. f[t] = Dot(f[t \ {Max(t)}], a)
      BY <1>8, <3>1
    <3> QED
      BY <3>1, <3>2 DEF t
  <2> QED
    BY <1>10, <2>1, <2>3
<1> HIDE DEF T
<1>11. 0..n \subseteq T
  BY <1>1, <1>9, <1>10, UpTo
<1>12. n \in T
  BY <1>1, <1>11
<1> QED
  BY <1>2, <1>12 DEF T

\* Each power is the one before it times the matrix.
LEMMA PowerSteps ==
  ASSUME NEW d \in Nat, NEW a \in Reduced(d)
  PROVE  /\ \A k \in Nat : Power(a, k) \in Reduced(d) /\ Power(a, k + 1) = Dot(Power(a, k), a)
         /\ Power(a, 0) = Eye(d) /\ Power(a, 1) = a
<1>1. a \in Square(d) /\ Eye(d) \in Square(d) /\ Eye(d) \in Reduced(d)
  BY ReducedSquare, EyeFacts
<1>2. ASSUME NEW k \in Nat
      PROVE  /\ Power(a, 0) = Eye(d) /\ Power(a, k + 1) = Dot(Power(a, k), a)
             /\ Power(a, k) \in Square(d) /\ Power(a, k + 1) \in Reduced(d)
  <2> DEFINE m == k + 1
             G == [p \in (1..m) \X Square(d) |-> Dot(p[2], a)]
  <2>1. m \in Nat /\ 0 \in 0..m /\ k \in 0..m /\ m \in 0..m /\ m \in 1..m /\ m - 1 = k
    OBVIOUS
  <2> HIDE DEF m
  <2>2. G \in [(1..m) \X Square(d) -> Square(d)]
    <3>1. \A x \in Square(d) : Dot(x, a) \in Square(d)
      BY <1>1, MatrixTypes
    <3> QED
      BY <3>1
  <2>3. PICK w \in [0..m -> Square(d)] : IsRun(w, m, Eye(d), G)
    <3> HIDE DEF G
    <3> QED
      BY <1>1, <2>1, <2>2, RunExists
  <2>4. w[0] = Eye(d) /\ \A j \in 1..m : w[j] = Dot(w[j - 1], a)
    <3>1. \A j \in 1..m : w[j - 1] \in Square(d)
      <4>1. \A j \in 1..m : j - 1 \in 0..m
        BY <2>1
      <4> QED
        BY <4>1
    <3>2. \A j \in 1..m : G[<<j, w[j - 1]>>] = Dot(w[j - 1], a)
      BY <3>1
    <3> HIDE DEF G
    <3> QED
      BY <2>3, <3>2 DEF IsRun
  <2>5. Power(a, 0) = w[0] /\ Power(a, k) = w[k] /\ Power(a, m) = w[m]
    <3> HIDE DEF G
    <3>1. ASSUME NEW n \in 0..m PROVE Power(a, n) = w[n]
      BY <1>1, <2>1, <2>4, PowerRuns
    <3> QED
      BY <2>1, <3>1
  <2>6. w[k] \in Square(d) /\ Dot(w[k], a) \in Reduced(d)
    BY <1>1, <2>1, MatrixTypes
  <2> QED
    BY <2>1, <2>4, <2>5, <2>6 DEF m
<1>3. Power(a, 0) = Eye(d)
  BY <1>2
<1>4. Power(a, 1) = a
  <2>1. 0 \in Nat /\ 0 + 1 = 1
    OBVIOUS
  <2>2. Power(a, 0 + 1) = Dot(Power(a, 0), a)
    BY <1>2, <2>1
  <2> QED
    BY <1>3, <2>1, <2>2, EyeFacts
<1>5. ASSUME NEW k \in Nat PROVE Power(a, k) \in Reduced(d)
  <2>1. CASE k = 0
    BY <1>1, <1>3, <2>1
  <2>2. CASE k # 0
    <3>1. k - 1 \in Nat /\ k - 1 + 1 = k
      BY <2>2
    <3>2. Power(a, k - 1 + 1) \in Reduced(d)
      BY <1>2, <3>1
    <3> QED
      BY <3>1, <3>2
  <2> QED
    BY <2>1, <2>2
<1> QED
  BY <1>2, <1>3, <1>4, <1>5

\* Powers multiply as their exponents add.
LEMMA PowersAdd ==
  ASSUME NEW d \in Nat, NEW a \in Reduced(d), NEW i \in Nat, NEW n \in Nat
  PROVE  Dot(Power(a, i), Power(a, n)) = Power(a, i + n)
<1> DEFINE T == {k \in 0..n : Dot(Power(a, i), Power(a, k)) = Power(a, i + k)}
<1>1. 0 \in T
  <2>1. 0 \in 0..n /\ i + 0 = i /\ Power(a, 0) = Eye(d) /\ Power(a, i) \in Reduced(d)
    BY PowerSteps
  <2> QED
    BY <2>1, EyeFacts
<1>2. ASSUME NEW k \in 0..(n - 1), k \in T PROVE k + 1 \in T
  <2>1. k \in Nat /\ k + 1 \in 0..n /\ i + k \in Nat /\ i + (k + 1) = (i + k) + 1
    OBVIOUS
  <2> DEFINE p == Power(a, i)
             q == Power(a, k)
  <2>2. /\ p \in Square(d) /\ q \in Square(d) /\ a \in Square(d)
        /\ Power(a, k + 1) = Dot(q, a) /\ Power(a, (i + k) + 1) = Dot(Power(a, i + k), a)
    BY <2>1, PowerSteps, ReducedSquare
  <2>3. Dot(p, q) = Power(a, i + k)
    BY <1>2
  <2> HIDE DEF p, q
  <2>4. Dot(p, Dot(q, a)) = Dot(Dot(p, q), a)
    BY <2>2, DotAssociates
  <2> QED
    BY <2>1, <2>2, <2>3, <2>4 DEF p
<1> HIDE DEF T
<1>3. 0..n \subseteq T
  BY <1>1, <1>2, UpTo
<1>4. n \in T
  BY <1>3
<1> QED
  BY <1>4 DEF T

\* One term of the approximant.
Term(a, k) == Scaled(Coefficient(k), Power(a, k))

LEMMA TermTyped ==
  ASSUME NEW d \in Nat, NEW a \in Reduced(d), NEW k \in 0..13
  PROVE  Term(a, k) \in Reduced(d) /\ Coefficient(k) \in RealNumbers /\ Coefficient(k) \in Residues
<1>1. PadeCoeffs[k] \in Int /\ k \in Nat
  BY PadeAssumption
<1>2. Real(PadeCoeffs[k]) \in Int /\ Real(Real(PadeCoeffs[k])) = Real(PadeCoeffs[k])
  BY <1>1, RealInt, RealAbsorbs
<1>3. Coefficient(k) \in RealNumbers
  BY <1>2, RealNumbersClosed DEF Coefficient
<1>4. Coefficient(k) \in Complex
  BY <1>3, RealNumbersClosed
<1>5. Coefficient(k) \in Residues
  BY <1>2, <1>4, RealOfSmall DEF Coefficient, Residues
<1>6. Power(a, k) \in Square(d)
  BY <1>1, PowerSteps, ReducedSquare
<1> QED
  BY <1>3, <1>4, <1>5, <1>6, MatrixTypes DEF Term

\* A polynomial adds its terms in their order; the approximant's has seven.
LEMMA PolynomialRuns ==
  ASSUME NEW d \in Nat, NEW a \in Reduced(d), NEW s \in Seq(0..13)
  PROVE  \E w \in [0..Len(s) -> Square(d)] :
           /\ w[0] = Zeros(d) /\ Polynomial(a, s) = w[Len(s)]
           /\ \A k \in 1..Len(s) : w[k] = Sum(w[k - 1], Term(a, s[k]))
<1> DEFINE n == Len(s)
           Is(g) == g = [t \in SUBSET (1..n) |->
                           IF t = {} THEN Zeros(Len(a)) ELSE Sum(g[t \ {Max(t)}], Term(a, s[Max(t)]))]
           f == CHOOSE g : Is(g)
<1>1. DOMAIN s = 1..n /\ n \in Nat /\ Len(a) = d /\ \A k \in 1..n : s[k] \in 0..13
  BY SquareLen, ReducedSquare
<1>2. Polynomial(a, s) = f[1..n]
  BY <1>1 DEF Polynomial, FoldLeft, MapThenFoldSet, Term
<1> DEFINE G == [p \in (1..n) \X Square(d) |-> Sum(p[2], Term(a, s[p[1]]))]
<1>3. \A k \in 1..n, x \in Square(d) : Sum(x, Term(a, s[k])) \in Square(d)
  <2> TAKE k \in 1..n, x \in Square(d)
  <2>1. Term(a, s[k]) \in Square(d)
    BY <1>1, TermTyped, ReducedSquare
  <2> QED
    BY <2>1, MatrixTypes
<1>4. G \in [(1..n) \X Square(d) -> Square(d)] /\ Zeros(d) \in Square(d)
  BY <1>3, MatrixTypes
<1>5. PICK h \in [SUBSET (1..n) -> Square(d)] : IsFold(h, n, Zeros(d), G)
  <2> HIDE DEF G
  <2>1. n \in Nat
    BY <1>1
  <2> HIDE DEF n
  <2> QED
    BY <1>4, <2>1, FoldExists
<1>6. ASSUME NEW t \in SUBSET (1..n), t # {}
      PROVE  h[t] = Sum(h[t \ {Max(t)}], Term(a, s[Max(t)]))
  <2>1. Max(t) \in 1..n /\ t \ {Max(t)} \in SUBSET (1..n)
    BY <1>1, <1>6, MaxFacts
  <2>2. h[t] = G[<<Max(t), h[t \ {Max(t)}]>>] /\ h[t \ {Max(t)}] \in Square(d)
    BY <1>5, <1>6, <2>1 DEF IsFold
  <2> QED
    BY <2>1, <2>2
<1>7. Is(h)
  <2>1. h[{}] = Zeros(Len(a)) /\ {} \in SUBSET (1..n)
    BY <1>1, <1>5 DEF IsFold
  <2>2. \A t \in SUBSET (1..n) :
          h[t] = IF t = {} THEN Zeros(Len(a)) ELSE Sum(h[t \ {Max(t)}], Term(a, s[Max(t)]))
    BY <1>6, <2>1
  <2> HIDE DEF G
  <2> QED
    BY <1>5, <2>2
<1> HIDE DEF G
<1>8. Is(f)
  BY <1>7
<1> HIDE DEF f
<1>9. f[{}] = Zeros(d) /\ \A t \in SUBSET (1..n) : t # {} => f[t] = Sum(f[t \ {Max(t)}], Term(a, s[Max(t)]))
  BY <1>1, <1>8
<1>10. ASSUME NEW t \in SUBSET (1..n), t # {}, f[t \ {Max(t)}] \in Square(d) PROVE f[t] \in Square(d)
  <2>1. Max(t) \in 1..n
    BY <1>1, <1>10, MaxFacts
  <2>2. f[t] = Sum(f[t \ {Max(t)}], Term(a, s[Max(t)]))
    BY <1>9, <1>10
  <2> QED
    BY <1>3, <1>10, <2>1, <2>2
<1>11. \A t \in SUBSET (1..n) : f[t] \in Square(d)
  BY <1>1, <1>4, <1>9, <1>10, FoldTyped
<1> DEFINE w == [k \in 0..n |-> f[1..k]]
<1>12. w \in [0..n -> Square(d)]
  <2>1. \A k \in 0..n : 1..k \in SUBSET (1..n)
    BY <1>1
  <2> QED
    BY <1>11, <2>1
<1>13. w[0] = Zeros(d) /\ w[n] = f[1..n]
  <2>1. 1..0 = {} /\ 0 \in 0..n /\ n \in 0..n
    BY <1>1
  <2> QED
    BY <1>9, <2>1
<1>14. ASSUME NEW k \in 1..n PROVE w[k] = Sum(w[k - 1], Term(a, s[k]))
  <2>1. k \in Nat \ {0} /\ k \in 0..n /\ k - 1 \in 0..n /\ 1..k \in SUBSET (1..n)
    BY <1>1
  <2>2. 1..k # {} /\ Max(1..k) = k /\ (1..k) \ {k} = 1..(k - 1)
    BY <2>1, FirstFacts
  <2>3. f[1..k] = Sum(f[1..(k - 1)], Term(a, s[k]))
    BY <1>9, <2>1, <2>2
  <2> QED
    BY <2>1, <2>3
<1> HIDE DEF w
<1> QED
  BY <1>2, <1>12, <1>13, <1>14

\* Seven terms in a row.
InARow(t1, t2, t3, t4, t5, t6, t7) == Sum(Sum(Sum(Sum(Sum(Sum(t1, t2), t3), t4), t5), t6), t7)

LEMMA PolynomialOfSeven ==
  ASSUME NEW d \in Nat, NEW a \in Reduced(d), NEW s \in Seq(0..13), Len(s) = 7
  PROVE  Polynomial(a, s) = InARow(Term(a, s[1]), Term(a, s[2]), Term(a, s[3]), Term(a, s[4]),
                                   Term(a, s[5]), Term(a, s[6]), Term(a, s[7]))
<1>1. PICK w \in [0..Len(s) -> Square(d)] :
           /\ w[0] = Zeros(d) /\ Polynomial(a, s) = w[Len(s)]
           /\ \A k \in 1..Len(s) : w[k] = Sum(w[k - 1], Term(a, s[k]))
  BY PolynomialRuns
<1>2. \A k \in 1..7 : w[k] = Sum(w[k - 1], Term(a, s[k]))
  BY <1>1
<1>3. /\ w[1] = Sum(w[0], Term(a, s[1])) /\ w[2] = Sum(w[1], Term(a, s[2])) /\ w[3] = Sum(w[2], Term(a, s[3]))
      /\ w[4] = Sum(w[3], Term(a, s[4])) /\ w[5] = Sum(w[4], Term(a, s[5])) /\ w[6] = Sum(w[5], Term(a, s[6]))
      /\ w[7] = Sum(w[6], Term(a, s[7]))
  <2>1. /\ 1 \in 1..7 /\ 2 \in 1..7 /\ 3 \in 1..7 /\ 4 \in 1..7 /\ 5 \in 1..7 /\ 6 \in 1..7 /\ 7 \in 1..7
        /\ 1 - 1 = 0 /\ 2 - 1 = 1 /\ 3 - 1 = 2 /\ 4 - 1 = 3 /\ 5 - 1 = 4 /\ 6 - 1 = 5 /\ 7 - 1 = 6
    OBVIOUS
  <2> QED
    BY <1>2, <2>1
<1>4. Sum(Zeros(d), Term(a, s[1])) = Term(a, s[1])
  <2>1. s[1] \in 0..13
    <3>1. 1 \in 1..Len(s)
      OBVIOUS
    <3> QED
      BY <3>1, ElementOfSeq
  <2>2. Term(a, s[1]) \in Reduced(d)
    BY <2>1, TermTyped
  <2> QED
    BY <2>2, SumAlgebra, ReducedSquare
<1> QED
  BY <1>1, <1>3, <1>4 DEF InARow

\* The order in which the approximant adds them.
LEMMA RowReversed ==
  ASSUME NEW d \in Nat, NEW t \in [1..7 -> Square(d)]
  PROVE  Sum(Sum(Sum(Sum(t[7], t[6]), t[5]), Sum(Sum(t[4], t[3]), t[2])), t[1])
           = InARow(t[1], t[2], t[3], t[4], t[5], t[6], t[7])
<1> DEFINE t1 == t[1]
           t2 == t[2]
           t3 == t[3]
           t4 == t[4]
           t5 == t[5]
           t6 == t[6]
           t7 == t[7]
<1>0. /\ t1 \in Square(d) /\ t2 \in Square(d) /\ t3 \in Square(d) /\ t4 \in Square(d)
      /\ t5 \in Square(d) /\ t6 \in Square(d) /\ t7 \in Square(d)
  OBVIOUS
<1> SUFFICES Sum(Sum(Sum(Sum(t7, t6), t5), Sum(Sum(t4, t3), t2)), t1) = InARow(t1, t2, t3, t4, t5, t6, t7)
  OBVIOUS
<1> HIDE DEF t1, t2, t3, t4, t5, t6, t7
<1> DEFINE l == Sum(Sum(t7, t6), t5)
           m == Sum(Sum(t4, t3), t2)
           q == Sum(Sum(Sum(t1, t2), t3), t4)
<1>1. \A x, y \in Square(d) : Sum(x, y) \in Square(d)
  BY MatrixTypes, ReducedSquare
<1>2. \A x, y \in Square(d) : Sum(x, y) = Sum(y, x)
  BY SumAlgebra
<1>3. \A x, y, z \in Square(d) : Sum(Sum(x, y), z) = Sum(x, Sum(y, z))
  BY SumAlgebra
<1>4. l \in Square(d) /\ m \in Square(d) /\ q \in Square(d)
  BY <1>0, <1>1
<1>5. Sum(t1, m) = q
  <2>1. m = Sum(t2, Sum(t3, t4))
    <3>1. Sum(t4, t3) = Sum(t3, t4) /\ Sum(t3, t4) \in Square(d)
      BY <1>0, <1>1, <1>2
    <3>2. Sum(Sum(t3, t4), t2) = Sum(t2, Sum(t3, t4))
      BY <1>0, <1>2, <3>1
    <3> QED
      BY <3>1, <3>2
  <2>2. Sum(t1, Sum(t2, Sum(t3, t4))) = Sum(Sum(t1, t2), Sum(t3, t4))
    <3>1. Sum(t3, t4) \in Square(d)
      BY <1>0, <1>1
    <3> QED
      BY <1>0, <1>3, <3>1
  <2>3. Sum(Sum(t1, t2), Sum(t3, t4)) = q
    <3>1. Sum(t1, t2) \in Square(d)
      BY <1>0, <1>1
    <3> QED
      BY <1>0, <1>3, <3>1
  <2> QED
    BY <2>1, <2>2, <2>3
<1>6. Sum(q, l) = Sum(Sum(Sum(q, t5), t6), t7)
  <2> HIDE DEF q
  <2>1. l = Sum(t5, Sum(t6, t7))
    <3>1. Sum(t7, t6) = Sum(t6, t7) /\ Sum(t6, t7) \in Square(d)
      BY <1>0, <1>1, <1>2
    <3>2. Sum(Sum(t6, t7), t5) = Sum(t5, Sum(t6, t7))
      BY <1>0, <1>2, <3>1
    <3> QED
      BY <3>1, <3>2
  <2>2. Sum(q, Sum(t5, Sum(t6, t7))) = Sum(Sum(q, t5), Sum(t6, t7))
    <3>1. Sum(t6, t7) \in Square(d) /\ q \in Square(d) /\ t5 \in Square(d)
      BY <1>0, <1>1, <1>4
    <3> QED
      BY <1>0, <1>3, <3>1
  <2>3. Sum(Sum(q, t5), Sum(t6, t7)) = Sum(Sum(Sum(q, t5), t6), t7)
    <3>1. Sum(q, t5) \in Square(d)
      BY <1>0, <1>1, <1>4
    <3> QED
      BY <1>0, <1>3, <3>1
  <2> QED
    BY <2>1, <2>2, <2>3
<1>7. Sum(Sum(l, m), t1) = Sum(Sum(t1, m), l)
  <2> HIDE DEF l, m
  <2>1. Sum(Sum(l, m), t1) = Sum(t1, Sum(l, m)) /\ Sum(l, m) = Sum(m, l) /\ Sum(t1, Sum(m, l)) = Sum(Sum(t1, m), l)
    BY <1>0, <1>1, <1>2, <1>3, <1>4
  <2> QED
    BY <2>1
<1> QED
  BY <1>5, <1>6, <1>7 DEF InARow

\* Three neighbouring terms, taken up by a power.
Trio(a, k, j) ==
  Sum(Sum(Scaled(Coefficient(k), Power(a, 6 + j)), Scaled(Coefficient(k - 2), Power(a, 4 + j))),
      Scaled(Coefficient(k - 4), Power(a, 2 + j)))

LEMMA TrioShifts ==
  ASSUME NEW d \in Nat, NEW a \in Reduced(d), NEW k \in 4..13, NEW i \in Nat, NEW j \in Nat
  PROVE  /\ Trio(a, k, j) \in Reduced(d)
         /\ Dot(Trio(a, k, j), Power(a, i)) = Trio(a, k, j + i)
         /\ Dot(Power(a, i), Trio(a, k, j)) = Trio(a, k, j + i)
<1> DEFINE x == Coefficient(k)
           y == Coefficient(k - 2)
           z == Coefficient(k - 4)
           p == Power(a, 6 + j)
           q == Power(a, 4 + j)
           r == Power(a, 2 + j)
           e == Power(a, i)
<1>1. x \in Complex /\ y \in Complex /\ z \in Complex
  <2>1. k \in 0..13 /\ k - 2 \in 0..13 /\ k - 4 \in 0..13
    OBVIOUS
  <2> QED
    BY <2>1, TermTyped, TypedNumbers
<1>2. p \in Square(d) /\ q \in Square(d) /\ r \in Square(d) /\ e \in Square(d)
  <2>1. 6 + j \in Nat /\ 4 + j \in Nat /\ 2 + j \in Nat
    OBVIOUS
  <2> QED
    BY <2>1, PowerSteps, ReducedSquare
<1>3. /\ Dot(p, e) = Power(a, 6 + (j + i)) /\ Dot(q, e) = Power(a, 4 + (j + i)) /\ Dot(r, e) = Power(a, 2 + (j + i))
      /\ Dot(e, p) = Power(a, 6 + (j + i)) /\ Dot(e, q) = Power(a, 4 + (j + i)) /\ Dot(e, r) = Power(a, 2 + (j + i))
  <2>1. ASSUME NEW n \in Nat
        PROVE  /\ Dot(Power(a, n + j), e) = Power(a, n + (j + i))
               /\ Dot(e, Power(a, n + j)) = Power(a, n + (j + i))
    <3>1. n + j \in Nat /\ (n + j) + i = n + (j + i) /\ i + (n + j) = n + (j + i)
      OBVIOUS
    <3>2. Dot(Power(a, n + j), Power(a, i)) = Power(a, (n + j) + i)
      BY <3>1, PowersAdd
    <3>3. Dot(Power(a, i), Power(a, n + j)) = Power(a, i + (n + j))
      BY <3>1, PowersAdd
    <3> QED
      BY <3>1, <3>2, <3>3
  <2> HIDE DEF e
  <2>2. 6 \in Nat /\ 4 \in Nat /\ 2 \in Nat
    OBVIOUS
  <2> QED
    BY <2>1, <2>2
<1>4. Trio(a, k, j) = Sum(Sum(Scaled(x, p), Scaled(y, q)), Scaled(z, r))
  BY DEF Trio
<1>5. Trio(a, k, j + i) = Sum(Sum(Scaled(x, Dot(p, e)), Scaled(y, Dot(q, e))), Scaled(z, Dot(r, e)))
      /\ Trio(a, k, j + i) = Sum(Sum(Scaled(x, Dot(e, p)), Scaled(y, Dot(e, q))), Scaled(z, Dot(e, r)))
  <2> HIDE DEF p, q, r, e
  <2> QED
    BY <1>3 DEF Trio
<1> HIDE DEF x, y, z, p, q, r, e
<1>6. /\ Scaled(x, p) \in Square(d) /\ Scaled(y, q) \in Square(d) /\ Scaled(z, r) \in Square(d)
      /\ Sum(Scaled(x, p), Scaled(y, q)) \in Square(d)
  <2>1. Scaled(x, p) \in Square(d) /\ Scaled(y, q) \in Square(d) /\ Scaled(z, r) \in Square(d)
    BY <1>1, <1>2, MatrixTypes
  <2> QED
    BY <2>1, MatrixTypes
<1>7. Sum(Sum(Scaled(x, p), Scaled(y, q)), Scaled(z, r)) \in Reduced(d)
  BY <1>6, MatrixTypes
<1>8. /\ Dot(Scaled(x, p), e) = Scaled(x, Dot(p, e)) /\ Dot(e, Scaled(x, p)) = Scaled(x, Dot(e, p))
      /\ Dot(Scaled(y, q), e) = Scaled(y, Dot(q, e)) /\ Dot(e, Scaled(y, q)) = Scaled(y, Dot(e, q))
      /\ Dot(Scaled(z, r), e) = Scaled(z, Dot(r, e)) /\ Dot(e, Scaled(z, r)) = Scaled(z, Dot(e, r))
  BY <1>1, <1>2, DotOfScaled
<1> DEFINE s == Scaled(x, p)
           t == Scaled(y, q)
           u == Scaled(z, r)
           w == Sum(s, t)
<1>9. s \in Square(d) /\ t \in Square(d) /\ u \in Square(d) /\ w \in Square(d)
  BY <1>6
<1>10. /\ Dot(Sum(w, u), e) = Sum(Dot(w, e), Dot(u, e)) /\ Dot(e, Sum(w, u)) = Sum(Dot(e, w), Dot(e, u))
       /\ Dot(w, e) = Sum(Dot(s, e), Dot(t, e)) /\ Dot(e, w) = Sum(Dot(e, s), Dot(e, t))
  <2> HIDE DEF s, t, u
  <2>1. Dot(w, e) = Sum(Dot(s, e), Dot(t, e)) /\ Dot(e, w) = Sum(Dot(e, s), Dot(e, t))
    BY <1>2, <1>9, DotOfSums
  <2> HIDE DEF w
  <2>2. Dot(Sum(w, u), e) = Sum(Dot(w, e), Dot(u, e)) /\ Dot(e, Sum(w, u)) = Sum(Dot(e, w), Dot(e, u))
    BY <1>2, <1>9, DotOfSums
  <2> QED
    BY <2>1, <2>2
<1>11. Trio(a, k, j) = Sum(w, u)
  BY <1>4
<1>12. Sum(w, u) \in Reduced(d)
  BY <1>7
<1>13. Sum(Dot(w, e), Dot(u, e)) = Trio(a, k, j + i)
  BY <1>5, <1>8, <1>10
<1>14. Sum(Dot(e, w), Dot(e, u)) = Trio(a, k, j + i)
  BY <1>5, <1>8, <1>10
<1> HIDE DEF w, u
<1> QED
  BY <1>10, <1>11, <1>12, <1>13, <1>14 DEF e

\* The Horner scheme computes the polynomial.
LEMMA PartsArePolynomials ==
  ASSUME NEW d \in Nat, NEW a \in Reduced(d)
  PROVE  PadeParts(a) = [u |-> Polynomial(a, [k \in 1..7 |-> 2 * k - 1]),
                         v |-> Polynomial(a, [k \in 1..7 |-> 2 * k - 2])]
<1> DEFINE P(n) == Power(a, n)
           T(n) == Term(a, n)
           a2 == Dot(a, a)
           a4 == Dot(a2, a2)
           a6 == Dot(a2, a4)
           w2 == Sum(Sum(Dot(Combination(a6, a4, a2, 13), a6), Combination(a6, a4, a2, 7)),
                     Diagonal(Len(a), Coefficient(1)))
           v == Sum(Sum(Dot(Combination(a6, a4, a2, 12), a6), Combination(a6, a4, a2, 6)),
                    Diagonal(Len(a), Coefficient(0)))
<1>1. PadeParts(a) = [u |-> Dot(a, w2), v |-> v]
  BY DEF PadeParts
<1>2. a \in Square(d) /\ Len(a) = d
  BY ReducedSquare, SquareLen
<1>3. P(1) = a /\ P(0) = Eye(d)
  BY PowerSteps
<1>4. a2 = P(2) /\ a4 = P(4) /\ a6 = P(6)
  <2>1. Dot(P(1), P(1)) = P(1 + 1)
    BY PowersAdd
  <2>2. Dot(P(2), P(2)) = P(2 + 2)
    BY PowersAdd
  <2>3. Dot(P(2), P(4)) = P(2 + 4)
    BY PowersAdd
  <2>4. 1 + 1 = 2 /\ 2 + 2 = 4 /\ 2 + 4 = 6
    OBVIOUS
  <2> HIDE DEF P
  <2> QED
    BY <1>3, <2>1, <2>2, <2>3, <2>4
<1>5. ASSUME NEW k \in 4..13 PROVE Combination(a6, a4, a2, k) = Trio(a, k, 0)
  <2>1. 6 + 0 = 6 /\ 4 + 0 = 4 /\ 2 + 0 = 2
    OBVIOUS
  <2> HIDE DEF a2, a4, a6
  <2> QED
    BY <1>4, <2>1 DEF Combination, Trio
<1>6. Diagonal(d, Coefficient(1)) = Scaled(Coefficient(1), P(0)) /\ Diagonal(d, Coefficient(0)) = T(0)
  <2>1. 0 \in 0..13 /\ 1 \in 0..13
    OBVIOUS
  <2>2. Coefficient(0) \in Residues /\ Coefficient(1) \in Residues
    BY <2>1, TermTyped
  <2> QED
    BY <1>3, <2>2, EyeFacts DEF Term
<1> HIDE DEF P
<1>7. /\ Dot(Trio(a, 13, 0), P(6)) = Trio(a, 13, 6) /\ Dot(Trio(a, 12, 0), P(6)) = Trio(a, 12, 6)
      /\ Trio(a, 13, 6) \in Square(d) /\ Trio(a, 12, 6) \in Square(d)
      /\ Trio(a, 7, 0) \in Square(d) /\ Trio(a, 6, 0) \in Square(d)
      /\ Dot(P(1), Trio(a, 13, 6)) = Trio(a, 13, 7) /\ Dot(P(1), Trio(a, 7, 0)) = Trio(a, 7, 1)
  <2>1. /\ 13 \in 4..13 /\ 12 \in 4..13 /\ 7 \in 4..13 /\ 6 \in 4..13 /\ 0 + 6 = 6 /\ 6 + 1 = 7 /\ 0 + 1 = 1
        /\ 0 \in Nat /\ 1 \in Nat /\ 6 \in Nat
    OBVIOUS
  <2>2. ASSUME NEW k \in 4..13, NEW i \in Nat, NEW j \in Nat
        PROVE  /\ Trio(a, k, j) \in Square(d)
               /\ Dot(Trio(a, k, j), P(i)) = Trio(a, k, j + i)
               /\ Dot(P(i), Trio(a, k, j)) = Trio(a, k, j + i)
    <3>1. /\ Trio(a, k, j) \in Reduced(d)
          /\ Dot(Trio(a, k, j), Power(a, i)) = Trio(a, k, j + i)
          /\ Dot(Power(a, i), Trio(a, k, j)) = Trio(a, k, j + i)
      BY TrioShifts
    <3>2. Reduced(d) \subseteq Square(d)
      BY ReducedSquare
    <3> QED
      BY <3>1, <3>2 DEF P
  <2>3. Dot(Trio(a, 13, 0), P(6)) = Trio(a, 13, 0 + 6) /\ Dot(Trio(a, 12, 0), P(6)) = Trio(a, 12, 0 + 6)
    BY <2>1, <2>2
  <2>4. Dot(P(1), Trio(a, 13, 6)) = Trio(a, 13, 6 + 1) /\ Dot(P(1), Trio(a, 7, 0)) = Trio(a, 7, 0 + 1)
    BY <2>1, <2>2
  <2> QED
    BY <2>1, <2>2, <2>3, <2>4
<1>8. /\ Trio(a, 13, 7) = Sum(Sum(T(13), T(11)), T(9)) /\ Trio(a, 7, 1) = Sum(Sum(T(7), T(5)), T(3))
      /\ Trio(a, 12, 6) = Sum(Sum(T(12), T(10)), T(8)) /\ Trio(a, 6, 0) = Sum(Sum(T(6), T(4)), T(2))
  <2>1. /\ 13 - 2 = 11 /\ 13 - 4 = 9 /\ 6 + 7 = 13 /\ 4 + 7 = 11 /\ 2 + 7 = 9
        /\ 7 - 2 = 5 /\ 7 - 4 = 3 /\ 6 + 1 = 7 /\ 4 + 1 = 5 /\ 2 + 1 = 3
        /\ 12 - 2 = 10 /\ 12 - 4 = 8 /\ 6 + 6 = 12 /\ 4 + 6 = 10 /\ 2 + 6 = 8
        /\ 6 - 2 = 4 /\ 6 - 4 = 2 /\ 6 + 0 = 6 /\ 4 + 0 = 4 /\ 2 + 0 = 2
    OBVIOUS
  <2> QED
    BY <2>1 DEF Trio, Term
<1>9. \A n \in 0..13 : T(n) \in Square(d)
  BY TermTyped, ReducedSquare
<1>10. Dot(P(1), Scaled(Coefficient(1), P(0))) = T(1)
  <2>1. 0 \in 0..13 /\ 1 \in 0..13 /\ 1 + 0 = 1 /\ 0 \in Nat /\ 1 \in Nat
    OBVIOUS
  <2>2. Coefficient(1) \in Complex
    BY <2>1, TermTyped, TypedNumbers
  <2>3. P(0) \in Square(d) /\ P(1) \in Square(d) /\ Dot(P(1), P(0)) = P(1 + 0)
    BY <2>1, PowerSteps, PowersAdd, ReducedSquare DEF P
  <2>4. Dot(P(1), Scaled(Coefficient(1), P(0))) = Scaled(Coefficient(1), Dot(P(1), P(0)))
    BY <2>2, <2>3, DotOfScaled
  <2> QED
    BY <2>1, <2>3, <2>4 DEF Term, P
<1> HIDE DEF T
<1>11. v = InARow(T(0), T(2), T(4), T(6), T(8), T(10), T(12))
  <2>1. v = Sum(Sum(Trio(a, 12, 6), Trio(a, 6, 0)), T(0))
    <3>1. 12 \in 4..13 /\ 6 \in 4..13
      OBVIOUS
    <3>2. Combination(a6, a4, a2, 12) = Trio(a, 12, 0) /\ Combination(a6, a4, a2, 6) = Trio(a, 6, 0)
      BY <1>5, <3>1
    <3> HIDE DEF a2, a4, a6
    <3> QED
      BY <1>2, <1>4, <1>6, <1>7, <3>2
  <2>3. Sum(Sum(Sum(Sum(T(12), T(10)), T(8)), Sum(Sum(T(6), T(4)), T(2))), T(0))
          = InARow(T(0), T(2), T(4), T(6), T(8), T(10), T(12))
    <3> DEFINE t == [k \in 1..7 |-> T(2 * k - 2)]
    <3>1. /\ t[1] = T(0) /\ t[2] = T(2) /\ t[3] = T(4) /\ t[4] = T(6) /\ t[5] = T(8) /\ t[6] = T(10) /\ t[7] = T(12)
      OBVIOUS
    <3>2. t \in [1..7 -> Square(d)]
      BY <1>9
    <3> HIDE DEF t
    <3>3. Sum(Sum(Sum(Sum(t[7], t[6]), t[5]), Sum(Sum(t[4], t[3]), t[2])), t[1])
            = InARow(t[1], t[2], t[3], t[4], t[5], t[6], t[7])
      BY <3>2, RowReversed
    <3> QED
      BY <3>1, <3>3
  <2> QED
    BY <1>8, <2>1, <2>3
<1>12. Dot(a, w2) = InARow(T(1), T(3), T(5), T(7), T(9), T(11), T(13))
  <2> DEFINE l == Trio(a, 13, 6)
             m == Trio(a, 7, 0)
             n == Scaled(Coefficient(1), P(0))
  <2>1. w2 = Sum(Sum(l, m), n)
    <3>1. 13 \in 4..13 /\ 7 \in 4..13
      OBVIOUS
    <3>2. Combination(a6, a4, a2, 13) = Trio(a, 13, 0) /\ Combination(a6, a4, a2, 7) = Trio(a, 7, 0)
      BY <1>5, <3>1
    <3> HIDE DEF a2, a4, a6
    <3> QED
      BY <1>2, <1>4, <1>6, <1>7, <3>2
  <2>2. l \in Square(d) /\ m \in Square(d) /\ n \in Square(d) /\ Sum(l, m) \in Square(d)
    <3>1. 1 \in 0..13 /\ 0 \in Nat
      OBVIOUS
    <3>2. Coefficient(1) \in Complex /\ P(0) \in Square(d)
      BY <3>1, TermTyped, TypedNumbers, PowerSteps, ReducedSquare DEF P
    <3> QED
      BY <1>7, <3>2, MatrixTypes
  <2>3. Dot(a, l) = Trio(a, 13, 7) /\ Dot(a, m) = Trio(a, 7, 1) /\ Dot(a, n) = T(1)
    BY <1>3, <1>7, <1>10
  <2> HIDE DEF l, m, n
  <2>4. Dot(a, Sum(Sum(l, m), n)) = Sum(Dot(a, Sum(l, m)), Dot(a, n)) /\ Dot(a, Sum(l, m)) = Sum(Dot(a, l), Dot(a, m))
    BY <1>2, <2>2, DotOfSums
  <2>5. Dot(a, w2) = Sum(Sum(Trio(a, 13, 7), Trio(a, 7, 1)), T(1))
    <3> HIDE DEF w2
    <3> QED
      BY <2>1, <2>3, <2>4
  <2>7. Sum(Sum(Sum(Sum(T(13), T(11)), T(9)), Sum(Sum(T(7), T(5)), T(3))), T(1))
          = InARow(T(1), T(3), T(5), T(7), T(9), T(11), T(13))
    <3> DEFINE t == [k \in 1..7 |-> T(2 * k - 1)]
    <3>1. /\ t[1] = T(1) /\ t[2] = T(3) /\ t[3] = T(5) /\ t[4] = T(7) /\ t[5] = T(9) /\ t[6] = T(11) /\ t[7] = T(13)
      OBVIOUS
    <3>2. t \in [1..7 -> Square(d)]
      BY <1>9
    <3> HIDE DEF t
    <3>3. Sum(Sum(Sum(Sum(t[7], t[6]), t[5]), Sum(Sum(t[4], t[3]), t[2])), t[1])
            = InARow(t[1], t[2], t[3], t[4], t[5], t[6], t[7])
      BY <3>2, RowReversed
    <3> QED
      BY <3>1, <3>3
  <2> HIDE DEF w2
  <2> QED
    BY <1>8, <2>5, <2>7
<1> DEFINE odds == [k \in 1..7 |-> 2 * k - 1]
           evens == [k \in 1..7 |-> 2 * k - 2]
<1>13. odds \in Seq(0..13) /\ evens \in Seq(0..13) /\ Len(odds) = 7 /\ Len(evens) = 7
  <2>1. \A k \in 1..7 : 2 * k - 1 \in 0..13 /\ 2 * k - 2 \in 0..13
    OBVIOUS
  <2>2. odds \in [1..7 -> 0..13] /\ evens \in [1..7 -> 0..13]
    BY <2>1
  <2> QED
    BY <2>2
<1>14. /\ odds[1] = 1 /\ odds[2] = 3 /\ odds[3] = 5 /\ odds[4] = 7 /\ odds[5] = 9 /\ odds[6] = 11 /\ odds[7] = 13
       /\ evens[1] = 0 /\ evens[2] = 2 /\ evens[3] = 4 /\ evens[4] = 6 /\ evens[5] = 8 /\ evens[6] = 10
       /\ evens[7] = 12
  OBVIOUS
<1> HIDE DEF odds, evens
<1>15. Polynomial(a, odds) = InARow(T(1), T(3), T(5), T(7), T(9), T(11), T(13))
  <2>1. Polynomial(a, odds) = InARow(T(odds[1]), T(odds[2]), T(odds[3]), T(odds[4]), T(odds[5]), T(odds[6]), T(odds[7]))
    BY <1>13, PolynomialOfSeven DEF T
  <2> QED
    BY <1>14, <2>1
<1>16. Polynomial(a, evens) = InARow(T(0), T(2), T(4), T(6), T(8), T(10), T(12))
  <2>1. Polynomial(a, evens)
          = InARow(T(evens[1]), T(evens[2]), T(evens[3]), T(evens[4]), T(evens[5]), T(evens[6]), T(evens[7]))
    BY <1>13, PolynomialOfSeven DEF T
  <2> QED
    BY <1>14, <2>1
<1> HIDE DEF v, w2
<1> QED
  BY <1>1, <1>11, <1>12, <1>15, <1>16 DEF odds, evens

-----------------------------------------------------------------------------
(* The approximant of an anti-Hermitian matrix                              *)

\* A sign changed twice.
LEMMA MinusTwice ==
  /\ MinusOne \in RealNumbers /\ MinusOne \in Complex /\ Times(MinusOne, MinusOne) = One
  /\ \A x \in Complex, y \in Residues : Minus(x, Times(MinusOne, y)) = Plus(x, y)
<1>1. -1 \in Int /\ (-1) * (-1) - 0 * 0 = 1 /\ (-1) * 0 + 0 * (-1) = 0
  OBVIOUS
<1>2. MinusOne \in RealNumbers /\ MinusOne \in Complex
  BY <1>1, RealNumbersClosed DEF MinusOne
<1>3. Times(MinusOne, MinusOne) = One
  BY <1>1, RealOfSmall DEF Times, MinusOne, One
<1>4. ASSUME NEW x \in Complex, NEW y \in Residues
      PROVE  Minus(x, Times(MinusOne, y)) = Plus(x, y)
  <2>1. y \in Complex /\ Times(MinusOne, y) \in Complex
    BY <1>2, TypedNumbers
  <2>2. Minus(x, Times(MinusOne, y)) = Plus(x, Times(MinusOne, Times(MinusOne, y)))
    BY <2>1, TimesAlgebra DEF MinusOne
  <2>3. Times(MinusOne, Times(MinusOne, y)) = Times(Times(MinusOne, MinusOne), y)
    BY <1>2, <2>1, TimesAlgebra
  <2>4. Times(One, y) = y
    BY <2>1, TimesAlgebra
  <2> QED
    BY <1>3, <2>2, <2>3, <2>4
<1> QED
  BY <1>2, <1>3, <1>4

\* Factors of factors, and a difference with what has changed its sign.
LEMMA ScaledAlgebra ==
  ASSUME NEW d \in Nat, NEW a \in Square(d), NEW b \in Reduced(d), NEW x \in Complex, NEW y \in Complex
  PROVE  /\ Scaled(x, Scaled(y, a)) = Scaled(Times(x, y), a)
         /\ Difference(a, Scaled(MinusOne, b)) = Sum(a, b)
         /\ Difference(a, b) = Sum(a, Scaled(MinusOne, b))
<1>1. /\ MinusOne \in Complex /\ b \in Square(d) /\ Scaled(y, a) \in Square(d) /\ Times(x, y) \in Complex
      /\ Scaled(MinusOne, b) \in Square(d)
  BY MinusTwice, MatrixTypes, TypedNumbers
<1>2. /\ Scaled(x, Scaled(y, a)) \in Square(d) /\ Scaled(Times(x, y), a) \in Square(d)
      /\ Difference(a, Scaled(MinusOne, b)) \in Square(d) /\ Sum(a, b) \in Square(d)
  BY <1>1, MatrixTypes
<1>3. ASSUME NEW r \in 1..d, NEW c \in 1..d
      PROVE  /\ Scaled(x, Scaled(y, a))[r][c] = Scaled(Times(x, y), a)[r][c]
             /\ Difference(a, Scaled(MinusOne, b))[r][c] = Sum(a, b)[r][c]
  <2>1. a[r][c] \in Complex /\ b[r][c] \in Residues
    BY SquareLen DEF Reduced
  <2>2. /\ Scaled(x, Scaled(y, a))[r][c] = Times(x, Scaled(y, a)[r][c]) /\ Scaled(y, a)[r][c] = Times(y, a[r][c])
        /\ Scaled(Times(x, y), a)[r][c] = Times(Times(x, y), a[r][c])
    BY <1>1, ScaledEntries
  <2>3. Difference(a, Scaled(MinusOne, b))[r][c] = Minus(a[r][c], Scaled(MinusOne, b)[r][c])
    BY <1>1, DifferenceEntries
  <2>4. Scaled(MinusOne, b)[r][c] = Times(MinusOne, b[r][c]) /\ Sum(a, b)[r][c] = Plus(a[r][c], b[r][c])
    BY <1>1, ScaledEntries, SumEntries
  <2>5. Times(x, Times(y, a[r][c])) = Times(Times(x, y), a[r][c])
    BY <2>1, TimesAlgebra
  <2>6. Minus(a[r][c], Times(MinusOne, b[r][c])) = Plus(a[r][c], b[r][c])
    BY <2>1, MinusTwice
  <2> QED
    BY <2>2, <2>3, <2>4, <2>5, <2>6
<1>4. Scaled(x, Scaled(y, a)) = Scaled(Times(x, y), a)
  BY <1>2, <1>3, MatrixEqual
<1>5. Difference(a, Scaled(MinusOne, b)) = Sum(a, b)
  BY <1>2, <1>3, MatrixEqual
<1> QED
  BY <1>1, <1>4, <1>5, DifferenceIsSum

\* What contains its terms and is closed under sums contains a polynomial.
LEMMA PolynomialInside ==
  ASSUME NEW d \in Nat, NEW a \in Reduced(d), NEW S, \A x, y \in S : Sum(x, y) \in S,
         NEW s \in Seq(0..13), Len(s) = 7, \A k \in 1..7 : Term(a, s[k]) \in S
  PROVE  Polynomial(a, s) \in S
<1> DEFINE t(k) == Term(a, s[k])
<1>1. t(1) \in S /\ t(2) \in S /\ t(3) \in S /\ t(4) \in S /\ t(5) \in S /\ t(6) \in S /\ t(7) \in S
  OBVIOUS
<1>2. Polynomial(a, s) = InARow(t(1), t(2), t(3), t(4), t(5), t(6), t(7))
  BY PolynomialOfSeven
<1> HIDE DEF t
<1>3. Sum(Sum(Sum(t(1), t(2)), t(3)), t(4)) \in S
  BY <1>1
<1> DEFINE m == Sum(Sum(Sum(t(1), t(2)), t(3)), t(4))
<1>4. InARow(t(1), t(2), t(3), t(4), t(5), t(6), t(7)) = Sum(Sum(Sum(m, t(5)), t(6)), t(7))
  BY DEF InARow
<1>5. m \in S
  BY <1>3
<1> HIDE DEF m
<1>6. Sum(Sum(Sum(m, t(5)), t(6)), t(7)) \in S
  BY <1>1, <1>5
<1> QED
  BY <1>2, <1>4, <1>6

\* The powers of an anti-Hermitian matrix.
LEMMA PowerAdjoint ==
  ASSUME NEW d \in Nat, NEW a \in Reduced(d), Dagger(a) = Scaled(MinusOne, a), NEW n \in Nat
  PROVE  /\ Dagger(Power(a, 2 * n)) = Power(a, 2 * n)
         /\ Dagger(Power(a, 2 * n + 1)) = Scaled(MinusOne, Power(a, 2 * n + 1))
<1> DEFINE T == {k \in 0..n : Dagger(Power(a, 2 * k)) = Power(a, 2 * k)}
<1>1. ASSUME NEW k \in Nat, Dagger(Power(a, 2 * k)) = Power(a, 2 * k)
      PROVE  /\ Dagger(Power(a, 2 * k + 1)) = Scaled(MinusOne, Power(a, 2 * k + 1))
             /\ Dagger(Power(a, 2 * (k + 1))) = Power(a, 2 * (k + 1))
  <2> DEFINE p == Power(a, 2 * k)
             q == Power(a, 2 * k + 1)
             r == Power(a, 2 * (k + 1))
  <2>1. 2 * k \in Nat /\ 2 * k + 1 \in Nat /\ 1 \in Nat /\ (2 * k + 1) + 1 = 2 * (k + 1) /\ 2 * (k + 1) \in Nat
        /\ 1 + 2 * k = 2 * k + 1 /\ 1 + (2 * k + 1) = 2 * (k + 1)
    OBVIOUS
  <2>2. p \in Reduced(d) /\ q \in Reduced(d) /\ r \in Reduced(d) /\ q = Dot(p, a) /\ r = Dot(q, a)
    BY <2>1, PowerSteps
  <2>3. q = Dot(a, p)
    <3>1. Dot(Power(a, 1), Power(a, 2 * k)) = Power(a, 1 + 2 * k)
      BY <2>1, PowersAdd
    <3> QED
      BY <2>1, <3>1, PowerSteps
  <2>4. r = Dot(a, q)
    <3>1. Dot(Power(a, 1), Power(a, 2 * k + 1)) = Power(a, 1 + (2 * k + 1))
      BY <2>1, PowersAdd
    <3> QED
      BY <2>1, <3>1, PowerSteps
  <2>5. Dagger(p) = p
    BY <1>1
  <2> HIDE DEF p, q, r
  <2>6. /\ a \in Square(d) /\ p \in Square(d) /\ q \in Square(d) /\ r \in Square(d)
        /\ MinusOne \in Complex /\ Scaled(MinusOne, q) \in Square(d)
    BY <2>2, MinusTwice, MatrixTypes
  <2>7. Dagger(q) = Dot(Scaled(MinusOne, a), p)
    BY <2>2, <2>5, <2>6, DaggerOfDot
  <2>8. Dagger(q) = Scaled(MinusOne, q)
    BY <2>3, <2>6, <2>7, DotOfScaled
  <2>9. Dagger(r) = Dot(Scaled(MinusOne, a), Scaled(MinusOne, q))
    BY <2>2, <2>6, <2>8, DaggerOfDot
  <2>10. Dot(Scaled(MinusOne, a), Scaled(MinusOne, q)) = Scaled(MinusOne, Dot(a, Scaled(MinusOne, q)))
    BY <2>6, DotOfScaled
  <2>11. Dot(a, Scaled(MinusOne, q)) = Scaled(MinusOne, r)
    BY <2>4, <2>6, DotOfScaled
  <2>12. Scaled(MinusOne, Scaled(MinusOne, r)) = Scaled(One, r)
    BY <2>2, <2>6, MinusTwice, ScaledAlgebra
  <2>13. Scaled(One, r) = r
    BY <2>2, <2>6, SumAlgebra
  <2>14. Dagger(r) = r
    BY <2>9, <2>10, <2>11, <2>12, <2>13
  <2> QED
    BY <2>8, <2>14 DEF q, r
<1>2. 0 \in T
  <2>1. 0 \in 0..n /\ 2 * 0 = 0 /\ Power(a, 0) = Eye(d)
    BY PowerSteps
  <2> QED
    BY <2>1, EyeFacts
<1>3. ASSUME NEW k \in 0..(n - 1), k \in T PROVE k + 1 \in T
  <2>1. k \in Nat /\ k + 1 \in 0..n /\ Dagger(Power(a, 2 * k)) = Power(a, 2 * k)
    BY <1>3
  <2> QED
    BY <1>1, <2>1
<1> HIDE DEF T
<1>4. 0..n \subseteq T
  BY <1>2, <1>3, UpTo
<1>5. n \in T
  BY <1>4
<1>6. Dagger(Power(a, 2 * n)) = Power(a, 2 * n)
  BY <1>5 DEF T
<1> QED
  BY <1>1, <1>6

\* Hermitian and anti-Hermitian matrices, and those that commute with one, are closed under sums.
Adjoint(d, x) == {m \in Reduced(d) : Dagger(m) = Scaled(x, m)}
Commuting(d, x) == {m \in Reduced(d) : Dot(m, x) = Dot(x, m)}

LEMMA ScaledOfSum ==
  ASSUME NEW d \in Nat, NEW a \in Square(d), NEW b \in Square(d), NEW x \in Complex
  PROVE  Scaled(x, Sum(a, b)) = Sum(Scaled(x, a), Scaled(x, b))
<1>1. Sum(a, b) \in Square(d) /\ Scaled(x, a) \in Square(d) /\ Scaled(x, b) \in Square(d)
  BY MatrixTypes
<1>2. Scaled(x, Sum(a, b)) \in Square(d) /\ Sum(Scaled(x, a), Scaled(x, b)) \in Square(d)
  BY <1>1, MatrixTypes
<1>3. ASSUME NEW r \in 1..d, NEW c \in 1..d
      PROVE  Scaled(x, Sum(a, b))[r][c] = Sum(Scaled(x, a), Scaled(x, b))[r][c]
  <2>1. a[r][c] \in Complex /\ b[r][c] \in Complex
    BY SquareLen
  <2>2. Scaled(x, Sum(a, b))[r][c] = Times(x, Sum(a, b)[r][c]) /\ Sum(a, b)[r][c] = Plus(a[r][c], b[r][c])
    BY <1>1, ScaledEntries, SumEntries
  <2>3. Sum(Scaled(x, a), Scaled(x, b))[r][c] = Plus(Scaled(x, a)[r][c], Scaled(x, b)[r][c])
    BY <1>1, SumEntries
  <2>4. Scaled(x, a)[r][c] = Times(x, a[r][c]) /\ Scaled(x, b)[r][c] = Times(x, b[r][c])
    BY ScaledEntries
  <2> QED
    BY <2>1, <2>2, <2>3, <2>4, TimesAlgebra
<1> QED
  BY <1>2, <1>3, MatrixEqual

LEMMA AdjointClosed ==
  ASSUME NEW d \in Nat, NEW x \in Complex, NEW y \in Square(d)
  PROVE  /\ \A a, b \in Adjoint(d, x) : Sum(a, b) \in Adjoint(d, x)
         /\ \A a, b \in Commuting(d, y) : Sum(a, b) \in Commuting(d, y)
<1>1. ASSUME NEW a \in Adjoint(d, x), NEW b \in Adjoint(d, x) PROVE Sum(a, b) \in Adjoint(d, x)
  <2>1. a \in Square(d) /\ b \in Square(d) /\ Dagger(a) = Scaled(x, a) /\ Dagger(b) = Scaled(x, b)
    BY MatrixTypes DEF Adjoint
  <2>2. Dagger(Sum(a, b)) = Sum(Dagger(a), Dagger(b))
    BY <2>1, DaggerLinear
  <2>3. Scaled(x, Sum(a, b)) = Sum(Scaled(x, a), Scaled(x, b))
    BY <2>1, ScaledOfSum
  <2>4. Sum(a, b) \in Reduced(d)
    BY <2>1, MatrixTypes
  <2> QED
    BY <2>1, <2>2, <2>3, <2>4 DEF Adjoint
<1>2. ASSUME NEW a \in Commuting(d, y), NEW b \in Commuting(d, y) PROVE Sum(a, b) \in Commuting(d, y)
  <2>1. a \in Square(d) /\ b \in Square(d) /\ Dot(a, y) = Dot(y, a) /\ Dot(b, y) = Dot(y, b)
    BY MatrixTypes DEF Commuting
  <2>2. Dot(y, Sum(a, b)) = Sum(Dot(y, a), Dot(y, b)) /\ Dot(Sum(a, b), y) = Sum(Dot(a, y), Dot(b, y))
    BY <2>1, DotOfSums
  <2>3. Sum(a, b) \in Reduced(d)
    BY <2>1, MatrixTypes
  <2> QED
    BY <2>1, <2>2, <2>3 DEF Commuting
<1> QED
  BY <1>1, <1>2

\* What a term does with the conjugate transpose and with another term.
LEMMA TermAdjoint ==
  ASSUME NEW d \in Nat, NEW a \in Reduced(d), Dagger(a) = Scaled(MinusOne, a), NEW n \in 0..6
  PROVE  /\ Dagger(Term(a, 2 * n)) = Scaled(One, Term(a, 2 * n))
         /\ Dagger(Term(a, 2 * n + 1)) = Scaled(MinusOne, Term(a, 2 * n + 1))
<1> DEFINE p == Power(a, 2 * n)
           q == Power(a, 2 * n + 1)
           x == Coefficient(2 * n)
           y == Coefficient(2 * n + 1)
<1>1. 2 * n \in 0..13 /\ 2 * n + 1 \in 0..13 /\ 2 * n \in Nat /\ 2 * n + 1 \in Nat /\ n \in Nat
  OBVIOUS
<1>2. x \in RealNumbers /\ y \in RealNumbers /\ p \in Reduced(d) /\ q \in Reduced(d)
  BY <1>1, TermTyped, PowerSteps
<1>3. Dagger(p) = p /\ Dagger(q) = Scaled(MinusOne, q)
  BY <1>1, PowerAdjoint
<1>4. Term(a, 2 * n) = Scaled(x, p) /\ Term(a, 2 * n + 1) = Scaled(y, q)
  BY DEF Term
<1> HIDE DEF p, q, x, y
<1>5. /\ x \in Complex /\ y \in Complex /\ Conj(x) = x /\ Conj(y) = y /\ p \in Square(d) /\ q \in Square(d)
      /\ MinusOne \in Complex
  BY <1>2, RealNumbersClosed, MatrixTypes, MinusTwice
<1>6. Scaled(x, p) \in Reduced(d) /\ Scaled(x, p) \in Square(d)
  BY <1>5, MatrixTypes
<1>7. Dagger(Scaled(x, p)) = Scaled(One, Scaled(x, p))
  <2>1. Dagger(Scaled(x, p)) = Scaled(x, p)
    BY <1>3, <1>5, DaggerLinear
  <2>2. Scaled(One, Scaled(x, p)) = Scaled(x, p)
    BY <1>6, SumAlgebra
  <2> QED
    BY <2>1, <2>2
<1>8. Dagger(Scaled(y, q)) = Scaled(MinusOne, Scaled(y, q))
  <2>1. Dagger(Scaled(y, q)) = Scaled(y, Scaled(MinusOne, q))
    BY <1>3, <1>5, DaggerLinear
  <2>2. Scaled(y, Scaled(MinusOne, q)) = Scaled(Times(y, MinusOne), q)
    BY <1>2, <1>5, ScaledAlgebra
  <2>3. Scaled(MinusOne, Scaled(y, q)) = Scaled(Times(MinusOne, y), q)
    BY <1>2, <1>5, ScaledAlgebra
  <2>4. Times(y, MinusOne) = Times(MinusOne, y)
    BY <1>5, TimesAlgebra
  <2> QED
    BY <2>1, <2>2, <2>3, <2>4
<1> QED
  BY <1>4, <1>7, <1>8

\* Two terms commute.
LEMMA TermsCommute ==
  ASSUME NEW d \in Nat, NEW a \in Reduced(d), NEW i \in 0..13, NEW j \in 0..13
  PROVE  Dot(Term(a, i), Term(a, j)) = Dot(Term(a, j), Term(a, i))
<1> DEFINE p == Power(a, i)
           q == Power(a, j)
           x == Coefficient(i)
           y == Coefficient(j)
<1>1. i \in Nat /\ j \in Nat /\ i + j = j + i
  OBVIOUS
<1>2. Dot(p, q) = Dot(q, p)
  <2>1. Dot(Power(a, i), Power(a, j)) = Power(a, i + j)
    BY <1>1, PowersAdd
  <2>2. Dot(Power(a, j), Power(a, i)) = Power(a, j + i)
    BY <1>1, PowersAdd
  <2> QED
    BY <1>1, <2>1, <2>2
<1>3. x \in RealNumbers /\ y \in RealNumbers /\ p \in Reduced(d) /\ q \in Reduced(d)
  BY <1>1, TermTyped, PowerSteps
<1>4. Term(a, i) = Scaled(x, p) /\ Term(a, j) = Scaled(y, q)
  BY DEF Term
<1> HIDE DEF p, q, x, y
<1>5. x \in Complex /\ y \in Complex /\ p \in Square(d) /\ q \in Square(d)
  BY <1>3, RealNumbersClosed, MatrixTypes
<1>6. Scaled(x, p) \in Square(d) /\ Scaled(y, q) \in Square(d) /\ Dot(p, q) \in Square(d)
  BY <1>5, MatrixTypes
<1>7. Dot(Scaled(x, p), Scaled(y, q)) = Scaled(Times(x, y), Dot(p, q))
  <2>1. Dot(Scaled(x, p), Scaled(y, q)) = Scaled(x, Dot(p, Scaled(y, q)))
    BY <1>5, <1>6, DotOfScaled
  <2>2. Dot(p, Scaled(y, q)) = Scaled(y, Dot(p, q))
    BY <1>5, DotOfScaled
  <2>3. Scaled(x, Scaled(y, Dot(p, q))) = Scaled(Times(x, y), Dot(p, q))
    BY <1>3, <1>5, <1>6, ScaledAlgebra
  <2> QED
    BY <2>1, <2>2, <2>3
<1>8. Dot(Scaled(y, q), Scaled(x, p)) = Scaled(Times(y, x), Dot(q, p))
  <2>1. Dot(Scaled(y, q), Scaled(x, p)) = Scaled(y, Dot(q, Scaled(x, p)))
    BY <1>5, <1>6, DotOfScaled
  <2>2. Dot(q, Scaled(x, p)) = Scaled(x, Dot(q, p))
    BY <1>5, DotOfScaled
  <2>3. Scaled(y, Scaled(x, Dot(q, p))) = Scaled(Times(y, x), Dot(q, p))
    BY <1>2, <1>3, <1>5, <1>6, ScaledAlgebra
  <2> QED
    BY <2>1, <2>2, <2>3
<1>9. Times(x, y) = Times(y, x)
  BY <1>5, TimesAlgebra
<1> QED
  BY <1>2, <1>4, <1>7, <1>8, <1>9

\* The odd part changes its sign under the conjugate transpose, the even one stays, and they commute.
LEMMA PartsAdjoint ==
  ASSUME NEW d \in Nat, NEW a \in Reduced(d), Dagger(a) = Scaled(MinusOne, a)
  PROVE  /\ PadeParts(a).u \in Adjoint(d, MinusOne) /\ PadeParts(a).v \in Adjoint(d, One)
         /\ Dot(PadeParts(a).u, PadeParts(a).v) = Dot(PadeParts(a).v, PadeParts(a).u)
<1> DEFINE odds == [k \in 1..7 |-> 2 * k - 1]
           evens == [k \in 1..7 |-> 2 * k - 2]
           u == Polynomial(a, odds)
           v == Polynomial(a, evens)
<1>1. PadeParts(a).u = u /\ PadeParts(a).v = v
  BY PartsArePolynomials
<1>2. odds \in Seq(0..13) /\ evens \in Seq(0..13) /\ Len(odds) = 7 /\ Len(evens) = 7
  <2>1. \A k \in 1..7 : 2 * k - 1 \in 0..13 /\ 2 * k - 2 \in 0..13
    OBVIOUS
  <2>2. odds \in [1..7 -> 0..13] /\ evens \in [1..7 -> 0..13]
    BY <2>1
  <2> QED
    BY <2>2
<1>3. \A k \in 1..7 : /\ k - 1 \in 0..6 /\ odds[k] = 2 * (k - 1) + 1 /\ evens[k] = 2 * (k - 1)
                      /\ odds[k] \in 0..13 /\ evens[k] \in 0..13
  OBVIOUS
<1> HIDE DEF odds, evens
<1>4. MinusOne \in Complex /\ One \in Complex /\ \A k \in 0..13 : Term(a, k) \in Reduced(d) /\ Term(a, k) \in Square(d)
  BY MinusTwice, TypedNumbers, TermTyped, ReducedSquare
<1>5. u \in Adjoint(d, MinusOne)
  <2>1. ASSUME NEW k \in 1..7 PROVE Term(a, odds[k]) \in Adjoint(d, MinusOne)
    <3>1. Dagger(Term(a, 2 * (k - 1) + 1)) = Scaled(MinusOne, Term(a, 2 * (k - 1) + 1))
      BY <1>3, TermAdjoint
    <3> QED
      BY <1>3, <1>4, <3>1 DEF Adjoint
  <2>2. \A x, y \in Adjoint(d, MinusOne) : Sum(x, y) \in Adjoint(d, MinusOne)
    BY <1>4, AdjointClosed, MatrixTypes
  <2> QED
    BY <1>2, <2>1, <2>2, PolynomialInside
<1>6. v \in Adjoint(d, One)
  <2>1. ASSUME NEW k \in 1..7 PROVE Term(a, evens[k]) \in Adjoint(d, One)
    <3>1. Dagger(Term(a, 2 * (k - 1))) = Scaled(One, Term(a, 2 * (k - 1)))
      BY <1>3, TermAdjoint
    <3> QED
      BY <1>3, <1>4, <3>1 DEF Adjoint
  <2>2. \A x, y \in Adjoint(d, One) : Sum(x, y) \in Adjoint(d, One)
    BY <1>4, AdjointClosed, MatrixTypes
  <2> QED
    BY <1>2, <2>1, <2>2, PolynomialInside
<1>7. ASSUME NEW j \in 0..13 PROVE Term(a, j) \in Commuting(d, u)
  <2>1. \A i \in 0..13 : Term(a, i) \in Commuting(d, Term(a, j))
    BY <1>4, TermsCommute DEF Commuting
  <2>2. \A k \in 1..7 : Term(a, odds[k]) \in Commuting(d, Term(a, j))
    BY <1>3, <2>1
  <2>3. \A x, y \in Commuting(d, Term(a, j)) : Sum(x, y) \in Commuting(d, Term(a, j))
    BY <1>4, AdjointClosed
  <2>4. u \in Commuting(d, Term(a, j))
    BY <1>2, <2>2, <2>3, PolynomialInside
  <2> QED
    BY <1>4, <2>4 DEF Commuting
<1>8. v \in Commuting(d, u)
  <2>1. u \in Square(d)
    BY <1>5, MatrixTypes DEF Adjoint
  <2>2. \A k \in 1..7 : Term(a, evens[k]) \in Commuting(d, u)
    BY <1>3, <1>7
  <2>3. \A x, y \in Commuting(d, u) : Sum(x, y) \in Commuting(d, u)
    BY <1>4, <2>1, AdjointClosed
  <2> QED
    BY <1>2, <2>2, <2>3, PolynomialInside
<1> QED
  BY <1>1, <1>5, <1>6, <1>8 DEF Commuting

-----------------------------------------------------------------------------
(* Propagators are unitary                                                  *)

\* A matrix and its conjugate transpose are singular together.
LEMMA ConjugateDeterminant ==
  ASSUME NEW a \in Reduced(2)
  PROVE  Determinant(a) = Zero <=> Determinant(Dagger(a)) = Zero
<1> DEFINE x == Times(a[1][1], a[2][2])
           y == Times(a[1][2], a[2][1])
<1>1. 1 \in 1..2 /\ 2 \in 1..2
  OBVIOUS
<1>2. \A r, c \in 1..2 : a[r][c] \in Residues /\ a[r][c] \in Complex /\ Conj(a[r][c]) \in Complex
  BY TypedNumbers DEF Reduced
<1>3. \A r, c \in 1..2 : Dagger(a)[r][c] = Conj(a[c][r])
  <2> DEFINE d == 2
  <2>1. d \in Nat /\ a \in Reduced(d)
    OBVIOUS
  <2> HIDE DEF d
  <2>2. \A r, c \in 1..d : Dagger(a)[r][c] = Conj(a[c][r])
    BY <2>1, DaggerParts, MatrixTypes
  <2> QED
    BY <2>2 DEF d
<1>4. Determinant(Dagger(a)) = Minus(Times(Conj(a[1][1]), Conj(a[2][2])), Times(Conj(a[2][1]), Conj(a[1][2])))
  BY <1>1, <1>3 DEF Determinant
<1>5. /\ Times(Conj(a[1][1]), Conj(a[2][2])) = Conj(x)
      /\ Times(Conj(a[2][1]), Conj(a[1][2])) = Conj(y)
  <2>1. Times(Conj(a[2][1]), Conj(a[1][2])) = Times(Conj(a[1][2]), Conj(a[2][1]))
    BY <1>1, <1>2, TimesAlgebra
  <2> QED
    BY <1>1, <1>2, <2>1, ConjAlgebra
<1>6. x \in Residues /\ y \in Residues
  BY <1>1, <1>2, ResiduesLeft
<1>7. Determinant(a) = Minus(x, y)
  BY DEF Determinant
<1> HIDE DEF x, y
<1>8. x \in Complex /\ y \in Complex /\ Conj(Conj(x)) = x /\ Conj(Conj(y)) = y
  BY <1>6, TypedNumbers, ConjAlgebra
<1>9. Conj(x) \in Residues /\ Conj(y) \in Residues
  <2>1. \A z \in Residues : Conj(z) \in Residues
    BY TypedNumbers, ResiduesLeft
  <2> QED
    BY <1>6, <2>1
<1>10. Minus(x, y) = Zero <=> x = y
  BY <1>6, MinusFacts
<1>11. Minus(Conj(x), Conj(y)) = Zero <=> Conj(x) = Conj(y)
  BY <1>9, MinusFacts
<1> QED
  BY <1>4, <1>5, <1>7, <1>8, <1>10, <1>11

Unitary(m) == Dot(Dagger(m), m) = Eye(2)

\* The quotient of a matrix's conjugate transpose by the matrix is unitary, if they commute.
LEMMA QuotientUnitary ==
  ASSUME NEW n \in Reduced(2), NEW m \in Reduced(2), Dagger(n) = m, Dot(m, n) = Dot(n, m)
  PROVE  SolveLinear(m, n) \in Reduced(2) /\ Unitary(SolveLinear(m, n))
<1> DEFINE d == 2
           i == Eye(d)
<1>1. d \in Nat /\ n \in Reduced(d) /\ m \in Reduced(d)
  OBVIOUS
<1>2. i \in Reduced(2) /\ i = Eye(2) /\ Reduced(2) = Reduced(d)
  BY <1>1, EyeFacts
<1>3. /\ \A a, b \in Reduced(d) : Dot(a, b) \in Reduced(d) /\ Dagger(Dot(a, b)) = Dot(Dagger(b), Dagger(a))
      /\ \A a \in Reduced(d) : Dagger(a) \in Reduced(d) /\ Dagger(Dagger(a)) = a /\ Dot(i, a) = a /\ Dot(a, i) = a
      /\ \A a, b, c \in Reduced(d) : Dot(Dot(a, b), c) = Dot(a, Dot(b, c))
      /\ Dagger(i) = i
  <2>1. d \in Nat
    BY <1>1
  <2> HIDE DEF d
  <2>2. Reduced(d) \subseteq Square(d)
    BY <2>1, ReducedSquare
  <2>3. ASSUME NEW a \in Reduced(d), NEW b \in Reduced(d)
        PROVE  Dot(a, b) \in Reduced(d) /\ Dagger(Dot(a, b)) = Dot(Dagger(b), Dagger(a))
    <3>1. a \in Square(d) /\ b \in Square(d)
      BY <2>2
    <3> QED
      BY <2>1, <3>1, DaggerOfDot, MatrixTypes
  <2>4. ASSUME NEW a \in Reduced(d)
        PROVE  Dagger(a) \in Reduced(d) /\ Dagger(Dagger(a)) = a /\ Dot(i, a) = a /\ Dot(a, i) = a
    <3>1. a \in Square(d) /\ One \in Complex
      BY <2>2, TypedNumbers
    <3> QED
      BY <2>1, <3>1, DaggerLinear, MatrixTypes, EyeFacts
  <2>5. ASSUME NEW a \in Reduced(d), NEW b \in Reduced(d), NEW c \in Reduced(d)
        PROVE  Dot(Dot(a, b), c) = Dot(a, Dot(b, c))
    <3>1. a \in Square(d) /\ b \in Square(d) /\ c \in Square(d)
      BY <2>2
    <3> QED
      BY <2>1, <3>1, DotAssociates
  <2>6. Dagger(i) = i
    BY <2>1, EyeFacts
  <2> QED
    BY <2>3, <2>4, <2>5, <2>6
<1>4. ASSUME Determinant(m) = Zero
      PROVE  SolveLinear(m, n) \in Reduced(2) /\ Unitary(SolveLinear(m, n))
  <2>1. SolveLinear(m, n) = i
    BY <1>4, SystemSolved
  <2>2. Dot(Dagger(i), i) = i
    BY <1>2, <1>3
  <2> QED
    BY <1>2, <2>1, <2>2 DEF Unitary
<1>5. ASSUME Determinant(m) # Zero
      PROVE  SolveLinear(m, n) \in Reduced(2) /\ Unitary(SolveLinear(m, n))
  <2> DEFINE x == SolveLinear(m, n)
             e == SolveLinear(m, i)
             g == SolveLinear(n, i)
  <2>1. Determinant(n) # Zero
    BY <1>5, ConjugateDeterminant
  <2>2. x \in Reduced(2) /\ Dot(m, x) = n
    BY <1>5, SystemSolved
  <2>3. e \in Reduced(2) /\ Dot(m, e) = i
    BY <1>2, <1>5, SystemSolved
  <2>4. g \in Reduced(2) /\ Dot(n, g) = i
    BY <1>2, <2>1, SystemSolved
  <2>5. x \in Reduced(d) /\ e \in Reduced(d) /\ g \in Reduced(d) /\ i \in Reduced(d) /\ n \in Reduced(d) /\ m \in Reduced(d)
    BY <1>1, <1>2, <2>2, <2>3, <2>4
  <2> DEFINE f == Dagger(e)
  <2> HIDE DEF d, i, x, e, g
  <2>6. Dagger(g) = e /\ Dot(e, m) = i
    <3>1. Dot(Dagger(g), m) = i
      BY <1>3, <2>4, <2>5
    <3>2. Dagger(g) \in Reduced(d)
      BY <1>3, <2>5
    <3>3. Dot(Dot(Dagger(g), m), e) = Dot(Dagger(g), Dot(m, e))
      BY <1>3, <2>5, <3>2
    <3> QED
      BY <1>3, <2>3, <2>5, <3>1, <3>2, <3>3
  <2>7. x = Dot(e, n)
    <3>1. Dot(Dot(e, m), x) = Dot(e, Dot(m, x))
      BY <1>3, <2>5
    <3> QED
      BY <1>3, <2>2, <2>5, <2>6, <3>1
  <2>8. f \in Reduced(d) /\ Dot(f, n) = i /\ Dot(n, f) = i
    <3>1. Dagger(m) = n
      BY <1>3, <2>5
    <3>2. Dagger(Dot(m, e)) = Dot(f, n) /\ Dagger(Dot(e, m)) = Dot(n, f)
      BY <1>3, <2>5, <3>1
    <3> QED
      BY <1>3, <2>3, <2>5, <2>6, <3>2
  <2> HIDE DEF f
  <2>9. Dagger(x) = Dot(m, f)
    BY <1>3, <2>5, <2>7 DEF f
  <2>10. Dot(m, f) = Dot(f, m)
    <3>1. Dot(m, f) \in Reduced(d) /\ Dot(f, m) \in Reduced(d) /\ Dot(m, n) \in Reduced(d)
      BY <1>3, <2>5, <2>8
    <3>2. Dot(m, f) = Dot(Dot(f, n), Dot(m, f))
      BY <1>3, <2>8, <3>1
    <3>3. Dot(Dot(f, n), Dot(m, f)) = Dot(f, Dot(n, Dot(m, f)))
      BY <1>3, <2>5, <2>8, <3>1
    <3>4. Dot(n, Dot(m, f)) = Dot(Dot(n, m), f)
      BY <1>3, <2>5, <2>8
    <3>5. Dot(Dot(m, n), f) = Dot(m, Dot(n, f))
      BY <1>3, <2>5, <2>8
    <3>6. Dot(m, Dot(n, f)) = m
      BY <1>3, <2>5, <2>8
    <3> QED
      BY <3>2, <3>3, <3>4, <3>5, <3>6
  <2>11. Dot(Dagger(x), x) = i
    <3>1. Dot(Dagger(x), x) = Dot(Dot(f, m), x)
      BY <2>9, <2>10
    <3>2. Dot(Dot(f, m), x) = Dot(f, Dot(m, x))
      BY <1>3, <2>5, <2>8
    <3> QED
      BY <2>2, <2>8, <3>1, <3>2
  <2> QED
    BY <1>2, <2>2, <2>11 DEF Unitary, x
<1> QED
  BY <1>4, <1>5

Unitaries == {x \in Reduced(2) : Unitary(x)}

\* Squares of unitary matrices.
LEMMA UnitarySquared ==
  ASSUME NEW m \in Unitaries
  PROVE  Dot(m, m) \in Unitaries
<1> DEFINE d == 2
           n == Dagger(m)
           p == Dot(m, m)
<1>1. d \in Nat /\ m \in Reduced(d) /\ Dot(n, m) = Eye(d)
  BY DEF Unitaries, Unitary
<1> HIDE DEF d
<1>2. n \in Square(d) /\ m \in Square(d) /\ p \in Reduced(d) /\ p \in Square(d) /\ Dot(n, n) \in Square(d)
  BY <1>1, MatrixTypes
<1>3. Dagger(p) = Dot(n, n)
  BY <1>1, <1>2, DaggerOfDot
<1>4. Dot(n, p) = m
  <2>1. Dot(Dot(n, m), m) = Dot(n, Dot(m, m))
    BY <1>1, <1>2, DotAssociates
  <2> QED
    BY <1>1, <2>1, EyeFacts
<1> HIDE DEF n, p
<1>5. Dot(Dot(n, n), p) = Dot(n, Dot(n, p))
  BY <1>1, <1>2, DotAssociates
<1> QED
  BY <1>1, <1>2, <1>3, <1>4, <1>5 DEF Unitaries, Unitary, d, p

\* The factor and the squarings of matrix_exp.
LEMMA SquaredKeeps ==
  ASSUME NEW n \in Nat, NEW m \in Unitaries
  PROVE  SquareRepeatedly(m, n) \in Unitaries /\ (n = 0 => SquareRepeatedly(m, n) = m)
<1> DEFINE seq == [k \in 1..n |-> k]
           Is(g) == g = [t \in SUBSET (1..n) |-> IF t = {} THEN m ELSE Dot(g[t \ {Max(t)}], g[t \ {Max(t)}])]
           f == CHOOSE g : Is(g)
<1>1. DOMAIN seq = 1..n /\ Len(seq) = n
  OBVIOUS
<1>2. SquareRepeatedly(m, n) = f[1..n]
  BY <1>1 DEF SquareRepeatedly, FoldLeft, MapThenFoldSet
<1> HIDE DEF seq
<1> DEFINE G == [p \in (1..n) \X Unitaries |-> Dot(p[2], p[2])]
<1>3. m \in Unitaries /\ \A x \in Unitaries : Dot(x, x) \in Unitaries
  BY UnitarySquared
<1>4. G \in [(1..n) \X Unitaries -> Unitaries]
  BY <1>3
<1>5. PICK h \in [SUBSET (1..n) -> Unitaries] : IsFold(h, n, m, G)
  <2> HIDE DEF G
  <2> QED
    BY <1>3, <1>4, FoldExists
<1>6. ASSUME NEW t \in SUBSET (1..n), t # {} PROVE h[t] = Dot(h[t \ {Max(t)}], h[t \ {Max(t)}])
  <2>1. Max(t) \in 1..n /\ t \ {Max(t)} \in SUBSET (1..n)
    BY <1>6, MaxFacts
  <2>2. h[t] = G[<<Max(t), h[t \ {Max(t)}]>>] /\ h[t \ {Max(t)}] \in Unitaries
    BY <1>5, <1>6, <2>1 DEF IsFold
  <2> QED
    BY <2>1, <2>2
<1>7. Is(h)
  <2>1. h[{}] = m /\ {} \in SUBSET (1..n)
    BY <1>5 DEF IsFold
  <2>2. \A t \in SUBSET (1..n) : h[t] = IF t = {} THEN m ELSE Dot(h[t \ {Max(t)}], h[t \ {Max(t)}])
    BY <1>6, <2>1
  <2> HIDE DEF G
  <2> QED
    BY <1>5, <2>2
<1> HIDE DEF G
<1>8. Is(f)
  BY <1>7
<1> HIDE DEF f
<1>9. f[{}] = m /\ \A t \in SUBSET (1..n) : t # {} => f[t] = Dot(f[t \ {Max(t)}], f[t \ {Max(t)}])
  BY <1>8
<1>10. \A t \in SUBSET (1..n) : t # {} /\ f[t \ {Max(t)}] \in Unitaries => f[t] \in Unitaries
  BY <1>3, <1>9
<1>11. \A t \in SUBSET (1..n) : f[t] \in Unitaries
  BY <1>3, <1>9, <1>10, FoldTyped
<1>12. n = 0 => 1..n = {}
  OBVIOUS
<1> QED
  BY <1>2, <1>9, <1>11, <1>12

ScaleOf(n) == FoldLeft(LAMBDA x, k : Times(x, Half), One, [k \in 1..n |-> k])

LEMMA ScaleIsReal ==
  ASSUME NEW n \in Nat
  PROVE  ScaleOf(n) \in RealNumbers /\ (n = 0 => ScaleOf(n) = One)
<1> DEFINE seq == [k \in 1..n |-> k]
           Is(g) == g = [t \in SUBSET (1..n) |-> IF t = {} THEN One ELSE Times(g[t \ {Max(t)}], Half)]
           f == CHOOSE g : Is(g)
<1>1. DOMAIN seq = 1..n /\ Len(seq) = n
  OBVIOUS
<1>2. ScaleOf(n) = f[1..n]
  BY <1>1 DEF ScaleOf, FoldLeft, MapThenFoldSet
<1> HIDE DEF seq
<1> DEFINE G == [p \in (1..n) \X RealNumbers |-> Times(p[2], Half)]
<1>3. One \in RealNumbers /\ \A x \in RealNumbers : Times(x, Half) \in RealNumbers
  <2>1. 1 \in Int
    OBVIOUS
  <2>2. One \in RealNumbers
    BY <2>1, RealNumbersClosed DEF One
  <2> QED
    BY <2>2, Fractions, RealNumbersClosed
<1>4. G \in [(1..n) \X RealNumbers -> RealNumbers]
  BY <1>3
<1>5. PICK h \in [SUBSET (1..n) -> RealNumbers] : IsFold(h, n, One, G)
  <2> HIDE DEF G
  <2> QED
    BY <1>3, <1>4, FoldExists
<1>6. ASSUME NEW t \in SUBSET (1..n), t # {} PROVE h[t] = Times(h[t \ {Max(t)}], Half)
  <2>1. Max(t) \in 1..n /\ t \ {Max(t)} \in SUBSET (1..n)
    BY <1>6, MaxFacts
  <2>2. h[t] = G[<<Max(t), h[t \ {Max(t)}]>>] /\ h[t \ {Max(t)}] \in RealNumbers
    BY <1>5, <1>6, <2>1 DEF IsFold
  <2> QED
    BY <2>1, <2>2
<1>7. Is(h)
  <2>1. h[{}] = One /\ {} \in SUBSET (1..n)
    BY <1>5 DEF IsFold
  <2>2. \A t \in SUBSET (1..n) : h[t] = IF t = {} THEN One ELSE Times(h[t \ {Max(t)}], Half)
    BY <1>6, <2>1
  <2> HIDE DEF G
  <2> QED
    BY <1>5, <2>2
<1> HIDE DEF G
<1>8. Is(f)
  BY <1>7
<1> HIDE DEF f
<1>9. f[{}] = One /\ \A t \in SUBSET (1..n) : t # {} => f[t] = Times(f[t \ {Max(t)}], Half)
  BY <1>8
<1>10. \A t \in SUBSET (1..n) : t # {} /\ f[t \ {Max(t)}] \in RealNumbers => f[t] \in RealNumbers
  BY <1>3, <1>9
<1>11. \A t \in SUBSET (1..n) : f[t] \in RealNumbers
  BY <1>3, <1>9, <1>10, FoldTyped
<1>12. n = 0 => 1..n = {}
  OBVIOUS
<1> QED
  BY <1>2, <1>9, <1>11, <1>12

\* Whatever the squarings, the exponential of an anti-Hermitian matrix is unitary.
LEMMA ExponentialUnitary ==
  ASSUME NEW a \in Reduced(2), Dagger(a) = Scaled(MinusOne, a), NEW n \in Nat
  PROVE  MatrixExp(a, n) \in Unitaries /\ (n = 0 => MatrixExp(a, n) = Pade13(a))
<1> DEFINE x == ScaleOf(n)
           b == Scaled(x, a)
<1>1. Len(a) = 2 /\ a # <<>>
  BY DEF Reduced
<1>2. MatrixExp(a, n) = SquareRepeatedly(Pade13(b), n)
  BY <1>1 DEF MatrixExp, ScaleOf
<1>3. x \in RealNumbers /\ (n = 0 => x = One) /\ x \in Complex /\ Conj(x) = x
  BY ScaleIsReal, RealNumbersClosed
<1> HIDE DEF x
<1>4. ASSUME NEW d \in Nat, d = 2
      PROVE  b \in Reduced(d) /\ Dagger(b) = Scaled(MinusOne, b) /\ (n = 0 => b = a)
  <2>1. a \in Reduced(d) /\ a \in Square(d) /\ MinusOne \in Complex
    BY <1>4, MatrixTypes, MinusTwice
  <2>2. b \in Reduced(d)
    BY <1>3, <2>1, MatrixTypes
  <2>3. Dagger(b) = Scaled(x, Scaled(MinusOne, a))
    BY <1>3, <2>1, DaggerLinear
  <2>4. Scaled(x, Scaled(MinusOne, a)) = Scaled(Times(x, MinusOne), a)
    BY <1>3, <2>1, ScaledAlgebra
  <2>5. Scaled(MinusOne, Scaled(x, a)) = Scaled(Times(MinusOne, x), a)
    BY <1>3, <2>1, ScaledAlgebra
  <2>6. Times(x, MinusOne) = Times(MinusOne, x)
    BY <1>3, <2>1, TimesAlgebra
  <2>7. Scaled(One, a) = a
    BY <2>1, SumAlgebra
  <2> QED
    BY <1>3, <2>2, <2>3, <2>4, <2>5, <2>6, <2>7
<1>5. b \in Reduced(2) /\ Dagger(b) = Scaled(MinusOne, b) /\ (n = 0 => b = a)
  BY <1>4
<1> HIDE DEF b
<1> DEFINE u == PadeParts(b).u
           v == PadeParts(b).v
           m == Difference(v, u)
           w == Sum(v, u)
<1>6. Pade13(b) = SolveLinear(m, w)
  BY DEF Pade13
<1>7. ASSUME NEW d \in Nat, d = 2
      PROVE  m \in Reduced(d) /\ w \in Reduced(d) /\ Dagger(w) = m /\ Dot(m, w) = Dot(w, m)
  <2>1. b \in Reduced(d)
    BY <1>5, <1>7
  <2>2. u \in Adjoint(d, MinusOne) /\ v \in Adjoint(d, One) /\ Dot(u, v) = Dot(v, u)
    BY <1>5, <2>1, PartsAdjoint
  <2> HIDE DEF u, v
  <2>3. u \in Reduced(d) /\ v \in Reduced(d) /\ Dagger(u) = Scaled(MinusOne, u) /\ Dagger(v) = Scaled(One, v)
    BY <2>2 DEF Adjoint
  <2>4. u \in Square(d) /\ v \in Square(d) /\ MinusOne \in Complex
    BY <2>3, MatrixTypes, MinusTwice
  <2>5. Scaled(One, v) = v
    BY <2>3, <2>4, SumAlgebra
  <2>6. m = Sum(v, Scaled(MinusOne, u))
    BY <2>3, <2>4, ScaledAlgebra
  <2>7. m \in Reduced(d) /\ w \in Reduced(d) /\ m \in Square(d) /\ w \in Square(d) /\ Scaled(MinusOne, u) \in Square(d)
    BY <2>4, MatrixTypes
  <2>8. Dagger(w) = m
    BY <2>3, <2>4, <2>5, <2>6, DaggerLinear
  <2>9. u \in Commuting(d, w) /\ v \in Commuting(d, w)
    <3>1. Dot(u, w) = Sum(Dot(u, v), Dot(u, u)) /\ Dot(w, u) = Sum(Dot(v, u), Dot(u, u))
      BY <2>4, DotOfSums
    <3>2. Dot(v, w) = Sum(Dot(v, v), Dot(v, u)) /\ Dot(w, v) = Sum(Dot(v, v), Dot(u, v))
      BY <2>4, DotOfSums
    <3> QED
      BY <2>2, <2>3, <3>1, <3>2 DEF Commuting
  <2> HIDE DEF w, m
  <2>10. Scaled(MinusOne, u) \in Commuting(d, w)
    <3>1. Dot(Scaled(MinusOne, u), w) = Scaled(MinusOne, Dot(u, w)) /\ Dot(w, Scaled(MinusOne, u)) = Scaled(MinusOne, Dot(w, u))
      BY <2>4, <2>7, DotOfScaled
    <3>2. Scaled(MinusOne, u) \in Reduced(d)
      BY <2>4, MatrixTypes
    <3> QED
      BY <2>9, <3>1, <3>2 DEF Commuting
  <2>11. m \in Commuting(d, w)
    <3>1. Zero \in Complex
      BY TypedNumbers
    <3> QED
      BY <2>6, <2>7, <2>9, <2>10, <3>1, AdjointClosed
  <2> QED
    BY <2>7, <2>8, <2>11 DEF Commuting
<1>8. m \in Reduced(2) /\ w \in Reduced(2) /\ Dagger(w) = m /\ Dot(m, w) = Dot(w, m)
  BY <1>7
<1> HIDE DEF m, w
<1>9. Pade13(b) \in Unitaries
  BY <1>6, <1>8, QuotientUnitary DEF Unitaries
<1> QED
  BY <1>2, <1>5, <1>9, SquaredKeeps

\* What one step of the propagators leaves.
LEMMA ExponentiateUnitary ==
  ASSUME NEW h \in Hamiltonians, NEW s \in Squarings, Exponentiate(h, s)
  PROVE  PropagatorUnitary'
<1> DEFINE a == Scaled(MinusI, h)
           odds == [k \in 1..7 |-> 2 * k - 1]
           evens == [k \in 1..7 |-> 2 * k - 2]
           odd == Polynomial(a, odds)
           even == Polynomial(a, evens)
<1>1. h \in Reduced(2) /\ Dagger(h) = h /\ s \in Nat /\ Len(h) = 2
  BY SolversAssumption DEF Hermitian, Reduced
<1>2. expm' = [h |-> h, s |-> s, u |-> MatrixExp(a, s)]
  BY DEF Exponentiate
<1>3. ASSUME NEW d \in Nat, d = 2
      PROVE  a \in Reduced(d) /\ Dagger(a) = Scaled(MinusOne, a)
  <2>1. h \in Reduced(d) /\ h \in Square(d)
    BY <1>1, <1>3, MatrixTypes
  <2>2. -1 \in Int /\ 1 \in Int /\ 0 \in Int /\ -(-1) = 1 /\ (-1) * 0 - 0 * (-1) = 0 /\ (-1) * (-1) + 0 * 0 = 1
    <3>1. \A x \in Int : -(-x) = x
      OBVIOUS
    <3>2. -1 \in Int /\ 1 \in Int /\ 0 \in Int /\ (-1) * 0 - 0 * (-1) = 0 /\ (-1) * (-1) + 0 * 0 = 1
      OBVIOUS
    <3> QED
      BY <3>1, <3>2, Zenon
  <2>3. MinusI \in Complex /\ MinusOne \in Complex
    BY <2>2, MinusTwice DEF MinusI, Complex
  <2>4. Conj(MinusI) = <<0, 1>>
    <3>1. Conj(MinusI) = <<0, Real(-(-1))>>
      BY DEF Conj, MinusI
    <3> QED
      BY <2>2, <3>1, RealOfSmall
  <2>5. Times(MinusOne, MinusI) = <<0, 1>>
    <3>1. Times(MinusOne, MinusI) = <<Real((-1) * 0 - 0 * (-1)), Real((-1) * (-1) + 0 * 0)>>
      BY DEF Times, MinusOne, MinusI
    <3> QED
      BY <2>2, <3>1, RealOfSmall
  <2>6. Dagger(a) = Scaled(Conj(MinusI), h)
    BY <1>1, <2>1, <2>3, DaggerLinear
  <2>7. Scaled(MinusOne, a) = Scaled(Times(MinusOne, MinusI), h)
    BY <2>1, <2>3, ScaledAlgebra
  <2>8. a \in Reduced(d)
    BY <2>1, <2>3, MatrixTypes
  <2> QED
    BY <2>4, <2>5, <2>6, <2>7, <2>8
<1>4. a \in Reduced(2) /\ Dagger(a) = Scaled(MinusOne, a)
  BY <1>3
<1>5. PadeParts(a) = [u |-> odd, v |-> even]
  <2>1. ASSUME NEW d \in Nat, d = 2 PROVE PadeParts(a) = [u |-> odd, v |-> even]
    <3>1. a \in Reduced(d)
      BY <1>3, <2>1
    <3> HIDE DEF a
    <3> QED
      BY <3>1, PartsArePolynomials
  <2> QED
    BY <2>1
<1>6. odd \in Reduced(2) /\ even \in Reduced(2)
  <2>1. ASSUME NEW d \in Nat, d = 2 PROVE PadeParts(a).u \in Reduced(d) /\ PadeParts(a).v \in Reduced(d)
    <3>1. a \in Reduced(d)
      BY <1>3, <2>1
    <3> HIDE DEF a
    <3> QED
      BY <1>4, <3>1, PartsAdjoint DEF Adjoint
  <2> HIDE DEF a, odd, even
  <2> QED
    BY <1>5, <2>1
<1> HIDE DEF odd, even
<1>7. Difference(even, odd) \in Reduced(2) /\ Sum(even, odd) \in Reduced(2)
  <2>1. ASSUME NEW d \in Nat, d = 2 PROVE Difference(even, odd) \in Reduced(d) /\ Sum(even, odd) \in Reduced(d)
    <3>1. even \in Square(d) /\ odd \in Square(d)
      BY <1>6, <2>1, MatrixTypes
    <3> QED
      BY <3>1, MatrixTypes
  <2> QED
    BY <2>1
<1>8. MatrixExp(a, s) \in Unitaries /\ (s = 0 => MatrixExp(a, s) = Pade13(a))
  BY <1>1, <1>4, ExponentialUnitary
<1>9. Pade13(a) = SolveLinear(Difference(even, odd), Sum(even, odd))
  BY <1>5 DEF Pade13
<1>10. IF Determinant(Difference(even, odd)) = Zero THEN Pade13(a) = Eye(2)
       ELSE Dot(Difference(even, odd), Pade13(a)) = Sum(even, odd)
  BY <1>7, <1>9, SystemSolved
<1>11. Dot(Dagger(MatrixExp(a, s)), MatrixExp(a, s)) = Eye(Len(h))
  BY <1>1, <1>8 DEF Unitaries, Unitary
<1>12. expm'.h = h /\ expm'.s = s /\ expm'.u = MatrixExp(a, s)
  BY <1>2
<1>13. PropagatorUnitary' = (expm'.h # <<>> =>
         /\ Dot(Dagger(expm'.u), expm'.u) = Eye(Len(expm'.h))
         /\ PadeParts(a) = [u |-> odd, v |-> even]
         /\ expm'.s = 0 => IF Determinant(Difference(even, odd)) = Zero THEN expm'.u = Eye(2)
                           ELSE Dot(Difference(even, odd), expm'.u) = Sum(even, odd))
  BY <1>12 DEF PropagatorUnitary, odd, even
<1> HIDE DEF a
<1> QED
  BY <1>5, <1>8, <1>10, <1>11, <1>12, <1>13

\* A propagator of a qubit's step is unitary, for every Hamiltonian, table of coefficients and
\* number of squarings (matrix_exp, pade13, solve_linear).
THEOREM PropagatorsUnitary == Spec => []PropagatorUnitary
<1>1. Init => PropagatorUnitary
  BY DEF Init, NoExponential, PropagatorUnitary
<1>2. PropagatorUnitary /\ [Next]_solverVars => PropagatorUnitary'
  <2> SUFFICES ASSUME PropagatorUnitary, [Next]_solverVars PROVE PropagatorUnitary'
    OBVIOUS
  <2>1. expm' = expm => PropagatorUnitary'
    BY DEF PropagatorUnitary
  <2>2. CASE ExpmStep
    BY <2>2, ExponentiateUnitary DEF ExpmStep
  <2>3. CASE GrapeStep \/ OpenStep \/ LindbladStep \/ FeedbackStep \/ SmeStep \/ MeasuredStepOf \/ UNCHANGED solverVars
    BY <2>1, <2>3 DEF GrapeStep, OpenStep, LindbladStep, FeedbackStep, SmeStep, MeasuredStepOf, solverVars
  <2> QED
    BY <2>2, <2>3 DEF Next
<1> QED
  BY <1>1, <1>2, PTL DEF Spec

-----------------------------------------------------------------------------
(* Feedback: residues that do not wrap, and the limit of a correction      *)

\* A number smaller than half of the modulus is its own residue.
LEMMA RealExact ==
  ASSUME NEW x \in Int, 2 * x < Modulus, -Modulus < 2 * x
  PROVE  Real(x) = x
<1> DEFINE m == Modulus
<1>1. m \in Nat /\ m > 3
  BY ModulusFacts
<1>2. x % m = IF x >= 0 THEN x ELSE x + m
  BY <1>1
<1> HIDE DEF m
<1>3. Real(x) = LET r == x % m IN IF 2 * r > m THEN r - m ELSE r
  BY DEF Real, m
<1>4. 2 * x < m /\ -m < 2 * x
  BY DEF m
<1> QED
  BY <1>1, <1>2, <1>3, <1>4

LEMMA ResidueBounds ==
  ASSUME NEW z \in Residues
  PROVE  /\ z[1] \in Int /\ 2 * z[1] < Modulus /\ -Modulus < 2 * z[1]
         /\ z[2] \in Int /\ 2 * z[2] < Modulus /\ -Modulus < 2 * z[2]
<1>1. ASSUME NEW x \in Int, Real(x) = x PROVE 2 * x < Modulus /\ -Modulus < 2 * x
  <2> DEFINE m == Modulus
             r == x % m
  <2>1. m \in Nat /\ m > 3 /\ m % 4 = 3
    BY ModulusFacts
  <2>2. r \in 0..(m - 1)
    BY <2>1
  <2>3. x = IF 2 * r > m THEN r - m ELSE r
    BY <1>1 DEF Real
  <2> HIDE DEF m, r
  <2>4. ASSUME NEW k \in Int PROVE 2 * k # m
    BY <2>1
  <2> QED
    BY <2>1, <2>2, <2>3, <2>4 DEF m
<1>2. z[1] \in Int /\ z[2] \in Int /\ Real(z[1]) = z[1] /\ Real(z[2]) = z[2]
  BY DEF Residues, Complex
<1> QED
  BY <1>1, <1>2

\* What a limit makes of a correction.
LEMMA ClampFacts ==
  ASSUME NEW g \in Nat, NEW p \in Int, NEW cap \in Int, NEW c,
         c = IF cap > 0 THEN Clamped(-(g * p), cap) ELSE -(g * p)
  PROVE  /\ c \in Int /\ -(c * p) \in Nat /\ -(c * p) <= g * p * p
         /\ c * p = 0 => g * p = 0
         /\ cap > 0 => c \in -cap..cap
<1> DEFINE v == g * p
<1>1. v \in Int /\ (p > 0 => v >= 0) /\ (p < 0 => v <= 0) /\ (p = 0 => v = 0)
  OBVIOUS
<1>2. c = IF cap > 0 /\ -v < -cap THEN -cap ELSE IF cap > 0 /\ -v > cap THEN cap ELSE -v
  BY DEF Clamped
<1>3. g * p * p = v * p
  OBVIOUS
<1> HIDE DEF v
<1>4. c \in Int /\ (cap > 0 => c \in -cap..cap) /\ (c = 0 => v = 0)
      /\ (v >= 0 => -c \in 0..v) /\ (v <= 0 => c \in 0..(-v))
  BY <1>1, <1>2
<1>5. CASE p > 0
  <2>1. -c \in 0..v /\ v - (-c) \in Nat
    BY <1>1, <1>4, <1>5
  <2>0. \A i, j \in Nat : i * j \in Nat
    OBVIOUS
  <2>2. -(c * p) = (-c) * p /\ (-c) * p \in Nat /\ (v - (-c)) * p \in Nat
    <3>1. p \in Nat /\ -c \in Nat /\ v - (-c) \in Nat
      BY <1>1, <1>4, <1>5, <2>1
    <3>2. -(c * p) = (-c) * p
      BY <1>4
    <3> QED
      BY <2>0, <3>1, <3>2
  <2>3. v * p = (-c) * p + (v - (-c)) * p
    BY <1>1, <1>4
  <2>4. c * p = 0 => c = 0
    BY <1>4, <1>5
  <2> QED
    BY <1>3, <1>4, <2>2, <2>3, <2>4 DEF v
<1>6. CASE p < 0
  <2>1. c \in 0..(-v) /\ -v - c \in Nat /\ -p \in Nat
    BY <1>1, <1>4, <1>6
  <2>2. -(c * p) = c * (-p) /\ c * (-p) \in Nat /\ (-v - c) * (-p) \in Nat
    BY <1>4, <1>6, <2>1
  <2>3. v * p = c * (-p) + (-v - c) * (-p)
    BY <1>1, <1>4
  <2>4. c * p = 0 => c = 0
    BY <1>4, <1>6
  <2> QED
    BY <1>3, <1>4, <2>2, <2>3, <2>4 DEF v
<1>7. CASE p = 0
  <2>1. c * p = 0 /\ v * p = 0 /\ v = 0 /\ -0 = 0
    BY <1>1, <1>4, <1>7, RealOfSmall
  <2> QED
    BY <1>3, <1>4, <2>1 DEF v
<1> QED
  BY <1>5, <1>6, <1>7

\* The trace of a target with a commutator is linear.
Pull(t, r, x) == Trace(Dot(t, Commutator(x, r)))

LEMMA PullLinear ==
  ASSUME NEW d \in Nat, NEW t \in Square(d), NEW r \in Square(d), NEW x \in Square(d), NEW y \in Square(d),
         NEW c \in Complex
  PROVE  /\ Pull(t, r, Sum(x, Scaled(c, y))) = Plus(Pull(t, r, x), Times(c, Pull(t, r, y)))
         /\ Pull(t, r, Scaled(c, y)) = Times(c, Pull(t, r, y))
         /\ Pull(t, r, x) \in Residues
<1> DEFINE A(z) == Trace(Dot(t, Dot(z, r)))
           B(z) == Trace(Dot(t, Dot(r, z)))
<1>1. ASSUME NEW z \in Square(d)
      PROVE  /\ Pull(t, r, z) = Minus(A(z), B(z)) /\ A(z) \in Complex /\ B(z) \in Complex
             /\ Pull(t, r, z) \in Residues
  <2> DEFINE u == Dot(z, r)
             w == Dot(r, z)
  <2>1. u \in Square(d) /\ w \in Square(d) /\ Commutator(z, r) = Difference(u, w) /\ Difference(u, w) \in Square(d)
    BY MatrixTypes DEF Commutator
  <2> HIDE DEF u, w
  <2>2. MinusOne \in Complex /\ Scaled(MinusOne, w) \in Square(d) /\ Dot(t, u) \in Square(d) /\ Dot(t, w) \in Square(d)
        /\ Scaled(MinusOne, Dot(t, w)) \in Square(d) /\ Dot(t, Difference(u, w)) \in Square(d)
    BY <2>1, MinusTwice, MatrixTypes
  <2>3. Difference(u, w) = Sum(u, Scaled(MinusOne, w))
    BY <2>1, DifferenceIsSum
  <2>4. Dot(t, Sum(u, Scaled(MinusOne, w))) = Sum(Dot(t, u), Dot(t, Scaled(MinusOne, w)))
    BY <2>1, <2>2, DotOfSums
  <2>5. Dot(t, Scaled(MinusOne, w)) = Scaled(MinusOne, Dot(t, w))
    BY <2>1, <2>2, DotOfScaled
  <2>6. Trace(Sum(Dot(t, u), Scaled(MinusOne, Dot(t, w)))) = Plus(Trace(Dot(t, u)), Trace(Scaled(MinusOne, Dot(t, w))))
    BY <2>2, TraceLinear
  <2>7. Trace(Scaled(MinusOne, Dot(t, w))) = Times(MinusOne, Trace(Dot(t, w)))
    BY <2>2, TraceLinear
  <2>8. Trace(Dot(t, u)) \in Complex /\ Trace(Dot(t, w)) \in Complex /\ Trace(Dot(t, Difference(u, w))) \in Residues
    BY <2>2, TypedNumbers, MatrixTypes
  <2>9. Minus(Trace(Dot(t, u)), Trace(Dot(t, w))) = Plus(Trace(Dot(t, u)), Times(MinusOne, Trace(Dot(t, w))))
    BY <2>8, TimesAlgebra DEF MinusOne
  <2> QED
    BY <2>1, <2>3, <2>4, <2>5, <2>6, <2>7, <2>8, <2>9 DEF Pull, u, w
<1>2. ASSUME NEW z \in Square(d)
      PROVE  A(Scaled(c, z)) = Times(c, A(z)) /\ B(Scaled(c, z)) = Times(c, B(z))
  <2>1. Dot(Scaled(c, z), r) = Scaled(c, Dot(z, r)) /\ Dot(r, Scaled(c, z)) = Scaled(c, Dot(r, z))
    BY DotOfScaled
  <2>2. Dot(z, r) \in Square(d) /\ Dot(r, z) \in Square(d)
    BY MatrixTypes
  <2>3. Dot(t, Scaled(c, Dot(z, r))) = Scaled(c, Dot(t, Dot(z, r))) /\ Dot(t, Scaled(c, Dot(r, z))) = Scaled(c, Dot(t, Dot(r, z)))
    BY <2>2, DotOfScaled
  <2>4. Dot(t, Dot(z, r)) \in Square(d) /\ Dot(t, Dot(r, z)) \in Square(d)
    BY <2>2, MatrixTypes
  <2>5. Trace(Scaled(c, Dot(t, Dot(z, r)))) = Times(c, A(z)) /\ Trace(Scaled(c, Dot(t, Dot(r, z)))) = Times(c, B(z))
    BY <2>4, TraceLinear
  <2> QED
    BY <2>1, <2>3, <2>5
<1>3. ASSUME NEW z \in Square(d), NEW w \in Square(d)
      PROVE  A(Sum(z, w)) = Plus(A(z), A(w)) /\ B(Sum(z, w)) = Plus(B(z), B(w))
  <2>1. Dot(Sum(z, w), r) = Sum(Dot(z, r), Dot(w, r)) /\ Dot(r, Sum(z, w)) = Sum(Dot(r, z), Dot(r, w))
    BY DotOfSums
  <2>2. /\ Dot(z, r) \in Square(d) /\ Dot(r, z) \in Square(d) /\ Dot(w, r) \in Square(d) /\ Dot(r, w) \in Square(d)
    BY MatrixTypes
  <2>3. /\ Dot(t, Sum(Dot(z, r), Dot(w, r))) = Sum(Dot(t, Dot(z, r)), Dot(t, Dot(w, r)))
        /\ Dot(t, Sum(Dot(r, z), Dot(r, w))) = Sum(Dot(t, Dot(r, z)), Dot(t, Dot(r, w)))
    BY <2>2, DotOfSums
  <2>4. /\ Dot(t, Dot(z, r)) \in Square(d) /\ Dot(t, Dot(r, z)) \in Square(d)
        /\ Dot(t, Dot(w, r)) \in Square(d) /\ Dot(t, Dot(r, w)) \in Square(d)
    BY <2>2, MatrixTypes
  <2>5. 0 \in Int
    OBVIOUS
  <2>6. /\ Trace(Sum(Dot(t, Dot(z, r)), Dot(t, Dot(w, r)))) = Plus(A(z), A(w))
        /\ Trace(Sum(Dot(t, Dot(r, z)), Dot(t, Dot(r, w)))) = Plus(B(z), B(w))
    BY <2>4, TypedNumbers, TraceLinear
  <2> QED
    BY <2>1, <2>3, <2>6
<1>4. Scaled(c, y) \in Square(d) /\ Sum(x, Scaled(c, y)) \in Square(d)
  <2>1. Scaled(c, y) \in Square(d)
    BY MatrixTypes
  <2> QED
    BY <2>1, MatrixTypes
<1> DEFINE a == A(x)
           b == B(x)
           e == A(y)
           f == B(y)
<1>5. a \in Complex /\ b \in Complex /\ e \in Complex /\ f \in Complex /\ MinusOne \in Complex
  BY <1>1, MinusTwice
<1>6. Pull(t, r, Sum(x, Scaled(c, y))) = Minus(Plus(a, Times(c, e)), Plus(b, Times(c, f)))
  <2>1. A(Sum(x, Scaled(c, y))) = Plus(a, Times(c, e)) /\ B(Sum(x, Scaled(c, y))) = Plus(b, Times(c, f))
    BY <1>2, <1>3, <1>4
  <2>2. Pull(t, r, Sum(x, Scaled(c, y))) = Minus(A(Sum(x, Scaled(c, y))), B(Sum(x, Scaled(c, y))))
    BY <1>1, <1>4
  <2> HIDE DEF a, b, e, f, A, B
  <2> QED
    BY <2>1, <2>2
<1>7. Pull(t, r, Scaled(c, y)) = Minus(Times(c, e), Times(c, f))
  BY <1>1, <1>2, <1>4
<1>8. Pull(t, r, x) = Minus(a, b) /\ Pull(t, r, y) = Minus(e, f)
  BY <1>1
<1>9. Pull(t, r, x) \in Residues
  BY <1>1
<1> HIDE DEF a, b, e, f, A, B
<1> DEFINE o(z) == Times(MinusOne, z)
<1>10. \A z \in Complex : o(z) \in Complex
  BY <1>5, TypedNumbers
<1>11. Times(c, e) \in Complex /\ Times(c, f) \in Complex /\ o(b) \in Complex /\ o(f) \in Complex
  BY <1>5, <1>10, TypedNumbers
<1>12. \A z, w \in Complex : Minus(z, w) = Plus(z, o(w))
  BY TimesAlgebra DEF MinusOne
<1>13. o(Times(c, f)) = Times(c, o(f))
  <2>1. Times(MinusOne, Times(c, f)) = Times(Times(MinusOne, c), f)
    BY <1>5, TimesAlgebra
  <2>2. Times(Times(c, MinusOne), f) = Times(c, Times(MinusOne, f))
    BY <1>5, TimesAlgebra
  <2>3. Times(MinusOne, c) = Times(c, MinusOne)
    BY <1>5, TimesAlgebra
  <2> QED
    BY <2>1, <2>2, <2>3
<1>14. o(Plus(b, Times(c, f))) = Plus(o(b), o(Times(c, f)))
  BY <1>5, <1>11, TimesAlgebra
<1>15. Times(c, Minus(e, f)) = Plus(Times(c, e), Times(c, o(f)))
  <2>1. Times(c, Plus(e, o(f))) = Plus(Times(c, e), Times(c, o(f)))
    BY <1>5, <1>11, TimesAlgebra
  <2> QED
    BY <1>5, <1>12, <2>1
<1>16. Minus(Times(c, e), Times(c, f)) = Times(c, Minus(e, f))
  BY <1>11, <1>12, <1>13, <1>15
<1>17. Minus(Plus(a, Times(c, e)), Plus(b, Times(c, f))) = Plus(Minus(a, b), Times(c, Minus(e, f)))
  <2>1. Plus(a, Times(c, e)) \in Complex /\ Plus(b, Times(c, f)) \in Complex
    BY <1>5, <1>11, TypedNumbers
  <2>2. Minus(Plus(a, Times(c, e)), Plus(b, Times(c, f))) = Plus(Plus(a, Times(c, e)), Plus(o(b), Times(c, o(f))))
    BY <1>12, <1>13, <1>14, <2>1
  <2>3. Times(c, o(f)) \in Complex
    BY <1>11, TypedNumbers
  <2> HIDE DEF o
  <2>4. Plus(Plus(a, Times(c, e)), Plus(o(b), Times(c, o(f)))) = Plus(Plus(a, o(b)), Plus(Times(c, e), Times(c, o(f))))
    BY <1>5, <1>11, <2>3, PlusSwap
  <2> QED
    BY <1>5, <1>12, <1>15, <2>2, <2>4
<1> QED
  BY <1>6, <1>7, <1>8, <1>9, <1>16, <1>17

-----------------------------------------------------------------------------
(* Feedback: the drive of the corrections                                   *)

LEMMA ScaledToZero ==
  ASSUME NEW d \in Nat, NEW a \in Square(d)
  PROVE  Scaled(Zero, a) = Zeros(d)
<1>1. Zero \in Complex
  BY TypedNumbers
<1>2. Scaled(Zero, a) \in Square(d) /\ Zeros(d) \in Square(d)
  BY <1>1, MatrixTypes
<1>3. ASSUME NEW r \in 1..d, NEW c \in 1..d PROVE Scaled(Zero, a)[r][c] = Zeros(d)[r][c]
  <2>1. Scaled(Zero, a)[r][c] = Times(Zero, a[r][c]) /\ Zeros(d)[r][c] = Zero /\ a[r][c] \in Complex
    BY <1>1, ScaledEntries, ZerosEntries, SquareLen
  <2> QED
    BY <1>1, <2>1, TimesAlgebra
<1> QED
  BY <1>2, <1>3, MatrixEqual

\* The axes and their matrices.
AxisNames == {Axes[a] : a \in DOMAIN Axes}

LEMMA AxisFacts ==
  ASSUME NEW axis \in AxisNames
  PROVE  AxisPauli(axis) \in Square(2) /\ Index(axis) \in DOMAIN Axes /\ Axes[Index(axis)] = axis
<1>1. Zero \in Complex /\ One \in Complex /\ MinusI \in Complex /\ <<0, 1>> \in Complex /\ <<-1, 0>> \in Complex
  BY DEF Zero, One, MinusI, Complex
<1>2. \A a, b, c, e \in Complex : <<<<a, b>>, <<c, e>>>> \in Square(2)
  <2> TAKE a, b, c, e \in Complex
  <2>1. <<a, b>> \in [1..2 -> Complex] /\ <<c, e>> \in [1..2 -> Complex]
    OBVIOUS
  <2> DEFINE p == <<a, b>>
             q == <<c, e>>
  <2>2. p \in [1..2 -> Complex] /\ q \in [1..2 -> Complex]
    BY <2>1
  <2> HIDE DEF p, q
  <2>3. <<p, q>> \in [1..2 -> [1..2 -> Complex]]
    BY <2>2
  <2> QED
    BY <2>3 DEF p, q, Square
<1>3. axis \in {"x", "y", "z"}
  BY DEF Axes, AxisNames
<1>4. AxisPauli(axis) \in Square(2)
  <2>1. CASE axis = "x"
    BY <1>1, <1>2, <2>1 DEF AxisPauli
  <2>2. CASE axis = "y"
    BY <1>1, <1>2, <2>2 DEF AxisPauli
  <2>3. CASE axis = "z"
    BY <1>1, <1>2, <2>3 DEF AxisPauli
  <2> QED
    BY <1>3, <2>1, <2>2, <2>3
<1> QED
  BY <1>4 DEF Index, AxisNames

AxisTurn(corr, axes, k) == Scaled(<<corr[k], 0>>, AxisPauli(axes[k]))
DriveAlong(corr, axes, s) == FoldLeft(LAMBDA h, k : Sum(h, AxisTurn(corr, axes, k)), Zeros(2), s)
DriveOf(corr, axes) == DriveAlong(corr, axes, [k \in DOMAIN corr |-> k])

LEMMA DriveRuns ==
  ASSUME NEW n \in Nat, NEW corr \in [1..n -> Int], NEW axes \in Seq(STRING), \A k \in 1..n : AxisPauli(axes[k]) \in Square(2)
  PROVE  \E w \in [0..n -> Square(2)] :
           /\ w[0] = Zeros(2) /\ DriveOf(corr, axes) = w[n]
           /\ \A k \in 1..n : w[k] = Sum(w[k - 1], AxisTurn(corr, axes, k))
<1> DEFINE turn(k) == AxisTurn(corr, axes, k)
<1>1. PICK s : s = [k \in 1..n |-> k]
  OBVIOUS
<1> DEFINE Is(g) == g = [t \in SUBSET (1..n) |->
                           IF t = {} THEN Zeros(2) ELSE Sum(g[t \ {Max(t)}], AxisTurn(corr, axes, s[Max(t)]))]
           f == CHOOSE g : Is(g)
<1>2. DriveOf(corr, axes) = f[1..n]
  <2>1. DOMAIN s = 1..n /\ DOMAIN corr = 1..n
    BY <1>1
  <2>2. DriveAlong(corr, axes, s) = f[1..n]
    BY <2>1 DEF DriveAlong, FoldLeft, MapThenFoldSet
  <2> QED
    BY <1>1, <2>1, <2>2 DEF DriveOf
<1>3. \A k \in 1..n, x \in Square(2) : Sum(x, turn(k)) \in Square(2)
  <2> DEFINE d == 2
  <2>1. d \in Nat
    OBVIOUS
  <2>2. \A k \in 1..n : <<corr[k], 0>> \in Complex /\ AxisPauli(axes[k]) \in Square(d)
    BY DEF Complex
  <2> HIDE DEF d
  <2>3. \A k \in 1..n, x \in Square(d) : Sum(x, turn(k)) \in Square(d)
    <3> TAKE k \in 1..n, x \in Square(d)
    <3>1. turn(k) \in Square(d)
      BY <2>1, <2>2, MatrixTypes DEF AxisTurn
    <3> HIDE DEF turn
    <3> QED
      BY <2>1, <3>1, MatrixTypes
  <2> QED
    BY <2>3 DEF d
<1>4. Zeros(2) \in Square(2)
  <2> DEFINE d == 2
  <2>1. d \in Nat
    OBVIOUS
  <2> HIDE DEF d
  <2>2. Zeros(d) \in Square(d)
    BY <2>1, MatrixTypes
  <2> QED
    BY <2>2 DEF d
<1> HIDE DEF turn
<1> DEFINE G == [p \in (1..n) \X Square(2) |-> Sum(p[2], turn(p[1]))]
<1>5. G \in [(1..n) \X Square(2) -> Square(2)]
  BY <1>3
<1>6. PICK h \in [SUBSET (1..n) -> Square(2)] : IsFold(h, n, Zeros(2), G)
  <2> HIDE DEF G
  <2> QED
    BY <1>4, <1>5, FoldExists
<1>7. ASSUME NEW t \in SUBSET (1..n), t # {} PROVE h[t] = Sum(h[t \ {Max(t)}], turn(Max(t)))
  <2>1. Max(t) \in 1..n /\ t \ {Max(t)} \in SUBSET (1..n)
    BY <1>7, MaxFacts
  <2>2. h[t] = G[<<Max(t), h[t \ {Max(t)}]>>] /\ h[t \ {Max(t)}] \in Square(2)
    BY <1>6, <1>7, <2>1 DEF IsFold
  <2> QED
    BY <2>1, <2>2
<1>8. Is(h)
  <2>1. h[{}] = Zeros(2) /\ {} \in SUBSET (1..n)
    BY <1>6 DEF IsFold
  <2>2. \A t \in SUBSET (1..n) :
          h[t] = IF t = {} THEN Zeros(2) ELSE Sum(h[t \ {Max(t)}], AxisTurn(corr, axes, s[Max(t)]))
    <3>1. \A t \in SUBSET (1..n) : t # {} => s[Max(t)] = Max(t)
      BY <1>1, MaxFacts
    <3> QED
      BY <1>7, <2>1, <3>1 DEF turn
  <2> HIDE DEF G
  <2> QED
    BY <1>6, <2>2
<1> HIDE DEF G
<1>9. Is(f)
  BY <1>8
<1> HIDE DEF f
<1>10. f[{}] = Zeros(2) /\ \A t \in SUBSET (1..n) : t # {} => f[t] = Sum(f[t \ {Max(t)}], turn(Max(t)))
  <2>1. \A t \in SUBSET (1..n) : t # {} => s[Max(t)] = Max(t)
    BY <1>1, MaxFacts
  <2> QED
    BY <1>9, <2>1 DEF turn
<1>11. ASSUME NEW t \in SUBSET (1..n), t # {}, f[t \ {Max(t)}] \in Square(2) PROVE f[t] \in Square(2)
  <2>1. Max(t) \in 1..n
    BY <1>11, MaxFacts
  <2> QED
    BY <1>3, <1>10, <1>11, <2>1
<1>12. \A t \in SUBSET (1..n) : f[t] \in Square(2)
  BY <1>4, <1>10, <1>11, FoldTyped
<1> DEFINE w == [k \in 0..n |-> f[1..k]]
<1>13. w \in [0..n -> Square(2)]
  <2>1. \A k \in 0..n : 1..k \in SUBSET (1..n)
    OBVIOUS
  <2> QED
    BY <1>12, <2>1
<1>14. w[0] = Zeros(2) /\ w[n] = f[1..n]
  <2>1. 1..0 = {} /\ 0 \in 0..n /\ n \in 0..n
    OBVIOUS
  <2> QED
    BY <1>10, <2>1
<1>15. ASSUME NEW k \in 1..n PROVE w[k] = Sum(w[k - 1], turn(k))
  <2>1. k \in Nat \ {0} /\ k \in 0..n /\ k - 1 \in 0..n /\ 1..k \in SUBSET (1..n)
    OBVIOUS
  <2>2. 1..k # {} /\ Max(1..k) = k /\ (1..k) \ {k} = 1..(k - 1)
    BY <2>1, FirstFacts
  <2>3. f[1..k] = Sum(f[1..(k - 1)], turn(k))
    BY <1>10, <2>1, <2>2
  <2> QED
    BY <2>1, <2>3
<1> HIDE DEF w
<1> QED
  BY <1>2, <1>13, <1>14, <1>15 DEF turn

\* FeedbackDescends of one call and its corrections.
Descends(call, corr) ==
  call.full = NoGainMatrix /\ (\A k \in DOMAIN call.gains : call.gains[k] >= 0) =>
    LET state == FlatToComplexMatrix(call.state, 2)
        target == FlatToComplexMatrix(call.target, 2)
        motion == Scaled(MinusI, Commutator(DriveOf(corr, call.axes), state))
        rise == Fidelity2(Sum(state, motion), target) - Fidelity2(state, target)
    IN /\ rise >= 0
       /\ rise = 0 => \A k \in DOMAIN corr :
                        GainVector(call)[k] * Projections(state, target)[Index(call.axes[k])] = 0
       /\ call.cap > 0 => \A k \in DOMAIN corr : corr[k] \in -call.cap..call.cap

\* How a drive moves the fidelity.
LEMMA FidelityMoves ==
  ASSUME NEW s \in Square(2), NEW t \in Square(2), NEW h \in Square(2)
  PROVE  /\ Fidelity2(Sum(s, Scaled(MinusI, Commutator(h, s))), t) = Real(Fidelity2(s, t) + Pull(t, s, h)[2])
         /\ Fidelity2(s, t) \in Int /\ -Modulus < 2 * Fidelity2(s, t) /\ 2 * Fidelity2(s, t) < Modulus
<1> DEFINE d == 2
           u == Commutator(h, s)
           m == Scaled(MinusI, u)
           q == Pull(t, s, h)
<1>1. d \in Nat /\ s \in Square(d) /\ t \in Square(d) /\ h \in Square(d)
  OBVIOUS
<1> HIDE DEF d
<1>2. MinusI \in Complex
  BY DEF MinusI, Complex
<1>3. u \in Square(d)
  BY <1>1, MatrixTypes
<1>4. q = Trace(Dot(t, u)) /\ q \in Residues /\ Dot(t, u) \in Square(d)
  <2>1. q = Trace(Dot(t, u))
    BY DEF Pull
  <2>2. Dot(t, u) \in Square(d)
    BY <1>1, <1>3, MatrixTypes
  <2> QED
    BY <1>1, <2>1, <2>2, MatrixTypes
<1> HIDE DEF u, q
<1>5. m \in Square(d) /\ Dot(t, s) \in Square(d) /\ Dot(t, m) = Scaled(MinusI, Dot(t, u))
  BY <1>1, <1>2, <1>3, MatrixTypes, DotOfScaled
<1>6. Trace(Dot(t, m)) = Times(MinusI, q)
  BY <1>1, <1>2, <1>4, <1>5, TraceLinear
<1> HIDE DEF m
<1>7. Dot(t, m) \in Square(d) /\ Dot(t, Sum(s, m)) = Sum(Dot(t, s), Dot(t, m))
  BY <1>1, <1>5, MatrixTypes, DotOfSums
<1>8. Trace(Sum(Dot(t, s), Dot(t, m))) = Plus(Trace(Dot(t, s)), Times(MinusI, q))
  BY <1>1, <1>2, <1>5, <1>6, <1>7, TraceLinear
<1> DEFINE e == Trace(Dot(t, s))
<1>9. e \in Residues
  BY <1>1, <1>5, MatrixTypes
<1>10. Fidelity2(s, t) = e[1] /\ Fidelity2(Sum(s, m), t) = Plus(e, Times(MinusI, q))[1]
  BY <1>7, <1>8 DEF Fidelity2
<1> HIDE DEF e
<1>11. Times(MinusI, q)[1] = q[2]
  <2>1. q[1] \in Int /\ q[2] \in Int /\ Real(q[2]) = q[2]
    BY <1>4 DEF Residues, Complex
  <2>2. 0 * q[1] - (-1) * q[2] = q[2]
    BY <2>1
  <2>3. Times(MinusI, q)[1] = Real(0 * q[1] - (-1) * q[2])
    BY DEF Times, MinusI
  <2> QED
    BY <2>1, <2>2, <2>3
<1>12. Plus(e, Times(MinusI, q))[1] = Real(e[1] + q[2])
  BY <1>11 DEF Plus
<1> QED
  BY <1>9, <1>10, <1>12, ResidueBounds DEF m, u, q

LEMMA ProjectionFacts ==
  ASSUME NEW s \in Square(2), NEW t \in Square(2), NEW axis \in AxisNames
  PROVE  /\ Pull(t, s, AxisPauli(axis)) \in Residues
         /\ Projections(s, t)[Index(axis)] = -Pull(t, s, AxisPauli(axis))[2]
<1> DEFINE d == 2
           y == AxisPauli(axis)
           z == Pull(t, s, y)
<1>1. y \in Square(2) /\ Index(axis) \in DOMAIN Axes /\ Axes[Index(axis)] = axis
  BY AxisFacts
<1>2. d \in Nat /\ s \in Square(d) /\ t \in Square(d) /\ y \in Square(d) /\ <<0, 1>> \in Complex
  BY <1>1 DEF Complex
<1>3. Projections(s, t)[Index(axis)] = Pull(t, s, Scaled(<<0, 1>>, y))[1]
  BY <1>1 DEF Projections, Pull
<1> HIDE DEF d, y
<1>4. Pull(t, s, Scaled(<<0, 1>>, y)) = Times(<<0, 1>>, z) /\ z \in Residues
  BY <1>2, PullLinear
<1> HIDE DEF z
<1>5. /\ z[1] \in Int /\ z[2] \in Int /\ 2 * z[2] < Modulus /\ -Modulus < 2 * z[2]
  BY <1>4, ResidueBounds
<1>6. 0 * z[1] - 1 * z[2] = -z[2] /\ -z[2] \in Int /\ 2 * (-z[2]) < Modulus /\ -Modulus < 2 * (-z[2])
  BY <1>5, ModulusFacts
<1>7. Real(-z[2]) = -z[2]
  BY <1>6, RealExact
<1>8. Times(<<0, 1>>, z)[1] = Real(0 * z[1] - 1 * z[2])
  BY DEF Times
<1> QED
  BY <1>3, <1>4, <1>6, <1>7, <1>8 DEF z, y

\* Counts that n times over stay below a bound add up to no more than that bound.
LEMMA SumsSmall ==
  ASSUME NEW n \in Nat \ {0}, NEW B \in Nat, NEW x \in [1..n -> Nat], \A k \in 1..n : n * x[k] <= B,
         NEW S \in [0..n -> Int], S[0] = 0, \A k \in 1..n : S[k] = S[k - 1] + x[k]
  PROVE  S[n] \in 0..B /\ \A k \in 1..n : x[k] <= S[n]
<1> DEFINE T == {k \in 0..n : S[k] \in Nat /\ n * S[k] <= k * B /\ \A i \in 1..k : x[i] <= S[k]}
<1>1. 0 \in T
  <2>1. n * 0 = 0 /\ 0 * B = 0 /\ 0 \in 0..n /\ 1..0 = {}
    OBVIOUS
  <2> QED
    BY <2>1
<1>2. ASSUME NEW k \in 0..(n - 1), k \in T PROVE k + 1 \in T
  <2> DEFINE K == k + 1
  <2>1. K \in 1..n /\ K - 1 = k /\ K \in 0..n /\ k \in 0..n
    BY <1>2
  <2>2. K * B = k * B + B
    OBVIOUS
  <2>3. \A i \in 1..K : i \in 1..k \/ i = K
    OBVIOUS
  <2> HIDE DEF K
  <2>4. S[K] = S[k] + x[K] /\ x[K] \in Nat /\ n * x[K] <= B
    BY <2>1
  <2>5. S[k] \in Nat /\ n * S[k] <= k * B /\ \A i \in 1..k : x[i] <= S[k]
    BY <1>2
  <2> HIDE DEF T
  <2>6. S[K] \in Nat /\ n * S[K] = n * S[k] + n * x[K]
    <3>1. \A p, q \in Nat : p + q \in Nat /\ n * (p + q) = n * p + n * q
      OBVIOUS
    <3> QED
      BY <2>4, <2>5, <3>1
  <2>7. n * S[K] <= K * B
    <3> DEFINE a == n * S[k]
               b == n * x[K]
               c == k * B
    <3>1. a \in Int /\ b \in Int /\ c \in Int
      <4>1. \A p, q \in Int : p * q \in Int
        OBVIOUS
      <4>2. k \in Int /\ n \in Int /\ B \in Int /\ S[k] \in Int /\ x[K] \in Int
        BY <2>1, <2>4, <2>5
      <4> QED
        BY <4>1, <4>2
    <3>2. n * S[K] = a + b /\ a <= c /\ b <= B /\ K * B = c + B
      BY <2>2, <2>4, <2>5, <2>6
    <3> HIDE DEF a, b, c
    <3> QED
      BY <3>1, <3>2
  <2>8. \A i \in 1..K : x[i] <= S[K]
    <3>0. 1..k \subseteq 1..n
      BY <2>1
    <3> TAKE i \in 1..K
    <3>1. CASE i \in 1..k
      <4>1. x[i] <= S[k] /\ x[i] \in Nat
        BY <2>5, <3>0, <3>1
      <4>2. \A p, q, r \in Nat : p <= q => p <= q + r
        OBVIOUS
      <4>3. x[i] <= S[k] + x[K]
        BY <2>4, <2>5, <4>1, <4>2
      <4> QED
        BY <2>4, <4>3
    <3>2. CASE i = K
      <4>1. \A p, q \in Nat : p <= q + p
        OBVIOUS
      <4>2. x[K] <= S[k] + x[K]
        BY <2>4, <2>5, <4>1
      <4> QED
        BY <2>4, <3>2, <4>2
    <3> QED
      BY <2>3, <3>1, <3>2
  <2> QED
    BY <2>1, <2>6, <2>7, <2>8 DEF K, T
<1> HIDE DEF T
<1>3. 0..n \subseteq T
  BY <1>1, <1>2, UpTo
<1>4. n \in T
  BY <1>3
<1>5. S[n] \in Nat /\ n * S[n] <= n * B /\ \A i \in 1..n : x[i] <= S[n]
  BY <1>4 DEF T
<1>6. S[n] <= B
  <2> DEFINE z == S[n]
  <2>1. z \in Nat /\ n * z <= n * B
    BY <1>5
  <2> HIDE DEF z
  <2>2. CASE z > B
    <3>1. z - B - 1 \in Nat /\ n * (z - B - 1) \in Nat
      <4>1. z - B - 1 \in Nat
        BY <2>1, <2>2
      <4>2. \A i, j \in Nat : i * j \in Nat
        OBVIOUS
      <4> QED
        BY <4>1, <4>2
    <3>2. n * z = n * B + n + n * (z - B - 1)
      BY <2>1
    <3> QED
      BY <2>1, <3>1, <3>2
  <2> QED
    BY <2>1, <2>2 DEF z
<1> QED
  BY <1>5, <1>6

LEMMA ModulusOdd == \E h \in Nat : Modulus = 2 * h + 1
<1> DEFINE M == Modulus
<1>1. M \in Nat /\ M % 4 = 3
  BY ModulusFacts
<1> HIDE DEF M
<1>2. M = 4 * (M \div 4) + 3 /\ M \div 4 \in Nat
  BY <1>1
<1> DEFINE q == M \div 4
<1>3. q \in Nat /\ M = 4 * q + 3
  BY <1>2
<1> HIDE DEF q
<1>4. 2 * q + 1 \in Nat /\ M = 2 * (2 * q + 1) + 1
  BY <1>3
<1> QED
  BY <1>4 DEF M

\* The same for numbers whose sum with a residue stays below half of the modulus.
LEMMA RiseExact ==
  ASSUME NEW n \in Nat \ {0}, NEW x \in [1..n -> Nat], NEW e \in Int, -Modulus < 2 * e,
         \A k \in 1..n : 2 * (e + n * x[k]) < Modulus,
         NEW S \in [0..n -> Int], S[0] = 0, \A k \in 1..n : S[k] = S[k - 1] + x[k]
  PROVE  Real(e + Real(S[n])) = e + S[n] /\ S[n] \in Nat /\ \A k \in 1..n : x[k] <= S[n]
<1> DEFINE M == Modulus
<1>1. M \in Nat /\ M > 3 /\ M % 4 = 3
  BY ModulusFacts
<1> HIDE DEF M
<1>2. PICK h \in Nat : M = 2 * h + 1
  BY ModulusOdd DEF M
<1> DEFINE B == h - e
<1>3. ASSUME NEW k \in 1..n PROVE n * x[k] <= B /\ n * x[k] \in Nat
  <2> DEFINE y == n * x[k]
  <2>0. \A i, j \in Nat : i * j \in Nat
    OBVIOUS
  <2>1. y \in Nat /\ 2 * (e + y) < M
    BY <2>0 DEF M
  <2> HIDE DEF y
  <2>2. y <= B
    BY <1>2, <2>1
  <2> QED
    BY <2>1, <2>2 DEF y
<1>4. 1 \in 1..n
  OBVIOUS
<1>5. B \in Nat
  <2>1. n * x[1] <= B /\ n * x[1] \in Nat /\ B \in Int
    BY <1>2, <1>3, <1>4
  <2> QED
    BY <2>1
<1> HIDE DEF B
<1>6. S[n] \in 0..B /\ \A k \in 1..n : x[k] <= S[n]
  BY <1>3, <1>5, SumsSmall
<1> DEFINE z == S[n]
           v == e + z
<1>7. z \in Nat /\ v \in Int /\ 2 * v < M /\ -M < 2 * v
  <2>1. z \in 0..B /\ -M < 2 * e
    BY <1>6 DEF M
  <2> HIDE DEF z
  <2> QED
    BY <1>1, <1>2, <1>5, <2>1 DEF B
<1>8. Real(e + Real(z)) = Real(v)
  BY <1>7, RealAbsorbs
<1> HIDE DEF v
<1>9. Real(v) = v
  BY <1>7, RealExact DEF M
<1> QED
  BY <1>6, <1>7, <1>8, <1>9 DEF v

\* What a drive pulls, from what its axes do.
LEMMA DrivePulls ==
  ASSUME NEW n \in Nat, NEW corr \in [1..n -> Int], NEW axes \in Seq(STRING), \A k \in 1..n : axes[k] \in AxisNames
  PROVE  \A s, t \in Square(2) :
           \E S \in [0..n -> Int] :
             /\ S[0] = 0 /\ \A k \in 1..n : S[k] = S[k - 1] - corr[k] * Projections(s, t)[Index(axes[k])]
             /\ DriveOf(corr, axes) \in Square(2) /\ Pull(t, s, DriveOf(corr, axes))[2] = Real(S[n])
<1> TAKE s, t \in Square(2)
<1> DEFINE d == 2
<1>1. d \in Nat /\ s \in Square(d) /\ t \in Square(d) /\ Zero \in Complex
  BY TypedNumbers
<1>2. \A k \in 1..n : /\ AxisPauli(axes[k]) \in Square(d)
                      /\ Pull(t, s, AxisPauli(axes[k])) \in Residues
                      /\ Projections(s, t)[Index(axes[k])] = -Pull(t, s, AxisPauli(axes[k]))[2]
  BY AxisFacts, ProjectionFacts
<1> DEFINE x == [k \in 1..n |-> -(corr[k] * Projections(s, t)[Index(axes[k])])]
           G == [u \in (1..n) \X Int |-> u[2] + x[u[1]]]
<1>3. ASSUME NEW k \in 1..n
      PROVE  /\ x[k] \in Int
             /\ \A i \in Int : i + x[k] = i - corr[k] * Projections(s, t)[Index(axes[k])]
  <2> DEFINE a == corr[k]
             b == Projections(s, t)[Index(axes[k])]
             z == Pull(t, s, AxisPauli(axes[k]))
  <2>1. z \in Residues /\ b = -z[2] /\ a \in Int /\ x[k] = -(a * b)
    BY <1>2
  <2> HIDE DEF z
  <2>2. b \in Int
    BY <2>1, ResidueBounds
  <2> HIDE DEF a, b
  <2>3. \A i, j, m \in Int : -(j * m) \in Int /\ i + (-(j * m)) = i - j * m
    OBVIOUS
  <2> HIDE DEF x
  <2> QED
    BY <2>1, <2>2, <2>3 DEF a, b
<1>4. PICK S \in [0..n -> Int] : S[0] = 0 /\ \A k \in 1..n : S[k] = S[k - 1] - corr[k] * Projections(s, t)[Index(axes[k])]
  <2>1. x \in [1..n -> Int]
    BY <1>3
  <2>2. G \in [(1..n) \X Int -> Int] /\ 0 \in Int
    BY <2>1
  <2>3. \A k \in 1..n, i \in Int : G[<<k, i>>] = i + x[k]
    OBVIOUS
  <2> HIDE DEF G, x
  <2>4. PICK S \in [0..n -> Int] : IsRun(S, n, 0, G)
    BY <2>2, RunExists
  <2>5. S[0] = 0 /\ \A k \in 1..n : S[k] = G[<<k, S[k - 1]>>]
    BY <2>4 DEF IsRun
  <2>6. ASSUME NEW k \in 1..n PROVE S[k] = S[k - 1] - corr[k] * Projections(s, t)[Index(axes[k])]
    <3>1. k - 1 \in 0..n
      OBVIOUS
    <3>2. S[k - 1] \in Int
      BY <3>1
    <3> QED
      BY <1>3, <2>3, <2>5, <3>2
  <2> QED
    BY <2>5, <2>6
<1> HIDE DEF x, G
<1>5. PICK w \in [0..n -> Square(d)] :
         /\ w[0] = Zeros(d) /\ DriveOf(corr, axes) = w[n]
         /\ \A k \in 1..n : w[k] = Sum(w[k - 1], Scaled(<<corr[k], 0>>, AxisPauli(axes[k])))
  <2>1. \A k \in 1..n : AxisPauli(axes[k]) \in Square(2)
    BY AxisFacts
  <2>2. PICK w \in [0..n -> Square(2)] :
           /\ w[0] = Zeros(2) /\ DriveOf(corr, axes) = w[n]
           /\ \A k \in 1..n : w[k] = Sum(w[k - 1], AxisTurn(corr, axes, k))
    BY <2>1, DriveRuns
  <2> QED
    BY <2>2 DEF AxisTurn
<1> HIDE DEF d
<1> DEFINE T == {k \in 0..n : Pull(t, s, w[k])[2] = Real(S[k])}
<1>6. 0 \in T
  <2>1. Zeros(d) = Scaled(Zero, s)
    BY <1>1, ScaledToZero
  <2>2. Pull(t, s, Zeros(d)) = Times(Zero, Pull(t, s, s)) /\ Pull(t, s, s) \in Residues
    BY <1>1, <2>1, PullLinear
  <2>3. Times(Zero, Pull(t, s, s)) = Zero
    <3>1. Pull(t, s, s) \in Complex
      BY <2>2 DEF Residues
    <3> QED
      BY <3>1, TimesAlgebra
  <2>4. Zero[2] = 0
    BY DEF Zero
  <2> QED
    BY <1>5, <1>4, <2>2, <2>3, <2>4, RealOfSmall
<1>7. ASSUME NEW k \in 0..(n - 1), k \in T PROVE k + 1 \in T
  <2> DEFINE K == k + 1
             y == AxisPauli(axes[K])
             c == <<corr[K], 0>>
             u == Pull(t, s, w[k])
             z == Pull(t, s, y)
  <2>1. K \in 1..n /\ K - 1 = k /\ K \in 0..n /\ k \in 0..n
    BY <1>7
  <2> HIDE DEF K
  <2>2. w[K] = Sum(w[k], Scaled(c, y)) /\ y \in Square(d) /\ z \in Residues /\ c \in Complex /\ w[k] \in Square(d)
    BY <1>2, <1>5, <2>1 DEF Complex
  <2>3. S[K] = S[k] - corr[K] * (-z[2]) /\ corr[K] \in Int /\ S[k] \in Int /\ S[K] \in Int
    BY <1>2, <1>4, <2>1
  <2>4. u[2] = Real(S[k])
    BY <1>7
  <2> HIDE DEF y
  <2>5. Pull(t, s, w[K]) = Plus(u, Times(c, z)) /\ u \in Residues
    <3> HIDE DEF c
    <3> QED
      BY <1>1, <2>2, PullLinear
  <2> HIDE DEF u, z
  <2>6. z[1] \in Int /\ z[2] \in Int
    BY <2>2, ResidueBounds
  <2>7. Times(c, z)[2] = Real(corr[K] * z[2])
    <3>1. corr[K] * z[2] + 0 * z[1] = corr[K] * z[2]
      <4>1. \A a, b, e \in Int : a * b + 0 * e = a * b
        OBVIOUS
      <4> QED
        BY <2>3, <2>6, <4>1
    <3>2. Times(c, z)[2] = Real(corr[K] * z[2] + 0 * z[1])
      BY DEF Times
    <3> QED
      BY <3>1, <3>2
  <2>8. Plus(u, Times(c, z))[2] = Real(Real(S[k]) + Real(corr[K] * z[2]))
    BY <2>4, <2>7 DEF Plus
  <2> DEFINE v == corr[K] * z[2]
  <2>9. v \in Int /\ S[K] = S[k] + v
    <3>1. \A a, b, e \in Int : b * e \in Int /\ a - b * (-e) = a + b * e
      OBVIOUS
    <3>2. corr[K] \in Int /\ z[2] \in Int /\ S[k] \in Int
      BY <2>3, <2>6
    <3>3. v \in Int /\ S[k] - corr[K] * (-z[2]) = S[k] + v
      BY <3>1, <3>2
    <3> HIDE DEF v
    <3> QED
      BY <2>3, <3>3
  <2> HIDE DEF v
  <2>10. Real(Real(S[k]) + Real(v)) = Real(S[K])
    <3>1. Real(v) \in Int
      BY <2>9, RealInt
    <3>2. Real(Real(S[k]) + Real(v)) = Real(S[k] + Real(v))
      BY <2>3, <3>1, RealAbsorbs
    <3>3. Real(S[k] + Real(v)) = Real(S[k] + v)
      BY <2>3, <2>9, RealAbsorbs
    <3> QED
      BY <2>9, <3>2, <3>3
  <2> QED
    BY <2>1, <2>5, <2>8, <2>10 DEF v, K
<1> HIDE DEF T
<1>8. n \in T
  <2>1. 0..n \subseteq T
    BY <1>6, <1>7, UpTo
  <2> QED
    BY <2>1
<1>9. DriveOf(corr, axes) = w[n] /\ w[n] \in Square(d)
  BY <1>5
<1> QED
  BY <1>8, <1>9, <1>4 DEF T, d

\* An accepted call's gains and projections.
LEMMA CorrectionFacts ==
  ASSUME NEW call \in FeedbackCalls, FeedbackAccepted(call), call.full = NoGainMatrix,
         \A k \in DOMAIN call.gains : call.gains[k] >= 0,
         NEW s \in Square(2), NEW t \in Square(2)
  PROVE  LET n == Len(call.axes)
             g == GainVector(call)
             p(k) == Projections(s, t)[Index(call.axes[k])]
             c == FeedbackCorrection(call, s, t)
         IN /\ n \in Nat \ {0} /\ call.axes \in Seq(STRING) /\ DOMAIN call.axes = 1..n /\ call.cap \in Int
            /\ \A k \in 1..n : call.axes[k] \in AxisNames
            /\ g \in [1..n -> Nat] /\ c \in [1..n -> Int]
            /\ \A k \in 1..n : /\ p(k) \in Int
                               /\ c[k] = IF call.cap > 0 THEN Clamped(-(g[k] * p(k)), call.cap) ELSE -(g[k] * p(k))
<1> DEFINE n == Len(call.axes)
           g == GainVector(call)
           q == Projections(s, t)
           p(k) == q[Index(call.axes[k])]
           c == FeedbackCorrection(call, s, t)
<1>1. /\ call.axes \in Seq(STRING) /\ call.gains \in Seq(Int) /\ call.cap \in Int /\ call.axes # <<>>
      /\ \A k \in DOMAIN call.axes : call.axes[k] \in AxisNames
      /\ Len(call.gains) \in {1, Len(call.axes)}
  BY FeedbackAssumption DEF FeedbackAccepted, AxisNames
<1>2. n \in Nat \ {0} /\ DOMAIN call.axes = 1..n /\ DOMAIN call.gains = 1..Len(call.gains)
      /\ \A k \in DOMAIN call.gains : call.gains[k] \in Nat
  BY <1>1
<1>3. g \in [1..n -> Nat]
  <2>1. CASE Len(call.gains) = 1
    <3>1. call.gains[1] \in Nat
      BY <1>2, <2>1
    <3> QED
      BY <1>2, <2>1, <3>1 DEF GainVector
  <2>2. CASE Len(call.gains) # 1
    BY <1>1, <1>2, <2>2 DEF GainVector
  <2> QED
    BY <2>1, <2>2
<1>4. ASSUME NEW k \in 1..n PROVE p(k) \in Int
  <2>1. call.axes[k] \in AxisNames
    BY <1>1, <1>2
  <2> DEFINE z == Pull(t, s, AxisPauli(call.axes[k]))
  <2>2. z \in Residues /\ p(k) = -z[2]
    BY <2>1, ProjectionFacts
  <2> HIDE DEF z
  <2>3. z[2] \in Int
    BY <2>2, ResidueBounds
  <2> QED
    BY <2>2, <2>3
<1>5. c = [k \in 1..n |-> IF call.cap > 0 THEN Clamped(-(g[k] * p(k)), call.cap) ELSE -(g[k] * p(k))]
  <2> DEFINE raw == [k \in DOMAIN call.axes |-> -g[k] * p(k)]
  <2>1. c = [k \in DOMAIN raw |-> IF call.cap > 0 THEN Clamped(raw[k], call.cap) ELSE raw[k]]
    BY DEF FeedbackCorrection
  <2> QED
    BY <1>2, <2>1
<1> HIDE DEF c, g, p
<1>6. \A k \in 1..n : c[k] = IF call.cap > 0 THEN Clamped(-(g[k] * p(k)), call.cap) ELSE -(g[k] * p(k))
  BY <1>5
<1>7. ASSUME NEW k \in 1..n PROVE c[k] \in Int
  <2>1. g[k] \in Nat /\ p(k) \in Int
    BY <1>3, <1>4
  <2> DEFINE a == g[k]
             b == p(k)
             e == c[k]
  <2>2. e = IF call.cap > 0 THEN Clamped(-(a * b), call.cap) ELSE -(a * b)
    BY <1>6
  <2>3. a \in Nat /\ b \in Int
    BY <2>1
  <2> HIDE DEF a, b, e
  <2>4. e \in Int
    BY <1>1, <2>2, <2>3, ClampFacts
  <2> QED
    BY <2>4 DEF e
<1>8. c \in [1..n -> Int]
  BY <1>5, <1>7
<1> QED
  BY <1>1, <1>2, <1>3, <1>4, <1>6, <1>8 DEF c, g, p

\* The corrections never take the fidelity down.
LEMMA CorrectionDescends ==
  ASSUME NEW call \in FeedbackCalls, FeedbackAccepted(call), Flattened(call.state, 2)
  PROVE  Descends(call, FeedbackCorrection(call, FlatToComplexMatrix(call.state, 2),
                                           FlatToComplexMatrix(call.target, 2)))
<1> DEFINE n == Len(call.axes)
           s == FlatToComplexMatrix(call.state, 2)
           t == FlatToComplexMatrix(call.target, 2)
           g == GainVector(call)
           q == Projections(s, t)
           p(k) == q[Index(call.axes[k])]
           c == FeedbackCorrection(call, s, t)
           f == Fidelity2(s, t)
<1>1. CASE ~(call.full = NoGainMatrix /\ \A k \in DOMAIN call.gains : call.gains[k] >= 0)
  BY <1>1 DEF Descends
<1>2. CASE call.full = NoGainMatrix /\ \A k \in DOMAIN call.gains : call.gains[k] >= 0
  <2>1. s \in Square(2) /\ t \in Square(2)
    <3> DEFINE d == 2
    <3>1. d \in Nat /\ call.state \in Seq(Int) /\ call.target \in Seq(Int)
          /\ Flattened(call.state, d) /\ Flattened(call.target, d)
      BY FeedbackAssumption DEF FeedbackAccepted
    <3> HIDE DEF d
    <3>2. FlatToComplexMatrix(call.state, d) \in Square(d) /\ FlatToComplexMatrix(call.target, d) \in Square(d)
      BY <3>1, FlatTyped
    <3> QED
      BY <3>2 DEF d
  <2>2. \A k \in DOMAIN call.axes : 2 * (f + n * (g[k] * p(k) * p(k))) < Modulus
    BY <1>2, SmallAssumption
  <2> HIDE DEF s, t
  <2>3. /\ n \in Nat \ {0} /\ call.axes \in Seq(STRING) /\ DOMAIN call.axes = 1..n /\ call.cap \in Int
        /\ \A k \in 1..n : call.axes[k] \in AxisNames
        /\ g \in [1..n -> Nat] /\ c \in [1..n -> Int]
        /\ \A k \in 1..n : /\ p(k) \in Int
                           /\ c[k] = IF call.cap > 0 THEN Clamped(-(g[k] * p(k)), call.cap) ELSE -(g[k] * p(k))
    BY <1>2, <2>1, CorrectionFacts
  <2> HIDE DEF g, q, c
  <2> DEFINE x == [k \in 1..n |-> -(c[k] * p(k))]
  <2>4. ASSUME NEW k \in 1..n
        PROVE  /\ x[k] \in Nat /\ x[k] <= g[k] * p(k) * p(k) /\ (x[k] = 0 => g[k] * p(k) = 0)
               /\ g[k] * p(k) * p(k) \in Int
               /\ call.cap > 0 => c[k] \in -call.cap..call.cap
    <3> DEFINE a == g[k]
               b == p(k)
               e == c[k]
    <3>1. a \in Nat /\ b \in Int /\ call.cap \in Int
          /\ e = IF call.cap > 0 THEN Clamped(-(a * b), call.cap) ELSE -(a * b)
      BY <2>3
    <3>2. x[k] = -(e * b)
      OBVIOUS
    <3> HIDE DEF a, b, e, x
    <3>3. /\ e \in Int /\ -(e * b) \in Nat /\ -(e * b) <= a * b * b
          /\ e * b = 0 => a * b = 0
          /\ call.cap > 0 => e \in -call.cap..call.cap
      BY <3>1, ClampFacts
    <3>4. a * b * b \in Int /\ e * b \in Int
      <4>1. \A i, j \in Int : i * j \in Int
        OBVIOUS
      <4> QED
        BY <3>1, <3>3, <4>1
    <3>5. \A i \in Int : -i = 0 => i = 0
      OBVIOUS
    <3> QED
      BY <3>2, <3>3, <3>4, <3>5 DEF a, b, e
  <2>5. x \in [1..n -> Nat]
    BY <2>4
  <2>6. PICK S \in [0..n -> Int] :
          /\ S[0] = 0 /\ \A k \in 1..n : S[k] = S[k - 1] - c[k] * Projections(s, t)[Index(call.axes[k])]
          /\ DriveOf(c, call.axes) \in Square(2) /\ Pull(t, s, DriveOf(c, call.axes))[2] = Real(S[n])
    <3>1. n \in Nat /\ call.axes \in Seq(STRING) /\ c \in [1..n -> Int] /\ \A k \in 1..n : call.axes[k] \in AxisNames
      BY <2>3
    <3> HIDE DEF n
    <3>2. \A r, y \in Square(2) :
           \E S \in [0..n -> Int] :
             /\ S[0] = 0 /\ \A k \in 1..n : S[k] = S[k - 1] - c[k] * Projections(r, y)[Index(call.axes[k])]
             /\ DriveOf(c, call.axes) \in Square(2) /\ Pull(y, r, DriveOf(c, call.axes))[2] = Real(S[n])
      BY <3>1, DrivePulls
    <3> QED
      BY <2>1, <3>2
  <2>7. ASSUME NEW k \in 1..n PROVE S[k] = S[k - 1] + x[k]
    <3>0. x[k] = -(c[k] * p(k)) /\ S \in [0..n -> Int]
      OBVIOUS
    <3> HIDE DEF x, p, n
    <3>1. c[k] \in Int /\ p(k) \in Int /\ k - 1 \in 0..n
      <4>1. n \in Nat /\ c \in [1..n -> Int] /\ p(k) \in Int
        BY <2>3
      <4>2. k - 1 \in 0..n
        BY <4>1
      <4> QED
        BY <4>1, <4>2
    <3>2. S[k] = S[k - 1] - c[k] * p(k)
      BY <2>6 DEF p, q
    <3>3. \A i, j, m \in Int : i + (-(j * m)) = i - j * m
      OBVIOUS
    <3> HIDE DEF n
    <3>4. S[k - 1] \in Int
      BY <3>0, <3>1
    <3> QED
      BY <3>0, <3>1, <3>2, <3>3, <3>4
  <2> DEFINE motion == Scaled(MinusI, Commutator(DriveOf(c, call.axes), s))
             after == Fidelity2(Sum(s, motion), t)
  <2>8. after = Real(f + Real(S[n])) /\ f \in Int /\ -Modulus < 2 * f
    <3> DEFINE h == DriveOf(c, call.axes)
    <3>1. h \in Square(2) /\ Pull(t, s, h)[2] = Real(S[n])
      BY <2>6
    <3> HIDE DEF h, x
    <3>2. /\ Fidelity2(Sum(s, Scaled(MinusI, Commutator(h, s))), t) = Real(Fidelity2(s, t) + Pull(t, s, h)[2])
          /\ Fidelity2(s, t) \in Int /\ -Modulus < 2 * Fidelity2(s, t)
      BY <2>1, <3>1, FidelityMoves
    <3> QED
      BY <3>1, <3>2 DEF h
  <2> HIDE DEF f, x
  <2>9. \A k \in 1..n : 2 * (f + n * x[k]) < Modulus
    <3> TAKE k \in 1..n
    <3> DEFINE y == x[k]
               z == g[k] * p(k) * p(k)
    <3>1. y \in Nat /\ z \in Int /\ y <= z /\ 2 * (f + n * z) < Modulus /\ Modulus \in Int
      <4>1. y \in Nat /\ z \in Int /\ y <= z
        BY <2>4
      <4>2. 2 * (f + n * z) < Modulus
        BY <2>2, <2>3
      <4> QED
        BY <4>1, <4>2, ModulusFacts
    <3> HIDE DEF y, z
    <3>2. z - y \in Nat /\ n \in Nat
      BY <2>3, <3>1
    <3>3. n * (z - y) \in Nat /\ n * z = n * y + n * (z - y) /\ n * y \in Int
      <4>1. \A i, j \in Nat : i * j \in Nat
        OBVIOUS
      <4>2. \A i, j, m \in Int : i * j = i * m + i * (j - m) /\ i * m \in Int
        OBVIOUS
      <4>3. n \in Int /\ y \in Int /\ z \in Int
        BY <3>1, <3>2
      <4> HIDE DEF n
      <4>4. n * (z - y) \in Nat
        BY <3>2, <4>1
      <4>5. n * z = n * y + n * (z - y) /\ n * y \in Int
        BY <4>2, <4>3
      <4> QED
        BY <4>4, <4>5
    <3> QED
      <4> DEFINE i == n * y
                 j == n * (z - y)
      <4>1. i \in Int /\ j \in Nat /\ n * z = i + j
        BY <3>3
      <4> HIDE DEF i, j
      <4>2. 2 * (f + i) < Modulus
        BY <2>8, <3>1, <4>1
      <4> QED
        BY <4>2 DEF i, y
  <2>10. Real(f + Real(S[n])) = f + S[n] /\ S[n] \in Nat /\ \A k \in 1..n : x[k] <= S[n]
    BY <2>3, <2>5, <2>6, <2>7, <2>8, <2>9, RiseExact
  <2>11. after - f = S[n]
    <3> HIDE DEF after
    <3> QED
      BY <2>8, <2>10
  <2>12. after - f >= 0
    BY <2>10, <2>11
  <2>13. ASSUME after - f = 0, NEW k \in 1..n PROVE g[k] * p(k) = 0
    <3>1. x[k] \in Nat /\ x[k] <= 0
      BY <2>5, <2>10, <2>11, <2>13
    <3> QED
      BY <2>4, <3>1
  <2>14. call.cap > 0 => \A k \in 1..n : c[k] \in -call.cap..call.cap
    BY <2>4
  <2>15. DOMAIN c = 1..n
    BY <2>3
  <2> QED
    BY <2>12, <2>13, <2>14, <2>15 DEF Descends, s, t, g, q, c, f
<1> QED
  BY <1>1, <1>2

-----------------------------------------------------------------------------
(* The feedback controller                                                   *)

\* An answer's corrections, whatever made them, bring the state no farther from its target.
FeedbackInv == fphase = "answered" => Descends(fcall, correction)

LEMMA FeedbackInitially == FeedbackInit => FeedbackInv
BY DEF FeedbackInit, FeedbackInv

LEMMA CorrectKeeps ==
  ASSUME FeedbackInv, NEW call \in FeedbackCalls, Correct(call)
  PROVE  FeedbackInv'
<1>1. CASE FeedbackAccepted(call) /\ Flattened(call.state, 2)
  BY <1>1, CorrectionDescends DEF Correct, FeedbackInv
<1>2. CASE ~(FeedbackAccepted(call) /\ Flattened(call.state, 2))
  BY <1>2 DEF Correct, FeedbackInv
<1> QED
  BY <1>1, <1>2

LEMMA FeedbackInvDescends == FeedbackInv => FeedbackDescends
<1>1. fphase = "answered" /\ FeedbackInv => Descends(fcall, correction)
  BY DEF FeedbackInv
<1> QED
  BY <1>1 DEF FeedbackDescends, Descends, DriveOf, DriveAlong, AxisTurn

\* For every accepted call with a gain vector, the corrections of the controller never take
\* the state away from its target, stop only where every axis is stationary, and respect
\* the limit.
THEOREM FeedbackCorrect == Spec => []FeedbackDescends
<1>1. Init => FeedbackInv
  BY FeedbackInitially DEF Init
<1>2. FeedbackInv /\ [Next]_solverVars => FeedbackInv'
  <2> SUFFICES ASSUME FeedbackInv, [Next]_solverVars PROVE FeedbackInv'
    OBVIOUS
  <2>1. UNCHANGED feedbackVars => FeedbackInv'
    BY DEF FeedbackInv, feedbackVars
  <2>2. CASE FeedbackStep
    BY <2>2, CorrectKeeps DEF FeedbackStep, FeedbackNext
  <2>3. CASE GrapeStep \/ OpenStep \/ LindbladStep \/ SmeStep \/ ExpmStep \/ MeasuredStepOf
    BY <2>1, <2>3 DEF GrapeStep, OpenStep, LindbladStep, SmeStep, ExpmStep, MeasuredStepOf
  <2>4. CASE UNCHANGED solverVars
    BY <2>1, <2>4 DEF solverVars
  <2> QED
    BY <2>2, <2>3, <2>4 DEF Next
<1>3. FeedbackInv => FeedbackDescends
  BY FeedbackInvDescends
<1> QED
  BY <1>1, <1>2, <1>3, PTL DEF Spec
=============================================================================
