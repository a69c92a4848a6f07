------------------------------ MODULE FoldLemmas ------------------------------
(***************************************************************************)
(* Recursion over the first numbers, as proofs about folds and recursive       *)
(* functions need it: a function by recursion exists, has the type its steps   *)
(* keep, and is known element by element.                                    *)
(***************************************************************************)
EXTENDS Integers, SequencesExt, FiniteSetTheorems, WellFoundedInduction, TLAPS

\* A set of naturals that holds zero, and with a number below n the next one, goes up to n.
LEMMA UpTo ==
  ASSUME NEW n \in Nat, NEW T, 0 \in T, \A k \in 0..(n - 1) : k \in T => k + 1 \in T
  PROVE  0..n \subseteq T
<1> DEFINE missing == (0..n) \ T
           upTo == {0..m : m \in missing}
           R == StrictSubsetOrdering(Nat)
<1> SUFFICES ASSUME missing # {} PROVE FALSE
  OBVIOUS
<1>0. missing \subseteq Nat
  OBVIOUS
<1> HIDE DEF missing
<1>1. upTo \subseteq FiniteSubsetsOf(Nat) /\ upTo # {}
  <2>1. ASSUME NEW m \in missing PROVE 0..m \in FiniteSubsetsOf(Nat)
    <3>1. m \in Nat /\ IsFiniteSet(0..m) /\ 0..m \subseteq Nat
      BY <1>0, <2>1, FS_Interval
    <3> QED
      BY <3>1 DEF FiniteSubsetsOf
  <2> QED
    BY <2>1
<1>2. PICK U \in upTo : \A V \in upTo : ~(<<V, U>> \in R)
  <2>1. IsWellFoundedOn(R, FiniteSubsetsOf(Nat))
    BY FS_StrictSubsetOrderingWellFounded
  <2> QED
    BY <1>1, <2>1, WFMin
<1> USE DEF missing
<1>3. PICK m \in missing : U = 0..m
  BY <1>2
<1>4. m \in Nat /\ m # 0 /\ m - 1 \in 0..(n - 1) /\ m - 1 + 1 = m
  OBVIOUS
<1>5. m - 1 \in missing
  BY <1>4
<1>6. 0..(m - 1) \in upTo
  BY <1>5
<1>7. 0..(m - 1) \subseteq 0..m /\ m \in 0..m /\ m \notin 0..(m - 1) /\ 0..m \subseteq Nat
  BY <1>4
<1>8. <<0..(m - 1), 0..m>> \in R
  <2>1. 0..(m - 1) # 0..m /\ 0..(m - 1) \in SUBSET Nat /\ 0..m \in SUBSET Nat
    BY <1>7
  <2> QED
    BY <1>7, <2>1 DEF StrictSubsetOrdering
<1> QED
  BY <1>2, <1>3, <1>6, <1>8

\* The largest of some of the first numbers.
LEMMA MaxFacts ==
  ASSUME NEW n \in Nat, NEW t \in SUBSET (1..n), t # {}
  PROVE  Max(t) \in t /\ \A x \in t : x <= Max(t)
<1> DEFINE below == {k \in 0..n : \A u \in SUBSET (1..k) : u # {} => \E x \in u : \A y \in u : x >= y}
<1>1. 0 \in below
  <2>1. 0 \in 0..n /\ \A u \in SUBSET (1..0) : u = {}
    OBVIOUS
  <2> QED
    BY <2>1
<1>2. ASSUME NEW k \in 0..(n - 1), k \in below PROVE k + 1 \in below
  <2>1. ASSUME NEW u \in SUBSET (1..(k + 1)), u # {} PROVE \E x \in u : \A y \in u : x >= y
    <3>1. CASE k + 1 \in u
      BY <3>1
    <3>2. CASE k + 1 \notin u
      <4>1. u \in SUBSET (1..k)
        BY <3>2
      <4> QED
        BY <1>2, <2>1, <4>1
    <3> QED
      BY <3>1, <3>2
  <2>2. k + 1 \in 0..n
    OBVIOUS
  <2> QED
    BY <2>1, <2>2
<1> HIDE DEF below
<1>3. 0..n \subseteq below
  BY <1>1, <1>2, UpTo
<1>4. \E x \in t : \A y \in t : x >= y
  BY <1>3 DEF below
<1> QED
  BY <1>4 DEF Max

\* g goes from b through the elements of a set by steps of G, the largest last.
IsFold(g, n, b, G) ==
  \A t \in SUBSET (1..n) : g[t] = IF t = {} THEN b ELSE G[<<Max(t), g[t \ {Max(t)}]>>]

\* A function by recursion on the largest element of a set, step by step from b.
LEMMA FoldExists ==
  ASSUME NEW n \in Nat, NEW V, NEW b \in V, NEW G \in [(1..n) \X V -> V]
  PROVE  \E g \in [SUBSET (1..n) -> V] : IsFold(g, n, b, G)
<1> DEFINE Folds(g, m) == IsFold(g, m, b, G)
           good == {m \in 0..n : \E g \in [SUBSET (1..m) -> V] : Folds(g, m)}
<1>1. 0 \in good
  <2> DEFINE g == [t \in SUBSET (1..0) |-> b]
  <2>1. 0 \in 0..n /\ \A t \in SUBSET (1..0) : t = {}
    OBVIOUS
  <2>2. g \in [SUBSET (1..0) -> V] /\ Folds(g, 0)
    BY <2>1 DEF IsFold
  <2> HIDE DEF Folds, g
  <2> QED
    BY <2>1, <2>2
<1>2. ASSUME NEW m \in 0..(n - 1), m \in good PROVE m + 1 \in good
  <2>1. PICK g \in [SUBSET (1..m) -> V] : Folds(g, m)
    BY <1>2
  <2> DEFINE h == [t \in SUBSET (1..(m + 1)) |->
                     IF m + 1 \in t THEN G[<<m + 1, g[t \ {m + 1}]>>] ELSE g[t]]
  <2>2. ASSUME NEW t \in SUBSET (1..(m + 1)), m + 1 \in t
        PROVE  t \ {m + 1} \in SUBSET (1..m) /\ Max(t) = m + 1 /\ t # {}
    <3>0. m + 1 \in Nat /\ t # {}
      BY <2>2
    <3>1. m + 1 \in Nat /\ Max(t) \in t /\ \A x \in t : x <= Max(t)
      BY <3>0, MaxFacts
    <3>2. Max(t) \in 1..(m + 1) /\ m + 1 <= Max(t)
      BY <2>2, <3>1
    <3>3. Max(t) = m + 1
      BY <3>2
    <3>4. ASSUME NEW x \in t \ {m + 1} PROVE x \in 1..m
      BY <3>4
    <3> QED
      BY <3>0, <3>3, <3>4
  <2>3. ASSUME NEW t \in SUBSET (1..(m + 1)), m + 1 \notin t PROVE t \in SUBSET (1..m)
    BY <2>3
  <2>4. h \in [SUBSET (1..(m + 1)) -> V]
    <3>1. ASSUME NEW t \in SUBSET (1..(m + 1)), m + 1 \in t PROVE G[<<m + 1, g[t \ {m + 1}]>>] \in V
      <4>1. t \ {m + 1} \in SUBSET (1..m) /\ m + 1 \in 1..n
        BY <2>2, <3>1
      <4>2. g[t \ {m + 1}] \in V
        BY <4>1
      <4> QED
        BY <4>1, <4>2
    <3>2. ASSUME NEW t \in SUBSET (1..(m + 1)), m + 1 \notin t PROVE g[t] \in V
      BY <2>3, <3>2
    <3> QED
      BY <3>1, <3>2
  <2>5. ASSUME NEW t \in SUBSET (1..m) PROVE h[t] = g[t]
    BY <2>5
  <2>6. ASSUME NEW t \in SUBSET (1..(m + 1))
        PROVE  h[t] = IF t = {} THEN b ELSE G[<<Max(t), h[t \ {Max(t)}]>>]
    <3>1. CASE m + 1 \in t
      BY <2>2, <2>5, <3>1
    <3>2. CASE m + 1 \notin t /\ t # {}
      <4>0. t \in SUBSET (1..m) /\ m \in Nat
        BY <2>3, <3>2
      <4>1. t \in SUBSET (1..m) /\ Max(t) \in t
        BY <3>2, <4>0, MaxFacts
      <4>2. t \ {Max(t)} \in SUBSET (1..m)
        BY <4>1
      <4>3. h[t] = g[t] /\ h[t \ {Max(t)}] = g[t \ {Max(t)}]
        BY <2>5, <4>1, <4>2
      <4> QED
        BY <2>1, <3>2, <4>1, <4>3 DEF IsFold
    <3>3. CASE t = {}
      BY <2>1, <2>5, <3>3 DEF IsFold
    <3> QED
      BY <3>1, <3>2, <3>3
  <2> HIDE DEF h
  <2>7. Folds(h, m + 1) /\ m + 1 \in 0..n
    BY <2>6 DEF IsFold
  <2> QED
    BY <2>4, <2>7
<1> HIDE DEF good
<1>3. 0..n \subseteq good
  BY <1>1, <1>2, UpTo
<1>4. n \in good
  BY <1>3
<1> QED
  BY <1>4 DEF good

\* Where a step keeps a type, the whole recursion has it.
LEMMA FoldTyped ==
  ASSUME NEW n \in Nat, NEW V, NEW g, g[{}] \in V,
         \A t \in SUBSET (1..n) : t # {} /\ g[t \ {Max(t)}] \in V => g[t] \in V
  PROVE  \A t \in SUBSET (1..n) : g[t] \in V
<1> DEFINE good == {m \in 0..n : \A t \in SUBSET (1..m) : g[t] \in V}
<1>1. 0 \in good
  <2>1. 0 \in 0..n /\ \A t \in SUBSET (1..0) : t = {}
    OBVIOUS
  <2> QED
    BY <2>1
<1>2. ASSUME NEW m \in 0..(n - 1), m \in good PROVE m + 1 \in good
  <2>0. \A t \in SUBSET (1..m) : g[t] \in V
    BY <1>2
  <2> HIDE DEF good
  <2>1. ASSUME NEW t \in SUBSET (1..(m + 1)) PROVE g[t] \in V
    <3>1. CASE t = {}
      BY <3>1
    <3>2. CASE t # {}
      <4>1. t \in SUBSET (1..n) /\ m + 1 \in Nat
        OBVIOUS
      <4>2. Max(t) \in t /\ \A x \in t : x <= Max(t)
        BY <3>2, <4>1, MaxFacts
      <4>3. t \ {Max(t)} \in SUBSET (1..m)
        <5>1. ASSUME NEW x \in t \ {Max(t)} PROVE x \in 1..m
          <6>1. x \in 1..(m + 1) /\ Max(t) \in 1..(m + 1) /\ x <= Max(t) /\ x # Max(t)
            BY <4>2
          <6> QED
            BY <6>1
        <5> QED
          BY <5>1
      <4>4. g[t \ {Max(t)}] \in V
        BY <2>0, <4>3
      <4> QED
        BY <3>2, <4>1, <4>4
    <3> QED
      BY <3>1, <3>2
  <2>2. m + 1 \in 0..n
    OBVIOUS
  <2> QED
    BY <2>1, <2>2 DEF good
<1> HIDE DEF good
<1>3. 0..n \subseteq good
  BY <1>1, <1>2, UpTo
<1>4. n \in good
  BY <1>3
<1> QED
  BY <1>4 DEF good

\* The first k numbers, and the largest of them.
LEMMA FirstFacts ==
  ASSUME NEW k \in Nat \ {0}
  PROVE  1..k # {} /\ Max(1..k) = k /\ (1..k) \ {k} = 1..(k - 1)
<1>1. 1..k \in SUBSET (1..k) /\ k \in 1..k
  OBVIOUS
<1>2. Max(1..k) \in 1..k /\ \A x \in 1..k : x <= Max(1..k)
  BY <1>1, MaxFacts
<1>3. Max(1..k) = k
  BY <1>1, <1>2
<1> QED
  BY <1>1, <1>3

\* g goes from b by n steps of G.
IsRun(g, n, b, G) == g[0] = b /\ \A k \in 1..n : g[k] = G[<<k, g[k - 1]>>]

\* A sequence by recursion, step by step from b.
LEMMA RunExists ==
  ASSUME NEW n \in Nat, NEW V, NEW b \in V, NEW G \in [(1..n) \X V -> V]
  PROVE  \E g \in [0..n -> V] : IsRun(g, n, b, G)
<1>1. PICK f \in [SUBSET (1..n) -> V] : IsFold(f, n, b, G)
  BY FoldExists
<1> DEFINE g == [k \in 0..n |-> f[1..k]]
<1>2. g \in [0..n -> V]
  OBVIOUS
<1>3. g[0] = b
  <2>1. 1..0 = {} /\ 0 \in 0..n
    OBVIOUS
  <2> QED
    BY <1>1, <2>1 DEF IsFold
<1>4. ASSUME NEW k \in 1..n PROVE g[k] = G[<<k, g[k - 1]>>]
  <2>1. k \in Nat \ {0} /\ k \in 0..n /\ k - 1 \in 0..n /\ 1..k \in SUBSET (1..n)
    OBVIOUS
  <2>2. 1..k # {} /\ Max(1..k) = k /\ (1..k) \ {k} = 1..(k - 1)
    BY <2>1, FirstFacts
  <2>3. f[1..k] = G[<<k, f[1..(k - 1)]>>]
    BY <1>1, <2>1, <2>2 DEF IsFold
  <2> QED
    BY <2>1, <2>3
<1> HIDE DEF g
<1> QED
  BY <1>2, <1>3, <1>4 DEF IsRun
=============================================================================
