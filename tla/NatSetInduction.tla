--------------------------- MODULE NatSetInduction ---------------------------
(***************************************************************************)
(* Induction and extrema, stated for sets of natural numbers, and what a   *)
(* sum that is defined by recursion computes.                              *)
(***************************************************************************)
EXTENDS Naturals, Sequences, WellFoundedInduction, TLAPS

\* A set of natural numbers has a least element.
LEMMA Least ==
  ASSUME NEW S \in SUBSET Nat, S # {}
  PROVE  \E x \in S : \A y \in S : x <= y
<1> DEFINE R == OpToRel(<, Nat)
<1>1. IsWellFoundedOn(R, Nat)
  BY NatLessThanWellFounded, Zenon
<1>2. \A x, y \in Nat : <<x, y>> \in R <=> x < y
  BY DEF OpToRel
<1> HIDE DEF R
<1>3. PICK x \in S : \A y \in S : ~ (<<y, x>> \in R)
  <2>1. S \subseteq Nat
    OBVIOUS
  <2> QED
    BY <1>1, <2>1, WFMin
<1>4. x \in Nat /\ \A y \in S : y \in Nat /\ ~ (y < x)
  BY <1>2, <1>3
<1>5. \A y \in S : x <= y
  BY <1>4
<1> QED
  BY <1>5

\* A bounded one has a greatest.
LEMMA Greatest ==
  ASSUME NEW m \in Nat, NEW S \in SUBSET (0..m), S # {}
  PROVE  \E x \in S : \A y \in S : y <= x
<1> DEFINE T == {k \in 0..m : m - k \in S}
<1>1. T \in SUBSET Nat
  OBVIOUS
<1>2. T # {}
  <2>1. PICK s \in S : TRUE
    OBVIOUS
  <2>2. m - s \in T /\ m - (m - s) = s
    BY <2>1
  <2> QED
    BY <2>2
<1> HIDE DEF T
<1>3. PICK k \in T : \A y \in T : k <= y
  BY <1>1, <1>2, Least
<1>4. k \in 0..m /\ m - k \in S
  BY DEF T
<1>5. ASSUME NEW y \in S PROVE y <= m - k
  <2>1. m - y \in 0..m /\ m - (m - y) = y
    OBVIOUS
  <2>2. m - y \in T
    BY <2>1 DEF T
  <2>3. k <= m - y
    BY <2>2, <1>3
  <2> QED
    BY <1>4, <2>1, <2>3
<1> QED
  BY <1>4, <1>5

\* Induction up to m: a set that has 0 and, with a number below m, the next one.
LEMMA InductTo ==
  ASSUME NEW m \in Nat, NEW S, 0 \in S, \A k \in 0..(m - 1) : k \in S => k + 1 \in S
  PROVE  \A k \in 0..m : k \in S
<1> SUFFICES ASSUME NEW j \in 0..m, j \notin S PROVE FALSE
  OBVIOUS
<1> DEFINE T == {k \in 0..m : k \notin S}
<1>1. T \in SUBSET Nat /\ T # {}
  OBVIOUS
<1>2. PICK x \in T : \A y \in T : x <= y
  BY <1>1, Least
<1>3. x \in 0..m /\ x # 0 /\ x \notin S
  OBVIOUS
<1>4. x - 1 \in 0..(m - 1) /\ (x - 1) + 1 = x
  BY <1>3
<1>5. x - 1 \notin S
  BY <1>3, <1>4
<1>6. x - 1 \in T
  BY <1>4, <1>5
<1> QED
  BY <1>2, <1>3, <1>6
-----------------------------------------------------------------------------
\* f has the running sums of w[1], w[2], ..., w[m], as a recursion gives them.
IsSum(f, w, m) == f[0] = 0 /\ \A n \in 1..m : f[n] = f[n - 1] + w[n]

\* There is such a function ...
LEMMA SumsExist ==
  ASSUME NEW m \in Nat, NEW w \in [1..m -> Nat]
  PROVE  \E f \in [0..m -> Nat] : IsSum(f, w, m)
<1> DEFINE Upto(f, k) == f \in [0..k -> Nat] /\ IsSum(f, w, k)
           S == {k \in 0..m : \E f : Upto(f, k)}
<1>1. 0 \in S
  <2>1. Upto([n \in 0..0 |-> 0], 0)
    BY DEF IsSum
  <2> HIDE DEF Upto
  <2> QED
    BY <2>1
<1>2. ASSUME NEW k \in 0..(m - 1), k \in S PROVE k + 1 \in S
  <2>1. PICK f : Upto(f, k)
    BY <1>2
  <2> DEFINE g == [n \in 0..(k + 1) |-> IF n = k + 1 THEN f[k] + w[k + 1] ELSE f[n]]
  <2>2. g \in [0..(k + 1) -> Nat]
    BY <2>1
  <2>3. g[0] = 0
    BY <2>1 DEF IsSum
  <2>4. ASSUME NEW n \in 1..(k + 1) PROVE g[n] = g[n - 1] + w[n]
    BY <2>1 DEF IsSum
  <2>5. Upto(g, k + 1)
    BY <2>2, <2>3, <2>4 DEF IsSum
  <2> HIDE DEF Upto, g
  <2> QED
    BY <2>5
<1> HIDE DEF S
<1>3. \A k \in 0..m : k \in S
  <2>1. \A k \in 0..(m - 1) : k \in S => k + 1 \in S
    BY <1>2
  <2> QED
    BY <1>1, <2>1, InductTo, Zenon
<1>4. m \in S
  BY <1>3
<1> HIDE DEF Upto
<1>5. PICK f : Upto(f, m)
  BY <1>4 DEF S
<1> QED
  BY <1>5 DEF Upto

\* ... and only one.
LEMMA SumsAgree ==
  ASSUME NEW m \in Nat, NEW w, NEW f, NEW g, IsSum(f, w, m), IsSum(g, w, m)
  PROVE  \A k \in 0..m : f[k] = g[k]
<1> DEFINE S == {k \in 0..m : f[k] = g[k]}
<1>1. 0 \in S
  BY DEF IsSum
<1>2. \A k \in 0..(m - 1) : k \in S => k + 1 \in S
  <2> SUFFICES ASSUME NEW k \in 0..(m - 1), f[k] = g[k]
               PROVE  k + 1 \in 0..m /\ f[k + 1] = g[k + 1]
    OBVIOUS
  <2>1. k + 1 \in 1..m /\ (k + 1) - 1 = k
    OBVIOUS
  <2>2. f[k + 1] = f[k] + w[k + 1] /\ g[k + 1] = g[k] + w[k + 1]
    BY <2>1 DEF IsSum
  <2> QED
    BY <2>1, <2>2
<1>3. \A k \in 0..m : k \in S
  <2> HIDE DEF S
  <2> QED
    BY <1>1, <1>2, InductTo, Zenon
<1> QED
  BY <1>3

-----------------------------------------------------------------------------
\* The same for concatenations: f has w[1] \o ... \o w[n].
IsConcat(f, w, m) == f[0] = <<>> /\ \A n \in 1..m : f[n] = f[n - 1] \o w[n]

LEMMA ConcatsExist ==
  ASSUME NEW S, NEW m \in Nat, NEW w \in [1..m -> Seq(S)]
  PROVE  \E f \in [0..m -> Seq(S)] : IsConcat(f, w, m)
<1> DEFINE Upto(f, k) == f \in [0..k -> Seq(S)] /\ IsConcat(f, w, k)
           T == {k \in 0..m : \E f : Upto(f, k)}
<1>1. 0 \in T
  <2> DEFINE g == [n \in 0..0 |-> <<>>]
  <2>1. g \in [0..0 -> Seq(S)] /\ g[0] = <<>>
    OBVIOUS
  <2>2. \A n \in 1..0 : FALSE
    OBVIOUS
  <2> HIDE DEF g
  <2>3. Upto(g, 0)
    BY <2>1, <2>2 DEF IsConcat
  <2> HIDE DEF Upto
  <2> QED
    BY <2>3
<1>2. ASSUME NEW k \in 0..(m - 1), k \in T PROVE k + 1 \in T
  <2>1. PICK f : Upto(f, k)
    BY <1>2
  <2>2. k \in 0..k /\ k + 1 \in 1..m
    OBVIOUS
  <2>3. PICK last \in Seq(S) : last = f[k] \o w[k + 1]
    <3>1. PICK a \in Seq(S) : a = f[k]
      BY <2>1, <2>2
    <3>2. PICK b \in Seq(S) : b = w[k + 1]
      BY <2>2
    <3>3. a \o b \in Seq(S)
      OBVIOUS
    <3> QED
      BY <3>1, <3>2, <3>3
  <2> DEFINE g == [n \in 0..(k + 1) |-> IF n = k + 1 THEN last ELSE f[n]]
  <2>4. g \in [0..(k + 1) -> Seq(S)]
    BY <2>1
  <2>5. g[0] = <<>> /\ g[k + 1] = last /\ \A n \in 0..k : g[n] = f[n]
    BY <2>1 DEF IsConcat
  <2> HIDE DEF g
  <2>6. ASSUME NEW n \in 1..(k + 1) PROVE g[n] = g[n - 1] \o w[n]
    <3>1. CASE n = k + 1
      <4>1. n - 1 = k
        BY <3>1
      <4> QED
        BY <2>2, <2>3, <2>5, <3>1, <4>1
    <3>2. CASE n # k + 1
      <4>1. n \in 1..k /\ n \in 0..k /\ n - 1 \in 0..k
        BY <3>2
      <4>2. f[n] = f[n - 1] \o w[n]
        BY <2>1, <4>1 DEF IsConcat
      <4> QED
        BY <2>5, <4>1, <4>2
    <3> QED
      BY <3>1, <3>2
  <2>7. Upto(g, k + 1)
    BY <2>4, <2>5, <2>6 DEF IsConcat
  <2> HIDE DEF Upto
  <2> QED
    BY <2>7
<1> HIDE DEF T
<1>3. \A k \in 0..m : k \in T
  <2>1. \A k \in 0..(m - 1) : k \in T => k + 1 \in T
    BY <1>2
  <2> QED
    BY <1>1, <2>1, InductTo, Zenon
<1>4. m \in T
  BY <1>3
<1> HIDE DEF Upto
<1>5. PICK f : Upto(f, m)
  BY <1>4 DEF T
<1> QED
  BY <1>5 DEF Upto
=============================================================================
