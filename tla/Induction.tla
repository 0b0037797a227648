------------------------------ MODULE Induction ------------------------------
(***************************************************************************)
(* Induction on the natural numbers for the proofs about sequences.  It is *)
(* stated of a set of numbers and not of a predicate, so that it can be    *)
(* cited: what is to be shown of every n is that the n it holds of are all *)
(* there are.                                                              *)
(***************************************************************************)
EXTENDS Sequences, FiniteSetTheorems, TLAPS

\* Every set of natural numbers but the empty one has a least element.
LEMMA LeastNat ==
  ASSUME NEW T \in SUBSET Nat, T # {} PROVE \E m \in T : \A k \in T : m <= k
<1> DEFINE R == OpToRel(<, Nat)
<1>1. IsWellFoundedOn(R, Nat)
  BY NatLessThanWellFounded
<1>2. \A x, y \in Nat : <<y, x>> \in R <=> y < x
  BY DEF OpToRel
<1> HIDE DEF R
<1>3. \E x \in T : \A y \in T : ~(<<y, x>> \in R)
  BY <1>1, WFMin
<1>4. PICK x \in T : \A y \in T : ~(<<y, x>> \in R)
  BY <1>3
<1>5. \A y \in T : ~(y < x)
  BY <1>2, <1>4
<1>6. QED BY <1>5

\* A set that holds 0, and with every number the next one, holds them all.
LEMMA AllNat ==
  ASSUME NEW T \in SUBSET Nat, 0 \in T, \A n \in T : n + 1 \in T PROVE T = Nat
<1>1. SUFFICES ASSUME Nat \ T # {} PROVE FALSE
  OBVIOUS
<1>2. PICK m \in Nat \ T : \A k \in Nat \ T : m <= k
  BY <1>1, LeastNat
<1>3. m - 1 \in Nat /\ m - 1 \notin Nat \ T
  BY <1>2
<1>4. QED BY <1>2, <1>3

\* Every set of natural numbers up to a bound but the empty one has a greatest element.
LEMMA GreatestNat ==
  ASSUME NEW n \in Nat, NEW T \in SUBSET (0..n), T # {} PROVE \E m \in T : \A k \in T : k <= m
<1> DEFINE U == {k \in Nat : n - k \in T}
<1>1. \A t \in T : n - t \in U
  OBVIOUS
<1>2. PICK u \in U : \A k \in U : u <= k
  BY <1>1, LeastNat
<1>3. n - u \in T /\ \A t \in T : u <= n - t
  BY <1>1, <1>2
<1>4. QED BY <1>3

-----------------------------------------------------------------------------
\* What goes from one number to the next, from a beginning on, is a function.
Climbs(f, A, b, n, step) ==
  /\ f \in [0..n -> A] /\ f[0] = b
  /\ \A k \in 1..n : f[k] = step[<<k, f[k - 1]>>]

\* A function that climbs from b in n steps exists, by induction on n.
LEMMA UpExists ==
  ASSUME NEW A, NEW b \in A, NEW n \in Nat, NEW step \in [(1..n) \X A -> A]
  PROVE  \E f : Climbs(f, A, b, n, step)
<1> DEFINE To(m) == \E f \in [0..m -> A] :
                      f[0] = b /\ \A k \in 1..m : f[k] = step[<<k, f[k - 1]>>]
           T == {m \in Nat : m <= n => To(m)}
<1>1. 0 \in T
  <2>1. [k \in 0..0 |-> b] \in [0..0 -> A] /\ [k \in 0..0 |-> b][0] = b
    OBVIOUS
  <2>2. \A k \in 1..0 : FALSE
    OBVIOUS
  <2>3. To(0)
    BY <2>1, <2>2
  <2> HIDE DEF To
  <2>4. QED BY <2>3
<1>2. ASSUME NEW m \in T PROVE m + 1 \in T
  <2>1. SUFFICES ASSUME m + 1 <= n PROVE To(m + 1)
    <3> HIDE DEF To
    <3>1. QED BY <1>2
  <2>2. PICK f \in [0..m -> A] : f[0] = b /\ \A k \in 1..m : f[k] = step[<<k, f[k - 1]>>]
    BY <1>2, <2>1
  <2> DEFINE g == [k \in 0..(m + 1) |-> IF k = m + 1 THEN step[<<m + 1, f[m]>>] ELSE f[k]]
  <2>3. m \in Nat /\ f[m] \in A /\ step[<<m + 1, f[m]>>] \in A
    BY <1>2, <2>1
  <2>4. \A k \in 0..m : g[k] = f[k]
    BY <2>3
  <2>5. g[m + 1] = step[<<m + 1, f[m]>>] /\ g \in [0..(m + 1) -> A]
    BY SMTT(30), <2>3
  <2> HIDE DEF g
  <2>6. \A k \in 1..(m + 1) : g[k] = step[<<k, g[k - 1]>>]
    <3>1. SUFFICES ASSUME NEW k \in 1..(m + 1) PROVE g[k] = step[<<k, g[k - 1]>>]
      OBVIOUS
    <3>2. CASE k = m + 1
      BY <2>3, <2>4, <2>5, <3>2
    <3>3. CASE k # m + 1
      <4>1. k \in 1..m /\ k - 1 \in 0..m /\ k \in 0..m
        BY <2>3, <3>3
      <4>2. QED BY <2>2, <2>4, <4>1
    <3>4. QED BY <3>2, <3>3
  <2>7. QED BY <2>2, <2>3, <2>4, <2>5, <2>6
<1>3. T = Nat
  <2> HIDE DEF T
  <2>1. QED BY <1>1, <1>2, AllNat DEF T
<1>4. To(n)
  <2> HIDE DEF To
  <2>1. QED BY <1>3
<1>5. QED BY <1>4 DEF Climbs

\* What is put together from a place on, by taking a value and going to a later place,
\* until there is none, is a function of the place.
Scans(f, S, m, value, next) ==
  /\ f \in [1..m -> Seq(S)]
  /\ \A i \in 1..m : f[i] = IF next[i] = 0 THEN value[i] ELSE value[i] \o f[next[i]]

\* A scan, whose value at i rests on those at later places, exists.
LEMMA ScanExists ==
  ASSUME NEW S, NEW m \in Nat, NEW value \in [1..m -> Seq(S)], NEW next \in [1..m -> Nat],
         \A i \in 1..m : next[i] = 0 \/ next[i] \in (i + 1)..m
  PROVE  \E f : Scans(f, S, m, value, next)
<1> DEFINE From(k) == \E f \in [(m - k + 1)..m -> Seq(S)] : \A i \in (m - k + 1)..m :
                        f[i] = IF next[i] = 0 THEN value[i] ELSE value[i] \o f[next[i]]
           T == {k \in Nat : k <= m => From(k)}
<1>1. 0 \in T
  <2>1. [i \in (m - 0 + 1)..m |-> value[i]] \in [(m - 0 + 1)..m -> Seq(S)]
    OBVIOUS
  <2>2. \A i \in (m - 0 + 1)..m : FALSE
    OBVIOUS
  <2>3. QED BY <2>1, <2>2
<1>2. ASSUME NEW k \in T PROVE k + 1 \in T
  <2>1. SUFFICES ASSUME k + 1 <= m PROVE From(k + 1)
    <3> HIDE DEF From
    <3>1. QED BY <1>2
  <2>2. PICK f \in [(m - k + 1)..m -> Seq(S)] : \A i \in (m - k + 1)..m :
                        f[i] = IF next[i] = 0 THEN value[i] ELSE value[i] \o f[next[i]]
    BY SMTT(30), <1>2, <2>1
  <2> DEFINE j == m - k
             v == IF next[j] = 0 THEN value[j] ELSE value[j] \o f[next[j]]
             g == [i \in (m - (k + 1) + 1)..m |-> IF i = j THEN v ELSE f[i]]
  <2>3. j \in 1..m /\ k \in Nat /\ m - (k + 1) + 1 = j
    BY <1>2, <2>1
  <2>4. v \in Seq(S)
    <3>1. value[j] \in Seq(S) /\ (next[j] = 0 \/ next[j] \in (m - k + 1)..m)
      BY <2>3
    <3>2. QED BY <2>2, <3>1
  <2> HIDE DEF v
  <2>5. \A i \in (j + 1)..m : i \in (m - k + 1)..m /\ g[i] = f[i]
    BY <2>3
  <2>6. g[j] = v /\ g \in [j..m -> Seq(S)]
    BY <2>2, <2>3, <2>4
  <2> HIDE DEF g
  <2>7. \A i \in j..m : g[i] = IF next[i] = 0 THEN value[i] ELSE value[i] \o g[next[i]]
    <3>1. SUFFICES ASSUME NEW i \in j..m
                   PROVE  g[i] = IF next[i] = 0 THEN value[i] ELSE value[i] \o g[next[i]]
      OBVIOUS
    <3>2. i \in 1..m
      BY <2>3
    <3>3. next[i] # 0 => next[i] \in (j + 1)..m
      BY <2>3, <3>2
    <3>4. next[i] # 0 => g[next[i]] = f[next[i]]
      BY <2>5, <3>3
    <3>5. CASE i = j
      BY <2>6, <3>4, <3>5 DEF v
    <3>6. CASE i # j
      <4>1. i \in (j + 1)..m
        BY <2>3, <3>6
      <4>2. QED BY <2>2, <2>5, <3>4, <4>1
    <3>7. QED BY <3>5, <3>6
  <2>8. QED BY <2>3, <2>6, <2>7
<1>3. T = Nat
  <2> HIDE DEF T
  <2>1. QED BY <1>1, <1>2, AllNat DEF T
<1>4. From(m)
  <2> HIDE DEF From
  <2>1. QED BY <1>3
<1>5. m - m + 1 = 1
  OBVIOUS
<1>6. QED BY <1>4, <1>5 DEF Scans

=============================================================================
