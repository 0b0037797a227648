----------------------------- MODULE TextsProofs -----------------------------
(***************************************************************************)
(* Proofs about Texts, for texts of any length: what the functions of      *)
(* get_cookie, of the comparison of outputs, of md_to_html and of the      *)
(* templates compute.                                                      *)
(***************************************************************************)
EXTENDS Texts, Induction, SequenceTheorems

\* The greatest and the least of the numbers that have a property.
LEMMA MaxFacts ==
  ASSUME NEW n \in Nat, NEW T \in SUBSET (0..n), T # {}
  PROVE  Max(T) \in T /\ \A k \in T : k <= Max(T)
<1>1. PICK m \in T : \A k \in T : k <= m
  BY GreatestNat
<1>2. \A k \in T : m >= k
  BY <1>1
<1>3. QED BY <1>2 DEF Max

\* The least of a set of numbers.
LEMMA MinFacts ==
  ASSUME NEW T \in SUBSET Nat, T # {} PROVE Min(T) \in T /\ \A k \in T : Min(T) <= k
BY LeastNat DEF Min

\* What find returns.
LEMMA FindFacts ==
  ASSUME NEW S, NEW s \in Seq(S), NEW c, NEW i \in Nat \ {0}
  PROVE  LET f == FindFrom(s, c, i) IN
           /\ f \in Nat \ {0} /\ f <= Len(s) + 1
           /\ f <= Len(s) => f >= i /\ s[f] = c
           /\ \A k \in i..Len(s) : k < f => s[k] # c
<1> DEFINE at == {k \in i .. Len(s) : s[k] = c}
           f == FindFrom(s, c, i)
<1>1. CASE at = {}
  <2>1. f = Len(s) + 1
    BY <1>1 DEF FindFrom
  <2>2. QED BY <1>1, <2>1
<1>2. CASE at # {}
  <2>1. f = Min(at) /\ at \in SUBSET Nat
    BY <1>2 DEF FindFrom
  <2>2. Min(at) \in at /\ \A k \in at : Min(at) <= k
    BY <1>2, <2>1, MinFacts
  <2>3. f \in i..Len(s) /\ s[f] = c
    BY <2>1, <2>2
  <2>4. \A k \in i..Len(s) : k < f => s[k] # c
    BY <2>1, <2>2, <2>3
  <2> HIDE DEF f
  <2>5. QED BY <2>3, <2>4 DEF f
<1>3. QED BY <1>1, <1>2

-----------------------------------------------------------------------------
\* The empty sequence, among those over S.
LEMMA EmptyFacts ==
  ASSUME NEW S
  PROVE  \E e \in Seq(S) : /\ e = <<>> /\ Len(e) = 0
                           /\ \A t \in Seq(S) : e \o t = t /\ t \o e = t /\ (Len(t) = 0 => t = e)
<1>1. <<>> \in Seq(S) /\ Len(<<>>) = 0
  OBVIOUS
<1>2. PICK e \in Seq(S) : e = <<>>
  BY <1>1
<1>3. \A t \in Seq(S) : e \o t = t /\ t \o e = t
  BY <1>2, ConcatEmptySeq
<1>4. \A t \in Seq(S) : Len(t) = 0 => t = e
  BY <1>2, EmptySeq
<1>5. QED BY <1>1, <1>2, <1>3, <1>4

\* FlattenSeq puts the sequences together one after the other.
Parts(s, f) == f[0] = <<>> /\ \A k \in 1..Len(s) : f[k] = f[k - 1] \o s[k]

\* What FlattenSeq is, part by part.
LEMMA FlattenParts ==
  ASSUME NEW S, NEW s \in Seq(Seq(S))
  PROVE  \E f \in [0..Len(s) -> Seq(S)] : Parts(s, f) /\ FlattenSeq(s) = f[Len(s)]
<1>0. PICK n \in Nat : n = Len(s)
  OBVIOUS
<1>1. s \in [1..n -> Seq(S)] /\ DOMAIN s = 1..n
  BY <1>0
<1> DEFINE A == Seq(S)
           step == [p \in (1..n) \X A |-> p[2] \o s[p[1]]]
<1>e. PICK e \in A : /\ e = <<>> /\ Len(e) = 0
                    /\ \A t \in A : e \o t = t /\ t \o e = t /\ (Len(t) = 0 => t = e)
  BY EmptyFacts
<1>2. step \in [(1..n) \X A -> A]
  BY <1>1
<1>3. \A k \in 1..n, t \in A : step[<<k, t>>] = t \o s[k]
  OBVIOUS
<1>4. PICK f : Climbs(f, A, e, n, step)
  <2> HIDE DEF step, A
  <2>1. QED BY <1>2, UpExists
<1>f. f \in [0..n -> A] /\ f[0] = e
  BY <1>4 DEF Climbs
<1>5. \A k \in 1..n : f[k] = f[k - 1] \o s[k]
  <2>1. \A k \in 1..n : k - 1 \in 0..n
    OBVIOUS
  <2> HIDE DEF step
  <2>2. f \in [0..n -> A] /\ \A k \in 1..n : f[k] = step[<<k, f[k - 1]>>]
    BY <1>4 DEF Climbs
  <2>3. QED BY <1>3, <2>1, <2>2
<1>z. 1 - 1 = 0
  OBVIOUS
<1> HIDE DEF step
<1>6. CASE n = 0
  <2>1. s = <<>>
    BY <1>0, <1>6, EmptySeq
  <2>2. QED BY <1>0, <1>5, <1>6, <1>e, <1>f, <2>1 DEF FlattenSeq, Parts
<1>7. CASE n # 0
  <2> DEFINE Is(g) == g = [i \in 1..n |-> IF i = 1 THEN s[i] ELSE g[i - 1] \o s[i]]
             g == [i \in 1..n |-> f[i]]
             h == CHOOSE x : Is(x)
  <2>1. \A i \in 1..n : f[i] = IF i = 1 THEN s[i] ELSE g[i - 1] \o s[i]
    <3>1. SUFFICES ASSUME NEW i \in 1..n PROVE f[i] = IF i = 1 THEN s[i] ELSE g[i - 1] \o s[i]
      OBVIOUS
    <3>2. i = 1 => f[i] = s[i]
      <4>1. SUFFICES ASSUME i = 1 PROVE f[i] = s[i]
        OBVIOUS
      <4>2. f[i] = e \o s[i] /\ s[i] \in A
        BY <1>1, <1>z, <1>5, <1>f, <4>1
      <4>3. QED BY <1>e, <4>2
    <3>3. i # 1 => g[i - 1] = f[i - 1]
      OBVIOUS
    <3>4. QED BY <1>5, <3>2, <3>3
  <2>2. Is(g)
    BY <2>1
  <2>3. Is(h)
    <3> HIDE DEF Is
    <3>1. QED BY <2>2
  <2>4. FlattenSeq(s) = h[n]
    BY <1>0, <1>7 DEF FlattenSeq
  <2> HIDE DEF h, g
  <2>5. \A i \in 1..n : h[i] = IF i = 1 THEN s[i] ELSE h[i - 1] \o s[i]
    BY <2>3
  <2> DEFINE T == {k \in Nat : k + 1 \in 1..n => h[k + 1] = f[k + 1]}
  <2> HIDE DEF Is
  <2>6. 0 \in T
    <3>1. 1 \in 1..n
      BY <1>7
    <3>2. f[1] = e \o s[1] /\ s[1] \in A
      BY <1>1, <1>z, <1>5, <1>f, <3>1
    <3>3. f[1] = s[1]
      BY <1>e, <3>2
    <3>4. QED BY <2>5, <3>1, <3>3
  <2>7. ASSUME NEW k \in T PROVE k + 1 \in T
    <3>1. SUFFICES ASSUME k + 2 \in 1..n PROVE h[k + 2] = f[k + 2]
      BY <2>7
    <3>2. k \in Nat /\ h[k + 1] = f[k + 1]
      BY <2>7, <3>1
    <3>3. (k + 2) - 1 = k + 1 /\ k + 2 # 1
      BY <3>2
    <3>4. h[k + 2] = h[k + 1] \o s[k + 2]
      BY <2>5, <3>1, <3>3
    <3>5. f[k + 2] = f[k + 1] \o s[k + 2]
      BY <1>5, <3>1, <3>3
    <3>6. QED BY <3>2, <3>4, <3>5
  <2> HIDE DEF T
  <2>8. T = Nat
    BY <2>6, <2>7, AllNat DEF T
  <2>9. h[n] = f[n]
    <3>1. n - 1 \in T /\ (n - 1) + 1 = n /\ n \in 1..n
      BY <1>7, <2>8
    <3>2. QED BY <3>1 DEF T
  <2>10. QED BY <1>0, <1>5, <1>e, <1>f, <2>4, <2>9 DEF Parts
<1>8. QED BY <1>6, <1>7

\* FlattenSeq of one sequence more.
LEMMA FlattenAppend ==
  ASSUME NEW S, NEW s \in Seq(Seq(S)), NEW e \in Seq(S)
  PROVE  FlattenSeq(s) \in Seq(S) /\ FlattenSeq(Append(s, e)) = FlattenSeq(s) \o e
<1>0. PICK n \in Nat : n = Len(s)
  OBVIOUS
<1> DEFINE t == Append(s, e)
<1>1. /\ t \in Seq(Seq(S)) /\ Len(t) = n + 1 /\ t[n + 1] = e
      /\ \A k \in 1..n : t[k] = s[k]
  BY <1>0
<1> HIDE DEF t
<1>2. PICK f \in [0..n -> Seq(S)] : Parts(s, f) /\ FlattenSeq(s) = f[n]
  BY <1>0, FlattenParts
<1>3. PICK g \in [0..(n + 1) -> Seq(S)] : Parts(t, g) /\ FlattenSeq(t) = g[n + 1]
  BY <1>1, FlattenParts
<1> DEFINE T == {k \in Nat : k <= n => g[k] = f[k]}
<1>4. 0 \in T
  BY <1>2, <1>3 DEF Parts
<1>5. ASSUME NEW k \in T PROVE k + 1 \in T
  <2>1. SUFFICES ASSUME k + 1 <= n PROVE g[k + 1] = f[k + 1]
    BY <1>5
  <2>2. k \in Nat /\ g[k] = f[k] /\ k + 1 \in 1..n /\ k + 1 \in 1..(n + 1) /\ (k + 1) - 1 = k
    BY <1>0, <1>5, <2>1
  <2>3. f[k + 1] = f[k] \o s[k + 1]
    BY <1>0, <1>2, <2>2 DEF Parts
  <2>4. g[k + 1] = g[k] \o t[k + 1]
    BY <1>1, <1>3, <2>2 DEF Parts
  <2>5. QED BY <1>1, <2>2, <2>3, <2>4
<1> HIDE DEF T
<1>6. T = Nat
  BY <1>4, <1>5, AllNat DEF T
<1>7. g[n] = f[n]
  <2>1. n \in T
    BY <1>6
  <2>2. QED BY <2>1 DEF T
<1>8. n + 1 \in 1..(n + 1) /\ (n + 1) - 1 = n
  BY <1>0
<1>9. g[n + 1] = g[n] \o e
  BY <1>1, <1>3, <1>8 DEF Parts
<1>10. QED BY <1>0, <1>2, <1>3, <1>7, <1>9 DEF t

\* What is in one of the sequences is in what they make together.
LEMMA FlattenHolds ==
  ASSUME NEW S, NEW s \in Seq(Seq(S)), NEW i \in 1..Len(s), NEW k \in 1..Len(s[i])
  PROVE  s[i][k] \in ToSet(FlattenSeq(s))
<1>0. PICK n \in Nat : n = Len(s)
  OBVIOUS
<1>1. PICK f \in [0..n -> Seq(S)] : Parts(s, f) /\ FlattenSeq(s) = f[n]
  BY <1>0, FlattenParts
<1>2. \A a, b \in Seq(S) : ToSet(a) \subseteq ToSet(a \o b) /\ ToSet(b) \subseteq ToSet(a \o b)
  <2>1. SUFFICES ASSUME NEW a \in Seq(S), NEW b \in Seq(S)
                 PROVE  ToSet(a) \subseteq ToSet(a \o b) /\ ToSet(b) \subseteq ToSet(a \o b)
    OBVIOUS
  <2>2. \A j \in 1..Len(a) : (a \o b)[j] = a[j] /\ j \in 1..Len(a \o b)
    BY <2>1
  <2>3. \A j \in 1..Len(b) : (a \o b)[Len(a) + j] = b[j] /\ Len(a) + j \in 1..Len(a \o b)
    BY <2>1
  <2>4. DOMAIN a = 1..Len(a) /\ DOMAIN b = 1..Len(b) /\ DOMAIN (a \o b) = 1..Len(a \o b)
    OBVIOUS
  <2> DEFINE c == a \o b
  <2>5. /\ \A j \in DOMAIN a : c[j] = a[j] /\ j \in DOMAIN c
        /\ \A j \in DOMAIN b : c[Len(a) + j] = b[j] /\ Len(a) + j \in DOMAIN c
    BY <2>2, <2>3, <2>4
  <2> HIDE DEF c
  <2>6. ToSet(a) \subseteq ToSet(c) /\ ToSet(b) \subseteq ToSet(c)
    BY <2>5 DEF ToSet
  <2>7. QED BY <2>6 DEF c
<1>3. \A j \in 1..n : ToSet(f[j - 1]) \subseteq ToSet(f[j]) /\ ToSet(s[j]) \subseteq ToSet(f[j])
  <2>1. SUFFICES ASSUME NEW j \in 1..n
                 PROVE  ToSet(f[j - 1]) \subseteq ToSet(f[j]) /\ ToSet(s[j]) \subseteq ToSet(f[j])
    OBVIOUS
  <2>2. f[j] = f[j - 1] \o s[j] /\ f[j - 1] \in Seq(S) /\ s[j] \in Seq(S)
    <3>1. j - 1 \in 0..n /\ j \in 1..Len(s)
      BY <1>0
    <3>2. f[j - 1] \in Seq(S) /\ s[j] \in Seq(S)
      BY <3>1, ElementOfSeq
    <3>3. QED BY <1>1, <3>1, <3>2 DEF Parts
  <2>3. QED BY <1>2, <2>2
<1> DEFINE T == {j \in Nat : i + j <= n => ToSet(s[i]) \subseteq ToSet(f[i + j])}
<1>4. 0 \in T
  <2>1. i \in 1..n /\ i + 0 = i
    BY <1>0
  <2>2. QED BY <1>3, <2>1
<1>5. ASSUME NEW j \in T PROVE j + 1 \in T
  <2>1. SUFFICES ASSUME i + (j + 1) <= n PROVE ToSet(s[i]) \subseteq ToSet(f[i + (j + 1)])
    BY <1>5
  <2>2. j \in Nat /\ ToSet(s[i]) \subseteq ToSet(f[i + j])
    BY <1>0, <1>5, <2>1
  <2>3. i + (j + 1) \in 1..n /\ (i + (j + 1)) - 1 = i + j
    BY <1>0, <2>1, <2>2
  <2>4. QED BY <1>3, <2>2, <2>3
<1> HIDE DEF T
<1>6. T = Nat
  BY <1>4, <1>5, AllNat DEF T
<1>7. ToSet(s[i]) \subseteq ToSet(f[n])
  <2>1. n - i \in T /\ i + (n - i) = n
    BY <1>0, <1>6
  <2>2. QED BY <1>0, <2>1 DEF T
<1>8. s[i][k] \in ToSet(s[i])
  <2>1. s[i] \in Seq(S)
    BY <1>0
  <2>2. DOMAIN s[i] = 1..Len(s[i])
    BY <2>1
  <2>3. QED BY <2>2 DEF ToSet
<1>9. QED BY <1>1, <1>7, <1>8

-----------------------------------------------------------------------------
\* TrimTrailing takes the last blanks away, and only them.
LEMMA TrimFacts ==
  ASSUME NEW s \in Seq(STRING)
  PROVE  LET p == TrimTrailing(s) IN
           /\ \E n \in 0..Len(s) : p = SubSeq(s, 1, n)
           /\ Stripped(s, p)
           /\ \A n \in 0..Len(s) : Stripped(s, SubSeq(s, 1, n)) => SubSeq(s, 1, n) = p
<1> DEFINE K == {0} \cup {k \in DOMAIN s : s[k] \notin Blank}
           N == Max(K)
<1>1. Len(s) \in Nat /\ DOMAIN s = 1..Len(s)
  OBVIOUS
<1>2. K \in SUBSET (0..Len(s)) /\ K # {}
  BY <1>1
<1>3. N \in K /\ \A k \in K : k <= N
  <2> HIDE DEF K
  <2>1. QED BY <1>1, <1>2, MaxFacts
<1>4. /\ N \in 0..Len(s) /\ (N = 0 \/ s[N] \notin Blank)
      /\ \A k \in 1..Len(s) : k > N => s[k] \in Blank
  <2>1. \A k \in 1..Len(s) : s[k] \notin Blank => k \in K
    BY <1>1
  <2>2. N \in 0..Len(s) /\ (N = 0 \/ s[N] \notin Blank)
    BY <1>2, <1>3
  <2> HIDE DEF N, K
  <2>3. QED BY <1>1, <1>3, <2>1, <2>2
<1>5. TrimTrailing(s) = SubSeq(s, 1, N)
  BY DEF TrimTrailing
<1> HIDE DEF N, K
<1>6. ASSUME NEW n \in 0..Len(s)
      PROVE  /\ Len(SubSeq(s, 1, n)) = n /\ SubSeq(s, 1, n) \in Seq(STRING)
             /\ SubSeq(s, 1, n) = <<>> <=> n = 0
             /\ n # 0 => Last(SubSeq(s, 1, n)) = s[n]
             /\ IsPrefix(SubSeq(s, 1, n), s)
  <2> DEFINE p == SubSeq(s, 1, n)
  <2>1. Len(p) = n /\ p \in Seq(STRING) /\ \A k \in 1..n : p[k] = s[k]
    BY <1>1, <1>6
  <2>2. SubSeq(p, 1, n) = p
    BY <2>1, SubSeqFull
  <2>3. p = <<>> <=> n = 0
    BY <2>1, EmptySeq
  <2> HIDE DEF p
  <2>4. n # 0 => Last(p) = s[n]
    BY <2>1 DEF Last
  <2>5. IsPrefix(p, s)
    BY <1>1, <2>1, <2>2 DEF IsPrefix, p
  <2>6. QED BY <2>1, <2>3, <2>4, <2>5 DEF p
<1>7. ASSUME NEW n \in 0..Len(s)
      PROVE  Stripped(s, SubSeq(s, 1, n)) <=> n = N
  <2>1. Stripped(s, SubSeq(s, 1, n)) <=>
          (n = 0 \/ s[n] \notin Blank) /\ \A k \in 1..Len(s) : k > n => s[k] \in Blank
    <3> HIDE DEF Blank
    <3>1. Stripped(s, SubSeq(s, 1, n)) <=>
            /\ \A k \in DOMAIN s : k > n => s[k] \in Blank
            /\ n = 0 \/ s[n] \notin Blank
      <4>1. CASE n = 0
        BY <1>6, <4>1 DEF Stripped
      <4>2. CASE n # 0
        BY <1>6, <4>2 DEF Stripped
      <4>3. QED BY <4>1, <4>2
    <3>2. QED BY <1>1, <3>1
  <2>2. QED BY <1>1, <1>4, <2>1
<1>8. QED BY <1>4, <1>5, <1>7

\* A text without a NUL is read whole, however the reads divide it.
LEMMA ReadWhole ==
  ASSUME NEW r \in Seq(Seq(STRING)), "nul" \notin ToSet(FlattenSeq(r))
  PROVE  ActualOut(r) = FlattenSeq(r)
<1>1. ASSUME NEW i \in DOMAIN r
      PROVE  SubSeq(r[i], 1, FindFrom(r[i], "nul", 1) - 1) = r[i]
  <2>1. i \in 1..Len(r) /\ r[i] \in Seq(STRING)
    BY ElementOfSeq
  <2>2. \A k \in 1..Len(r[i]) : r[i][k] # "nul"
    BY <2>1, FlattenHolds
  <2>3. FindFrom(r[i], "nul", 1) = Len(r[i]) + 1
    <3> DEFINE t == r[i]
    <3> HIDE DEF t
    <3>1. t \in Seq(STRING) /\ \A k \in 1..Len(t) : t[k] # "nul"
      BY <2>1, <2>2 DEF t
    <3>2. FindFrom(t, "nul", 1) = Len(t) + 1
      BY <3>1 DEF FindFrom
    <3>3. QED BY <3>2 DEF t
  <2>4. Len(r[i]) \in Nat /\ FindFrom(r[i], "nul", 1) - 1 = Len(r[i])
    BY <2>1, <2>3
  <2>5. QED BY <2>1, <2>4, SubSeqFull
<1>2. [i \in DOMAIN r |-> SubSeq(r[i], 1, FindFrom(r[i], "nul", 1) - 1)] = r
  <2>1. r = [i \in DOMAIN r |-> r[i]]
    OBVIOUS
  <2>2. QED BY <1>1, <2>1
<1>3. QED BY <1>2 DEF ActualOut

-----------------------------------------------------------------------------
\* What has been called, and with what.
Called ==
  /\ of = "GetCookie" =>
       \E h \in Headers : given = <<h, <<"k">>>> /\ result = GetCookie(h, <<"k">>)
  /\ of = "Compare" =>
       \E r \in Runs, e \in Expecteds : given = <<r, e>> /\ result = Compare(r, e)
  /\ of = "MdToHtml" => \E d \in Documents : given = <<d>> /\ result = MdToHtml(d)
  /\ of = "DetailPage" =>
       \E p \in Problems, u \in UserNames : given = <<p, u>> /\ result = DetailPage(p, u)
  /\ of = "FormPage" =>
       \E p \in Problems, u \in UserNames : given = <<p, u>> /\ result = FormPage(p, u)
  /\ of = "CasesPage" =>
       \E p \in Problems, u \in UserNames : given = <<p, u>> /\ result = CasesPage(p, u)
  /\ of = "ListPage" =>
       \E t1, t2 \in {p.title : p \in Problems}, u \in UserNames :
         given = <<<<t1, t2>>, u>> /\ result = ListPage(<<t1, t2>>, u)

\* The result is always that of the call.
LEMMA CalledInvariant == Spec => []Called
<1>1. Init => Called
  BY DEF Init, Called
<1>2. ASSUME Called, [Next]_vars PROVE Called'
  <2>1. CASE FindCookie
    BY <2>1 DEF FindCookie, Call, Called
  <2>2. CASE CompareOutput
    BY <2>2 DEF CompareOutput, Call, Called
  <2>3. CASE ShowStatement
    BY <2>3 DEF ShowStatement, Call, Called
  <2>4. CASE ShowProblem
    BY <2>4 DEF ShowProblem, Call, Called
  <2>5. CASE ShowForm
    BY <2>5 DEF ShowForm, Call, Called
  <2>6. CASE ShowCases
    BY <2>6 DEF ShowCases, Call, Called
  <2>7. CASE ShowList
    BY <2>7 DEF ShowList, Call, Called
  <2>8. CASE Forget
    BY <2>8 DEF Forget, Called
  <2>9. CASE UNCHANGED vars
    BY <1>2, <2>9 DEF vars, Called
  <2>10. QED
    BY <1>2, <2>1, <2>2, <2>3, <2>4, <2>5, <2>6, <2>7, <2>8, <2>9 DEF Next
<1>3. QED BY <1>1, <1>2, PTL DEF Spec

\* An output of any length, read in any pieces, is accepted exactly when it is the
\* expected one before their last blanks, unless a NUL is in it (judge.cc 19-25,
\* 231-239, 261-268).
THEOREM OutputIsCompared == Spec => []ComparedWhole
<1>1. ASSUME Called PROVE ComparedWhole
  <2>1. SUFFICES ASSUME of = "Compare"
                 PROVE  LET whole == FlattenSeq(given[1])
                            same == \E n \in 0 .. Len(whole) :
                              LET p == SubSeq(whole, 1, n) IN
                                Stripped(whole, p) /\ Stripped(given[2], p)
                        IN "nul" \notin ToSet(whole) => (result = "AC" <=> same)
    BY DEF ComparedWhole
  <2>2. PICK r \in Runs, e \in Expecteds : given = <<r, e>> /\ result = Compare(r, e)
    BY <1>1, <2>1 DEF Called
  <2>3. r \in Seq(Seq(STRING)) /\ e \in Seq(STRING)
    BY TextsAssumption
  <2> DEFINE w == FlattenSeq(r)
  <2>4. w \in Seq(STRING)
    <3>1. \E x \in Seq(STRING) : TRUE
      BY EmptyFacts
    <3>2. QED BY <2>3, <3>1, FlattenAppend
  <2>5. SUFFICES ASSUME "nul" \notin ToSet(w)
                 PROVE  result = "AC" <=> \E n \in 0 .. Len(w) :
                          Stripped(w, SubSeq(w, 1, n)) /\ Stripped(e, SubSeq(w, 1, n))
    BY <2>2
  <2>6. result = "AC" <=> TrimTrailing(w) = TrimTrailing(e)
    BY <2>2, <2>3, <2>5, ReadWhole DEF Compare
  <2> HIDE DEF w
  <2>7. ASSUME TrimTrailing(w) = TrimTrailing(e)
        PROVE  \E n \in 0 .. Len(w) :
                 Stripped(w, SubSeq(w, 1, n)) /\ Stripped(e, SubSeq(w, 1, n))
    BY <2>3, <2>4, <2>7, TrimFacts
  <2>8. ASSUME NEW n \in 0 .. Len(w),
               Stripped(w, SubSeq(w, 1, n)), Stripped(e, SubSeq(w, 1, n))
        PROVE  TrimTrailing(w) = TrimTrailing(e)
    <3> DEFINE p == SubSeq(w, 1, n)
    <3>1. p = TrimTrailing(w)
      BY <2>4, <2>8, TrimFacts
    <3>2. p \in Seq(STRING) /\ Len(p) = n
      BY <2>4
    <3>3. p = SubSeq(e, 1, n) /\ n \in 0..Len(e)
      <4>1. Len(p) <= Len(e) /\ SubSeq(p, 1, n) = SubSeq(e, 1, n)
        BY <2>8, <3>2 DEF Stripped, IsPrefix
      <4> HIDE DEF p
      <4>2. SubSeq(p, 1, n) = p
        BY <3>2, SubSeqFull
      <4>3. QED BY <2>3, <3>2, <4>1, <4>2
    <3>4. p = TrimTrailing(e)
      BY <2>3, <2>8, <3>3, TrimFacts
    <3>5. QED BY <3>1, <3>4
  <2>9. QED BY <2>6, <2>7, <2>8
<1>2. QED BY <1>1, CalledInvariant, PTL

-----------------------------------------------------------------------------
\* get_cookie: where the name that begins at i or after blanks ends, and its value.
EqAt(h, i) == FindFrom(h, "=", NameStart(h, i))
EndAt(h, i) == FindFrom(h, "semi", EqAt(h, i) + 1)
NameAt(h, i) == SubSeq(h, NameStart(h, i), EqAt(h, i) - 1)
NoName(h, i) == i > Len(h) \/ EqAt(h, i) > Len(h)

\* Where the name of a part begins.
LEMMA StartFacts ==
  ASSUME NEW h \in Seq(STRING), NEW i \in Nat \ {0}
  PROVE  LET b == NameStart(h, i) IN
           /\ b \in 1..(Len(h) + 1)
           /\ b <= Len(h) => b >= i /\ h[b] # "sp"
           /\ \A k \in i..Len(h) : k < b => h[k] = "sp"
<1>0. PICK n \in Nat : n = Len(h)
  OBVIOUS
<1> DEFINE T == {k \in i .. n : h[k] # "sp"} \cup {n + 1}
<1>1. T \in SUBSET Nat /\ T # {}
  <2>1. \A k \in i..n : k \in Nat
    OBVIOUS
  <2>2. n + 1 \in Nat
    OBVIOUS
  <2>3. QED BY <2>1, <2>2
<1>2. Min(T) \in T /\ \A k \in T : Min(T) <= k
  <2> HIDE DEF T
  <2>1. QED BY <1>1, MinFacts
<1>3. NameStart(h, i) = Min(T)
  BY <1>0 DEF NameStart
<1>4. (\A k \in i..n : h[k] # "sp" => k \in T) /\ n + 1 \in T
  OBVIOUS
<1>5. /\ Min(T) \in 1..(n + 1) /\ (Min(T) <= n => Min(T) >= i /\ h[Min(T)] # "sp")
  <2>1. \A t \in T : (t \in i..n /\ h[t] # "sp") \/ t = n + 1
    OBVIOUS
  <2> HIDE DEF T
  <2>2. Min(T) \in T
    BY <1>2
  <2>3. Min(T) \in i..n \/ Min(T) = n + 1
    BY <2>1, <2>2
  <2>4. Min(T) \in Int
    BY <2>3
  <2>5. Min(T) <= n => Min(T) \in i..n /\ h[Min(T)] # "sp"
    BY <2>1, <2>2, <2>4
  <2>6. QED BY <2>3, <2>5
<1>6. \A k \in i..n : k < Min(T) => h[k] = "sp"
  <2> HIDE DEF T
  <2>1. SUFFICES ASSUME NEW k \in i..n, k < Min(T), h[k] # "sp" PROVE FALSE
    OBVIOUS
  <2>2. Min(T) <= k /\ Min(T) \in Int /\ k \in Int
    BY <1>2, <1>4, <1>5, <2>1
  <2>3. QED BY <2>1, <2>2
<1> HIDE DEF T
<1>7. QED BY <1>0, <1>3, <1>5, <1>6

\* The places of = and ; of a part that has a name.
LEMMA PlaceFacts ==
  ASSUME NEW h \in Seq(STRING), NEW i \in Nat \ {0}, ~NoName(h, i)
  PROVE  /\ EqAt(h, i) \in i..Len(h) /\ h[EqAt(h, i)] = "=" /\ NameStart(h, i) \in i..EqAt(h, i)
         /\ EndAt(h, i) \in (EqAt(h, i) + 1)..(Len(h) + 1)
         /\ EndAt(h, i) <= Len(h) => h[EndAt(h, i)] = "semi"
<1> DEFINE b == NameStart(h, i)
           q == EqAt(h, i)
           z == EndAt(h, i)
<1>1. b \in 1..(Len(h) + 1) /\ (b <= Len(h) => b >= i)
  BY StartFacts
<1>l. Len(h) \in Nat
  OBVIOUS
<1>2. q \in Nat \ {0} /\ (q <= Len(h) => q >= b /\ h[q] = "=")
  <2>1. b \in Nat \ {0}
    BY <1>1
  <2>2. QED BY <2>1, FindFacts DEF EqAt
<1>3. q <= Len(h) /\ i <= Len(h)
  BY <1>1, <1>2 DEF NoName
<1>4. /\ z \in Nat \ {0} /\ z <= Len(h) + 1
      /\ z <= Len(h) => z >= q + 1 /\ h[z] = "semi"
  <2>1. q + 1 \in Nat \ {0}
    BY <1>2
  <2>2. QED BY <2>1, FindFacts DEF EndAt
<1> HIDE DEF b, q, z
<1>5. q \in i..Len(h) /\ h[q] = "=" /\ b \in i..q
  BY <1>1, <1>2, <1>3, <1>l
<1>6. z \in (q + 1)..(Len(h) + 1) /\ (z <= Len(h) => h[z] = "semi")
  BY <1>4, <1>5, <1>l
<1>7. QED BY <1>5, <1>6 DEF b, q, z

\* The header is gone through from the left.
LEMMA CookieScan ==
  ASSUME NEW h \in Seq(STRING), NEW key
  PROVE  \E f :
           /\ GetCookie(h, key) = f[1]
           /\ \A i \in 1..(Len(h) + 2) :
                f[i] = IF NoName(h, i) THEN <<>>
                       ELSE IF NameAt(h, i) = key THEN SubSeq(h, EqAt(h, i) + 1, EndAt(h, i) - 1)
                       ELSE f[EndAt(h, i) + 1]
<1>0. PICK m \in Nat : m = Len(h) + 2
  OBVIOUS
<1> DEFINE value == [i \in 1..m |->
              IF NoName(h, i) \/ NameAt(h, i) # key THEN <<>>
              ELSE SubSeq(h, EqAt(h, i) + 1, EndAt(h, i) - 1)]
           next == [i \in 1..m |->
              IF NoName(h, i) \/ NameAt(h, i) = key THEN 0 ELSE EndAt(h, i) + 1]
<1>1. \A i \in 1..m : ~NoName(h, i) =>
        /\ EndAt(h, i) + 1 \in (i + 1)..m /\ EndAt(h, i) + 1 # 0
        /\ SubSeq(h, EqAt(h, i) + 1, EndAt(h, i) - 1) \in Seq(STRING)
  <2>1. SUFFICES ASSUME NEW i \in 1..m, ~NoName(h, i)
                 PROVE  /\ EndAt(h, i) + 1 \in (i + 1)..m
                        /\ SubSeq(h, EqAt(h, i) + 1, EndAt(h, i) - 1) \in Seq(STRING)
    BY <1>0
  <2>2. i \in Nat \ {0}
    OBVIOUS
  <2>3. EqAt(h, i) \in i..Len(h) /\ EndAt(h, i) \in (EqAt(h, i) + 1)..(Len(h) + 1)
    BY <2>1, <2>2, PlaceFacts
  <2>4. \A k \in (EqAt(h, i) + 1)..(EndAt(h, i) - 1) : h[k] \in STRING
    BY <2>3
  <2>5. QED BY <1>0, <2>3, <2>4, SubSeqProperties
<1>2. value \in [1..m -> Seq(STRING)]
  BY <1>1, EmptyFacts
<1>3. next \in [1..m -> Nat] /\ \A i \in 1..m : next[i] = 0 \/ next[i] \in (i + 1)..m
  BY <1>1
<1>4. PICK f : Scans(f, STRING, m, value, next)
  <2> HIDE DEF value, next
  <2>1. QED BY <1>2, <1>3, ScanExists
<1>5. f \in [1..m -> Seq(STRING)]
  BY <1>4 DEF Scans
<1> DEFINE Body(g, i) == IF NoName(h, i) THEN <<>>
                         ELSE IF NameAt(h, i) = key
                                THEN SubSeq(h, EqAt(h, i) + 1, EndAt(h, i) - 1)
                         ELSE g[EndAt(h, i) + 1]
           Is(g) == g = [i \in 1..m |-> Body(g, i)]
           F == CHOOSE g : Is(g)
<1>6. \A i \in 1..m : f[i] = Body(f, i)
  <2>1. SUFFICES ASSUME NEW i \in 1..m PROVE f[i] = Body(f, i)
    OBVIOUS
  <2>2. f[i] = IF next[i] = 0 THEN value[i] ELSE value[i] \o f[next[i]]
    BY <1>4 DEF Scans
  <2>3. CASE NoName(h, i) \/ NameAt(h, i) = key
    BY <2>2, <2>3
  <2>4. CASE ~NoName(h, i) /\ NameAt(h, i) # key
    <3>1. next[i] = EndAt(h, i) + 1 /\ next[i] # 0 /\ next[i] \in 1..m /\ value[i] = <<>>
      BY <1>1, <2>4
    <3>2. f[next[i]] \in Seq(STRING)
      BY <1>5, <3>1
    <3>3. <<>> \o f[next[i]] = f[next[i]]
      BY <3>2, ConcatEmptySeq
    <3> HIDE DEF next, value
    <3>4. QED BY <2>2, <2>4, <3>1, <3>3
  <2>5. QED BY <2>3, <2>4
<1>7. Is(f)
  <2> HIDE DEF Body, value, next
  <2>1. QED BY <1>5, <1>6
<1>8. Is(F)
  <2> HIDE DEF Is
  <2>1. QED BY <1>7
<1>9. GetCookie(h, key) = F[1]
  BY <1>0 DEF GetCookie, EqAt, EndAt, NameAt, NoName
<1>10. \A i \in 1..m : F[i] = Body(F, i)
  <2> HIDE DEF Body, F
  <2>1. QED BY <1>8
<1> HIDE DEF F
<1>11. QED BY <1>0, <1>9, <1>10

\* The place that find returns, from what is there and not before.
LEMMA FindIs ==
  ASSUME NEW S, NEW s \in Seq(S), NEW c, NEW i \in Nat \ {0}, NEW n \in i..(Len(s) + 1),
         \A k \in i..(n - 1) : s[k] # c, n <= Len(s) => s[n] = c
  PROVE  FindFrom(s, c, i) = n
<1> DEFINE f == FindFrom(s, c, i)
<1>1. /\ f \in Nat \ {0} /\ f <= Len(s) + 1
      /\ f <= Len(s) => f >= i /\ s[f] = c
      /\ \A k \in i..Len(s) : k < f => s[k] # c
  BY FindFacts
<1>2. Len(s) \in Nat
  OBVIOUS
<1> HIDE DEF f
<1>3. ~(f < n)
  BY <1>1, <1>2
<1>4. ~(f > n)
  BY <1>1, <1>2
<1>5. QED BY <1>1, <1>3, <1>4 DEF f

\* A part of a part of a sequence.
LEMMA SubSubSeq ==
  ASSUME NEW S, NEW s \in Seq(S), NEW i \in 1..(Len(s) + 1), NEW e \in i..(Len(s) + 1),
         NEW a \in 1..(e - i + 1), NEW b \in (a - 1)..(e - i)
  PROVE  SubSeq(SubSeq(s, i, e - 1), a, b) = SubSeq(s, i + a - 1, i + b - 1)
<1> DEFINE p == SubSeq(s, i, e - 1)
           l == SubSeq(p, a, b)
           r == SubSeq(s, i + a - 1, i + b - 1)
<1>1. p \in Seq(S) /\ Len(p) = e - i /\ \A k \in 1..(e - i) : p[k] = s[i + k - 1]
  <2>1. \A k \in i..(e - 1) : s[k] \in S
    OBVIOUS
  <2>2. QED BY <2>1, SubSeqProperties
<1>2. l \in Seq(S) /\ Len(l) = b - a + 1 /\ \A k \in 1..(b - a + 1) : l[k] = p[a + k - 1]
  <2> HIDE DEF p
  <2>1. \A k \in a..b : p[k] \in S
    BY <1>1
  <2>2. QED BY <2>1, SubSeqProperties
<1>3. r \in Seq(S) /\ Len(r) = b - a + 1 /\ \A k \in 1..(b - a + 1) : r[k] = s[i + a - 1 + k - 1]
  <2>1. \A k \in (i + a - 1)..(i + b - 1) : s[k] \in S
    OBVIOUS
  <2>2. i + a - 1 \in Int /\ i + b - 1 \in Int
    OBVIOUS
  <2>3. /\ r \in Seq(S)
        /\ Len(r) = IF i + a - 1 <= i + b - 1 THEN (i + b - 1) - (i + a - 1) + 1 ELSE 0
        /\ \A k \in 1..((i + b - 1) - (i + a - 1) + 1) : r[k] = s[(i + a - 1) + k - 1]
    BY <2>1, <2>2, SubSeqProperties
  <2>4. (i + b - 1) - (i + a - 1) + 1 = b - a + 1
    OBVIOUS
  <2>5. Len(r) = b - a + 1
    BY <2>3
  <2>6. QED BY <2>3, <2>4, <2>5
<1>4. \A k \in 1..(b - a + 1) : l[k] = r[k]
  <2>1. SUFFICES ASSUME NEW k \in 1..(b - a + 1) PROVE l[k] = r[k]
    OBVIOUS
  <2>2. a + k - 1 \in 1..(e - i) /\ i + (a + k - 1) - 1 = i + a - 1 + k - 1
    OBVIOUS
  <2> HIDE DEF l, r, p
  <2>3. QED BY <1>1, <1>2, <1>3, <2>2
<1> HIDE DEF l, r
<1>5. l = r
  BY <1>2, <1>3, <1>4, SeqEqual
<1>6. QED BY <1>5 DEF l, r

-----------------------------------------------------------------------------
\* A part of the header, and what get_cookie makes of it.
LEMMA PartFacts ==
  ASSUME NEW h \in Seq(STRING), NEW i \in Starts(h)
  PROVE  LET e == FindFrom(h, "semi", i)
             p == Part(h, i)
         IN /\ i \in 1..(Len(h) + 1) /\ e \in i..(Len(h) + 1)
            /\ \A k \in i..(e - 1) : h[k] # "semi"
            /\ e <= Len(h) => h[e] = "semi" /\ e + 1 \in Starts(h)
            /\ p \in Seq(STRING) /\ Len(p) = e - i /\ \A k \in 1..(e - i) : p[k] = h[i + k - 1]
            /\ \A j \in Starts(h) : j > i => e <= Len(h) /\ j >= e + 1
<1> DEFINE e == FindFrom(h, "semi", i)
           p == Part(h, i)
<1>0. Len(h) \in Nat /\ DOMAIN h = 1..Len(h)
  OBVIOUS
<1>1. \A j \in Starts(h) : j = 1 \/ (j - 1 \in 1..Len(h) /\ h[j - 1] = "semi" /\ j \in Int)
  BY <1>0 DEF Starts
<1>2. i \in 1..(Len(h) + 1)
  BY <1>0, <1>1
<1>3. /\ e \in Nat \ {0} /\ e <= Len(h) + 1
      /\ e <= Len(h) => e >= i /\ h[e] = "semi"
      /\ \A k \in i..Len(h) : k < e => h[k] # "semi"
  BY <1>2, FindFacts
<1>4. p = SubSeq(h, i, e - 1)
  BY DEF Part
<1> HIDE DEF e, p
<1>5. e \in i..(Len(h) + 1)
  BY <1>0, <1>2, <1>3
<1>6. \A k \in i..(e - 1) : h[k] # "semi"
  BY <1>0, <1>2, <1>3, <1>5
<1>7. e <= Len(h) => h[e] = "semi" /\ e + 1 \in Starts(h)
  <2>1. SUFFICES ASSUME e <= Len(h) PROVE h[e] = "semi" /\ e + 1 \in Starts(h)
    OBVIOUS
  <2>2. e \in DOMAIN h /\ h[e] = "semi"
    BY <1>0, <1>3, <2>1
  <2>3. QED BY <2>2 DEF Starts
<1>8. p \in Seq(STRING) /\ Len(p) = e - i /\ \A k \in 1..(e - i) : p[k] = h[i + k - 1]
  <2>1. \A k \in i..(e - 1) : h[k] \in STRING
    BY <1>0, <1>2, <1>5
  <2>2. QED BY <1>0, <1>2, <1>4, <1>5, <2>1, SubSeqProperties
<1>9. ASSUME NEW j \in Starts(h), j > i PROVE e <= Len(h) /\ j >= e + 1
  <2>1. j - 1 \in 1..Len(h) /\ h[j - 1] = "semi" /\ j \in Int
    BY <1>1, <1>2, <1>9
  <2>2. j - 1 \in i..Len(h)
    BY <1>2, <1>9, <2>1
  <2>3. ~(j - 1 < e)
    BY <1>3, <2>1, <2>2
  <2>4. QED BY <1>0, <1>5, <2>1, <2>3
<1>10. QED BY <1>2, <1>5, <1>6, <1>7, <1>8, <1>9 DEF e, p

\* Of a part with "=" it takes the name and the value.
LEMMA NamedFacts ==
  ASSUME NEW h \in Seq(STRING), NEW i \in Starts(h), Named(h, i)
  PROVE  /\ ~NoName(h, i)
         /\ NameAt(h, i) = NameOf(h, i)
         /\ SubSeq(h, EqAt(h, i) + 1, EndAt(h, i) - 1) = ValueOf(h, i)
         /\ EndAt(h, i) = FindFrom(h, "semi", i)
<1> DEFINE e == FindFrom(h, "semi", i)
           p == Part(h, i)
           x == FindFrom(p, "=", 1)
           q == i + x - 1
           b == NameStart(h, i)
<1>0. Len(h) \in Nat
  OBVIOUS
<1>1. /\ i \in 1..(Len(h) + 1) /\ e \in i..(Len(h) + 1)
      /\ \A k \in i..(e - 1) : h[k] # "semi"
      /\ e <= Len(h) => h[e] = "semi"
      /\ p \in Seq(STRING) /\ Len(p) = e - i /\ \A k \in 1..(e - i) : p[k] = h[i + k - 1]
  BY PartFacts
<1>p. p = SubSeq(h, i, e - 1)
  BY DEF Part
<1> HIDE DEF e, p
<1>2. x \in 1..(e - i) /\ p[x] = "=" /\ \A k \in 1..(x - 1) : p[k] # "="
  <2>1. /\ x \in Nat \ {0} /\ (x <= Len(p) => p[x] = "=")
        /\ \A k \in 1..Len(p) : k < x => p[k] # "="
    BY <1>1, FindFacts
  <2>2. x <= Len(p)
    BY DEF Named, p
  <2> HIDE DEF x
  <2>3. QED BY <1>1, <2>1, <2>2
<1> HIDE DEF x
<1>3. q \in i..(e - 1) /\ h[q] = "=" /\ \A k \in i..(q - 1) : h[k] # "="
  <2>1. q \in i..(e - 1) /\ h[q] = "="
    BY <1>0, <1>1, <1>2
  <2>2. ASSUME NEW k \in i..(q - 1) PROVE h[k] # "="
    <3>1. k - i + 1 \in 1..(x - 1) /\ k - i + 1 \in 1..(e - i) /\ i + (k - i + 1) - 1 = k
      BY <1>0, <1>1, <1>2
    <3>2. QED BY <1>1, <1>2, <3>1
  <2>3. QED BY <2>1, <2>2
<1>4. /\ b \in 1..(Len(h) + 1)
      /\ b <= Len(h) => b >= i /\ h[b] # "sp"
      /\ \A k \in i..Len(h) : k < b => h[k] = "sp"
  BY <1>1, StartFacts
<1>5. x = q - i + 1 /\ q \in Int
  BY <1>1, <1>2
<1> HIDE DEF q, b
<1>6. b \in i..q
  <2>1. ~(b > q)
    BY SMTT(30), <1>0, <1>1, <1>3, <1>4
  <2>2. QED BY <1>0, <1>1, <1>3, <1>4, <2>1
<1>7. EqAt(h, i) = q
  <2>1. FindFrom(h, "=", b) = q
    <3>1. b \in Nat \ {0} /\ q \in b..(Len(h) + 1) /\ \A k \in b..(q - 1) : h[k] # "="
      BY <1>0, <1>1, <1>3, <1>6
    <3>2. QED BY <1>3, <3>1, FindIs
  <2>2. QED BY <2>1 DEF EqAt, b
<1>8. EndAt(h, i) = e
  <2>1. FindFrom(h, "semi", q + 1) = e
    <3>1. /\ q + 1 \in Nat \ {0} /\ e \in (q + 1)..(Len(h) + 1)
          /\ \A k \in (q + 1)..(e - 1) : h[k] # "semi"
      BY <1>0, <1>1, <1>3
    <3>2. QED BY <1>1, <3>1, FindIs
  <2>2. QED BY <1>7, <2>1 DEF EndAt
<1>9. ~NoName(h, i)
  BY <1>0, <1>1, <1>3, <1>7 DEF NoName
<1>10. SubSeq(h, q + 1, e - 1) = ValueOf(h, i)
  <2>1. SubSeq(p, x + 1, e - i) = SubSeq(h, i + (x + 1) - 1, i + (e - i) - 1)
    <3>1. PICK a, c : /\ a \in 1..(e - i + 1) /\ c \in (a - 1)..(e - i)
                      /\ a = x + 1 /\ c = e - i
      BY SMTT(30), <1>0, <1>1, <1>2
    <3>2. i \in 1..(Len(h) + 1) /\ e \in i..(Len(h) + 1)
      BY <1>1
    <3>3. a \in 1..(e - i + 1) /\ c \in (a - 1)..(e - i)
      BY <3>1
    <3>4. SubSeq(SubSeq(h, i, e - 1), a, c) = SubSeq(h, i + a - 1, i + c - 1)
      BY <3>2, <3>3, SubSubSeq
    <3>5. QED BY <1>p, <3>1, <3>4
  <2>2. i + (x + 1) - 1 = q + 1 /\ i + (e - i) - 1 = e - 1
    BY <1>1, <1>5
  <2>3. ValueOf(h, i) = SubSeq(p, x + 1, e - i)
    BY <1>1 DEF ValueOf, x, p
  <2>4. QED BY <2>1, <2>2, <2>3
<1>11. SubSeq(h, b, q - 1) = NameOf(h, i)
  <2> DEFINE T == {n \in 0 .. Len(p) : \A k \in 1 .. n : p[k] = "sp"}
  <2>0. Len(p) \in Nat
    BY <1>1
  <2>1. b - i \in T
    <3>1. b - i \in 0..Len(p)
      BY <1>0, <1>1, <1>3, <1>6
    <3>2. \A k \in 1..(b - i) : p[k] = "sp"
      <4>1. SUFFICES ASSUME NEW k \in 1..(b - i) PROVE p[k] = "sp"
        OBVIOUS
      <4>2. k \in 1..(e - i) /\ i + k - 1 \in i..Len(h) /\ i + k - 1 < b
        BY <1>0, <1>1, <1>3, <1>6
      <4>3. QED BY <1>1, <1>4, <4>2
    <3>3. QED BY <3>1, <3>2
  <2>2. \A n \in T : n <= b - i
    <3>0. b - i \in Int /\ \A n \in T : n \in Int
      BY <1>1, <1>6
    <3>1. SUFFICES ASSUME NEW n \in T, n > b - i PROVE FALSE
      <4> HIDE DEF T
      <4>1. QED BY <3>0
    <3>2. b - i + 1 \in 1..n /\ b - i + 1 \in 1..(e - i)
      BY <1>1, <1>6, <3>1
    <3>3. p[b - i + 1] = "sp" /\ i + (b - i + 1) - 1 = b
      BY <1>1, <1>6, <3>1, <3>2
    <3>4. h[b] = "sp"
      BY <1>1, <3>2, <3>3
    <3>5. QED BY <1>0, <1>1, <1>3, <1>4, <1>6, <3>4
  <2>3. Max(T) = b - i
    <3>1. T \in SUBSET (0..Len(p)) /\ T # {}
      BY <2>1
    <3> HIDE DEF T
    <3>2. Max(T) \in T /\ \A k \in T : k <= Max(T)
      BY <2>0, <3>1, MaxFacts
    <3>3. b - i \in Int /\ Max(T) \in Int
      <4>1. b - i \in Int
        BY <1>1, <1>6
      <4>2. Max(T) \in 0..Len(p)
        BY <3>1, <3>2
      <4>3. QED BY <2>0, <4>1, <4>2
    <3>4. QED BY <2>1, <2>2, <3>2, <3>3
  <2>4. NameOf(h, i) = SubSeq(p, Max(T) + 1, x - 1)
    BY DEF NameOf, p, x
  <2> HIDE DEF T
  <2>5. SubSeq(p, (b - i) + 1, x - 1) = SubSeq(h, i + ((b - i) + 1) - 1, i + (x - 1) - 1)
    <3>1. (b - i) + 1 \in 1..(e - i + 1) /\ x - 1 \in (((b - i) + 1) - 1)..(e - i)
      BY <1>0, <1>1, <1>3, <1>5, <1>6
    <3>2. QED BY ZenonT(60), <1>1, <1>p, <3>1, SubSubSeq
  <2>6. i + ((b - i) + 1) - 1 = b /\ i + (x - 1) - 1 = q - 1
    BY <1>1, <1>5, <1>6
  <2>7. QED BY <2>3, <2>4, <2>5, <2>6
<1>12. QED BY <1>7, <1>8, <1>9, <1>10, <1>11 DEF NameAt, b, e

\* A part without "=" has no name that is "k".
LEMMA UnnamedFacts ==
  ASSUME NEW h \in Seq(STRING), NEW i \in Starts(h), ~Named(h, i), ~NoName(h, i)
  PROVE  NameAt(h, i) # <<"k">>
<1> DEFINE e == FindFrom(h, "semi", i)
           p == Part(h, i)
           x == FindFrom(p, "=", 1)
           q == EqAt(h, i)
           b == NameStart(h, i)
<1>0. Len(h) \in Nat
  OBVIOUS
<1>1. /\ i \in 1..(Len(h) + 1) /\ e \in i..(Len(h) + 1)
      /\ e <= Len(h) => h[e] = "semi"
      /\ p \in Seq(STRING) /\ Len(p) = e - i /\ \A k \in 1..(e - i) : p[k] = h[i + k - 1]
  BY PartFacts
<1>2. q \in i..Len(h) /\ h[q] = "=" /\ b \in i..q
  BY <1>1, PlaceFacts
<1>3. b <= Len(h) => h[b] # "sp" /\ \A k \in i..Len(h) : k < b => h[k] = "sp"
  BY <1>1, StartFacts
<1> HIDE DEF e, p, q, b
<1>4. \A k \in 1..(e - i) : p[k] # "="
  <2>1. x \in Nat \ {0} /\ \A k \in 1..Len(p) : k < x => p[k] # "="
    BY <1>1, FindFacts
  <2>2. ~(x <= Len(p))
    BY DEF Named, p
  <2> HIDE DEF x
  <2>3. QED BY <1>1, <2>1, <2>2
<1>5. ~(q < e)
  <2>1. SUFFICES ASSUME q < e PROVE FALSE
    OBVIOUS
  <2>2. q - i + 1 \in 1..(e - i) /\ i + (q - i + 1) - 1 = q
    BY <1>0, <1>1, <1>2, <2>1
  <2>3. QED BY <1>1, <1>2, <1>4, <2>2
<1>6. e \in i..Len(h) /\ h[e] = "semi" /\ e < q
  BY <1>0, <1>1, <1>2, <1>5
<1>7. ~(b > e)
  BY <1>0, <1>1, <1>2, <1>3, <1>6
<1>8. e \in b..(q - 1)
  BY <1>0, <1>1, <1>2, <1>6, <1>7
<1>9. SubSeq(h, b, q - 1) # <<"k">>
  <2>1. \A k \in b..(q - 1) : h[k] \in STRING
    BY <1>0, <1>1, <1>2
  <2>2. b \in Int /\ q - 1 \in Int /\ b <= q - 1
    BY <1>1, <1>2, <1>8
  <2>3. /\ Len(SubSeq(h, b, q - 1)) = (q - 1) - b + 1
        /\ \A k \in 1..((q - 1) - b + 1) : SubSeq(h, b, q - 1)[k] = h[b + k - 1]
    BY <2>1, <2>2, SubSeqProperties
  <2>4. SUFFICES ASSUME SubSeq(h, b, q - 1) = <<"k">> PROVE FALSE
    OBVIOUS
  <2>5. (q - 1) - b + 1 = 1 /\ SubSeq(h, b, q - 1)[1] = "k"
    <3>1. Len(<<"k">>) = 1 /\ <<"k">>[1] = "k"
      OBVIOUS
    <3>2. Len(SubSeq(h, b, q - 1)) = 1 /\ SubSeq(h, b, q - 1)[1] = "k"
      BY <2>4, <3>1
    <3>3. QED BY <2>3, <3>2
  <2>6. e = b /\ 1 \in 1..((q - 1) - b + 1) /\ b + 1 - 1 = b
    BY <1>8, <2>2, <2>5
  <2>7. h[e] = "k"
    BY <2>3, <2>5, <2>6
  <2>8. QED BY <1>6, <2>7
<1>10. QED BY <1>9 DEF NameAt, q, b

\* What get_cookie finds from the beginning of a part on.
LEMMA FoundFrom ==
  ASSUME NEW h \in Seq(STRING), NEW key, key = <<"k">>, NEW f,
         \A i \in 1..(Len(h) + 2) :
           f[i] = IF NoName(h, i) THEN <<>>
                  ELSE IF NameAt(h, i) = key THEN SubSeq(h, EqAt(h, i) + 1, EndAt(h, i) - 1)
                  ELSE f[EndAt(h, i) + 1],
         NEW i \in Starts(h)
  PROVE  /\ i \in Givers(h, key) => f[i] = ValueOf(h, i)
         /\ i \in Givers(h, key) \/ f[i] = <<>>
              \/ /\ EndAt(h, i) + 1 \in Starts(h) /\ EndAt(h, i) + 1 > i
                 /\ f[i] = f[EndAt(h, i) + 1]
         /\ Named(h, i) /\ i \notin Givers(h, key) => f[i] = f[EndAt(h, i) + 1]
<1> DEFINE z == EndAt(h, i)
<1>0. Len(h) \in Nat /\ DOMAIN h = 1..Len(h)
  OBVIOUS
<1>1. i \in 1..(Len(h) + 1)
  BY PartFacts
<1>2. f[i] = IF NoName(h, i) THEN <<>>
             ELSE IF NameAt(h, i) = key THEN SubSeq(h, EqAt(h, i) + 1, z - 1)
             ELSE f[z + 1]
  BY <1>0, <1>1
<1>3. i \in Givers(h, key) <=> Named(h, i) /\ NameOf(h, i) = key
  BY DEF Givers
<1>4. Named(h, i) => /\ ~NoName(h, i) /\ NameAt(h, i) = NameOf(h, i)
                     /\ SubSeq(h, EqAt(h, i) + 1, z - 1) = ValueOf(h, i)
  BY NamedFacts
<1>5. ~Named(h, i) /\ ~NoName(h, i) => NameAt(h, i) # key
  BY UnnamedFacts
<1>6. f[Len(h) + 2] = <<>>
  <2>1. NoName(h, Len(h) + 2)
    BY <1>0 DEF NoName
  <2>2. Len(h) + 2 \in 1..(Len(h) + 2)
    BY <1>0
  <2>3. QED BY <2>1, <2>2
<1>7. ~NoName(h, i) => (z + 1 \in Starts(h) \/ z + 1 = Len(h) + 2) /\ z + 1 > i
  <2>1. SUFFICES ASSUME ~NoName(h, i)
                 PROVE  (z + 1 \in Starts(h) \/ z + 1 = Len(h) + 2) /\ z + 1 > i
    OBVIOUS
  <2>2. /\ EqAt(h, i) \in i..Len(h) /\ z \in (EqAt(h, i) + 1)..(Len(h) + 1)
        /\ z <= Len(h) => h[z] = "semi"
    BY <1>1, <2>1, PlaceFacts
  <2> HIDE DEF z
  <2>3. z \in i..(Len(h) + 1) /\ z + 1 > i
    BY <1>0, <1>1, <2>2
  <2>4. CASE z <= Len(h)
    <3>1. z \in {k \in DOMAIN h : h[k] = "semi"}
      BY <1>0, <1>1, <2>2, <2>3, <2>4
    <3>2. QED BY <2>3, <3>1 DEF Starts
  <2>5. CASE ~(z <= Len(h))
    BY <1>0, <1>1, <2>3, <2>5
  <2>6. QED BY <2>4, <2>5
<1> HIDE DEF z
<1>8. QED BY <1>2, <1>3, <1>4, <1>5, <1>6, <1>7 DEF z

\* get_cookie's answer is the cookie's, or none, and never another's (auth.cc 66-81).
THEOREM CookieIsRight == Spec => []CookieRight
<1>1. ASSUME Called PROVE CookieRight
  <2>1. SUFFICES ASSUME of = "GetCookie"
                 PROVE  LET h == given[1]  key == given[2]  givers == Givers(h, key) IN
                          /\ result = <<>> \/ \E i \in givers : result = ValueOf(h, i)
                          /\ \A i \in givers :
                               (\A j \in Starts(h) :
                                  j <= i => Named(h, j) /\ (j < i => j \notin givers))
                                 => result = ValueOf(h, i)
    BY DEF CookieRight
  <2>2. PICK h \in Headers : given = <<h, <<"k">>>> /\ result = GetCookie(h, <<"k">>)
    BY <1>1, <2>1 DEF Called
  <2>3. h \in Seq(STRING)
    BY TextsAssumption
  <2>4. PICK n \in Nat : n = Len(h)
    BY <2>3
  <2>5. PICK key : key = <<"k">>
    OBVIOUS
  <2>6. PICK f : /\ GetCookie(h, key) = f[1]
                 /\ \A i \in 1..(Len(h) + 2) :
                      f[i] = IF NoName(h, i) THEN <<>>
                             ELSE IF NameAt(h, i) = key
                                    THEN SubSeq(h, EqAt(h, i) + 1, EndAt(h, i) - 1)
                             ELSE f[EndAt(h, i) + 1]
    BY <2>3, CookieScan
  <2> DEFINE G == Givers(h, key)
             Good(i) == f[i] = <<>> \/ \E j \in G : f[i] = ValueOf(h, j)
             Alone(i, j) == \A k \in Starts(h) :
                              i <= k /\ k <= j => Named(h, k) /\ (k < j => k \notin G)
  <2>7. \A i \in Starts(h) :
          /\ i \in G => f[i] = ValueOf(h, i)
          /\ i \in G \/ f[i] = <<>>
               \/ /\ EndAt(h, i) + 1 \in Starts(h) /\ EndAt(h, i) + 1 > i
                  /\ f[i] = f[EndAt(h, i) + 1]
          /\ Named(h, i) /\ i \notin G => f[i] = f[EndAt(h, i) + 1]
    BY <2>3, <2>5, <2>6, FoundFrom
  <2>8. \A i \in Starts(h) : i \in 1..(n + 1)
    BY <2>3, <2>4, PartFacts
  <2>9. 1 \in Starts(h) /\ \A i \in G : i \in Starts(h)
    BY DEF Starts, Givers
  <2> HIDE DEF G
  <2>10. \A i \in Starts(h) : Good(i)
    <3> DEFINE T == {i \in Starts(h) : ~Good(i)}
    <3>1. T \in SUBSET (0..(n + 1))
      BY <2>8
    <3>2. SUFFICES ASSUME T # {} PROVE FALSE
      OBVIOUS
    <3>3. PICK i \in T : \A k \in T : k <= i
      <4> HIDE DEF T
      <4>0. n + 1 \in Nat
        BY <2>4
      <4>1. QED BY <3>1, <3>2, <4>0, GreatestNat
    <3>4. i \in Starts(h) /\ ~Good(i)
      BY <3>3
    <3>5. i \notin G /\ f[i] # <<>>
      BY <2>7, <3>4
    <3>6. /\ EndAt(h, i) + 1 \in Starts(h) /\ EndAt(h, i) + 1 > i
          /\ f[i] = f[EndAt(h, i) + 1]
      BY <2>7, <3>4, <3>5
    <3>7. EndAt(h, i) + 1 \notin T
      <4> HIDE DEF T
      <4>1. i \in Int /\ EndAt(h, i) + 1 \in Int
        BY <2>8, <3>4, <3>6
      <4>2. QED BY <3>3, <3>6, <4>1
    <3>8. Good(EndAt(h, i) + 1)
      <4> HIDE DEF Good
      <4>1. QED BY <3>6, <3>7
    <3>9. QED BY <3>4, <3>6, <3>8
  <2>11. ASSUME NEW j \in G PROVE \A i \in Starts(h) : i <= j /\ Alone(i, j) => f[i] = ValueOf(h, j)
    <3> DEFINE T == {i \in Starts(h) : i <= j /\ Alone(i, j) /\ f[i] # ValueOf(h, j)}
    <3>1. T \in SUBSET (0..(n + 1))
      BY <2>8
    <3>2. SUFFICES ASSUME T # {} PROVE FALSE
      OBVIOUS
    <3>3. PICK i \in T : \A k \in T : k <= i
      <4> HIDE DEF T
      <4>0. n + 1 \in Nat
        BY <2>4
      <4>1. QED BY <3>1, <3>2, <4>0, GreatestNat
    <3>4. i \in Starts(h) /\ i <= j /\ Alone(i, j) /\ f[i] # ValueOf(h, j)
      BY <3>3
    <3>5. i \in 1..(n + 1) /\ j \in 1..(n + 1) /\ j \in Starts(h)
      BY <2>8, <2>9, <2>11, <3>4
    <3>6. i < j
      BY <2>7, <2>11, <3>4, <3>5
    <3>7. Named(h, i) /\ i \notin G
      BY <3>4, <3>5, <3>6
    <3>8. EndAt(h, i) = FindFrom(h, "semi", i)
      BY <2>3, <3>4, <3>7, NamedFacts
    <3>9. EndAt(h, i) + 1 \in Starts(h) /\ i < EndAt(h, i) + 1 /\ EndAt(h, i) + 1 <= j
      <4>1. /\ FindFrom(h, "semi", i) \in i..(Len(h) + 1)
            /\ FindFrom(h, "semi", i) <= Len(h) => FindFrom(h, "semi", i) + 1 \in Starts(h)
            /\ \A k \in Starts(h) : k > i =>
                 FindFrom(h, "semi", i) <= Len(h) /\ k >= FindFrom(h, "semi", i) + 1
        BY <2>3, <3>4, PartFacts
      <4>2. QED BY <2>4, <3>5, <3>6, <3>8, <4>1
    <3>10. f[i] = f[EndAt(h, i) + 1]
      BY <2>7, <3>4, <3>7
    <3>z. PICK z \in Starts(h) : z = EndAt(h, i) + 1
      BY <3>9
    <3>11. z \in 1..(n + 1)
      BY <2>8
    <3>12. Alone(z, j)
      <4>1. \A k \in Starts(h) : k \in 1..(n + 1) /\ (z <= k => i <= k)
        BY <2>4, <2>8, <3>5, <3>9, <3>z, <3>11
      <4>2. QED BY <3>4, <4>1
    <3>13. z \notin T
      <4> HIDE DEF T
      <4>1. QED BY <3>3, <3>5, <3>9, <3>z, <3>11
    <3>14. f[z] # ValueOf(h, j)
      BY <3>4, <3>10, <3>z
    <3> HIDE DEF Alone
    <3>15. QED BY <3>9, <3>z, <3>12, <3>13, <3>14
  <2>12. result = f[1] /\ given[1] = h /\ given[2] = key
    BY <2>2, <2>5, <2>6
  <2>13. \A j \in G :
           (\A k \in Starts(h) : k <= j => Named(h, k) /\ (k < j => k \notin G))
             => f[1] = ValueOf(h, j)
    <3>1. \A j \in G : 1 <= j
      BY <2>8, <2>9
    <3>2. QED BY <2>9, <2>11, <3>1
  <2>14. QED BY <2>9, <2>10, <2>12, <2>13 DEF G
<1>2. QED BY <1>1, CalledInvariant, PTL

-----------------------------------------------------------------------------
\* A fold over 1..n takes the greatest element of a set last: there is a function of
\* the sets that is computed so, and along the sets 1..k it climbs.
Iterates(it, n, A, b, step) ==
  /\ it \in [SUBSET (1..n) -> A]
  /\ \A s \in SUBSET (1..n) :
       it[s] = IF s = {} THEN b ELSE step[<<Max(s), it[s \ {Max(s)}]>>]

\* The greatest of numbers up to n, and the others.
LEMMA MaxLast ==
  ASSUME NEW n \in Nat, NEW s \in SUBSET (1..n), s # {}
  PROVE  /\ Max(s) \in s /\ Max(s) \in 1..n /\ s \ {Max(s)} \in SUBSET (1..n)
         /\ \A k \in s : k <= Max(s)
<1>1. s \in SUBSET (0..n)
  OBVIOUS
<1>2. QED BY <1>1, MaxFacts

\* A function over the sets of numbers up to n, defined from their greatest, exists.
LEMMA IterExists ==
  ASSUME NEW A, NEW b \in A, NEW n \in Nat, NEW step \in [(1..n) \X A -> A]
  PROVE  \E it : Iterates(it, n, A, b, step)
<1> DEFINE To(m) == \E it \in [SUBSET (1..m) -> A] : \A s \in SUBSET (1..m) :
                      it[s] = IF s = {} THEN b ELSE step[<<Max(s), it[s \ {Max(s)}]>>]
           T == {m \in Nat : m <= n => To(m)}
<1>1. 0 \in T
  <2>1. [s \in SUBSET (1..0) |-> b] \in [SUBSET (1..0) -> A]
    OBVIOUS
  <2>2. \A s \in SUBSET (1..0) : s = {}
    OBVIOUS
  <2>3. To(0)
    BY <2>1, <2>2
  <2> HIDE DEF To
  <2>4. QED BY <2>3
<1>2. ASSUME NEW m \in T PROVE m + 1 \in T
  <2>1. SUFFICES ASSUME m + 1 <= n PROVE To(m + 1)
    <3> HIDE DEF To
    <3>1. QED BY <1>2
  <2>0. m \in Nat /\ To(m)
    <3> HIDE DEF To
    <3>1. m <= n
      BY <1>2, <2>1
    <3>2. QED BY <1>2, <3>1
  <2>2. PICK it \in [SUBSET (1..m) -> A] : \A s \in SUBSET (1..m) :
          it[s] = IF s = {} THEN b ELSE step[<<Max(s), it[s \ {Max(s)}]>>]
    BY <2>0
  <2> DEFINE g == [s \in SUBSET (1..(m + 1)) |->
                     IF m + 1 \in s THEN step[<<m + 1, it[s \ {m + 1}]>>] ELSE it[s]]
  <2>3. m \in Nat /\ m + 1 \in 1..n
    BY <1>2, <2>1
  <2>4. \A s \in SUBSET (1..(m + 1)) :
          s \ {m + 1} \in SUBSET (1..m) /\ (m + 1 \notin s => s \in SUBSET (1..m))
    BY <2>3
  <2>5. ASSUME NEW s \in SUBSET (1..(m + 1))
        PROVE  g[s] \in A /\ g[s] = IF s = {} THEN b ELSE step[<<Max(s), g[s \ {Max(s)}]>>]
    <3>1. CASE m + 1 \in s
      <4>1. Max(s) \in s /\ Max(s) \in 1..(m + 1) /\ m + 1 <= Max(s)
        BY <2>3, <3>1, MaxLast
      <4>2. Max(s) = m + 1
        BY <2>3, <4>1
      <4>3. s \ {m + 1} \in SUBSET (1..m) /\ it[s \ {m + 1}] \in A
        BY <2>4
      <4>4. g[s \ {m + 1}] = it[s \ {m + 1}]
        BY <4>3
      <4>5. g[s] = step[<<m + 1, it[s \ {m + 1}]>>]
        BY <3>1
      <4>6. g[s] \in A
        BY <2>3, <4>3, <4>5
      <4>7. QED BY <3>1, <4>2, <4>4, <4>5, <4>6
    <3>2. CASE m + 1 \notin s
      <4>1. s \in SUBSET (1..m) /\ g[s] = it[s]
        BY <2>4, <3>2
      <4>2. CASE s = {}
        BY <2>2, <4>1, <4>2
      <4>3. CASE s # {}
        <5>1. s \ {Max(s)} \in SUBSET (1..m)
          BY <2>3, <4>1, <4>3, MaxLast
        <5>2. g[s \ {Max(s)}] = it[s \ {Max(s)}]
          <6>1. m + 1 \notin s \ {Max(s)} /\ s \ {Max(s)} \in SUBSET (1..(m + 1))
            BY <3>2
          <6>2. QED BY <6>1
        <5> HIDE DEF g
        <5>3. QED BY <2>2, <4>1, <4>3, <5>1, <5>2
      <4>4. QED BY <4>2, <4>3
    <3>3. QED BY <3>1, <3>2
  <2>6. g \in [SUBSET (1..(m + 1)) -> A]
    BY <2>5
  <2> HIDE DEF g
  <2>7. QED BY <2>5, <2>6
<1>3. T = Nat
  <2> HIDE DEF T
  <2>1. QED BY <1>1, <1>2, AllNat DEF T
<1>4. To(n)
  <2> HIDE DEF To
  <2>1. QED BY <1>3
<1>5. QED BY <1>4 DEF Iterates

\* The numbers up to k, and those before.
LEMMA UpTo ==
  ASSUME NEW n \in Nat, NEW k \in 1..n
  PROVE  /\ Max(1..k) = k /\ (1..k) \ {Max(1..k)} = 1..(k - 1)
         /\ 1..k \in SUBSET (1..n) /\ 1..k # {}
<1>1. 1..k \in SUBSET (1..n) /\ k \in 1..k /\ k \in Nat
  OBVIOUS
<1>2. Max(1..k) \in 1..k /\ \A i \in 1..k : i <= Max(1..k)
  BY <1>1, MaxLast
<1>3. Max(1..k) = k
  BY <1>1, <1>2
<1>4. (1..k) \ {k} = 1..(k - 1)
  OBVIOUS
<1>5. QED BY <1>1, <1>3, <1>4

\* Such a function, on the numbers up to k, climbs.
LEMMA IterClimbs ==
  ASSUME NEW A, NEW b \in A, NEW n \in Nat, NEW step \in [(1..n) \X A -> A], NEW h,
         h[{}] = b,
         \A k \in 1..n : h[1..(k - 1)] \in A => h[1..k] = step[<<k, h[1..(k - 1)]>>]
  PROVE  Climbs([k \in 0..n |-> h[1..k]], A, b, n, step)
<1> DEFINE f == [k \in 0..n |-> h[1..k]]
<1>1. f[0] = b
  <2>1. 1..0 = {} /\ 0 \in 0..n
    OBVIOUS
  <2>2. QED BY <2>1
<1>2. \A k \in 1..n : f[k - 1] \in A => f[k] = step[<<k, f[k - 1]>>]
  <2>1. \A k \in 1..n : k - 1 \in 0..n /\ k \in 0..n
    OBVIOUS
  <2>2. QED BY <2>1
<1> DEFINE T == {k \in Nat : k <= n => f[k] \in A}
<1> HIDE DEF f
<1>3. 0 \in T
  BY <1>1
<1>4. ASSUME NEW k \in T PROVE k + 1 \in T
  <2>1. SUFFICES ASSUME k + 1 <= n PROVE f[k + 1] \in A
    BY <1>4
  <2>2. k + 1 \in 1..n /\ (k + 1) - 1 = k /\ f[k] \in A
    BY <1>4, <2>1
  <2>3. f[k + 1] = step[<<k + 1, f[k]>>]
    BY <1>2, <2>2
  <2>4. QED BY <2>2, <2>3
<1>5. \A k \in 0..n : f[k] \in A
  <2>1. T = Nat
    <3> HIDE DEF T
    <3>1. QED BY <1>3, <1>4, AllNat DEF T
  <2>2. \A k \in Nat : k <= n => f[k] \in A
    BY <2>1
  <2>3. QED BY <2>2
<1>6. f \in [0..n -> A]
  BY <1>5 DEF f
<1>7. \A k \in 1..n : f[k] = step[<<k, f[k - 1]>>]
  <2>1. \A k \in 1..n : k - 1 \in 0..n
    OBVIOUS
  <2>2. QED BY <1>2, <1>5, <2>1
<1>8. QED BY <1>1, <1>6, <1>7 DEF Climbs, f

-----------------------------------------------------------------------------
\* md_to_html: everything that stands in its result, and the tags that are open in it.
Tokens == Letters \cup {"&lt", "semi", "mark", "mismatch"} \cup Opening \cup Ending
Html == Seq(Tokens)

\* The tags and the other tokens.
LEMMA TagFacts ==
  /\ Opening = {"<p>", "<strong>", "<h>", "<ul>", "<li>", "<pre>"}
  /\ Ending = {"</p>", "</strong>", "</h>", "</ul>", "</li>", "</pre>"}
  /\ Opening \subseteq Tokens /\ Ending \subseteq Tokens /\ Letters \subseteq Tokens
  /\ {"&lt", "semi", "mark", "mismatch"} \subseteq Tokens
  /\ (Letters \cup {"&lt", "semi", "mark"}) \cap (Opening \cup Ending) = {}
  /\ Closes("</p>") = "<p>" /\ Closes("</strong>") = "<strong>" /\ Closes("</h>") = "<h>"
  /\ Closes("</ul>") = "<ul>" /\ Closes("</li>") = "<li>" /\ Closes("</pre>") = "<pre>"
<1>1. /\ Closes("</p>") = "<p>" /\ Closes("</strong>") = "<strong>" /\ Closes("</h>") = "<h>"
      /\ Closes("</ul>") = "<ul>" /\ Closes("</li>") = "<li>" /\ Closes("</pre>") = "<pre>"
  BY DEF Closes
<1>2. Ending = {"</p>", "</strong>", "</h>", "</ul>", "</li>", "</pre>"}
  BY DEF Ending
<1>3. Opening = {"<p>", "<strong>", "<h>", "<ul>", "<li>", "<pre>"}
  BY <1>1, <1>2 DEF Opening
<1>4. QED BY <1>1, <1>2, <1>3 DEF Tokens, Letters

\* The tags open after a token are tags.
LEMMA OpenType ==
  ASSUME NEW o \in Html, NEW t \in Tokens PROVE OpenAfter(o, t) \in Html
<1>1. CASE t \in Opening
  BY <1>1 DEF OpenAfter, Html
<1>2. <<"mismatch">> \in Html
  BY TagFacts DEF Html
<1>3. o # <<>> => Front(o) \in Html
  <2>1. SUFFICES ASSUME o # <<>> PROVE SubSeq(o, 1, Len(o) - 1) \in Html
    BY DEF Front
  <2>2. QED BY <2>1 DEF Html
<1>4. QED BY <1>1, <1>2, <1>3 DEF OpenAfter

Opens(h, f) ==
  /\ f \in [0..Len(h) -> Html] /\ f[0] = <<>> /\ OpenIn(h) = f[Len(h)]
  /\ \A k \in 1..Len(h) : f[k] = OpenAfter(f[k - 1], h[k])

\* The tags open after each token of a text exist.
LEMMA OpensExists == ASSUME NEW h \in Html PROVE \E f : Opens(h, f)
<1>0. PICK n \in Nat : n = Len(h) /\ DOMAIN h = 1..n
  BY DEF Html
<1>a. \A k \in 1..n : h[k] \in Tokens
  BY <1>0 DEF Html
<1>e. PICK e \in Html : e = <<>>
  BY EmptyFacts DEF Html
<1> DEFINE step == [p \in (1..n) \X Html |-> OpenAfter(p[2], h[p[1]])]
           Is(x) == x = [s \in SUBSET (1..n) |->
                      IF s = {} THEN <<>> ELSE OpenAfter(x[s \ {Max(s)}], h[Max(s)])]
           g == CHOOSE x : Is(x)
<1>1. step \in [(1..n) \X Html -> Html]
  BY <1>a, OpenType
<1>2. \A k \in 1..n, o \in Html : step[<<k, o>>] = OpenAfter(o, h[k])
  OBVIOUS
<1>3. OpenIn(h) = g[1..n]
  BY <1>0 DEF OpenIn, FoldLeft, MapThenFoldSet
<1> HIDE DEF step
<1>4. PICK it : Iterates(it, n, Html, e, step)
  BY <1>1, IterExists
<1>5. Is(it)
  <2>1. /\ it \in [SUBSET (1..n) -> Html]
        /\ \A s \in SUBSET (1..n) :
             it[s] = IF s = {} THEN e ELSE step[<<Max(s), it[s \ {Max(s)}]>>]
    BY <1>4 DEF Iterates
  <2>2. ASSUME NEW s \in SUBSET (1..n)
        PROVE  it[s] = IF s = {} THEN <<>> ELSE OpenAfter(it[s \ {Max(s)}], h[Max(s)])
    <3>1. s # {} => Max(s) \in 1..n /\ it[s \ {Max(s)}] \in Html
      BY <2>1, MaxLast
    <3>2. QED BY <1>2, <1>e, <2>1, <3>1
  <2>3. QED BY <2>1, <2>2
<1>6. Is(g)
  <2> HIDE DEF Is
  <2>1. QED BY <1>5
<1>7. \A s \in SUBSET (1..n) :
        g[s] = IF s = {} THEN <<>> ELSE OpenAfter(g[s \ {Max(s)}], h[Max(s)])
  <2> HIDE DEF g
  <2>1. QED BY <1>6
<1> HIDE DEF g, Is
<1> DEFINE f == [k \in 0..n |-> g[1..k]]
<1>8. Climbs(f, Html, e, n, step)
  <2>1. g[{}] = e
    BY <1>7, <1>e
  <2>2. ASSUME NEW k \in 1..n, g[1..(k - 1)] \in Html
        PROVE  g[1..k] = step[<<k, g[1..(k - 1)]>>]
    <3>1. g[1..k] = OpenAfter(g[1..(k - 1)], h[k])
      BY <1>7, UpTo
    <3>2. QED BY <1>2, <2>2, <3>1
  <2>3. QED BY <1>1, <1>e, <2>1, <2>2, IterClimbs
<1>9. f[n] = g[1..n]
  BY <1>0
<1> HIDE DEF f
<1>10. /\ f \in [0..n -> Html] /\ f[0] = e /\ \A k \in 1..n : f[k] = step[<<k, f[k - 1]>>]
  BY <1>8 DEF Climbs
<1>11. \A k \in 1..n : f[k] = OpenAfter(f[k - 1], h[k])
  <2>1. \A k \in 1..n : k - 1 \in 0..n
    BY <1>0
  <2>2. QED BY <1>2, <1>10, <2>1
<1>12. QED BY <1>0, <1>3, <1>9, <1>10, <1>11, <1>e DEF Opens

\* One token more.
LEMMA OpenStep ==
  ASSUME NEW h \in Html, NEW t \in Tokens
  PROVE  OpenIn(h) \in Html /\ OpenIn(h \o <<t>>) = OpenAfter(OpenIn(h), t)
<1>0. PICK n \in Nat : n = Len(h)
  BY DEF Html
<1>1. PICK x \in Html : /\ x = h \o <<t>> /\ Len(x) = n + 1 /\ x[n + 1] = t
                        /\ \A k \in 1..n : x[k] = h[k]
  <2> DEFINE x == Append(h, t)
  <2>1. x \in Html /\ x = h \o <<t>> /\ Len(x) = n + 1
    BY <1>0 DEF Html
  <2>2. x[n + 1] = t /\ \A k \in 1..n : x[k] = h[k]
    BY <1>0 DEF Html
  <2> HIDE DEF x
  <2>3. QED BY <2>1, <2>2
<1>2. PICK f : Opens(h, f)
  BY OpensExists
<1>3. PICK g : Opens(x, g)
  BY OpensExists
<1>4. /\ f \in [0..n -> Html] /\ f[0] = <<>> /\ OpenIn(h) = f[n]
      /\ \A k \in 1..n : f[k] = OpenAfter(f[k - 1], h[k])
  BY <1>0, <1>2 DEF Opens
<1>5. /\ g[0] = <<>> /\ OpenIn(x) = g[n + 1]
      /\ \A k \in 1..(n + 1) : g[k] = OpenAfter(g[k - 1], x[k])
  BY <1>1, <1>3 DEF Opens
<1> DEFINE T == {k \in Nat : k <= n => g[k] = f[k]}
<1>6. 0 \in T
  BY <1>4, <1>5
<1>7. ASSUME NEW k \in T PROVE k + 1 \in T
  <2>1. SUFFICES ASSUME k + 1 <= n PROVE g[k + 1] = f[k + 1]
    BY <1>7
  <2>2. k + 1 \in 1..n /\ k + 1 \in 1..(n + 1) /\ (k + 1) - 1 = k /\ g[k] = f[k]
    BY <1>7, <2>1
  <2>3. f[k + 1] = OpenAfter(f[k], h[k + 1])
    BY <1>4, <2>2
  <2>4. g[k + 1] = OpenAfter(g[k], x[k + 1])
    BY <1>5, <2>2
  <2>5. QED BY <1>1, <2>2, <2>3, <2>4
<1>8. g[n] = f[n]
  <2> HIDE DEF T
  <2>1. T = Nat
    BY <1>6, <1>7, AllNat DEF T
  <2>2. n \in T
    BY <2>1
  <2>3. QED BY <2>2 DEF T
<1>9. n + 1 \in 1..(n + 1) /\ (n + 1) - 1 = n
  BY <1>0
<1>10. g[n + 1] = OpenAfter(g[n], t)
  BY <1>1, <1>5, <1>9
<1>11. QED BY <1>1, <1>4, <1>5, <1>8, <1>10

-----------------------------------------------------------------------------
\* What leaves the open tags as they were.
Balanced(w) == w \in Html /\ \A h \in Html : OpenIn(h \o w) = OpenIn(h)
NoTags == Tokens \ (Opening \cup Ending)

\* Nothing is open in the empty text.
LEMMA OpenEmpty == <<>> \in Html /\ OpenIn(<<>>) = <<>>
<1>1. PICK e \in Html : e = <<>> /\ Len(e) = 0
  BY EmptyFacts DEF Html
<1>2. PICK f : Opens(e, f)
  BY OpensExists
<1>3. QED BY <1>1, <1>2 DEF Opens

\* Texts put together.
LEMMA JoinHtml ==
  ASSUME NEW a \in Html, NEW b \in Html, NEW c \in Html
  PROVE  a \o b \in Html /\ a \o (b \o c) = (a \o b) \o c /\ <<>> \o a = a /\ a \o <<>> = a
<1>1. a \o b \in Html /\ a \o (b \o c) = (a \o b) \o c
  BY DEF Html
<1>2. PICK e \in Html : e = <<>> /\ e \o a = a /\ a \o e = a
  BY EmptyFacts DEF Html
<1>3. QED BY <1>1, <1>2

\* Balanced texts put together are balanced.
LEMMA BalancedJoin ==
  ASSUME NEW a, Balanced(a), NEW b, Balanced(b) PROVE Balanced(a \o b)
<1>1. a \in Html /\ b \in Html
  BY DEF Balanced
<1>2. a \o b \in Html
  BY <1>1, JoinHtml
<1>3. ASSUME NEW h \in Html PROVE OpenIn(h \o (a \o b)) = OpenIn(h)
  <2>1. h \o (a \o b) = (h \o a) \o b /\ h \o a \in Html
    BY <1>1 DEF Html
  <2>2. QED BY <2>1 DEF Balanced
<1>4. QED BY <1>2, <1>3 DEF Balanced

\* A token is a text.
LEMMA OneToken == ASSUME NEW t \in Tokens PROVE <<t>> \in Html
BY DEF Html

\* A balanced text between a tag and its end is balanced.
LEMMA BalancedIn ==
  ASSUME NEW w, Balanced(w), NEW e \in Ending PROVE Balanced(<<Closes(e)>> \o w \o <<e>>)
<1> DEFINE t == Closes(e)
<1>1. t \in Opening /\ t \in Tokens /\ e \in Tokens /\ e \notin Opening
  BY TagFacts DEF Opening
<1>2. w \in Html /\ <<t>> \in Html /\ <<e>> \in Html
  BY <1>1, OneToken DEF Balanced
<1>3. (<<t>> \o w) \o <<e>> \in Html
  BY <1>2, JoinHtml
<1>4. ASSUME NEW h \in Html PROVE OpenIn(h \o ((<<t>> \o w) \o <<e>>)) = OpenIn(h)
  <2> DEFINE x == h \o <<t>>
             o == OpenIn(h)
  <2>1. x \in Html /\ x \o w \in Html /\ <<t>> \o w \in Html
    BY <1>2, JoinHtml
  <2>2. h \o ((<<t>> \o w) \o <<e>>) = (x \o w) \o <<e>>
    <3>1. PICK a \in Html, b \in Html : a = <<t>> /\ b = <<e>>
      BY <1>2
    <3>2. h \o ((a \o w) \o b) = ((h \o a) \o w) \o b
      BY SMTT(30), <1>2 DEF Html
    <3>3. QED BY <3>1, <3>2
  <2>3. OpenIn(x) = OpenAfter(o, t) /\ o \in Html
    BY <1>1, OpenStep
  <2>4. OpenIn(x \o w) = OpenIn(x)
    BY <2>1 DEF Balanced
  <2>5. OpenIn((x \o w) \o <<e>>) = OpenAfter(OpenIn(x \o w), e)
    BY <1>1, <2>1, OpenStep
  <2> HIDE DEF x, o, t
  <2>6. OpenAfter(o, t) = Append(o, t)
    BY <1>1 DEF OpenAfter
  <2>7. PICK p : p = Append(o, t)
    OBVIOUS
  <2>8. p # <<>> /\ Last(p) = t /\ Front(p) = o
    <3>1. p \in Html /\ Len(p) = Len(o) + 1 /\ p[Len(o) + 1] = t /\ Len(o) \in Nat
      BY <1>1, <2>3, <2>7 DEF Html
    <3>2. SubSeq(p, 1, Len(o)) = o
      BY <1>1, <2>3, <2>7 DEF Html
    <3>3. p # <<>>
      BY <1>1, <2>3, <2>7 DEF Html
    <3>4. Len(p) - 1 = Len(o)
      BY <3>1
    <3>5. QED BY <3>1, <3>2, <3>3, <3>4 DEF Last, Front
  <2>9. OpenAfter(p, e) = o
    BY <1>1, <2>8 DEF OpenAfter, t
  <2>10. QED BY <2>2, <2>3, <2>4, <2>5, <2>6, <2>7, <2>9 DEF o
<1>5. QED BY <1>3, <1>4 DEF Balanced

\* A text without tags is balanced.
LEMMA BalancedText == ASSUME NEW w \in Seq(NoTags) PROVE Balanced(w)
<1>0. PICK n \in Nat : n = Len(w)
  OBVIOUS
<1>1. w \in Html
  BY DEF NoTags, Html
<1>2. SUFFICES ASSUME NEW h \in Html PROVE OpenIn(h \o w) = OpenIn(h)
  BY <1>1 DEF Balanced
<1> DEFINE To(k) == h \o SubSeq(w, 1, k)
           T == {k \in Nat : k <= n => OpenIn(To(k)) = OpenIn(h)}
<1>3. 0 \in T
  <2>1. SubSeq(w, 1, 0) = <<>>
    BY <1>0
  <2>2. QED BY <2>1, JoinHtml
<1>4. ASSUME NEW k \in T PROVE k + 1 \in T
  <2>1. SUFFICES ASSUME k + 1 <= n PROVE OpenIn(To(k + 1)) = OpenIn(h)
    BY <1>4
  <2>2. k \in Nat /\ OpenIn(To(k)) = OpenIn(h) /\ k + 1 \in 1..n
    BY <1>4, <2>1
  <2>3. w[k + 1] \in NoTags /\ w[k + 1] \in Tokens /\ SubSeq(w, 1, k) \in Html
    BY <1>0, <1>1, <2>2 DEF Html, NoTags
  <2>4. SubSeq(w, 1, k + 1) = SubSeq(w, 1, k) \o <<w[k + 1]>>
    BY <1>0, <2>2
  <2>5. To(k) \in Html /\ To(k + 1) = To(k) \o <<w[k + 1]>>
    <3>1. PICK a \in Html, b \in Html : a = SubSeq(w, 1, k) /\ b = <<w[k + 1]>>
      BY <2>3, OneToken
    <3>2. h \o (a \o b) = (h \o a) \o b /\ h \o a \in Html
      BY DEF Html
    <3>3. QED BY <2>4, <3>1, <3>2
  <2> HIDE DEF To
  <2>6. OpenIn(To(k + 1)) = OpenAfter(OpenIn(To(k)), w[k + 1])
    BY <2>3, <2>5, OpenStep
  <2>7. QED BY <2>2, <2>3, <2>6 DEF OpenAfter, NoTags
<1>5. OpenIn(To(n)) = OpenIn(h)
  <2> HIDE DEF T
  <2>1. T = Nat
    BY <1>3, <1>4, AllNat DEF T
  <2>2. n \in T
    BY <2>1
  <2>3. n \in Nat /\ n <= n
    OBVIOUS
  <2> HIDE DEF To
  <2>4. QED BY <2>2, <2>3 DEF T
<1>6. SubSeq(w, 1, n) = w
  BY <1>0
<1>7. QED BY <1>5, <1>6

-----------------------------------------------------------------------------
\* What leaves the tags as they were and has no "<" of its own.
NoLess(w) == \A k \in 1..Len(w) : w[k] # "<"
Clean(w) == Balanced(w) /\ NoLess(w)

\* Texts without < put together have none.
LEMMA NoLessJoin ==
  ASSUME NEW a \in Html, NoLess(a), NEW b \in Html, NoLess(b) PROVE NoLess(a \o b)
<1>1. SUFFICES ASSUME NEW k \in 1..Len(a \o b) PROVE (a \o b)[k] # "<"
  BY DEF NoLess
<1>2. CASE k <= Len(a)
  <2>1. (a \o b)[k] = a[k] /\ k \in 1..Len(a)
    BY <1>2 DEF Html
  <2>2. QED BY <2>1 DEF NoLess
<1>3. CASE ~(k <= Len(a))
  <2>1. (a \o b)[k] = b[k - Len(a)] /\ k - Len(a) \in 1..Len(b)
    BY <1>3 DEF Html
  <2>2. QED BY <2>1 DEF NoLess
<1>4. QED BY <1>2, <1>3

\* Clean texts put together are clean.
LEMMA CleanJoin == ASSUME NEW a, Clean(a), NEW b, Clean(b) PROVE Clean(a \o b)
BY NoLessJoin, BalancedJoin DEF Clean, Balanced

\* A text without tags and < is clean.
LEMMA CleanText == ASSUME NEW w \in Seq(NoTags \ {"<"}) PROVE Clean(w)
<1>1. w \in Seq(NoTags) /\ \A k \in 1..Len(w) : w[k] # "<"
  OBVIOUS
<1>2. QED BY <1>1, BalancedText DEF Clean, NoLess

\* A clean text between a tag and its end is clean.
LEMMA CleanIn ==
  ASSUME NEW w, Clean(w), NEW e \in Ending PROVE Clean(<<Closes(e)>> \o w \o <<e>>)
<1> DEFINE t == Closes(e)
<1>1. t # "<" /\ e # "<" /\ t \in Tokens /\ e \in Tokens
  BY TagFacts DEF Opening, Letters
<1> HIDE DEF t
<1>2. w \in Html /\ Balanced(w) /\ <<t>> \in Html /\ <<e>> \in Html
  BY <1>1, OneToken DEF Clean, Balanced
<1>3. NoLess(<<t>>) /\ NoLess(<<e>>)
  BY <1>1 DEF NoLess
<1>4. NoLess(<<t>> \o w) /\ <<t>> \o w \in Html
  BY <1>2, <1>3, NoLessJoin, JoinHtml DEF Clean
<1>5. NoLess((<<t>> \o w) \o <<e>>)
  BY <1>2, <1>3, <1>4, NoLessJoin
<1>6. Balanced((<<t>> \o w) \o <<e>>)
  BY <1>2, BalancedIn DEF t
<1>7. QED BY <1>5, <1>6 DEF Clean, t

-----------------------------------------------------------------------------
\* The text of a line, escaped: quiet characters only.
Quiet == (Letters \ {"<"}) \cup {"&lt", "semi", "mark"}

\* What escaping leaves is neither a tag nor <.
LEMMA QuietFacts ==
  Quiet \subseteq NoTags \ {"<"} /\ Quiet \subseteq Tokens /\ Letters \subseteq NoTags
BY TagFacts DEF Quiet, NoTags, Letters

\* An escaped text holds no tag and no <.
LEMMA EscapeQuiet == ASSUME NEW w \in Seq(Letters \cup {"mark"}) PROVE Escape(w) \in Seq(Quiet)
<1>0. PICK n \in Nat : n = Len(w) /\ DOMAIN w = 1..n
  OBVIOUS
<1> DEFINE s == [i \in 1..n |-> IF w[i] = "<" THEN <<"&lt", "semi">> ELSE <<w[i]>>]
<1>1. \A i \in 1..n : w[i] \in Letters \cup {"mark"}
  BY <1>0
<1>2. <<"&lt", "semi">> \in Seq(Quiet)
  BY DEF Quiet
<1>3. \A i \in 1..n : w[i] # "<" => <<w[i]>> \in Seq(Quiet)
  <2>1. SUFFICES ASSUME NEW i \in 1..n, w[i] # "<" PROVE <<w[i]>> \in Seq(Quiet)
    OBVIOUS
  <2>2. w[i] \in Quiet
    BY <1>1, <2>1 DEF Quiet
  <2>3. QED BY <2>2
<1>4. s \in Seq(Seq(Quiet)) /\ Len(s) = n
  <2>1. \A i \in 1..n : s[i] \in Seq(Quiet)
    BY <1>2, <1>3
  <2>2. s \in [1..n -> Seq(Quiet)]
    BY <2>1
  <2>3. QED BY <1>0, <2>2
<1>5. Escape(w) = FlattenSeq(s)
  BY <1>0 DEF Escape
<1> HIDE DEF s
<1>6. PICK f \in [0..Len(s) -> Seq(Quiet)] : Parts(s, f) /\ FlattenSeq(s) = f[Len(s)]
  BY <1>4, FlattenParts
<1>7. QED BY <1>0, <1>4, <1>5, <1>6

\* The bold text that begins at i, and where the scan goes on.
Inside(s, i) == SubSeq(s, i + 2, EndOfBold(s, i + 2) - 1)
After(s, i) == IF Ends(s, i + 2) = {} THEN Len(s) + 1 ELSE EndOfBold(s, i + 2) + 2

\* Where bold text ends, and what is inside and after it.
LEMMA AfterFacts ==
  ASSUME NEW S, NEW s \in Seq(S), NEW i \in Nat \ {0}, StarsAt(s, i)
  PROVE  /\ i + 1 <= Len(s) /\ After(s, i) \in (i + 2)..(Len(s) + 1)
         /\ Inside(s, i) \in Seq(S) /\ EndOfBold(s, i + 2) \in (i + 1)..Len(s)
         /\ Ends(s, i + 2) = {} => EndOfBold(s, i + 2) = Len(s)
         /\ Ends(s, i + 2) # {} => /\ EndOfBold(s, i + 2) \in (i + 2)..(Len(s) - 1)
                                   /\ StarsAt(s, EndOfBold(s, i + 2))
                                   /\ \A k \in (i + 2)..(EndOfBold(s, i + 2) - 1) : ~StarsAt(s, k)
<1>0. PICK n \in Nat : n = Len(s)
  OBVIOUS
<1> DEFINE E == Ends(s, i + 2)
           z == EndOfBold(s, i + 2)
<1>1. i + 1 <= n
  BY <1>0 DEF StarsAt
<1>2. E \in SUBSET Nat /\ \A k \in E : k \in (i + 2)..(n - 1) /\ StarsAt(s, k)
  BY <1>0 DEF Ends, StarsAt
<1>3. \A k \in (i + 2)..n : StarsAt(s, k) => k \in E
  BY <1>0 DEF Ends
<1>4. E = {} => z = n
  BY <1>0 DEF EndOfBold
<1>5. E # {} => z \in E /\ \A k \in E : z <= k
  <2> HIDE DEF E
  <2>1. SUFFICES ASSUME E # {} PROVE Min(E) \in E /\ \A k \in E : Min(E) <= k
    BY DEF EndOfBold, E
  <2>2. QED BY <1>2, <2>1, MinFacts
<1>6. After(s, i) = IF E = {} THEN n + 1 ELSE z + 2
  BY <1>0 DEF After
<1>7. Inside(s, i) = SubSeq(s, i + 2, z - 1)
  BY DEF Inside
<1> HIDE DEF E, z
<1>8. E # {} => /\ z \in (i + 2)..(n - 1) /\ StarsAt(s, z)
                /\ \A k \in (i + 2)..(z - 1) : ~StarsAt(s, k)
  <2>1. SUFFICES ASSUME E # {}
                 PROVE  /\ z \in (i + 2)..(n - 1) /\ StarsAt(s, z)
                        /\ \A k \in (i + 2)..(z - 1) : ~StarsAt(s, k)
    OBVIOUS
  <2>2. z \in (i + 2)..(n - 1) /\ StarsAt(s, z) /\ \A k \in E : z <= k
    BY <1>2, <1>5, <2>1
  <2>3. ASSUME NEW k \in (i + 2)..(z - 1), StarsAt(s, k) PROVE FALSE
    <3>1. k \in (i + 2)..n /\ ~(z <= k)
      BY <1>0, <2>2
    <3>2. QED BY <1>3, <2>2, <2>3, <3>1
  <2>4. QED BY <2>2, <2>3
<1>9. z \in (i + 1)..n
  BY <1>0, <1>1, <1>4, <1>8
<1>10. After(s, i) \in (i + 2)..(n + 1)
  BY <1>0, <1>1, <1>6, <1>8
<1>11. SubSeq(s, i + 2, z - 1) \in Seq(S)
  <2>1. \A k \in (i + 2)..(z - 1) : s[k] \in S
    BY <1>0, <1>9
  <2>2. QED BY <1>9, <2>1, SubSeqProperties
<1>12. QED BY <1>0, <1>1, <1>4, <1>7, <1>8, <1>9, <1>10, <1>11 DEF E, z

\* The scan of a paragraph.
Strong(s, i) == (<<"<strong>">> \o Inside(s, i)) \o <<"</strong>">>
Scanned(s, f) ==
  \A i \in 1..(Len(s) + 2) :
    /\ f[i] \in Html
    /\ i > Len(s) => f[i] = <<>>
    /\ i <= Len(s) /\ ~StarsAt(s, i) => f[i] = <<s[i]>> \o f[i + 1]
    /\ i <= Len(s) /\ StarsAt(s, i) => f[i] = Strong(s, i) \o f[After(s, i)]

\* The scan for bold text exists.
LEMMA BoldScan ==
  ASSUME NEW s \in Seq(Quiet) PROVE \E f : Scanned(s, f) /\ Bold(s) = f[1]
<1>0. PICK n \in Nat : n = Len(s)
  OBVIOUS
<1>m. PICK m \in Nat : m = n + 2
  OBVIOUS
<1>e. PICK e \in Html : e = <<>>
  BY OpenEmpty
<1> DEFINE value == [i \in 1..m |-> IF i > n THEN e ELSE IF ~StarsAt(s, i) THEN <<s[i]>>
                                     ELSE Strong(s, i)]
           next == [i \in 1..m |-> IF i > n THEN 0 ELSE IF ~StarsAt(s, i) THEN i + 1
                                    ELSE After(s, i)]
<1>1. \A i \in 1..m : i <= n =>
        /\ <<s[i]>> \in Html /\ i + 1 \in (i + 1)..m /\ i + 1 # 0
        /\ StarsAt(s, i) => /\ Strong(s, i) \in Html
                            /\ After(s, i) \in (i + 1)..m /\ After(s, i) # 0
  <2>1. SUFFICES ASSUME NEW i \in 1..n
                 PROVE  /\ <<s[i]>> \in Html /\ i + 1 \in (i + 1)..m /\ i + 1 # 0
                        /\ StarsAt(s, i) => /\ Strong(s, i) \in Html
                                            /\ After(s, i) \in (i + 1)..m /\ After(s, i) # 0
    BY <1>0, <1>m
  <2>2. s[i] \in Tokens
    BY <1>0, QuietFacts
  <2>3. <<s[i]>> \in Html
    BY <2>2, OneToken
  <2>4. ASSUME StarsAt(s, i) PROVE Strong(s, i) \in Html /\ After(s, i) \in (i + 2)..(n + 1)
    <3>1. Inside(s, i) \in Seq(Quiet) /\ After(s, i) \in (i + 2)..(n + 1)
      BY <1>0, <2>4, AfterFacts
    <3>2. Inside(s, i) \in Html
      BY <3>1, QuietFacts DEF Html
    <3>3. <<"<strong>">> \in Html /\ <<"</strong>">> \in Html
      BY TagFacts, OneToken
    <3>4. Strong(s, i) \in Html
      BY <3>2, <3>3, JoinHtml DEF Strong
    <3>5. QED BY <3>1, <3>4
  <2>5. QED BY <1>m, <2>3, <2>4
<1>2. value \in [1..m -> Seq(Tokens)]
  BY <1>0, <1>1, <1>e DEF Html
<1>3. next \in [1..m -> Nat] /\ \A i \in 1..m : next[i] = 0 \/ next[i] \in (i + 1)..m
  <2>1. ASSUME NEW i \in 1..m PROVE next[i] \in Nat /\ (next[i] = 0 \/ next[i] \in (i + 1)..m)
    <3>1. CASE i > n
      BY <3>1
    <3>2. CASE i <= n /\ ~StarsAt(s, i)
      <4>1. next[i] = i + 1
        BY <1>0, <3>2
      <4>2. i + 1 \in (i + 1)..m
        BY <1>1, <3>2
      <4> HIDE DEF next
      <4>3. QED BY <4>1, <4>2
    <3>3. CASE i <= n /\ StarsAt(s, i)
      <4>1. next[i] = After(s, i)
        BY <1>0, <3>3
      <4>2. After(s, i) \in (i + 1)..m
        BY <1>1, <3>3
      <4> HIDE DEF next
      <4>3. QED BY <4>1, <4>2
    <3>4. QED BY <1>0, <3>1, <3>2, <3>3
  <2>2. QED BY <2>1
<1>4. PICK f : Scans(f, Tokens, m, value, next)
  <2> HIDE DEF value, next
  <2>1. QED BY <1>2, <1>3, ScanExists
<1>5. f \in [1..m -> Html] /\ \A i \in 1..m :
        f[i] = IF next[i] = 0 THEN value[i] ELSE value[i] \o f[next[i]]
  <2> HIDE DEF value, next
  <2>1. QED BY <1>4 DEF Scans, Html
<1>6. \A i \in 1..m :
        /\ f[i] \in Html
        /\ i > n => f[i] = <<>>
        /\ i <= n /\ ~StarsAt(s, i) => f[i] = <<s[i]>> \o f[i + 1]
        /\ i <= n /\ StarsAt(s, i) => f[i] = Strong(s, i) \o f[After(s, i)]
  <2>1. SUFFICES ASSUME NEW i \in 1..m
                 PROVE  /\ i > n => f[i] = <<>>
                        /\ i <= n /\ ~StarsAt(s, i) => f[i] = <<s[i]>> \o f[i + 1]
                        /\ i <= n /\ StarsAt(s, i) => f[i] = Strong(s, i) \o f[After(s, i)]
    BY <1>5
  <2>2. f[i] = IF next[i] = 0 THEN value[i] ELSE value[i] \o f[next[i]]
    BY <1>5
  <2>3. /\ i > n => next[i] = 0 /\ value[i] = <<>>
        /\ i <= n /\ ~StarsAt(s, i) => next[i] = i + 1 /\ value[i] = <<s[i]>>
        /\ i <= n /\ StarsAt(s, i) => next[i] = After(s, i) /\ value[i] = Strong(s, i)
    BY <1>0, <1>e
  <2>4. i <= n => i + 1 # 0 /\ (StarsAt(s, i) => After(s, i) # 0)
    BY <1>1
  <2> HIDE DEF next, value
  <2>5. QED BY <2>2, <2>3, <2>4
<1> HIDE DEF value, next
<1> DEFINE Body(g, i) == IF i > n THEN <<>> ELSE IF ~StarsAt(s, i) THEN <<s[i]>> \o g[i + 1]
                         ELSE Strong(s, i) \o g[After(s, i)]
           Is(g) == g = [i \in 1..m |-> Body(g, i)]
           F == CHOOSE g : Is(g)
<1>7. Is(f)
  <2>1. ASSUME NEW i \in 1..m PROVE f[i] = Body(f, i)
    <3>1. i > n \/ i <= n
      BY <1>0
    <3>2. QED BY <1>6, <3>1
  <2> HIDE DEF Body
  <2>2. QED BY <1>5, <2>1
<1>8. Bold(s) = F[1]
  BY <1>0, <1>m DEF Bold, Strong, Inside, After
<1>9. Is(F)
  <2> HIDE DEF Is
  <2>1. QED BY <1>7
<1>10. \A i \in 1..m : F[i] = Body(F, i)
  <2> HIDE DEF Body, F
  <2>1. QED BY <1>9
<1> HIDE DEF F, Is
<1>11. \A i \in 1..m : F[i] = f[i]
  <2> DEFINE T == {i \in 1..m : F[i] # f[i]}
  <2>1. SUFFICES ASSUME T # {} PROVE FALSE
    OBVIOUS
  <2>2. T \in SUBSET (0..m)
    OBVIOUS
  <2>3. PICK i \in T : \A k \in T : k <= i
    <3> HIDE DEF T
    <3>1. QED BY <1>m, <2>1, <2>2, GreatestNat
  <2>4. i \in 1..m /\ F[i] = Body(F, i) /\ F[i] # f[i]
    BY <1>10, <2>3
  <2>5. i <= n
    BY <1>0, <1>6, <2>4
  <2>6. \A k \in (i + 1)..m : F[k] = f[k]
    <3>1. SUFFICES ASSUME NEW k \in (i + 1)..m, F[k] # f[k] PROVE FALSE
      OBVIOUS
    <3>2. k \in T /\ ~(k <= i)
      BY <2>4, <3>1
    <3> HIDE DEF T
    <3>3. QED BY <2>3, <3>2
  <2>7. QED BY <1>1, <1>6, <2>4, <2>5, <2>6
<1>12. Scanned(s, f)
  BY <1>0, <1>m, <1>6 DEF Scanned
<1>13. QED BY <1>8, <1>11, <1>12, <1>m

\* With its bold text tagged, a quiet text is clean.
LEMMA BoldClean == ASSUME NEW s \in Seq(Quiet) PROVE Clean(Bold(s))
<1>0. PICK n \in Nat : n = Len(s)
  OBVIOUS
<1>1. PICK f : Scanned(s, f) /\ Bold(s) = f[1]
  BY BoldScan
<1> DEFINE T == {i \in 1..(n + 2) : ~Clean(f[i])}
<1>2. SUFFICES ASSUME T # {} PROVE FALSE
  BY <1>0, <1>1
<1>3. PICK i \in T : \A k \in T : k <= i
  <2>1. T \in SUBSET (0..(n + 2)) /\ n + 2 \in Nat
    OBVIOUS
  <2> HIDE DEF T
  <2>2. QED BY <1>2, <2>1, GreatestNat
<1>4. i \in 1..(n + 2) /\ ~Clean(f[i])
  BY <1>3
<1>5. \A k \in (i + 1)..(n + 2) : Clean(f[k])
  <2>1. SUFFICES ASSUME NEW k \in (i + 1)..(n + 2), ~Clean(f[k]) PROVE FALSE
    OBVIOUS
  <2>2. k \in T /\ ~(k <= i)
    BY <1>4, <2>1
  <2> HIDE DEF T
  <2>3. QED BY <1>3, <2>2
<1> HIDE DEF T
<1>6. /\ i > n => f[i] = <<>>
      /\ i <= n /\ ~StarsAt(s, i) => f[i] = <<s[i]>> \o f[i + 1]
      /\ i <= n /\ StarsAt(s, i) => f[i] = Strong(s, i) \o f[After(s, i)]
  BY <1>0, <1>1, <1>4 DEF Scanned
<1>7. CASE i > n
  <2>1. <<>> \in Seq(NoTags \ {"<"})
    OBVIOUS
  <2>2. QED BY <1>4, <1>6, <1>7, <2>1, CleanText
<1>8. CASE i <= n /\ ~StarsAt(s, i)
  <2>1. s[i] \in NoTags \ {"<"}
    BY <1>0, <1>4, <1>8, QuietFacts
  <2>2. <<s[i]>> \in Seq(NoTags \ {"<"})
    BY <2>1
  <2>3. Clean(<<s[i]>>) /\ Clean(f[i + 1])
    <3>1. i + 1 \in (i + 1)..(n + 2)
      BY <1>0, <1>4, <1>8
    <3>2. QED BY <1>5, <2>2, <3>1, CleanText
  <2>4. QED BY <1>4, <1>6, <1>8, <2>3, CleanJoin
<1>9. CASE i <= n /\ StarsAt(s, i)
  <2>1. After(s, i) \in (i + 2)..(n + 1) /\ Inside(s, i) \in Seq(Quiet)
    BY <1>0, <1>4, <1>9, AfterFacts
  <2>2. Inside(s, i) \in Seq(NoTags \ {"<"})
    BY <2>1, QuietFacts
  <2>3. Clean(Strong(s, i))
    BY <2>2, CleanText, CleanIn, TagFacts DEF Strong
  <2>4. After(s, i) \in (i + 1)..(n + 2)
    BY <1>0, <1>4, <2>1
  <2>5. QED BY <1>4, <1>5, <1>6, <1>9, <2>3, <2>4, CleanJoin
<1>10. QED BY <1>0, <1>4, <1>7, <1>8, <1>9

-----------------------------------------------------------------------------
\* The loop over the lines.  What is open is the list or the block of code, never
\* both, and a "<" is inside a heading or an item.
DocLine == [kind : Kinds, text : Seq(Letters)]
OpenOf(st) == IF st.code THEN <<"<pre>">> ELSE IF st.list THEN <<"<ul>">> ELSE <<>>
States == [html : Html, code : BOOLEAN, list : BOOLEAN]
Fine ==
  {st \in States :
     (st.code => ~st.list) /\ OpenIn(st.html) = OpenOf(st) /\ RawOnlyInside(st.html)}

\* A text whose every < is inside a heading or an item may be added.
LEMMA RawJoin ==
  ASSUME NEW h \in Html, RawOnlyInside(h), NEW w \in Html,
         \A k \in 1..Len(w) : w[k] = "<" =>
           Last(OpenIn(h \o SubSeq(w, 1, k))) \in {"<li>", "<h>"}
  PROVE  RawOnlyInside(h \o w)
<1>0. PICK n \in Nat : n = Len(h) /\ DOMAIN h = 1..n
  BY DEF Html
<1>1. PICK x \in Html : x = h \o w
  BY JoinHtml
<1>2. DOMAIN x = 1..Len(x) /\ Len(x) = n + Len(w) /\ Len(w) \in Nat
  BY <1>0, <1>1 DEF Html
<1>3. ASSUME NEW i \in 1..Len(x), x[i] = "<"
      PROVE  Last(OpenIn(SubSeq(x, 1, i))) \in {"<li>", "<h>"}
  <2>1. CASE i <= n
    <3>1. x[i] = h[i] /\ SubSeq(x, 1, i) = SubSeq(h, 1, i) /\ i \in 1..n
      BY <1>0, <1>1, <2>1 DEF Html
    <3>2. QED BY <1>0, <1>3, <3>1 DEF RawOnlyInside
  <2>2. CASE ~(i <= n)
    <3>0. i - n \in 1..Len(w)
      BY <1>0, <1>2, <2>2
    <3>1. PICK k \in 1..Len(w) : k = i - n
      BY <3>0
    <3>2. x[i] = w[k]
      BY <1>0, <1>1, <2>2, <3>1 DEF Html
    <3>3. SubSeq(x, 1, i) = h \o SubSeq(w, 1, k)
      BY <1>0, <1>1, <1>2, <2>2, <3>1 DEF Html
    <3>4. QED BY <1>3, <3>2, <3>3
  <2>3. QED BY <2>1, <2>2
<1>4. QED BY <1>1, <1>2, <1>3 DEF RawOnlyInside

\* A text without < may be added.
LEMMA RawQuiet ==
  ASSUME NEW h \in Html, RawOnlyInside(h), NEW w \in Html, NoLess(w)
  PROVE  RawOnlyInside(h \o w)
BY RawJoin DEF NoLess

\* The text of an item or a heading is as it was written, and inside.
LEMMA RawInside ==
  ASSUME NEW h \in Html, RawOnlyInside(h), NEW e \in {"</li>", "</h>"}, NEW w \in Seq(Letters)
  PROVE  /\ RawOnlyInside(h \o (<<Closes(e)>> \o w \o <<e>>))
         /\ Balanced(<<Closes(e)>> \o w \o <<e>>)
<1> DEFINE t == Closes(e)
<1>1. t \in {"<li>", "<h>"} /\ e \in Ending /\ t # "<" /\ e # "<"
  BY TagFacts
<1>2. t \in Opening /\ t \in Tokens /\ e \in Tokens
  BY <1>1, TagFacts
<1>3. w \in Seq(NoTags) /\ Balanced(w)
  <2>1. w \in Seq(NoTags)
    BY QuietFacts
  <2>2. QED BY <2>1, BalancedText
<1>4. Balanced((<<t>> \o w) \o <<e>>)
  BY <1>1, <1>3, BalancedIn
<1> HIDE DEF t
<1>5. w \in Html
  BY <1>3 DEF Balanced
<1>6. PICK a \in Html, b \in Html : a = <<t>> /\ b = <<e>>
  BY <1>2, OneToken
<1>7. NoLess(a) /\ NoLess(b)
  BY <1>1, <1>6 DEF NoLess
<1>8. RawOnlyInside(h \o a) /\ h \o a \in Html
  BY <1>7, RawQuiet, JoinHtml
<1>9. RawOnlyInside((h \o a) \o w)
  <2>1. ASSUME NEW k \in 1..Len(w)
        PROVE  Last(OpenIn((h \o a) \o SubSeq(w, 1, k))) \in {"<li>", "<h>"}
    <3>1. SubSeq(w, 1, k) \in Seq(NoTags)
      BY <1>3
    <3>2. OpenIn((h \o a) \o SubSeq(w, 1, k)) = OpenIn(h \o a)
      BY <1>8, <3>1, BalancedText DEF Balanced
    <3>3. OpenIn(h \o a) = OpenAfter(OpenIn(h), t) /\ OpenIn(h) \in Html
      BY <1>2, <1>6, OpenStep
    <3>4. PICK o \in Html : o = OpenIn(h)
      BY <3>3
    <3>5. OpenAfter(o, t) = Append(o, t)
      BY <1>2 DEF OpenAfter
    <3>6. Last(Append(o, t)) = t
      BY <1>2 DEF Html, Last
    <3>7. QED BY <1>1, <3>2, <3>3, <3>4, <3>5, <3>6
  <2>2. QED BY <1>5, <1>8, <2>1, RawJoin
<1>10. RawOnlyInside(((h \o a) \o w) \o b)
  <2>1. (h \o a) \o w \in Html
    BY <1>5, <1>8, JoinHtml
  <2>2. QED BY <1>7, <1>9, <2>1, RawQuiet
<1>11. ((h \o a) \o w) \o b = h \o ((a \o w) \o b)
  BY SMTT(30), <1>5 DEF Html
<1>12. QED BY <1>4, <1>6, <1>10, <1>11 DEF t

\* What writing does to the loop's state.
LEMMA WriteIs ==
  ASSUME NEW st \in States, NEW w \in Html
  PROVE  /\ Write(st, w) \in States /\ Write(st, w).html = st.html \o w
         /\ Write(st, w).code = st.code /\ Write(st, w).list = st.list
<1> DEFINE x == st.html \o w
<1>1. x \in Html
  BY JoinHtml DEF States
<1>2. Write(st, w) = [st EXCEPT !.html = x]
  BY DEF Write
<1> HIDE DEF x
<1>3. QED BY <1>1, <1>2 DEF States, x

\* Clean text may be written anywhere.
LEMMA WriteClean == ASSUME NEW st \in Fine, NEW w, Clean(w) PROVE Write(st, w) \in Fine
<1> DEFINE h == st.html \o w
<1>1. st \in States /\ st.html \in Html /\ w \in Html
  BY DEF Fine, States, Clean, Balanced
<1>2. h \in Html /\ OpenIn(h) = OpenIn(st.html) /\ RawOnlyInside(h)
  BY <1>1, JoinHtml, RawQuiet DEF Fine, Clean, Balanced
<1>3. /\ Write(st, w) \in States /\ Write(st, w).html = h
      /\ Write(st, w).code = st.code /\ Write(st, w).list = st.list
  BY <1>1, WriteIs
<1> HIDE DEF h
<1>4. QED BY <1>2, <1>3 DEF Fine, OpenOf

\* Raw text may be written in a heading or an item.
LEMMA WriteInside ==
  ASSUME NEW st \in Fine, NEW e \in {"</li>", "</h>"}, NEW w \in Seq(Letters)
  PROVE  Write(st, <<Closes(e)>> \o w \o <<e>>) \in Fine
<1> DEFINE x == <<Closes(e)>> \o w \o <<e>>
           h == st.html \o x
<1>1. st \in States /\ st.html \in Html /\ RawOnlyInside(st.html)
  BY DEF Fine, States
<1>2. RawOnlyInside(h) /\ Balanced(x)
  BY <1>1, RawInside
<1> HIDE DEF x
<1>3. h \in Html /\ OpenIn(h) = OpenIn(st.html) /\ x \in Html
  BY <1>1, <1>2, JoinHtml DEF Balanced
<1>4. /\ Write(st, x) \in States /\ Write(st, x).html = h
      /\ Write(st, x).code = st.code /\ Write(st, x).list = st.list
  BY <1>1, <1>3, WriteIs
<1> HIDE DEF h
<1>5. Write(st, x) \in Fine
  BY <1>2, <1>3, <1>4 DEF Fine, OpenOf
<1>6. QED BY <1>5 DEF x

\* A tag that opens or closes a list or a block of code.
LEMMA WriteTag ==
  ASSUME NEW st \in Fine, NEW t \in Opening \cup Ending, NEW r \in States,
         r.html = st.html \o <<t>>, r.code => ~r.list,
         OpenAfter(OpenIn(st.html), t) = OpenOf(r)
  PROVE  r \in Fine
<1> DEFINE h == st.html \o <<t>>
<1>1. t \in Tokens /\ t # "<" /\ <<t>> \in Html
  BY TagFacts, OneToken
<1>2. NoLess(<<t>>) /\ st.html \in Html /\ RawOnlyInside(st.html)
  BY <1>1 DEF NoLess, Fine, States
<1>3. RawOnlyInside(h)
  BY <1>1, <1>2, RawQuiet
<1>4. OpenIn(h) = OpenAfter(OpenIn(st.html), t)
  BY <1>1, <1>2, OpenStep
<1> HIDE DEF h
<1>5. QED BY <1>3, <1>4 DEF Fine, h

\* The tags of lists and code, opened and closed.
LEMMA TagSteps ==
  /\ OpenAfter(<<"<ul>">>, "</ul>") = <<>> /\ OpenAfter(<<>>, "<ul>") = <<"<ul>">>
  /\ OpenAfter(<<"<pre>">>, "</pre>") = <<>> /\ OpenAfter(<<>>, "<pre>") = <<"<pre>">>
  /\ {"<ul>", "</ul>", "<pre>", "</pre>"} \subseteq Opening \cup Ending
  /\ \A t \in {"<ul>", "</ul>", "<pre>", "</pre>"} : <<t>> \in Html
<1>1. /\ "<ul>" \in Opening /\ "<pre>" \in Opening /\ "</ul>" \notin Opening
      /\ "</pre>" \notin Opening /\ "</ul>" \in Ending /\ "</pre>" \in Ending
  BY TagFacts
<1>2. ASSUME NEW t
      PROVE  Last(<<t>>) = t /\ Front(<<t>>) = <<>> /\ <<t>> # <<>> /\ Append(<<>>, t) = <<t>>
  BY DEF Last, Front
<1>3. \A t \in {"<ul>", "</ul>", "<pre>", "</pre>"} : <<t>> \in Html
  BY <1>1, TagFacts, OneToken
<1>4. QED BY <1>1, <1>2, <1>3, TagFacts DEF OpenAfter

\* The invariant of the loop: a list is closed.
LEMMA CloseListFine ==
  ASSUME NEW st \in Fine
  PROVE  /\ CloseList(st) \in Fine /\ ~CloseList(st).list /\ CloseList(st).code = st.code
         /\ CloseList(st).html \in {st.html, st.html \o <<"</ul>">>}
<1>1. CASE st.list
  <2> DEFINE w == Write(st, <<"</ul>">>)
             r == CloseList(st)
  <2>1. st \in States /\ ~st.code /\ OpenIn(st.html) = <<"<ul>">>
    BY <1>1 DEF Fine, OpenOf
  <2>2. w \in States /\ w.html = st.html \o <<"</ul>">> /\ w.code = st.code
    BY <2>1, TagSteps, WriteIs
  <2>3. r = [w EXCEPT !.list = FALSE]
    BY <1>1 DEF CloseList
  <2> HIDE DEF w, r
  <2>4. r \in States /\ r.html = w.html /\ r.code = w.code /\ ~r.list
    BY <2>2, <2>3 DEF States
  <2>5. OpenOf(r) = <<>>
    BY <2>1, <2>2, <2>4 DEF OpenOf
  <2>6. r \in Fine
    BY <2>1, <2>2, <2>4, <2>5, WriteTag, TagSteps
  <2>7. QED BY <2>2, <2>4, <2>6 DEF r
<1>2. CASE ~st.list
  BY <1>2 DEF CloseList
<1>3. QED BY <1>1, <1>2

\* The invariant of the loop: a list is opened.
LEMMA OpenListFine ==
  ASSUME NEW st \in Fine, ~st.code
  PROVE  /\ OpenList(st) \in Fine /\ ~OpenList(st).code
         /\ OpenList(st).html \in {st.html, st.html \o <<"<ul>">>}
<1>1. CASE ~st.list
  <2> DEFINE w == Write(st, <<"<ul>">>)
             r == OpenList(st)
  <2>1. st \in States /\ OpenIn(st.html) = <<>>
    BY <1>1 DEF Fine, OpenOf
  <2>2. w \in States /\ w.html = st.html \o <<"<ul>">> /\ ~w.code
    BY <2>1, TagSteps, WriteIs
  <2>3. r = [w EXCEPT !.list = TRUE]
    BY <1>1 DEF OpenList
  <2> HIDE DEF w, r
  <2>4. r \in States /\ r.html = w.html /\ ~r.code /\ r.list
    BY <2>2, <2>3 DEF States
  <2>5. OpenOf(r) = <<"<ul>">>
    BY <2>4 DEF OpenOf
  <2>6. r \in Fine
    BY <2>1, <2>2, <2>4, <2>5, WriteTag, TagSteps
  <2>7. QED BY <2>2, <2>4, <2>6 DEF r
<1>2. CASE st.list
  BY <1>2 DEF OpenList
<1>3. QED BY <1>1, <1>2

\* The invariant of the loop: a block of code begins.
LEMMA CodeBeginFine ==
  ASSUME NEW st \in Fine, ~st.code
  PROVE  /\ CodeBegin(st) \in Fine /\ CodeBegin(st).code
         /\ CodeBegin(st).html = CloseList(st).html \o <<"<pre>">>
<1> DEFINE c == CloseList(st)
           w == Write(c, <<"<pre>">>)
           r == CodeBegin(st)
<1>1. c \in Fine /\ ~c.list /\ ~c.code
  BY CloseListFine
<1>2. r = [w EXCEPT !.code = TRUE]
  BY DEF CodeBegin
<1> HIDE DEF c, r
<1>3. c \in States /\ OpenIn(c.html) = <<>>
  BY <1>1 DEF Fine, OpenOf
<1>4. w \in States /\ w.html = c.html \o <<"<pre>">> /\ w.list = c.list
  BY <1>3, TagSteps, WriteIs
<1> HIDE DEF w
<1>5. r \in States /\ r.html = w.html /\ r.code /\ r.list = w.list
  BY <1>2, <1>4 DEF States
<1>6. OpenOf(r) = <<"<pre>">> /\ (r.code => ~r.list)
  BY <1>1, <1>4, <1>5 DEF OpenOf
<1>7. r \in Fine
  BY <1>1, <1>3, <1>4, <1>5, <1>6, WriteTag, TagSteps
<1>8. QED BY <1>4, <1>5, <1>7 DEF c, r

\* The invariant of the loop: a block of code ends.
LEMMA CodeEndFine ==
  ASSUME NEW st \in Fine, st.code
  PROVE  /\ CodeEnd(st) \in Fine /\ ~CodeEnd(st).code
         /\ CodeEnd(st).html = st.html \o <<"</pre>">>
<1> DEFINE w == Write(st, <<"</pre>">>)
           r == CodeEnd(st)
<1>1. st \in States /\ ~st.list /\ OpenIn(st.html) = <<"<pre>">>
  BY DEF Fine, OpenOf
<1>2. w \in States /\ w.html = st.html \o <<"</pre>">> /\ w.list = st.list
  BY <1>1, TagSteps, WriteIs
<1>3. r = [w EXCEPT !.code = FALSE]
  BY DEF CodeEnd
<1> HIDE DEF w, r
<1>4. r \in States /\ r.html = w.html /\ ~r.code /\ r.list = w.list
  BY <1>2, <1>3 DEF States
<1>5. OpenOf(r) = <<>>
  BY <1>1, <1>2, <1>4 DEF OpenOf
<1>6. r \in Fine
  BY <1>1, <1>2, <1>4, <1>5, WriteTag, TagSteps
<1>7. QED BY <1>2, <1>4, <1>6 DEF r

\* An escaped line is quiet.
LEMMA WrittenQuiet ==
  ASSUME NEW l \in DocLine PROVE Escape(Written(l)) \in Seq(Quiet) /\ Escape(l.text) \in Seq(Quiet)
<1>1. l.text \in Seq(Letters \cup {"mark"})
  BY DEF DocLine
<1>2. <<"mark">> \o l.text \in Seq(Letters \cup {"mark"})
  BY <1>1
<1>3. QED BY <1>1, <1>2, EscapeQuiet DEF Written

\* The invariant of the loop: a line.
LEMMA LineFine == ASSUME NEW st \in Fine, NEW l \in DocLine PROVE Line(st, l) \in Fine
<1>0. l.text \in Seq(Letters) /\ l.kind \in Kinds
  BY DEF DocLine
<1>1. CASE l.kind = "blank"
  <2>1. Line(st, l) = CloseList(st)
    BY <1>1 DEF Line
  <2>2. QED BY <2>1, CloseListFine
<1>2. CASE l.kind = "fence" /\ ~st.code
  <2>1. Line(st, l) = CodeBegin(st)
    BY <1>2 DEF Line
  <2>2. QED BY <1>2, <2>1, CodeBeginFine
<1>3. CASE l.kind = "fence" /\ st.code
  <2>1. Line(st, l) = CodeEnd(st)
    BY <1>3 DEF Line
  <2>2. QED BY <1>3, <2>1, CodeEndFine
<1>4. CASE l.kind \notin {"blank", "fence"} /\ st.code
  <2>1. Line(st, l) = Write(st, Escape(Written(l)))
    BY <1>4 DEF Line, CodeLine
  <2>2. Escape(Written(l)) \in Seq(Quiet)
    BY WrittenQuiet
  <2>3. Clean(Escape(Written(l)))
    <3>1. Escape(Written(l)) \in Seq(NoTags \ {"<"})
      BY <2>2, QuietFacts
    <3>2. QED BY <3>1, CleanText
  <2>4. QED BY <2>1, <2>3, WriteClean
<1>5. CASE l.kind = "item" /\ ~st.code
  <2>1. Line(st, l) = Write(OpenList(st), <<"<li>">> \o l.text \o <<"</li>">>)
    BY <1>5 DEF Line, Item
  <2>2. OpenList(st) \in Fine
    BY <1>5, OpenListFine
  <2>3. Write(OpenList(st), <<Closes("</li>")>> \o l.text \o <<"</li>">>) \in Fine
    BY <1>0, <2>2, WriteInside
  <2>4. QED BY <2>1, <2>3, TagFacts
<1>6. CASE l.kind = "heading" /\ ~st.code
  <2>1. Line(st, l) = Write(CloseList(st), <<"<h>">> \o l.text \o <<"</h>">>)
    BY <1>6 DEF Line, Heading
  <2>2. CloseList(st) \in Fine
    BY CloseListFine
  <2>3. Write(CloseList(st), <<Closes("</h>")>> \o l.text \o <<"</h>">>) \in Fine
    BY <1>0, <2>2, WriteInside
  <2>4. QED BY <2>1, <2>3, TagFacts
<1>7. CASE l.kind = "plain" /\ ~st.code
  <2>1. Line(st, l) = Write(CloseList(st), <<"<p>">> \o Bold(Escape(l.text)) \o <<"</p>">>)
    BY <1>7 DEF Line, Paragraph
  <2>2. CloseList(st) \in Fine
    BY CloseListFine
  <2>3. Clean(<<Closes("</p>")>> \o Bold(Escape(l.text)) \o <<"</p>">>)
    BY WrittenQuiet, BoldClean, CleanIn, TagFacts
  <2>4. Write(CloseList(st), <<Closes("</p>")>> \o Bold(Escape(l.text)) \o <<"</p>">>) \in Fine
    BY <2>2, <2>3, WriteClean
  <2>5. QED BY <2>1, <2>4, TagFacts
<1>8. QED BY <1>0, <1>1, <1>2, <1>3, <1>4, <1>5, <1>6, <1>7 DEF Kinds

\* The states of the loop, one after each line.
Loop(ls, f) ==
  /\ f \in [0..Len(ls) -> Fine] /\ f[0] = Begin /\ FoldLeft(Line, Begin, ls) = f[Len(ls)]
  /\ \A k \in 1..Len(ls) : f[k] = Line(f[k - 1], ls[k])

\* The states of the loop after each line exist.
LEMMA LoopExists == ASSUME NEW ls \in Seq(DocLine) PROVE \E f : Loop(ls, f)
<1>0. PICK n \in Nat : n = Len(ls) /\ DOMAIN ls = 1..n
  OBVIOUS
<1>a. \A k \in 1..n : ls[k] \in DocLine
  BY <1>0
<1>b. Begin \in Fine
  <2>1. RawOnlyInside(<<>>)
    BY DEF RawOnlyInside
  <2>2. QED BY <2>1, OpenEmpty DEF Begin, Fine, States, OpenOf
<1> DEFINE step == [p \in (1..n) \X Fine |-> Line(p[2], ls[p[1]])]
           Is(x) == x = [s \in SUBSET (1..n) |->
                      IF s = {} THEN Begin ELSE Line(x[s \ {Max(s)}], ls[Max(s)])]
           g == CHOOSE x : Is(x)
<1>1. step \in [(1..n) \X Fine -> Fine]
  BY <1>a, LineFine
<1>2. \A k \in 1..n, st \in Fine : step[<<k, st>>] = Line(st, ls[k])
  OBVIOUS
<1>3. FoldLeft(Line, Begin, ls) = g[1..n]
  BY <1>0 DEF FoldLeft, MapThenFoldSet
<1> HIDE DEF step
<1>4. PICK it : Iterates(it, n, Fine, Begin, step)
  BY <1>b, <1>1, IterExists
<1>5. Is(it)
  <2>1. /\ it \in [SUBSET (1..n) -> Fine]
        /\ \A s \in SUBSET (1..n) :
             it[s] = IF s = {} THEN Begin ELSE step[<<Max(s), it[s \ {Max(s)}]>>]
    BY <1>4 DEF Iterates
  <2>2. ASSUME NEW s \in SUBSET (1..n)
        PROVE  it[s] = IF s = {} THEN Begin ELSE Line(it[s \ {Max(s)}], ls[Max(s)])
    <3>1. s # {} => Max(s) \in 1..n /\ it[s \ {Max(s)}] \in Fine
      BY <2>1, MaxLast
    <3>2. QED BY <1>2, <2>1, <3>1
  <2>3. QED BY <2>1, <2>2
<1>6. Is(g)
  <2> HIDE DEF Is
  <2>1. QED BY <1>5
<1>7. \A s \in SUBSET (1..n) :
        g[s] = IF s = {} THEN Begin ELSE Line(g[s \ {Max(s)}], ls[Max(s)])
  <2> HIDE DEF g
  <2>1. QED BY <1>6
<1> HIDE DEF g, Is
<1> DEFINE f == [k \in 0..n |-> g[1..k]]
<1>8. Climbs(f, Fine, Begin, n, step)
  <2>1. g[{}] = Begin
    BY <1>7
  <2>2. ASSUME NEW k \in 1..n, g[1..(k - 1)] \in Fine
        PROVE  g[1..k] = step[<<k, g[1..(k - 1)]>>]
    <3>1. g[1..k] = Line(g[1..(k - 1)], ls[k])
      BY <1>7, UpTo
    <3>2. QED BY <1>2, <2>2, <3>1
  <2>3. QED BY <1>1, <1>b, <2>1, <2>2, IterClimbs
<1>9. f[n] = g[1..n]
  BY <1>0
<1> HIDE DEF f
<1>10. /\ f \in [0..n -> Fine] /\ f[0] = Begin /\ \A k \in 1..n : f[k] = step[<<k, f[k - 1]>>]
  BY <1>8 DEF Climbs
<1>11. \A k \in 1..n : f[k] = Line(f[k - 1], ls[k])
  <2>1. \A k \in 1..n : k - 1 \in 0..n
    BY <1>0
  <2>2. QED BY <1>2, <1>10, <2>1
<1>12. QED BY <1>0, <1>3, <1>9, <1>10, <1>11 DEF Loop

\* md_to_html, whatever the lines: its tags are nested and closed, and a "<" that
\* was written is escaped outside of headings and items (md.cc 11-87).
LEMMA HtmlSound ==
  ASSUME NEW ls \in Seq(DocLine) PROVE WellNested(MdToHtml(ls)) /\ RawOnlyInside(MdToHtml(ls))
<1>1. PICK f : Loop(ls, f)
  BY LoopExists
<1>2. PICK st \in Fine : st = FoldLeft(Line, Begin, ls)
  BY <1>1 DEF Loop
<1>3. PICK c \in Fine : c = (IF st.code THEN CodeEnd(st) ELSE st) /\ ~c.code
  BY CodeEndFine
<1>4. MdToHtml(ls) = CloseList(c).html
  BY <1>2, <1>3 DEF MdToHtml
<1>5. CloseList(c) \in Fine /\ ~CloseList(c).list /\ ~CloseList(c).code
  BY <1>3, CloseListFine
<1>6. QED BY <1>4, <1>5 DEF Fine, OpenOf, WellNested

\* md_to_html is called with lines.
LEMMA ShownStatement ==
  Called => (of = "MdToHtml" => \E ls \in Seq(DocLine) : given = <<ls>> /\ result = MdToHtml(ls))
BY TextsAssumption DEF Called, DocLine

\* Whatever the lines of a statement, the tags that md_to_html writes are nested and
\* all closed: the loop has open what in_list and in_code say, a list or a block of
\* code and never both (md.cc 11-87).
THEOREM TagsAreNested == Spec => []Nested
<1>1. Called => Nested
  BY ShownStatement, HtmlSound DEF Nested
<1>2. QED BY <1>1, CalledInvariant, PTL

\* In md_to_html's result a "<" that is not escaped is inside a heading or an item:
\* paragraphs and code escape their lines, bold text included (md.cc 29-64).
THEOREM RestIsEscaped == Spec => []Escaped
<1>1. Called => Escaped
  BY ShownStatement, HtmlSound DEF Escaped
<1>2. QED BY <1>1, CalledInvariant, PTL

-----------------------------------------------------------------------------
\* The text among the tokens: it is read one token after the other.
Seen == {"a", "b", "<", "&lt", "semi"}
Shown(t) == IF t \in Seen THEN <<t>> ELSE <<>>

\* FlattenSeq of two sequences put together.
LEMMA FlattenJoin ==
  ASSUME NEW S, NEW a \in Seq(Seq(S)), NEW b \in Seq(Seq(S))
  PROVE  /\ FlattenSeq(a) \in Seq(S) /\ FlattenSeq(b) \in Seq(S)
         /\ FlattenSeq(a \o b) = FlattenSeq(a) \o FlattenSeq(b)
<1>0. PICK n \in Nat : n = Len(b)
  OBVIOUS
<1>1. FlattenSeq(a) \in Seq(S) /\ FlattenSeq(b) \in Seq(S)
  <2>1. PICK f \in [0..Len(a) -> Seq(S)] : FlattenSeq(a) = f[Len(a)]
    BY FlattenParts
  <2>2. PICK f1 \in [0..Len(b) -> Seq(S)] : FlattenSeq(b) = f1[Len(b)]
    BY FlattenParts
  <2>3. Len(a) \in 0..Len(a) /\ Len(b) \in 0..Len(b)
    OBVIOUS
  <2>4. QED BY <2>1, <2>2, <2>3
<1> DEFINE F(k) == FlattenSeq(SubSeq(b, 1, k))
           G(k) == FlattenSeq(a \o SubSeq(b, 1, k))
           T == {k \in Nat : k <= n => F(k) \in Seq(S) /\ G(k) = FlattenSeq(a) \o F(k)}
<1>2. 0 \in T
  <2>1. SubSeq(b, 1, 0) = <<>> /\ a \o <<>> = a /\ FlattenSeq(a) \o <<>> = FlattenSeq(a)
    BY <1>0, <1>1, ConcatEmptySeq, SubSeqEmpty
  <2>2. FlattenSeq(<<>>) = <<>> /\ <<>> \in Seq(S)
    BY EmptySeq DEF FlattenSeq
  <2>3. QED BY <2>1, <2>2
<1>3. ASSUME NEW k \in T PROVE k + 1 \in T
  <2>1. SUFFICES ASSUME k + 1 <= n
                 PROVE  F(k + 1) \in Seq(S) /\ G(k + 1) = FlattenSeq(a) \o F(k + 1)
    BY <1>3
  <2>2. k \in Nat /\ F(k) \in Seq(S) /\ G(k) = FlattenSeq(a) \o F(k) /\ k + 1 \in 1..n
    BY <1>3, <2>1
  <2>3. b[k + 1] \in Seq(S) /\ SubSeq(b, 1, k) \in Seq(Seq(S))
    BY <1>0, <2>2
  <2>4. SubSeq(b, 1, k + 1) = Append(SubSeq(b, 1, k), b[k + 1])
    BY <1>0, <2>2
  <2>5. /\ a \o SubSeq(b, 1, k) \in Seq(Seq(S))
        /\ a \o SubSeq(b, 1, k + 1) = Append(a \o SubSeq(b, 1, k), b[k + 1])
    <3> DEFINE A == Seq(S)
    <3>1. PICK c \in Seq(A), e \in A : c = SubSeq(b, 1, k) /\ e = b[k + 1]
      BY <2>3
    <3>2. a \in Seq(A)
      OBVIOUS
    <3> HIDE DEF A
    <3>3. a \o Append(c, e) = Append(a \o c, e) /\ a \o c \in Seq(A)
      BY <3>2
    <3>4. QED BY <2>4, <3>1, <3>3 DEF A
  <2>6. F(k + 1) = F(k) \o b[k + 1]
    BY <2>3, <2>4, FlattenAppend
  <2>7. G(k + 1) = G(k) \o b[k + 1]
    BY <2>3, <2>5, FlattenAppend
  <2> HIDE DEF F, G
  <2>8. (FlattenSeq(a) \o F(k)) \o b[k + 1] = FlattenSeq(a) \o (F(k) \o b[k + 1])
    <3>1. PICK x \in Seq(S), y \in Seq(S), z \in Seq(S) :
            x = FlattenSeq(a) /\ y = F(k) /\ z = b[k + 1]
      BY <1>1, <2>2, <2>3
    <3>2. (x \o y) \o z = x \o (y \o z)
      OBVIOUS
    <3>3. QED BY <3>1, <3>2
  <2>9. F(k) \o b[k + 1] \in Seq(S)
    BY <2>2, <2>3, ConcatProperties
  <2>10. QED BY <2>2, <2>6, <2>7, <2>8, <2>9
<1>4. G(n) = FlattenSeq(a) \o F(n)
  <2> HIDE DEF T
  <2>1. T = Nat
    BY <1>2, <1>3, AllNat DEF T
  <2>2. n \in T /\ n <= n
    BY <2>1
  <2> HIDE DEF F, G
  <2>3. QED BY <2>2 DEF T
<1>5. SubSeq(b, 1, n) = b
  BY <1>0, SubSeqFull
<1>6. QED BY <1>1, <1>4, <1>5

\* What is read of two texts put together.
LEMMA ReadableJoin ==
  ASSUME NEW a \in Html, NEW b \in Html
  PROVE  Readable(a) \in Html /\ Readable(a \o b) = Readable(a) \o Readable(b)
<1> DEFINE R(s) == [i \in DOMAIN s |-> Shown(s[i])]
<1>1. \A s : Readable(s) = FlattenSeq(R(s))
  BY DEF Readable, Shown, Seen
<1>2. \A t \in Tokens : Shown(t) \in Seq(Tokens)
  BY DEF Shown
<1>3. ASSUME NEW s \in Html PROVE R(s) \in Seq(Seq(Tokens)) /\ Len(R(s)) = Len(s)
  <2>1. DOMAIN s = 1..Len(s) /\ \A i \in 1..Len(s) : s[i] \in Tokens
    BY DEF Html
  <2>2. \A i \in 1..Len(s) : Shown(s[i]) \in Seq(Tokens)
    BY <1>2, <2>1
  <2>3. Len(s) \in Nat
    BY DEF Html
  <2>4. QED BY <2>1, <2>2, <2>3
<1>4. R(a \o b) = R(a) \o R(b)
  <2>1. a \o b \in Html /\ Len(a \o b) = Len(a) + Len(b)
    BY DEF Html
  <2> DEFINE c == a \o b
             ra == R(a)
             rb == R(b)
             rc == R(c)
  <2>2. /\ \A i \in 1..Len(a) : ra[i] = Shown(a[i]) /\ c[i] = a[i]
        /\ \A i \in 1..Len(b) : rb[i] = Shown(b[i]) /\ c[Len(a) + i] = b[i]
    BY DEF Html
  <2>3. \A i \in 1..Len(c) : rc[i] = Shown(c[i])
    BY <2>1 DEF Html
  <2>4. ra \in Seq(Seq(Tokens)) /\ rb \in Seq(Seq(Tokens)) /\ rc \in Seq(Seq(Tokens))
        /\ Len(ra) = Len(a) /\ Len(rb) = Len(b) /\ Len(rc) = Len(a) + Len(b)
    BY <1>3, <2>1
  <2>5. Len(a) \in Nat /\ Len(b) \in Nat /\ Len(c) = Len(a) + Len(b)
    BY <2>1 DEF Html
  <2> DEFINE A == Seq(Tokens)
  <2> HIDE DEF ra, rb, rc, c, A
  <2>a. ra \in Seq(A) /\ rb \in Seq(A) /\ rc \in Seq(A)
    BY <2>4 DEF A
  <2>6. \A i \in 1..Len(rc) : rc[i] = (ra \o rb)[i]
    <3>1. SUFFICES ASSUME NEW i \in 1..Len(rc) PROVE rc[i] = (ra \o rb)[i]
      OBVIOUS
    <3>2. CASE i <= Len(a)
      <4>1. (ra \o rb)[i] = ra[i] /\ i \in 1..Len(a)
        BY <2>a, <2>4, <2>5, <3>2
      <4>2. QED BY <2>2, <2>3, <2>4, <2>5, <4>1
    <3>3. CASE ~(i <= Len(a))
      <4>1. (ra \o rb)[i] = rb[i - Len(a)] /\ i - Len(a) \in 1..Len(b)
        <5>1. i \in 1..(Len(ra) + Len(rb)) /\ ~(i <= Len(ra)) /\ i - Len(a) \in 1..Len(b)
          BY <2>4, <2>5, <3>3
        <5>2. (ra \o rb)[i] = rb[i - Len(ra)]
          BY <2>a, <5>1, ConcatProperties
        <5>3. QED BY <2>4, <5>1, <5>2
      <4>2. Len(a) + (i - Len(a)) = i
        BY <2>4, <2>5
      <4>3. QED BY <2>2, <2>3, <2>4, <2>5, <4>1, <4>2
    <3>4. QED BY <3>2, <3>3
  <2>7. rc = ra \o rb
    <3>1. ra \o rb \in Seq(A) /\ Len(ra \o rb) = Len(rc)
      BY <2>a, <2>4
    <3>2. QED BY <2>a, <2>6, <3>1, SeqEqual
  <2>8. QED BY <2>7 DEF ra, rb, rc, c
<1> HIDE DEF R
<1>5. /\ FlattenSeq(R(a)) \in Seq(Tokens)
      /\ FlattenSeq(R(a) \o R(b)) = FlattenSeq(R(a)) \o FlattenSeq(R(b))
  BY <1>3, FlattenJoin
<1>6. QED BY <1>1, <1>4, <1>5 DEF Html

\* What is read of one token.
LEMMA ReadableOne ==
  /\ Readable(<<>>) = <<>>
  /\ \A t \in Tokens : <<t>> \in Html /\ Readable(<<t>>) = Shown(t)
<1>1. Readable(<<>>) = <<>>
  BY DEF Readable, FlattenSeq
<1>2. ASSUME NEW t \in Tokens PROVE Readable(<<t>>) = Shown(t)
  <2> DEFINE s == <<Shown(t)>>
             f == [i \in 1..1 |-> Shown(<<t>>[i])]
  <2>1. Shown(t) \in Seq(Tokens)
    BY DEF Shown
  <2>2. f = s /\ s \in Seq(Seq(Tokens)) /\ s = Append(<<>>, Shown(t))
    BY <2>1
  <2>3. DOMAIN <<t>> = 1..1
    OBVIOUS
  <2>4. Readable(<<t>>) = FlattenSeq(f)
    BY <2>3 DEF Readable, Shown, Seen
  <2>5. <<>> \in Seq(Seq(Tokens)) /\ FlattenSeq(<<>>) = <<>>
    BY EmptySeq DEF FlattenSeq
  <2> HIDE DEF f, s
  <2>6. FlattenSeq(s) = FlattenSeq(<<>>) \o Shown(t)
    BY <2>1, <2>2, <2>5, FlattenAppend
  <2>7. <<>> \o Shown(t) = Shown(t)
    BY <2>1, ConcatEmptySeq
  <2>8. QED BY <2>2, <2>4, <2>5, <2>6, <2>7
<1>3. QED BY <1>1, <1>2, OneToken

-----------------------------------------------------------------------------
\* Escaping a text, one character after the other.
Escapes(t) == IF t = "<" THEN <<"&lt", "semi">> ELSE <<t>>
Chars == Letters \cup {"mark"}

\* Escaping goes character by character.
LEMMA EscapeStep ==
  /\ Escape(<<>>) = <<>>
  /\ \A w \in Seq(Chars), t \in Chars :
       Escape(w) \in Html /\ Escape(Append(w, t)) = Escape(w) \o Escapes(t)
<1> DEFINE R(s) == [i \in DOMAIN s |-> Escapes(s[i])]
<1>1. \A s : Escape(s) = FlattenSeq(R(s))
  BY DEF Escape, Escapes
<1>2. Escape(<<>>) = <<>>
  BY DEF Escape, FlattenSeq
<1>3. SUFFICES ASSUME NEW w \in Seq(Chars), NEW t \in Chars
               PROVE  Escape(w) \in Html /\ Escape(Append(w, t)) = Escape(w) \o Escapes(t)
  BY <1>2
<1>0. PICK n \in Nat : n = Len(w) /\ DOMAIN w = 1..n
  OBVIOUS
<1>4. \A c \in Chars : Escapes(c) \in Seq(Tokens)
  <2>1. \A c \in Chars : c \in Tokens
    BY DEF Chars, Tokens
  <2>2. "&lt" \in Tokens /\ "semi" \in Tokens
    BY DEF Tokens
  <2>3. QED BY <2>1, <2>2 DEF Escapes
<1> DEFINE x == Append(w, t)
           rw == R(w)
           rx == R(x)
<1>5. /\ DOMAIN x = 1..(n + 1) /\ x[n + 1] = t /\ \A i \in 1..n : x[i] = w[i]
  BY <1>0
<1>6. \A i \in 1..n : w[i] \in Chars
  BY <1>0
<1>7. rw \in Seq(Seq(Tokens)) /\ Len(rw) = n /\ \A i \in 1..n : rw[i] = Escapes(w[i])
  <2>1. \A i \in 1..n : Escapes(w[i]) \in Seq(Tokens)
    BY <1>4, <1>6
  <2>2. QED BY <1>0, <2>1
<1>8. rx = Append(rw, Escapes(t))
  <2>1. rx = [i \in 1..(n + 1) |-> Escapes(x[i])]
    BY <1>5
  <2>2. \A i \in 1..(n + 1) : rx[i] = IF i = n + 1 THEN Escapes(t) ELSE rw[i]
    <3>1. SUFFICES ASSUME NEW i \in 1..(n + 1)
                   PROVE  rx[i] = IF i = n + 1 THEN Escapes(t) ELSE rw[i]
      OBVIOUS
    <3>2. rx[i] = Escapes(x[i])
      BY <2>1
    <3>3. i # n + 1 => i \in 1..n
      BY <1>0
    <3> HIDE DEF rx, rw, x
    <3>4. QED BY <1>5, <1>7, <3>2, <3>3
  <2> DEFINE A == Seq(Tokens)
             e == Escapes(t)
             y == Append(rw, e)
  <2>3. rw \in Seq(A) /\ e \in A
    BY <1>4, <1>7
  <2>4. rx \in Seq(A) /\ Len(rx) = n + 1
    <3>1. \A i \in 1..(n + 1) : Escapes(x[i]) \in A
      BY <1>4, <1>5, <1>6
    <3>2. QED BY <1>0, <2>1, <3>1
  <2> HIDE DEF rx, rw, x, A, e
  <2>5. y \in Seq(A) /\ Len(y) = n + 1 /\ y[n + 1] = e /\ \A i \in 1..n : y[i] = rw[i]
    BY <1>7, <2>3, AppendProperties
  <2> HIDE DEF y
  <2>6. \A i \in 1..Len(rx) : rx[i] = y[i]
    <3>1. \A i \in 1..(n + 1) : y[i] = IF i = n + 1 THEN e ELSE rw[i]
      BY <1>0, <2>5
    <3>2. QED BY <2>2, <2>4, <3>1 DEF e
  <2>7. rx = y
    BY <2>4, <2>5, <2>6, SeqEqual
  <2>8. QED BY <2>7 DEF y, e
<1>9. Escapes(t) \in Seq(Tokens)
  BY <1>4
<1> HIDE DEF rx, rw
<1>10. FlattenSeq(rw) \in Seq(Tokens) /\ FlattenSeq(rx) = FlattenSeq(rw) \o Escapes(t)
  BY <1>7, <1>8, <1>9, FlattenAppend
<1>11. QED BY <1>1, <1>10 DEF rw, rx, x, Html

\* The mark of an item or a heading in a block of code is no text.
LEMMA ReadableWritten ==
  ASSUME NEW l \in DocLine PROVE Readable(Escape(Written(l))) = Readable(Escape(l.text))
<1>0. PICK w \in Seq(Letters) : w = l.text
  BY DEF DocLine
<1>a. PICK n \in Nat : n = Len(w)
  OBVIOUS
<1>m. PICK m \in Seq(Chars) : m = <<"mark">>
  <2>1. PICK c \in Chars : c = "mark"
    BY DEF Chars
  <2>2. <<c>> \in Seq(Chars)
    OBVIOUS
  <2>3. QED BY <2>1, <2>2
<1> DEFINE To(k) == SubSeq(w, 1, k)
           T == {k \in Nat : k <= n => Readable(Escape(m \o To(k))) = Readable(Escape(To(k)))}
<1>1. 0 \in T
  <2>1. To(0) = <<>> /\ m \o <<>> = m
    BY <1>a, <1>m
  <2>2. Escape(m) = <<"mark">>
    <3>1. m = Append(<<>>, "mark") /\ "mark" \in Chars /\ <<>> \in Seq(Chars)
      BY <1>m DEF Chars
    <3>2. Escape(m) = <<>> \o Escapes("mark")
      BY <3>1, EscapeStep
    <3>3. Escapes("mark") = <<"mark">> /\ <<>> \o <<"mark">> = <<"mark">>
      BY DEF Escapes
    <3>4. QED BY <3>2, <3>3
  <2>3. Readable(<<"mark">>) = <<>> /\ Readable(<<>>) = <<>>
    BY ReadableOne, TagFacts DEF Shown, Seen
  <2>4. QED BY <2>1, <2>2, <2>3, EscapeStep
<1>2. ASSUME NEW k \in T PROVE k + 1 \in T
  <2>1. SUFFICES ASSUME k + 1 <= n
                 PROVE  Readable(Escape(m \o To(k + 1))) = Readable(Escape(To(k + 1)))
    BY <1>2
  <2>2. k \in Nat /\ Readable(Escape(m \o To(k))) = Readable(Escape(To(k))) /\ k + 1 \in 1..n
    BY <1>2, <2>1
  <2>3. PICK t \in Chars, v \in Seq(Chars) : t = w[k + 1] /\ v = To(k)
    <3>1. w[k + 1] \in Letters /\ To(k) \in Seq(Letters)
      BY <1>a, <2>2
    <3>2. Letters \subseteq Chars
      BY DEF Chars
    <3>3. w[k + 1] \in Chars /\ To(k) \in Seq(Chars)
      BY <3>1, <3>2
    <3> HIDE DEF To
    <3>4. QED BY <3>3
  <2>4. To(k + 1) = Append(v, t)
    BY <1>a, <2>2, <2>3
  <2>5. m \o Append(v, t) = Append(m \o v, t) /\ m \o v \in Seq(Chars)
    OBVIOUS
  <2>6. /\ Escape(v) \in Html /\ Escape(Append(v, t)) = Escape(v) \o Escapes(t)
        /\ Escape(m \o v) \in Html /\ Escape(Append(m \o v, t)) = Escape(m \o v) \o Escapes(t)
    BY <2>5, EscapeStep
  <2>7. Escapes(t) \in Html
    <3>1. t \in Tokens /\ "&lt" \in Tokens /\ "semi" \in Tokens
      BY DEF Chars, Tokens
    <3>2. QED BY <3>1 DEF Escapes, Html
  <2> HIDE DEF To
  <2>8. /\ Readable(Escape(Append(v, t))) = Readable(Escape(v)) \o Readable(Escapes(t))
        /\ Readable(Escape(Append(m \o v, t))) = Readable(Escape(m \o v)) \o Readable(Escapes(t))
    BY ZenonT(60), <2>6, <2>7, ReadableJoin
  <2>9. QED BY <2>2, <2>3, <2>4, <2>5, <2>8
<1>3. Readable(Escape(m \o To(n))) = Readable(Escape(To(n)))
  <2> HIDE DEF T
  <2>1. T = Nat
    BY <1>1, <1>2, AllNat DEF T
  <2>2. n \in T /\ n <= n
    BY <2>1
  <2> HIDE DEF To
  <2>3. QED BY <2>2 DEF T
<1>4. To(n) = w
  BY <1>a
<1>5. Written(l) = m \o w \/ Written(l) = w
  BY <1>0, <1>m DEF Written
<1>6. QED BY <1>0, <1>3, <1>4, <1>5

-----------------------------------------------------------------------------
\* The pairs of stars of a text, counted from its beginning.
StarStates == [star : BOOLEAN, open : BOOLEAN]
StarNext(st, c) ==
  [star |-> c = "*" /\ ~st.star, open |-> IF c = "*" /\ st.star THEN ~st.open ELSE st.open]
NoStar == [star |-> FALSE, open |-> FALSE]

Counts(w, g) ==
  /\ g \in [0..Len(w) -> StarStates] /\ g[0] = NoStar /\ StarsOdd(w) = g[Len(w)].open
  /\ \A k \in 1..Len(w) : g[k] = StarNext(g[k - 1], w[k])

\* The states of the count of stars.
LEMMA StarFacts ==
  /\ NoStar \in StarStates /\ ~NoStar.star /\ ~NoStar.open
  /\ \A st \in StarStates : \A c :
       /\ StarNext(st, c) \in StarStates
       /\ StarNext(st, c).star <=> c = "*" /\ ~st.star
       /\ StarNext(st, c).open <=> IF c = "*" /\ st.star THEN ~st.open ELSE st.open
<1>1. NoStar \in StarStates /\ ~NoStar.star /\ ~NoStar.open
  BY DEF NoStar, StarStates
<1>2. ASSUME NEW st \in StarStates, NEW c PROVE StarNext(st, c) \in StarStates
  BY DEF StarNext, StarStates
<1>3. ASSUME NEW st \in StarStates, NEW c
      PROVE  /\ StarNext(st, c).star <=> c = "*" /\ ~st.star
             /\ StarNext(st, c).open <=> IF c = "*" /\ st.star THEN ~st.open ELSE st.open
  BY DEF StarNext
<1>4. QED BY <1>1, <1>2, <1>3

\* The count of stars exists.
LEMMA CountsExist == ASSUME NEW S, NEW w \in Seq(S) PROVE \E g : Counts(w, g)
<1>0. PICK n \in Nat : n = Len(w) /\ DOMAIN w = 1..n
  OBVIOUS
<1>e. PICK e \in StarStates : e = NoStar
  BY StarFacts
<1> DEFINE A == StarStates
           step == [p \in (1..n) \X A |-> StarNext(p[2], w[p[1]])]
           Is(x) == x = [s \in SUBSET (1..n) |->
                      IF s = {} THEN NoStar ELSE StarNext(x[s \ {Max(s)}], w[Max(s)])]
           g == CHOOSE x : Is(x)
<1>1. step \in [(1..n) \X A -> A]
  BY StarFacts
<1>2. \A k \in 1..n, st \in A : step[<<k, st>>] = StarNext(st, w[k])
  OBVIOUS
<1>3. StarsOdd(w) = g[1..n].open
  BY <1>0 DEF StarsOdd, FoldLeft, MapThenFoldSet, StarNext, NoStar
<1> HIDE DEF step
<1>4. PICK it : Iterates(it, n, A, e, step)
  BY <1>1, IterExists
<1>5. Is(it)
  <2>1. /\ it \in [SUBSET (1..n) -> A]
        /\ \A s \in SUBSET (1..n) :
             it[s] = IF s = {} THEN e ELSE step[<<Max(s), it[s \ {Max(s)}]>>]
    BY <1>4 DEF Iterates
  <2>2. ASSUME NEW s \in SUBSET (1..n)
        PROVE  it[s] = IF s = {} THEN NoStar ELSE StarNext(it[s \ {Max(s)}], w[Max(s)])
    <3>1. s # {} => Max(s) \in 1..n /\ it[s \ {Max(s)}] \in A
      BY <2>1, MaxLast
    <3> HIDE DEF A
    <3>2. QED BY <1>2, <1>e, <2>1, <3>1
  <2>3. QED BY <2>1, <2>2
<1>6. Is(g)
  <2> HIDE DEF Is
  <2>1. QED BY <1>5
<1>7. \A s \in SUBSET (1..n) :
        g[s] = IF s = {} THEN NoStar ELSE StarNext(g[s \ {Max(s)}], w[Max(s)])
  <2> HIDE DEF g
  <2>1. QED BY <1>6
<1> HIDE DEF g, Is
<1> DEFINE f == [k \in 0..n |-> g[1..k]]
<1>8. Climbs(f, A, e, n, step)
  <2>1. g[{}] = e
    BY <1>7, <1>e
  <2>2. ASSUME NEW k \in 1..n, g[1..(k - 1)] \in A
        PROVE  g[1..k] = step[<<k, g[1..(k - 1)]>>]
    <3>1. g[1..k] = StarNext(g[1..(k - 1)], w[k])
      BY <1>7, UpTo
    <3>2. QED BY <1>2, <2>2, <3>1
  <2>3. QED BY <1>1, <1>e, <2>1, <2>2, IterClimbs
<1>9. f[n] = g[1..n]
  BY <1>0
<1> HIDE DEF f
<1>10. /\ f \in [0..n -> A] /\ f[0] = e /\ \A k \in 1..n : f[k] = step[<<k, f[k - 1]>>]
  BY <1>8 DEF Climbs
<1>11. \A k \in 1..n : f[k] = StarNext(f[k - 1], w[k])
  <2>1. \A k \in 1..n : k - 1 \in 0..n
    BY <1>0
  <2>2. QED BY <1>2, <1>10, <2>1
<1>12. QED BY <1>0, <1>3, <1>9, <1>10, <1>11, <1>e DEF Counts

\* The state at the end of a text, and of one with a character more.
CountOf(w) == (CHOOSE g : Counts(w, g))[Len(w)]

\* The count of stars goes character by character.
LEMMA CountStep ==
  /\ CountOf(<<>>) = NoStar
  /\ \A w \in Html : CountOf(w) \in StarStates /\ StarsOdd(w) = CountOf(w).open
  /\ \A w \in Html, t \in Tokens : CountOf(Append(w, t)) = StarNext(CountOf(w), t)
<1>1. ASSUME NEW w \in Html
      PROVE  \E g : Counts(w, g) /\ CountOf(w) = g[Len(w)]
  <2>1. \E g : Counts(w, g)
    BY CountsExist DEF Html
  <2>2. QED BY <2>1 DEF CountOf
<1>2. ASSUME NEW w \in Html PROVE CountOf(w) \in StarStates /\ StarsOdd(w) = CountOf(w).open
  <2>1. Len(w) \in 0..Len(w)
    BY DEF Html
  <2>2. QED BY <1>1, <2>1 DEF Counts
<1>3. CountOf(<<>>) = NoStar
  <2>1. PICK e \in Html : e = <<>> /\ Len(e) = 0
    BY EmptyFacts DEF Html
  <2>2. PICK g : Counts(e, g) /\ CountOf(e) = g[Len(e)]
    BY <1>1
  <2>3. QED BY <2>1, <2>2 DEF Counts
<1>4. ASSUME NEW w \in Html, NEW t \in Tokens
      PROVE  CountOf(Append(w, t)) = StarNext(CountOf(w), t)
  <2>0. PICK n \in Nat : n = Len(w)
    BY DEF Html
  <2>1. PICK x \in Html : /\ x = Append(w, t) /\ Len(x) = n + 1 /\ x[n + 1] = t
                          /\ \A k \in 1..n : x[k] = w[k]
    <3> DEFINE x == Append(w, t)
    <3>1. x \in Html /\ Len(x) = n + 1
      BY <2>0 DEF Html
    <3>2. x[n + 1] = t /\ \A k \in 1..n : x[k] = w[k]
      BY <2>0 DEF Html
    <3> HIDE DEF x
    <3>3. QED BY <3>1, <3>2 DEF x
  <2>2. PICK f : Counts(w, f) /\ CountOf(w) = f[n]
    BY <1>1, <2>0
  <2>3. PICK g : Counts(x, g) /\ CountOf(x) = g[n + 1]
    BY <1>1, <2>1
  <2>4. f[0] = NoStar /\ \A k \in 1..n : f[k] = StarNext(f[k - 1], w[k])
    BY <2>0, <2>2 DEF Counts
  <2>5. g[0] = NoStar /\ \A k \in 1..(n + 1) : g[k] = StarNext(g[k - 1], x[k])
    BY <2>1, <2>3 DEF Counts
  <2> DEFINE T == {k \in Nat : k <= n => g[k] = f[k]}
  <2>6. 0 \in T
    BY <2>4, <2>5
  <2>7. ASSUME NEW k \in T PROVE k + 1 \in T
    <3>1. SUFFICES ASSUME k + 1 <= n PROVE g[k + 1] = f[k + 1]
      BY <2>7
    <3>2. k + 1 \in 1..n /\ k + 1 \in 1..(n + 1) /\ (k + 1) - 1 = k /\ g[k] = f[k]
      BY <2>7, <3>1
    <3>3. f[k + 1] = StarNext(f[k], w[k + 1]) /\ g[k + 1] = StarNext(g[k], x[k + 1])
      BY <2>4, <2>5, <3>2
    <3>4. QED BY <2>1, <3>2, <3>3
  <2>8. g[n] = f[n]
    <3> HIDE DEF T
    <3>1. T = Nat
      BY <2>6, <2>7, AllNat DEF T
    <3>2. n \in T
      BY <3>1
    <3>3. QED BY <3>2 DEF T
  <2>9. n + 1 \in 1..(n + 1) /\ (n + 1) - 1 = n
    BY <2>0
  <2>10. g[n + 1] = StarNext(g[n], t)
    BY <2>1, <2>5, <2>9
  <2>11. QED BY <2>1, <2>2, <2>3, <2>8, <2>10
<1>5. QED BY <1>2, <1>3, <1>4

\* To escape a text changes none of its stars.
LEMMA EscapedStars == ASSUME NEW w \in Seq(Letters) PROVE StarsOdd(Escape(w)) = StarsOdd(w)
<1>0. PICK n \in Nat : n = Len(w)
  OBVIOUS
<1> DEFINE To(k) == SubSeq(w, 1, k)
           T == {k \in Nat : k <= n => CountOf(Escape(To(k))) = CountOf(To(k))}
<1>1. 0 \in T
  <2>1. To(0) = <<>>
    BY <1>0
  <2>2. QED BY <2>1, EscapeStep
<1>2. ASSUME NEW k \in T PROVE k + 1 \in T
  <2>1. SUFFICES ASSUME k + 1 <= n PROVE CountOf(Escape(To(k + 1))) = CountOf(To(k + 1))
    BY <1>2
  <2>2. k \in Nat /\ CountOf(Escape(To(k))) = CountOf(To(k)) /\ k + 1 \in 1..n
    BY <1>2, <2>1
  <2>3. PICK t, v : t = w[k + 1] /\ v = To(k)
    OBVIOUS
  <2>4. t \in Letters /\ v \in Seq(Letters) /\ To(k + 1) = Append(v, t)
    BY <1>0, <2>2, <2>3
  <2>5. t \in Chars /\ v \in Seq(Chars) /\ t \in Tokens /\ v \in Html
    <3>1. Letters \subseteq Chars /\ Letters \subseteq Tokens
      BY TagFacts DEF Chars
    <3>2. QED BY <2>4, <3>1 DEF Html
  <2> HIDE DEF To
  <2>6. Escape(v) \in Html /\ Escape(Append(v, t)) = Escape(v) \o Escapes(t)
    BY <2>5, EscapeStep
  <2>7. PICK e \in Html : e = Escape(v) /\ CountOf(e) = CountOf(v) /\ CountOf(v) \in StarStates
    BY <2>2, <2>3, <2>5, <2>6, CountStep
  <2>8. CASE t # "<"
    <3>1. Escape(Append(v, t)) = Append(e, t)
      BY <2>5, <2>6, <2>7, <2>8 DEF Escapes, Html
    <3>2. QED BY <2>4, <2>5, <2>7, <3>1, CountStep
  <2>9. CASE t = "<"
    <3>1. PICK a \in Tokens, b \in Tokens : a = "&lt" /\ b = "semi"
      BY TagFacts
    <3>2. Escape(Append(v, t)) = e \o <<a, b>>
      BY <2>6, <2>7, <2>9, <3>1 DEF Escapes
    <3>3. e \o <<a, b>> = Append(Append(e, a), b) /\ Append(e, a) \in Html
      BY DEF Html
    <3>4. CountOf(Append(Append(e, a), b)) = StarNext(StarNext(CountOf(v), a), b)
      BY <2>7, <3>3, CountStep
    <3>5. CountOf(Append(v, t)) = StarNext(CountOf(v), t)
      BY <2>5, CountStep
    <3>6. a # "*" /\ b # "*" /\ t # "*"
      BY <2>9, <3>1
    <3>7. \A c : c # "*" => StarNext(CountOf(v), c) = [star |-> FALSE, open |-> CountOf(v).open]
      BY DEF StarNext
    <3>8. \A x \in StarStates : \A c : c # "*" =>
            StarNext(x, c) = [star |-> FALSE, open |-> x.open]
      BY DEF StarNext
    <3>9. StarNext(StarNext(CountOf(v), a), b) = [star |-> FALSE, open |-> CountOf(v).open]
      <4>1. StarNext(CountOf(v), a) \in StarStates
        BY <2>7, StarFacts
      <4>2. StarNext(CountOf(v), a).open = CountOf(v).open
        BY <3>6, <3>7
      <4>3. QED BY <3>6, <3>8, <4>1, <4>2
    <3>10. QED BY <2>4, <3>2, <3>3, <3>4, <3>5, <3>6, <3>7, <3>9
  <2>10. QED BY <2>8, <2>9
<1>3. CountOf(Escape(To(n))) = CountOf(To(n))
  <2> HIDE DEF T
  <2>1. T = Nat
    BY <1>1, <1>2, AllNat DEF T
  <2>2. n \in T /\ n <= n
    BY <2>1
  <2> HIDE DEF To
  <2>3. QED BY <2>2 DEF T
<1>4. To(n) = w
  BY <1>0
<1>5. w \in Html /\ Escape(w) \in Html
  <2>1. Letters \subseteq Chars /\ Letters \subseteq Tokens
    BY TagFacts DEF Chars
  <2>2. w \in Seq(Chars) /\ w \in Html
    BY <2>1 DEF Html
  <2>3. PICK t \in Chars : TRUE
    BY DEF Chars
  <2>4. QED BY <2>2, EscapeStep
<1>6. QED BY <1>3, <1>4, <1>5, CountStep

-----------------------------------------------------------------------------
\* What is read of a paragraph: all of it between the stars, but for the last
\* character when a pair is left open.
ReadOf(s, i, k) == Readable(SubSeq(s, i, k))

\* What is read of a text from i to j, cut at k.
LEMMA Between ==
  ASSUME NEW s \in Html, NEW i \in Nat, NEW k \in Nat, NEW j \in Nat,
         1 <= i, i <= k + 1, k <= j, j <= Len(s)
  PROVE  ReadOf(s, i, k) \in Html /\ ReadOf(s, i, j) = ReadOf(s, i, k) \o ReadOf(s, k + 1, j)
<1>0. PICK n \in Nat : n = Len(s)
  BY DEF Html
<1>1. /\ i \in 1..(n + 1) /\ k \in (i - 1)..n /\ j \in k..n /\ s \in Seq(Tokens)
  BY <1>0 DEF Html
<1>2. SubSeq(s, i, k) \o SubSeq(s, k + 1, j) = SubSeq(s, i, j)
  BY <1>0, <1>1, ConcatAdjacentSubSeq
<1>3. SubSeq(s, i, k) \in Html /\ SubSeq(s, k + 1, j) \in Html
  BY <1>0, <1>1 DEF Html
<1>4. QED BY <1>2, <1>3, ReadableJoin DEF ReadOf

\* What is read of one place.
LEMMA OneSeen ==
  ASSUME NEW s \in Html, NEW i \in 1..Len(s)
  PROVE  SubSeq(s, i, i) = <<s[i]>> /\ ReadOf(s, i, i) = Shown(s[i]) /\ s[i] \in Tokens
<1> DEFINE t == SubSeq(s, i, i)
<1>0. s \in Seq(Tokens) /\ s[i] \in Tokens
  BY DEF Html
<1>a. t \in Seq(Tokens) /\ Len(t) = 1 /\ t[1] = s[i]
  BY <1>0
<1>b. t = <<s[i]>>
  <2> HIDE DEF t
  <2>1. QED BY <1>a
<1>1. s[i] \in Tokens /\ SubSeq(s, i, i) = <<s[i]>>
  BY <1>0, <1>b
<1>2. QED BY <1>1, ReadableOne DEF ReadOf

\* Nothing is read of stars.
LEMMA StarsUnseen ==
  ASSUME NEW s \in Html, NEW i \in Nat \ {0}, StarsAt(s, i)
  PROVE  ReadOf(s, i, i) = <<>> /\ ReadOf(s, i, i + 1) = <<>>
<1>0. PICK n \in Nat : n = Len(s)
  BY DEF Html
<1>1. i + 1 <= n /\ s[i] = "*" /\ s[i + 1] = "*"
  BY <1>0 DEF StarsAt
<1>2. i \in 1..n /\ i + 1 \in 1..n
  BY <1>0, <1>1
<1>3. ReadOf(s, i, i) = Shown("*") /\ ReadOf(s, i + 1, i + 1) = Shown("*")
  BY <1>0, <1>1, <1>2, OneSeen
<1>4. Shown("*") = <<>>
  BY DEF Shown, Seen
<1>5. ReadOf(s, i, i + 1) = ReadOf(s, i, i) \o ReadOf(s, i + 1, i + 1)
  <2>1. i \in Nat /\ i + 1 \in Nat /\ 1 <= i /\ i <= i + 1 /\ i + 1 <= Len(s)
    BY <1>0, <1>1
  <2>2. QED BY <2>1, Between
<1>6. QED BY <1>3, <1>4, <1>5

\* A pair is open until the next one.
LEMMA InBold ==
  ASSUME NEW s \in Seq(Quiet), NEW g, Counts(s, g), NEW i \in Nat \ {0}, StarsAt(s, i),
         ~g[i - 1].star, ~g[i - 1].open,
         NEW z \in (i + 1)..Len(s), \A k \in (i + 2)..(z - 1) : ~StarsAt(s, k)
  PROVE  g[z].open /\ (g[z].star => s[z] = "*" /\ z >= i + 2)
<1>0. PICK n \in Nat : n = Len(s)
  OBVIOUS
<1>1. i + 1 <= n /\ s[i] = "*" /\ s[i + 1] = "*"
  BY <1>0 DEF StarsAt
<1>2. \A k \in 1..n : /\ g[k - 1] \in StarStates /\ g[k] \in StarStates
                      /\ g[k] = StarNext(g[k - 1], s[k])
  <2>1. \A k \in 1..n : k - 1 \in 0..n /\ k \in 0..n
    BY <1>0
  <2>2. QED BY <1>0, <2>1 DEF Counts
<1>3. \A k \in 1..n :
        /\ g[k].star <=> s[k] = "*" /\ ~g[k - 1].star
        /\ g[k].open <=> IF s[k] = "*" /\ g[k - 1].star THEN ~g[k - 1].open ELSE g[k - 1].open
  BY <1>2, StarFacts
<1> DEFINE P(k) == g[k].open /\ (g[k].star => s[k] = "*" /\ k >= i + 2)
           T == {d \in Nat : i + 1 + d <= z => P(i + 1 + d)}
<1>4. 0 \in T
  <2>1. i \in 1..n /\ i + 1 \in 1..n /\ (i + 1) - 1 = i
    BY <1>0, <1>1
  <2>2. g[i].star /\ ~g[i].open
    BY <1>1, <1>3, <2>1
  <2>3. g[i + 1].open /\ ~g[i + 1].star
    BY <1>1, <1>3, <2>1, <2>2
  <2>4. i + 1 + 0 = i + 1
    OBVIOUS
  <2>5. QED BY <2>3, <2>4
<1>5. ASSUME NEW d \in T PROVE d + 1 \in T
  <2>1. SUFFICES ASSUME i + 1 + (d + 1) <= z PROVE P(i + 1 + (d + 1))
    BY <1>5
  <2>2. PICK k \in Nat : k = i + 1 + d
    BY <1>5
  <2>3. d \in Nat /\ g[k].open /\ (g[k].star => s[k] = "*" /\ k >= i + 2)
    BY <1>5, <2>1, <2>2
  <2>4. /\ k + 1 = i + 1 + (d + 1) /\ k + 1 \in 1..n /\ (k + 1) - 1 = k /\ k <= z - 1
        /\ k + 1 >= i + 2 /\ k + 1 <= n
    BY <1>0, <2>1, <2>2, <2>3
  <2>5. ~(s[k + 1] = "*" /\ g[k].star)
    <3>1. SUFFICES ASSUME s[k + 1] = "*", g[k].star PROVE FALSE
      OBVIOUS
    <3>2. k \in (i + 2)..(z - 1) /\ s[k] = "*"
      BY <2>3, <2>4, <3>1
    <3>3. StarsAt(s, k)
      BY <1>0, <2>4, <3>1, <3>2 DEF StarsAt
    <3>4. QED BY <3>2, <3>3
  <2>6. g[k + 1].open /\ (g[k + 1].star => s[k + 1] = "*")
    BY <1>3, <2>3, <2>4, <2>5
  <2>7. QED BY <2>4, <2>6
<1>6. P(z)
  <2> HIDE DEF T
  <2>1. T = Nat
    BY <1>4, <1>5, AllNat DEF T
  <2>2. z - (i + 1) \in T /\ i + 1 + (z - (i + 1)) = z
    BY <2>1
  <2> HIDE DEF P
  <2>3. QED BY <2>2 DEF T
<1>7. QED BY <1>6

\* Bold text is read as it stands, but for the last character when it is left open.
LEMMA BoldReads ==
  ASSUME NEW s \in Seq(Quiet)
  PROVE  Readable(Bold(s)) = Readable(IF StarsOdd(s) THEN Front(s) ELSE s)
<1>0. PICK n \in Nat : n = Len(s)
  OBVIOUS
<1>h. s \in Html
  BY QuietFacts DEF Html
<1>1. PICK f : Scanned(s, f) /\ Bold(s) = f[1]
  BY BoldScan
<1>2. PICK g : Counts(s, g)
  BY CountsExist
<1>3. PICK m \in Int : m = IF g[n].open THEN n - 1 ELSE n
  OBVIOUS
<1>4. \A k \in 1..n :
        /\ g[k].star <=> s[k] = "*" /\ ~g[k - 1].star
        /\ g[k].open <=> IF s[k] = "*" /\ g[k - 1].star THEN ~g[k - 1].open ELSE g[k - 1].open
  <2>1. \A k \in 1..n : k - 1 \in 0..n
    BY <1>0
  <2>2. \A k \in 1..n : g[k - 1] \in StarStates /\ g[k] = StarNext(g[k - 1], s[k])
    BY <1>0, <1>2, <2>1 DEF Counts
  <2>3. QED BY <2>2, StarFacts
<1>5. ~g[0].star /\ ~g[0].open
  BY <1>2, StarFacts DEF Counts
<1> DEFINE Free(i) == ~g[i - 1].open /\ ~(g[i - 1].star /\ i <= n /\ s[i] = "*")
           T == {i \in 1..(n + 1) : Free(i) /\ Readable(f[i]) # ReadOf(s, i, m)}
<1>6. T = {}
  <2>1. SUFFICES ASSUME T # {} PROVE FALSE
    OBVIOUS
  <2>2. PICK i \in T : \A k \in T : k <= i
    <3>1. T \in SUBSET (0..(n + 1)) /\ n + 1 \in Nat
      OBVIOUS
    <3> HIDE DEF T
    <3>2. QED BY <2>1, <3>1, GreatestNat
  <2>3. i \in 1..(n + 1) /\ Free(i) /\ Readable(f[i]) # ReadOf(s, i, m)
    BY <2>2
  <2>4. \A k \in (i + 1)..(n + 1) : Free(k) => Readable(f[k]) = ReadOf(s, k, m)
    <3>1. SUFFICES ASSUME NEW k \in (i + 1)..(n + 1), Free(k), Readable(f[k]) # ReadOf(s, k, m)
                   PROVE  FALSE
      OBVIOUS
    <3>2. k \in T /\ ~(k <= i)
      BY <2>3, <3>1
    <3> HIDE DEF T, Free
    <3>3. QED BY <2>2, <3>2
  <2> HIDE DEF T
  <2>5. /\ i > n => f[i] = <<>>
        /\ i <= n /\ ~StarsAt(s, i) => f[i] = <<s[i]>> \o f[i + 1]
        /\ i <= n /\ StarsAt(s, i) => f[i] = Strong(s, i) \o f[After(s, i)]
    <3>1. i \in 1..(Len(s) + 2)
      BY <1>0, <2>3
    <3>2. QED BY <1>0, <1>1, <3>1 DEF Scanned
  <2>6. CASE i > n
    <3>1. i = n + 1 /\ i - 1 = n
      BY <2>3, <2>6
    <3>2. m = n
      BY <1>3, <2>3, <3>1
    <3>3. SubSeq(s, i, m) = <<>>
      BY <3>1, <3>2
    <3>4. QED BY <2>3, <2>5, <2>6, <3>3 DEF ReadOf
  <2>7. CASE i <= n /\ ~StarsAt(s, i)
    <3>1. i \in 1..n /\ i + 1 \in 1..(n + 1) /\ (i + 1) - 1 = i /\ i + 1 \in (i + 1)..(n + 1)
      BY <2>3, <2>7
    <3>2. ~g[i].open /\ (g[i].star => s[i] = "*")
      <4>1. ~(s[i] = "*" /\ g[i - 1].star)
        BY <2>3, <2>7
      <4>2. QED BY <1>4, <2>3, <3>1, <4>1
    <3>3. Free(i + 1)
      <4>1. ASSUME g[i].star, i + 1 <= n, s[i + 1] = "*" PROVE FALSE
        BY <1>0, <2>7, <3>2, <4>1 DEF StarsAt
      <4>2. QED BY <3>1, <3>2, <4>1
    <3>4. Readable(f[i + 1]) = ReadOf(s, i + 1, m)
      BY <2>4, <3>1, <3>3
    <3>5. i <= m /\ m \in Nat /\ m <= n
      <4>1. i = n => m = n
        BY <1>3, <3>2
      <4>2. QED BY <1>3, <3>1, <4>1
    <3>6. ReadOf(s, i, m) = ReadOf(s, i, i) \o ReadOf(s, i + 1, m)
      <4>1. i \in Nat /\ 1 <= i /\ i <= i + 1 /\ i <= m /\ m <= Len(s) /\ m \in Nat
        BY <1>0, <3>1, <3>5
      <4>2. QED BY <1>h, <4>1, Between
    <3>7. ReadOf(s, i, i) = Shown(s[i]) /\ s[i] \in Tokens
      BY <1>0, <1>h, <3>1, OneSeen
    <3>8. f[i + 1] \in Html
      <4>1. i + 1 \in 1..(Len(s) + 2)
        BY <1>0, <3>1
      <4>2. QED BY <1>1, <4>1 DEF Scanned
    <3>9. Readable(<<s[i]>> \o f[i + 1]) = Shown(s[i]) \o Readable(f[i + 1])
      BY <3>7, <3>8, ReadableOne, ReadableJoin
    <3>10. QED BY <2>3, <2>5, <2>7, <3>4, <3>6, <3>7, <3>9
  <2>8. CASE i <= n /\ StarsAt(s, i)
    <3> DEFINE z == EndOfBold(s, i + 2)
               u == After(s, i)
    <3>1. /\ i \in Nat \ {0} /\ i + 1 <= n /\ s[i] = "*" /\ s[i + 1] = "*"
      BY <1>0, <2>3, <2>8 DEF StarsAt
    <3>2. /\ u \in (i + 2)..(n + 1) /\ Inside(s, i) \in Seq(Quiet) /\ z \in (i + 1)..n
          /\ Ends(s, i + 2) = {} => z = n
          /\ Ends(s, i + 2) # {} => /\ z \in (i + 2)..(n - 1) /\ StarsAt(s, z)
                                    /\ \A k \in (i + 2)..(z - 1) : ~StarsAt(s, k)
      BY <1>0, <2>8, <3>1, AfterFacts
    <3>3. ~g[i - 1].star /\ ~g[i - 1].open
      BY <2>3, <2>8, <3>1
    <3>4. Inside(s, i) = SubSeq(s, i + 2, z - 1)
      BY DEF Inside
    <3>5. u = IF Ends(s, i + 2) = {} THEN n + 1 ELSE z + 2
      BY <1>0 DEF After
    <3>6. Readable(Strong(s, i)) = ReadOf(s, i + 2, z - 1) /\ Strong(s, i) \in Html
      <4>1. PICK a \in Tokens, b \in Tokens : a = "<strong>" /\ b = "</strong>"
        BY TagFacts
      <4>2. PICK v \in Html : v = Inside(s, i)
        BY <3>2, QuietFacts DEF Html
      <4>3. Shown(a) = <<>> /\ Shown(b) = <<>>
        BY <4>1 DEF Shown, Seen
      <4>4. <<a>> \in Html /\ <<b>> \in Html /\ Readable(<<a>>) = <<>> /\ Readable(<<b>>) = <<>>
        BY <4>3, ReadableOne
      <4>5. <<a>> \o v \in Html /\ (<<a>> \o v) \o <<b>> \in Html
        BY <4>4, JoinHtml
      <4>6. Readable((<<a>> \o v) \o <<b>>) = (<<>> \o Readable(v)) \o <<>>
        <5>1. Readable((<<a>> \o v) \o <<b>>) = Readable(<<a>> \o v) \o Readable(<<b>>)
          BY <4>4, <4>5, ReadableJoin
        <5>2. Readable(<<a>> \o v) = Readable(<<a>>) \o Readable(v)
          BY <4>4, ReadableJoin
        <5>3. QED BY <4>4, <5>1, <5>2
      <4>7. Readable(v) \in Html
        BY <4>4, ReadableJoin
      <4>8. (<<>> \o Readable(v)) \o <<>> = Readable(v)
        BY <4>7, JoinHtml
      <4>9. QED BY <3>4, <4>1, <4>2, <4>5, <4>6, <4>8 DEF Strong, ReadOf
    <3>7. f[u] \in Html /\ (u > n => f[u] = <<>>)
      <4>1. u \in 1..(n + 2)
        BY <3>1, <3>2
      <4>2. QED BY <1>0, <1>1, <4>1 DEF Scanned
    <3>8. Readable(f[i]) = ReadOf(s, i + 2, z - 1) \o Readable(f[u])
      BY <2>5, <2>8, <3>6, <3>7, ReadableJoin
    <3>9. ReadOf(s, i, i) = <<>> /\ ReadOf(s, i, i + 1) = <<>>
      BY <1>h, <2>8, <3>1, StarsUnseen
    <3>10. CASE Ends(s, i + 2) = {}
      <4>1. z = n /\ u = n + 1
        BY <3>2, <3>5, <3>10
      <4>2. \A k \in (i + 2)..(n - 1) : ~StarsAt(s, k)
        BY <1>0, <3>10 DEF Ends
      <4>3. g[n].open
        BY <1>0, <1>2, <2>8, <3>1, <3>2, <3>3, <4>1, <4>2, InBold
      <4>4. m = n - 1 /\ m \in Nat
        BY <1>3, <3>1, <4>3
      <4>5. Readable(f[u]) = <<>>
        BY <3>7, <4>1, ReadableOne
      <4>6. PICK v \in Html : v = ReadOf(s, i + 2, n - 1)
        <5>1. SubSeq(s, i + 2, n - 1) \in Html
          BY <1>0, <1>h, <3>1 DEF Html
        <5>2. QED BY <5>1, ReadableJoin DEF ReadOf
      <4>7. v \o <<>> = v /\ <<>> \o v = v
        BY JoinHtml
      <4>8. Readable(f[i]) = v
        BY <3>8, <4>1, <4>5, <4>6, <4>7
      <4>9. CASE m >= i + 1
        <5>1. ReadOf(s, i, m) = ReadOf(s, i, i + 1) \o ReadOf(s, (i + 1) + 1, m)
          <6>1. /\ i \in Nat /\ i + 1 \in Nat /\ m \in Nat /\ 1 <= i /\ i <= (i + 1) + 1
                /\ i + 1 <= m /\ m <= Len(s)
            BY <1>0, <3>1, <4>4, <4>9
          <6>2. QED BY <1>h, <6>1, Between
        <5>2. (i + 1) + 1 = i + 2
          BY <3>1
        <5>3. ReadOf(s, i, m) = v
          BY <3>9, <4>4, <4>6, <4>7, <5>1, <5>2
        <5>4. QED BY <2>3, <4>8, <5>3
      <4>10. CASE ~(m >= i + 1)
        <5>1. m = i /\ n - 1 < i + 2
          BY <3>1, <4>4, <4>10
        <5>2. SubSeq(s, i + 2, n - 1) = <<>>
          BY <1>0, <3>1, <5>1
        <5>3. v = <<>>
          BY <4>6, <5>2, ReadableOne DEF ReadOf
        <5>4. QED BY <2>3, <3>9, <4>8, <5>1, <5>3
      <4>11. QED BY <4>9, <4>10
    <3>11. CASE Ends(s, i + 2) # {}
      <4>1. /\ u = z + 2 /\ z \in (i + 2)..(n - 1) /\ StarsAt(s, z)
            /\ \A k \in (i + 2)..(z - 1) : ~StarsAt(s, k)
        BY <3>2, <3>5, <3>11
      <4>2. PICK y \in Nat : y = z - 1 /\ y \in (i + 1)..n /\ y + 1 = z
        BY <3>1, <4>1
      <4>3. \A k \in (i + 2)..(y - 1) : ~StarsAt(s, k)
        BY <3>1, <4>1, <4>2
      <4>4. g[y].open /\ (g[y].star => s[y] = "*" /\ y >= i + 2)
        BY <1>0, <1>2, <2>8, <3>1, <3>3, <4>2, <4>3, InBold
      <4> HIDE DEF z, u
      <4>5. s[z] = "*" /\ s[z + 1] = "*" /\ z + 1 <= n /\ z \in Nat \ {0}
        BY <1>0, <3>1, <4>1 DEF StarsAt
      <4>6. ~g[y].star
        <5>1. SUFFICES ASSUME g[y].star PROVE FALSE
          OBVIOUS
        <5>2. y \in (i + 2)..(z - 1) /\ y + 1 <= Len(s)
          BY <1>0, <3>1, <4>2, <4>4, <4>5, <5>1
        <5>3. StarsAt(s, y)
          BY <4>2, <4>4, <4>5, <5>1, <5>2 DEF StarsAt
        <5>4. QED BY <4>1, <5>2, <5>3
      <4>7. g[z].star /\ g[z].open
        BY <1>0, <1>4, <4>2, <4>4, <4>5, <4>6
      <4>8. ~g[z + 1].star /\ ~g[z + 1].open
        <5>1. z + 1 \in 1..n /\ (z + 1) - 1 = z
          BY <1>0, <4>5
        <5>2. QED BY <1>4, <4>5, <4>7, <5>1
      <4>9. Free(u) /\ u \in (i + 1)..(n + 1)
        <5>1. u - 1 = z + 1
          BY <4>1, <4>5
        <5>2. QED BY <3>1, <3>2, <4>8, <5>1 DEF u
      <4>10. Readable(f[u]) = ReadOf(s, z + 2, m)
        BY <2>4, <4>1, <4>9
      <4>11. m \in Nat /\ z + 1 <= m /\ m <= n
        <5>1. z + 1 = n => m = n
          BY <1>3, <4>8
        <5>2. QED BY <1>3, <4>5, <5>1
      <4>12. ReadOf(s, z, z + 1) = <<>>
        BY <1>h, <4>1, <4>5, StarsUnseen
      <4>13. ReadOf(s, z, m) = ReadOf(s, z + 2, m)
        <5>1. ReadOf(s, z, m) = ReadOf(s, z, z + 1) \o ReadOf(s, (z + 1) + 1, m)
          <6>1. /\ z \in Nat /\ z + 1 \in Nat /\ m \in Nat /\ 1 <= z /\ z <= (z + 1) + 1
                /\ z + 1 <= m /\ m <= Len(s)
            BY <1>0, <4>5, <4>11
          <6>2. QED BY <1>h, <6>1, Between
        <5>2. (z + 1) + 1 = z + 2
          BY <4>5
        <5>3. SubSeq(s, z + 2, m) \in Html
          BY <1>0, <1>h, <4>5, <4>11 DEF Html
        <5>4. <<>> \o ReadOf(s, z + 2, m) = ReadOf(s, z + 2, m)
          BY <5>3, ReadableJoin, JoinHtml DEF ReadOf
        <5>5. QED BY <4>12, <5>1, <5>2, <5>4
      <4>14. ReadOf(s, i + 2, m) = ReadOf(s, i + 2, y) \o ReadOf(s, y + 1, m)
        <5>1. /\ i + 2 \in Nat /\ y \in Nat /\ m \in Nat /\ 1 <= i + 2 /\ i + 2 <= y + 1
              /\ y <= m /\ m <= Len(s)
          BY <1>0, <3>1, <4>2, <4>5, <4>11
        <5>2. QED BY <1>h, <5>1, Between
      <4>15. ReadOf(s, i, m) = ReadOf(s, i + 2, m)
        <5>1. ReadOf(s, i, m) = ReadOf(s, i, i + 1) \o ReadOf(s, (i + 1) + 1, m)
          <6>1. /\ i \in Nat /\ i + 1 \in Nat /\ m \in Nat /\ 1 <= i /\ i <= (i + 1) + 1
                /\ i + 1 <= m /\ m <= Len(s)
            BY <1>0, <3>1, <4>2, <4>11
          <6>2. QED BY <1>h, <6>1, Between
        <5>2. (i + 1) + 1 = i + 2
          BY <3>1
        <5>3. SubSeq(s, i + 2, m) \in Html
          BY <1>0, <1>h, <3>1, <4>11 DEF Html
        <5>4. <<>> \o ReadOf(s, i + 2, m) = ReadOf(s, i + 2, m)
          BY <5>3, ReadableJoin, JoinHtml DEF ReadOf
        <5>5. QED BY <3>9, <5>1, <5>2, <5>4
      <4>16. QED BY <2>3, <3>8, <4>2, <4>10, <4>13, <4>14, <4>15 DEF z, u
    <3>12. QED BY <3>10, <3>11
  <2>9. QED BY <1>0, <2>3, <2>6, <2>7, <2>8
<1>7. Readable(f[1]) = ReadOf(s, 1, m)
  <2>1. 1 \in 1..(n + 1) /\ 1 - 1 = 0
    OBVIOUS
  <2>2. Free(1)
    BY <1>5, <2>1
  <2> HIDE DEF Free
  <2>3. QED BY <1>6, <2>1, <2>2
<1>8. StarsOdd(s) = g[n].open
  BY <1>0, <1>2 DEF Counts
<1>9. SubSeq(s, 1, n) = s /\ Front(s) = SubSeq(s, 1, n - 1)
  BY <1>0 DEF Front
<1>10. QED BY <1>1, <1>3, <1>7, <1>8, <1>9 DEF ReadOf

-----------------------------------------------------------------------------
\* What a line adds to the text, and whether the next one is in a block of code.
TextIn(code, l) ==
  CASE l.kind \in {"blank", "fence"} -> <<>>
    [] l.kind \in {"item", "heading"} /\ ~code -> l.text
    [] l.kind \notin {"blank", "fence"} /\ code -> Escape(l.text)
    [] l.kind = "plain" /\ ~code ->
         IF StarsOdd(l.text) THEN Front(Escape(l.text)) ELSE Escape(l.text)

\* Nothing is read of a tag.
LEMMA Untold ==
  ASSUME NEW t \in Opening \cup Ending
  PROVE  /\ Readable(<<t>>) = <<>> /\ <<t>> \in Html
         /\ \A h \in Html : Readable(h \o <<t>>) = Readable(h)
<1>1. t \in Tokens /\ Shown(t) = <<>>
  BY TagFacts DEF Shown, Seen
<1>2. Readable(<<t>>) = <<>> /\ <<t>> \in Html
  BY <1>1, ReadableOne
<1>3. ASSUME NEW h \in Html PROVE Readable(h \o <<t>>) = Readable(h)
  <2>1. Readable(h \o <<t>>) = Readable(h) \o Readable(<<t>>) /\ Readable(h) \in Html
    BY <1>2, ReadableJoin
  <2>2. Readable(h) \o <<>> = Readable(h)
    BY <2>1, JoinHtml
  <2>3. QED BY <1>2, <2>1, <2>2
<1>4. QED BY <1>2, <1>3

\* A text between tags.
LEMMA ToldBetween ==
  ASSUME NEW s \in Opening \cup Ending, NEW e \in Opening \cup Ending, NEW w \in Html
  PROVE  <<s>> \o w \o <<e>> \in Html /\ Readable(<<s>> \o w \o <<e>>) = Readable(w)
<1>1. <<s>> \in Html /\ <<e>> \in Html /\ Readable(<<s>>) = <<>>
  BY Untold
<1>2. <<s>> \o w \in Html /\ (<<s>> \o w) \o <<e>> \in Html
  BY <1>1, JoinHtml
<1>3. Readable((<<s>> \o w) \o <<e>>) = Readable(<<s>> \o w)
  BY <1>2, Untold
<1>4. Readable(<<s>> \o w) = Readable(<<s>>) \o Readable(w) /\ Readable(w) \in Html
  BY <1>1, ReadableJoin
<1>5. <<>> \o Readable(w) = Readable(w)
  BY <1>4, JoinHtml
<1>6. QED BY <1>1, <1>2, <1>3, <1>4, <1>5

\* The texts of a line, and what is read of them.
LEMMA LineTexts ==
  ASSUME NEW l \in DocLine
  PROVE  /\ l.text \in Html /\ Escape(l.text) \in Html /\ Escape(Written(l)) \in Html
         /\ Front(Escape(l.text)) \in Html
         /\ Bold(Escape(l.text)) \in Html
         /\ Readable(Bold(Escape(l.text))) =
              Readable(IF StarsOdd(l.text) THEN Front(Escape(l.text)) ELSE Escape(l.text))
<1>1. l.text \in Seq(Letters) /\ l.text \in Html
  <2>1. l.text \in Seq(Letters) /\ Letters \subseteq Tokens
    BY TagFacts DEF DocLine
  <2>2. QED BY <2>1 DEF Html
<1>2. Escape(Written(l)) \in Seq(Quiet) /\ Escape(l.text) \in Seq(Quiet)
  BY WrittenQuiet
<1>3. PICK x \in Seq(Quiet) : x = Escape(l.text)
  BY <1>2
<1>4. x \in Html /\ Escape(Written(l)) \in Html
  BY <1>2, QuietFacts DEF Html
<1>5. Front(x) \in Html
  <2>1. CASE x = <<>>
    <3>1. Front(x) = <<>>
      BY <2>1 DEF Front
    <3>2. QED BY <3>1, OpenEmpty
  <2>2. CASE x # <<>>
    BY <1>4, <2>2 DEF Front, Html
  <2>3. QED BY <2>1, <2>2
<1>6. Bold(x) \in Html
  BY BoldClean DEF Clean, Balanced
<1>7. Readable(Bold(x)) = Readable(IF StarsOdd(x) THEN Front(x) ELSE x)
  BY BoldReads
<1>8. StarsOdd(x) = StarsOdd(l.text)
  BY <1>1, <1>3, EscapedStars
<1>9. QED BY <1>1, <1>3, <1>4, <1>5, <1>6, <1>7, <1>8

\* A line adds its text to what is read, and a fence turns the flag of code.
LEMMA LineReads ==
  ASSUME NEW st \in Fine, NEW l \in DocLine
  PROVE  /\ TextIn(st.code, l) \in Html
         /\ Readable(Line(st, l).html) = Readable(st.html) \o Readable(TextIn(st.code, l))
         /\ Line(st, l).code = IF l.kind = "fence" THEN ~st.code ELSE st.code
<1>0. /\ l.kind \in Kinds /\ l.text \in Seq(Letters) /\ st.html \in Html /\ st.code \in BOOLEAN
      /\ st \in States
  BY DEF DocLine, Fine, States
<1>1. \A w \in Html : w \o <<>> = w /\ Readable(w) \in Html
  BY JoinHtml, ReadableJoin
<1>2. Readable(<<>>) = <<>> /\ Readable(st.html) \o <<>> = Readable(st.html)
  BY <1>0, <1>1, ReadableOne
<1>3. /\ CloseList(st) \in Fine /\ CloseList(st) \in States /\ CloseList(st).html \in Html
      /\ CloseList(st).code = st.code /\ Readable(CloseList(st).html) = Readable(st.html)
  <2>1. /\ CloseList(st) \in Fine /\ CloseList(st).code = st.code
        /\ CloseList(st).html \in {st.html, st.html \o <<"</ul>">>}
    BY CloseListFine
  <2>2. Readable(st.html \o <<"</ul>">>) = Readable(st.html)
    BY <1>0, Untold, TagSteps
  <2>3. CloseList(st) \in States /\ CloseList(st).html \in Html
    BY <2>1 DEF Fine, States
  <2>4. QED BY <2>1, <2>2, <2>3
<1>4. CASE l.kind = "blank"
  <2>1. Line(st, l) = CloseList(st) /\ TextIn(st.code, l) = <<>>
    BY <1>4 DEF Line, TextIn
  <2>2. QED BY <1>2, <1>3, <1>4, <2>1, OpenEmpty
<1>5. CASE l.kind = "fence" /\ ~st.code
  <2>1. Line(st, l) = CodeBegin(st) /\ TextIn(st.code, l) = <<>>
    BY <1>5 DEF Line, TextIn
  <2>2. CodeBegin(st).code /\ CodeBegin(st).html = CloseList(st).html \o <<"<pre>">>
    BY <1>5, CodeBeginFine
  <2>3. Readable(CodeBegin(st).html) = Readable(st.html)
    BY <1>3, <2>2, Untold, TagSteps
  <2>4. CodeBegin(st).code \in BOOLEAN
    BY <1>5, CodeBeginFine DEF Fine, States
  <2>5. QED BY <1>2, <1>5, <2>1, <2>2, <2>3, <2>4, OpenEmpty
<1>6. CASE l.kind = "fence" /\ st.code
  <2>1. Line(st, l) = CodeEnd(st) /\ TextIn(st.code, l) = <<>>
    BY <1>6 DEF Line, TextIn
  <2>2. ~CodeEnd(st).code /\ CodeEnd(st).html = st.html \o <<"</pre>">>
    BY <1>6, CodeEndFine
  <2>3. Readable(CodeEnd(st).html) = Readable(st.html)
    BY <1>0, <2>2, Untold, TagSteps
  <2>4. CodeEnd(st).code \in BOOLEAN
    BY <1>6, CodeEndFine DEF Fine, States
  <2>5. QED BY <1>2, <1>6, <2>1, <2>2, <2>3, <2>4, OpenEmpty
<1>7. CASE l.kind \notin {"blank", "fence"} /\ st.code
  <2>1. Line(st, l) = Write(st, Escape(Written(l))) /\ TextIn(st.code, l) = Escape(l.text)
    BY <1>7 DEF Line, CodeLine, TextIn
  <2>2. Escape(Written(l)) \in Html /\ Escape(l.text) \in Html
    BY LineTexts
  <2>3. Write(st, Escape(Written(l))).html = st.html \o Escape(Written(l))
        /\ Write(st, Escape(Written(l))).code = st.code
    BY <1>0, <2>2, WriteIs
  <2>4. Readable(st.html \o Escape(Written(l))) = Readable(st.html) \o Readable(Escape(l.text))
    BY <1>0, <2>2, ReadableJoin, ReadableWritten
  <2>5. QED BY <1>7, <2>1, <2>2, <2>3, <2>4
<1>8. CASE l.kind = "item" /\ ~st.code
  <2> DEFINE o == OpenList(st)
             w == <<"<li>">> \o l.text \o <<"</li>">>
  <2>1. Line(st, l) = Write(o, w) /\ TextIn(st.code, l) = l.text
    BY <1>8 DEF Line, Item, TextIn
  <2>2. /\ o \in Fine /\ ~o.code /\ o.html \in {st.html, st.html \o <<"<ul>">>}
    BY <1>8, OpenListFine
  <2>3. Readable(st.html \o <<"<ul>">>) = Readable(st.html)
    BY <1>0, Untold, TagSteps
  <2>4. /\ o \in States /\ o.html \in Html /\ o.code \in BOOLEAN
        /\ Readable(o.html) = Readable(st.html)
    BY <2>2, <2>3 DEF Fine, States
  <2>5. l.text \in Html /\ w \in Html /\ Readable(w) = Readable(l.text)
    BY LineTexts, ToldBetween, TagFacts
  <2> HIDE DEF o, w
  <2>6. Write(o, w).html = o.html \o w /\ Write(o, w).code = o.code
    BY <2>4, <2>5, WriteIs
  <2>7. Readable(o.html \o w) = Readable(st.html) \o Readable(l.text)
    BY <2>4, <2>5, ReadableJoin
  <2>8. QED BY <1>0, <1>8, <2>1, <2>2, <2>4, <2>5, <2>6, <2>7
<1>9. CASE l.kind = "heading" /\ ~st.code
  <2> DEFINE o == CloseList(st)
             w == <<"<h>">> \o l.text \o <<"</h>">>
  <2>1. Line(st, l) = Write(o, w) /\ TextIn(st.code, l) = l.text
    BY <1>9 DEF Line, Heading, TextIn
  <2>2. l.text \in Html /\ w \in Html /\ Readable(w) = Readable(l.text)
    BY LineTexts, ToldBetween, TagFacts
  <2>3. Write(o, w).html = o.html \o w /\ Write(o, w).code = o.code
    BY <1>3, <2>2, WriteIs
  <2>4. Readable(o.html \o w) = Readable(st.html) \o Readable(l.text)
    BY <1>3, <2>2, ReadableJoin
  <2> HIDE DEF o, w
  <2>5. QED BY <1>3, <1>9, <2>1, <2>2, <2>3, <2>4 DEF o
<1>10. CASE l.kind = "plain" /\ ~st.code
  <2> DEFINE o == CloseList(st)
             b == Bold(Escape(l.text))
             w == <<"<p>">> \o b \o <<"</p>">>
             x == IF StarsOdd(l.text) THEN Front(Escape(l.text)) ELSE Escape(l.text)
  <2>1. Line(st, l) = Write(o, w) /\ TextIn(st.code, l) = x
    BY <1>10 DEF Line, Paragraph, TextIn
  <2>2. b \in Html /\ x \in Html /\ Readable(b) = Readable(x)
    BY LineTexts
  <2>3. w \in Html /\ Readable(w) = Readable(b)
    <3> HIDE DEF b
    <3>1. QED BY <2>2, ToldBetween, TagFacts
  <2> HIDE DEF w, b, x
  <2>4. Write(o, w).html = o.html \o w /\ Write(o, w).code = o.code
    BY <1>3, <2>3, WriteIs
  <2>5. Readable(o.html \o w) = Readable(st.html) \o Readable(x)
    <3>1. Readable(o.html \o w) = Readable(o.html) \o Readable(w)
      BY <1>3, <2>3, ReadableJoin
    <3>2. QED BY <1>3, <2>2, <2>3, <3>1
  <2> HIDE DEF o
  <2>6. QED BY <1>3, <1>10, <2>1, <2>2, <2>4, <2>5 DEF o
<1>11. QED BY <1>0, <1>4, <1>5, <1>6, <1>7, <1>8, <1>9, <1>10 DEF Kinds

\* The fences before a line tell whether it is in a block of code.
LEMMA InCodeStep ==
  ASSUME NEW ls \in Seq(DocLine)
  PROVE  /\ ~InCode(ls, 1)
         /\ \A k \in 1..Len(ls) :
              InCode(ls, k + 1) <=> IF ls[k].kind = "fence" THEN ~InCode(ls, k) ELSE InCode(ls, k)
<1> DEFINE F(i) == {k \in 1..(i - 1) : ls[k].kind = "fence"}
<1>1. \A i : InCode(ls, i) <=> Cardinality(F(i)) % 2 = 1
  BY DEF InCode
<1>2. ~InCode(ls, 1)
  <2>1. F(1) = {}
    OBVIOUS
  <2>2. Cardinality({}) = 0
    BY FS_EmptySet
  <2>3. QED BY <1>1, <2>1, <2>2
<1>3. ASSUME NEW k \in 1..Len(ls)
      PROVE  InCode(ls, k + 1) <=> IF ls[k].kind = "fence" THEN ~InCode(ls, k) ELSE InCode(ls, k)
  <2>0. k \in Nat /\ (k + 1) - 1 = k
    OBVIOUS
  <2>1. IsFiniteSet(F(k)) /\ Cardinality(F(k)) \in Nat
    <3>1. IsFiniteSet(1..(k - 1))
      BY FS_Interval
    <3>2. F(k) \subseteq 1..(k - 1)
      OBVIOUS
    <3> HIDE DEF F
    <3>3. QED BY <3>1, <3>2, FS_Subset, FS_CardinalityType
  <2>2. k \notin F(k)
    OBVIOUS
  <2>3. CASE ls[k].kind = "fence"
    <3>1. F(k + 1) = F(k) \cup {k}
      BY <2>0, <2>3
    <3> HIDE DEF F
    <3>2. Cardinality(F(k + 1)) = Cardinality(F(k)) + 1
      BY <2>1, <2>2, <3>1, FS_AddElement
    <3>3. \A c \in Nat : (c + 1) % 2 = 1 <=> ~(c % 2 = 1)
      OBVIOUS
    <3>4. QED BY <1>1, <2>1, <2>3, <3>2, <3>3
  <2>4. CASE ls[k].kind # "fence"
    <3>1. F(k + 1) = F(k)
      BY <2>0, <2>4
    <3> HIDE DEF F
    <3>2. QED BY <1>1, <2>4, <3>1
  <2>5. QED BY <2>3, <2>4
<1>4. QED BY <1>2, <1>3

\* md_to_html keeps the text, but for one last character (md.cc 29-83).
LEMMA HtmlReads == ASSUME NEW ls \in Seq(DocLine) PROVE TextKept(ls, MdToHtml(ls))
<1>0. PICK n \in Nat : n = Len(ls) /\ DOMAIN ls = 1..n
  OBVIOUS
<1>l. \A k \in 1..n : ls[k] \in DocLine
  BY <1>0
<1>1. PICK f : Loop(ls, f)
  BY LoopExists
<1>2. /\ f \in [0..n -> Fine] /\ f[0] = Begin /\ FoldLeft(Line, Begin, ls) = f[n]
      /\ \A k \in 1..n : f[k] = Line(f[k - 1], ls[k])
  BY <1>0, <1>1 DEF Loop
<1>3. \A k \in 1..n : k - 1 \in 0..n /\ k \in 0..n /\ f[k - 1] \in Fine
  BY <1>2
<1> DEFINE C == {k \in Nat : k <= n => (f[k].code <=> InCode(ls, k + 1)) /\ f[k].code \in BOOLEAN}
<1>4. 0 \in C
  <2>1. f[0].code = FALSE
    BY <1>2 DEF Begin
  <2>2. ~InCode(ls, 1) /\ 0 + 1 = 1
    BY InCodeStep
  <2>3. QED BY <2>1, <2>2
<1>5. ASSUME NEW k \in C PROVE k + 1 \in C
  <2>1. SUFFICES ASSUME k + 1 <= n
                 PROVE  (f[k + 1].code <=> InCode(ls, (k + 1) + 1)) /\ f[k + 1].code \in BOOLEAN
    BY <1>5
  <2>2. /\ k \in Nat /\ (f[k].code <=> InCode(ls, k + 1)) /\ f[k].code \in BOOLEAN
        /\ k + 1 \in 1..n /\ (k + 1) - 1 = k
    BY <1>5, <2>1
  <2>3. f[k + 1] = Line(f[k], ls[k + 1]) /\ f[k] \in Fine /\ ls[k + 1] \in DocLine
    BY <1>2, <1>3, <1>l, <2>2
  <2>4. f[k + 1].code = IF ls[k + 1].kind = "fence" THEN ~f[k].code ELSE f[k].code
    BY <2>3, LineReads
  <2>5. InCode(ls, (k + 1) + 1) <=>
          IF ls[k + 1].kind = "fence" THEN ~InCode(ls, k + 1) ELSE InCode(ls, k + 1)
    BY <1>0, <2>2, InCodeStep
  <2>6. QED BY <2>2, <2>4, <2>5
<1>6. \A k \in 1..n : f[k - 1].code <=> InCode(ls, k)
  <2>1. SUFFICES ASSUME NEW k \in 1..n PROVE f[k - 1].code <=> InCode(ls, k)
    OBVIOUS
  <2> HIDE DEF C
  <2>2. C = Nat
    BY <1>4, <1>5, AllNat DEF C
  <2>3. k - 1 \in C /\ k - 1 <= n /\ (k - 1) + 1 = k
    BY <2>2
  <2>4. QED BY <2>3 DEF C
<1> HIDE DEF C
<1> DEFINE t == [i \in DOMAIN ls |-> TextOf(ls, i)]
<1>7. \A k \in 1..n : TextOf(ls, k) = TextIn(f[k - 1].code, ls[k])
  <2>1. SUFFICES ASSUME NEW k \in 1..n PROVE TextOf(ls, k) = TextIn(f[k - 1].code, ls[k])
    OBVIOUS
  <2>2. f[k - 1].code \in BOOLEAN /\ ls[k].kind \in Kinds
    BY <1>3, <1>l DEF Fine, States, DocLine
  <2>3. QED BY <1>6, <2>2 DEF TextOf, TextIn, Kinds
<1>8. \A k \in 1..n : TextOf(ls, k) \in Seq(Tokens)
  BY <1>3, <1>7, <1>l, LineReads DEF Html
<1>9. t \in Seq(Seq(Tokens)) /\ Len(t) = n /\ \A k \in 1..n : t[k] = TextOf(ls, k)
  BY <1>0, <1>8
<1> HIDE DEF t
<1>10. PICK p \in [0..n -> Seq(Tokens)] : Parts(t, p) /\ FlattenSeq(t) = p[n]
  BY <1>9, FlattenParts
<1> DEFINE T == {k \in Nat : k <= n => Readable(f[k].html) = Readable(p[k])}
<1>11. 0 \in T
  BY <1>2, <1>10 DEF Parts, Begin
<1>12. ASSUME NEW k \in T PROVE k + 1 \in T
  <2>1. SUFFICES ASSUME k + 1 <= n PROVE Readable(f[k + 1].html) = Readable(p[k + 1])
    BY <1>12
  <2>2. /\ k \in Nat /\ Readable(f[k].html) = Readable(p[k])
        /\ k + 1 \in 1..n /\ (k + 1) - 1 = k /\ k \in 0..n
    BY <1>12, <2>1
  <2>3. f[k + 1] = Line(f[k], ls[k + 1]) /\ f[k] \in Fine /\ ls[k + 1] \in DocLine
    BY <1>2, <1>3, <1>l, <2>2
  <2>4. p[k + 1] = p[k] \o t[k + 1]
    BY <1>9, <1>10, <2>2 DEF Parts
  <2>5. t[k + 1] = TextIn(f[k].code, ls[k + 1])
    BY <1>7, <1>9, <2>2
  <2>6. /\ t[k + 1] \in Html
        /\ Readable(f[k + 1].html) = Readable(f[k].html) \o Readable(t[k + 1])
    BY <2>3, <2>5, LineReads
  <2>7. p[k] \in Html
    BY <1>10, <2>2 DEF Html
  <2>8. Readable(p[k + 1]) = Readable(p[k]) \o Readable(t[k + 1])
    BY <2>4, <2>6, <2>7, ReadableJoin
  <2>9. QED BY <2>2, <2>6, <2>8
<1>13. Readable(f[n].html) = Readable(FlattenSeq(t))
  <2> HIDE DEF T
  <2>1. T = Nat
    BY <1>11, <1>12, AllNat DEF T
  <2>2. n \in T /\ n <= n
    BY <2>1
  <2>3. QED BY <1>10, <2>2 DEF T
<1>14. PICK st \in Fine : st = FoldLeft(Line, Begin, ls) /\ st = f[n]
  BY <1>2
<1>15. PICK c \in Fine : /\ c = (IF st.code THEN CodeEnd(st) ELSE st)
                         /\ Readable(c.html) = Readable(st.html)
  <2>1. CASE st.code
    <3>1. CodeEnd(st) \in Fine /\ CodeEnd(st).html = st.html \o <<"</pre>">> /\ st.html \in Html
      BY <2>1, CodeEndFine DEF Fine, States
    <3>2. Readable(st.html \o <<"</pre>">>) = Readable(st.html)
      BY <3>1, Untold, TagSteps
    <3>3. QED BY <2>1, <3>1, <3>2
  <2>2. CASE ~st.code
    BY <2>2
  <2>3. QED BY <2>1, <2>2
<1>16. MdToHtml(ls) = CloseList(c).html
  BY <1>14, <1>15 DEF MdToHtml
<1>17. Readable(CloseList(c).html) = Readable(c.html)
  <2>1. CloseList(c).html \in {c.html, c.html \o <<"</ul>">>} /\ c.html \in Html
    BY CloseListFine DEF Fine, States
  <2>2. Readable(c.html \o <<"</ul>">>) = Readable(c.html)
    BY <2>1, Untold, TagSteps
  <2>3. QED BY <2>1, <2>2
<1>18. QED BY <1>13, <1>14, <1>15, <1>16, <1>17 DEF TextKept, t

\* Whatever the lines of a statement, all of its text is on the page, once and in its
\* order; a paragraph that leaves a pair of stars open loses its last character, and
\* nothing else does (md.cc 29-83).
THEOREM TextIsKept == Spec => []Kept
<1>1. Called => Kept
  BY ShownStatement, HtmlReads DEF Kept
<1>2. QED BY <1>1, CalledInvariant, PTL

-----------------------------------------------------------------------------
\* The placeholders of a template filled at once: a scan of the template.
Vars(S) == [key : S, value : Seq(S)]
At(t, vs, i) == {v \in ToSet(vs) : NeedleAt(t, v.key, i)}
Put(t, vs, i) == (CHOOSE v \in At(t, vs, i) : TRUE).value

Fills(S, t, vs, f) ==
  \A i \in 1..(Len(t) + 3) :
    /\ f[i] \in Seq(S)
    /\ i > Len(t) => f[i] = <<>>
    /\ i <= Len(t) /\ At(t, vs, i) = {} => f[i] = <<t[i]>> \o f[i + 1]
    /\ i <= Len(t) /\ At(t, vs, i) # {} => f[i] = Put(t, vs, i) \o f[i + 3]

\* The three places of a placeholder.
LEMMA NeedleIs ==
  ASSUME NEW S, NEW t \in Seq(S), NEW k, NEW i \in Nat \ {0}
  PROVE  NeedleAt(t, k, i) <=>
           i + 2 <= Len(t) /\ t[i] = "open" /\ t[i + 1] = k /\ t[i + 2] = "close"
<1>1. SUFFICES ASSUME i + 2 <= Len(t)
               PROVE  SubSeq(t, i, i + 2) = <<"open", k, "close">> <=>
                        t[i] = "open" /\ t[i + 1] = k /\ t[i + 2] = "close"
  BY DEF NeedleAt, Needle
<1> DEFINE u == SubSeq(t, i, i + 2)
           w == <<"open", k, "close">>
<1>2. u \in Seq(S) /\ Len(u) = 3 /\ u[1] = t[i] /\ u[2] = t[i + 1] /\ u[3] = t[i + 2]
  <2>1. i \in 1..Len(t) /\ i + 1 \in 1..Len(t) /\ i + 2 \in 1..Len(t)
    BY <1>1
  <2>2. \A j \in i..(i + 2) : t[j] \in S
    BY <1>1
  <2>3. /\ u \in Seq(S) /\ Len(u) = IF i <= i + 2 THEN (i + 2) - i + 1 ELSE 0
        /\ \A j \in 1..((i + 2) - i + 1) : u[j] = t[i + j - 1]
    BY <2>2, SubSeqProperties
  <2> HIDE DEF u
  <2>4. (i + 2) - i + 1 = 3 /\ i <= i + 2
    OBVIOUS
  <2>5. \A j \in 1..3 : u[j] = t[i + j - 1]
    BY <2>3, <2>4
  <2>6. i + 1 - 1 = i /\ i + 2 - 1 = i + 1 /\ i + 3 - 1 = i + 2
    OBVIOUS
  <2>7. u[1] = t[i + 1 - 1] /\ u[2] = t[i + 2 - 1] /\ u[3] = t[i + 3 - 1]
    BY <2>5
  <2>8. QED BY <2>3, <2>4, <2>6, <2>7
<1>3. w[1] = "open" /\ w[2] = k /\ w[3] = "close" /\ Len(w) = 3
  OBVIOUS
<1>4. ASSUME u[1] = "open", u[2] = k, u[3] = "close" PROVE u = w
  <2> HIDE DEF u
  <2>1. QED BY <1>2, <1>4
<1> HIDE DEF u
<1>5. QED BY <1>2, <1>3, <1>4 DEF u

\* The scan that fills all placeholders at once exists.
LEMMA FillsExist ==
  ASSUME NEW S, NEW t \in Seq(S), NEW vs \in Seq(Vars(S))
  PROVE  \E f : Fills(S, t, vs, f) /\ AtOnce(t, vs) = f[1]
<1>0. PICK n \in Nat : n = Len(t)
  OBVIOUS
<1>m. PICK m \in Nat : m = n + 3
  OBVIOUS
<1>e. PICK e \in Seq(S) : e = <<>>
  BY EmptySeq
<1> DEFINE value == [i \in 1..m |-> IF i > n THEN e ELSE IF At(t, vs, i) = {} THEN <<t[i]>>
                                     ELSE Put(t, vs, i)]
           next == [i \in 1..m |-> IF i > n THEN 0 ELSE IF At(t, vs, i) = {} THEN i + 1
                                    ELSE i + 3]
<1>1. \A i \in 1..m : At(t, vs, i) # {} => Put(t, vs, i) \in Seq(S)
  <2>1. ToSet(vs) \subseteq Vars(S)
    BY DEF ToSet
  <2>2. \A i \in 1..m : At(t, vs, i) \subseteq Vars(S)
    BY <2>1 DEF At
  <2>3. SUFFICES ASSUME NEW i \in 1..m, At(t, vs, i) # {} PROVE Put(t, vs, i) \in Seq(S)
    OBVIOUS
  <2>4. (CHOOSE v \in At(t, vs, i) : TRUE) \in At(t, vs, i)
    BY <2>3
  <2>5. (CHOOSE v \in At(t, vs, i) : TRUE) \in Vars(S)
    BY <2>2, <2>4
  <2>6. QED BY <2>5 DEF Put, Vars
<1>2. value \in [1..m -> Seq(S)]
  <2>1. \A i \in 1..m : i <= n => <<t[i]>> \in Seq(S)
    BY <1>0
  <2>2. ASSUME NEW i \in 1..m PROVE value[i] \in Seq(S)
    <3>1. CASE i > n
      BY <3>1
    <3>2. CASE ~(i > n) /\ At(t, vs, i) = {}
      <4>1. value[i] = <<t[i]>> /\ i <= n
        BY <3>2, <1>0
      <4>2. QED BY <2>1, <4>1
    <3>3. CASE ~(i > n) /\ At(t, vs, i) # {}
      BY <1>1, <3>3
    <3>4. QED BY <3>1, <3>2, <3>3
  <2>3. QED BY <2>2
<1>3. next \in [1..m -> Nat] /\ \A i \in 1..m : next[i] = 0 \/ next[i] \in (i + 1)..m
  <2>1. ASSUME NEW i \in 1..m PROVE next[i] \in Nat /\ (next[i] = 0 \/ next[i] \in (i + 1)..m)
    BY <1>0, <1>m
  <2>2. QED BY <2>1
<1>4. PICK f : Scans(f, S, m, value, next)
  <2> HIDE DEF value, next
  <2>1. QED BY <1>2, <1>3, ScanExists
<1>5. f \in [1..m -> Seq(S)] /\ \A i \in 1..m :
        f[i] = IF next[i] = 0 THEN value[i] ELSE value[i] \o f[next[i]]
  <2> HIDE DEF value, next
  <2>1. QED BY <1>4 DEF Scans
<1>6. \A i \in 1..m :
        /\ f[i] \in Seq(S)
        /\ i > n => f[i] = <<>>
        /\ i <= n /\ At(t, vs, i) = {} => f[i] = <<t[i]>> \o f[i + 1]
        /\ i <= n /\ At(t, vs, i) # {} => f[i] = Put(t, vs, i) \o f[i + 3]
  <2>1. SUFFICES ASSUME NEW i \in 1..m
                 PROVE  /\ i > n => f[i] = <<>>
                        /\ i <= n /\ At(t, vs, i) = {} => f[i] = <<t[i]>> \o f[i + 1]
                        /\ i <= n /\ At(t, vs, i) # {} => f[i] = Put(t, vs, i) \o f[i + 3]
    BY <1>5
  <2>2. f[i] = IF next[i] = 0 THEN value[i] ELSE value[i] \o f[next[i]]
    BY <1>5
  <2>3. /\ i > n => next[i] = 0 /\ value[i] = <<>>
        /\ i <= n /\ At(t, vs, i) = {} => next[i] = i + 1 /\ value[i] = <<t[i]>>
        /\ i <= n /\ At(t, vs, i) # {} => next[i] = i + 3 /\ value[i] = Put(t, vs, i)
    BY <1>0, <1>e
  <2>4. i + 1 # 0 /\ i + 3 # 0
    OBVIOUS
  <2> HIDE DEF next, value
  <2>5. QED BY <2>2, <2>3, <2>4
<1> HIDE DEF value, next
<1> DEFINE Body(g, i) == IF i > n THEN <<>> ELSE IF At(t, vs, i) = {} THEN <<t[i]>> \o g[i + 1]
                         ELSE Put(t, vs, i) \o g[i + 3]
           Is(g) == g = [i \in 1..m |-> Body(g, i)]
           F == CHOOSE g : Is(g)
<1>7. Is(f)
  <2>1. ASSUME NEW i \in 1..m PROVE f[i] = Body(f, i)
    <3>1. i > n \/ i <= n
      BY <1>0
    <3>2. QED BY <1>6, <3>1
  <2> HIDE DEF Body
  <2>2. QED BY <1>5, <2>1
<1>8. AtOnce(t, vs) = F[1]
  BY <1>0, <1>m DEF AtOnce, At, Put
<1>9. Is(F)
  <2> HIDE DEF Is
  <2>1. QED BY <1>7
<1>10. \A i \in 1..m : F[i] = Body(F, i)
  <2> HIDE DEF Body, F
  <2>1. QED BY <1>9
<1> HIDE DEF F, Is
<1>11. \A i \in 1..m : F[i] = f[i]
  <2> DEFINE T == {i \in 1..m : F[i] # f[i]}
  <2>1. SUFFICES ASSUME T # {} PROVE FALSE
    OBVIOUS
  <2>2. T \in SUBSET (0..m)
    OBVIOUS
  <2>3. PICK i \in T : \A k \in T : k <= i
    <3> HIDE DEF T
    <3>1. QED BY <1>m, <2>1, <2>2, GreatestNat
  <2>4. i \in 1..m /\ F[i] = Body(F, i) /\ F[i] # f[i]
    BY <1>10, <2>3
  <2>5. i <= n
    <3>1. SUFFICES ASSUME i > n PROVE FALSE
      BY <1>0, <2>4
    <3>2. f[i] = <<>>
      BY <1>6, <2>4, <3>1
    <3>3. F[i] = <<>>
      BY <2>4, <3>1
    <3>4. QED BY <2>4, <3>2, <3>3
  <2>6. \A k \in (i + 1)..m : F[k] = f[k]
    <3>1. SUFFICES ASSUME NEW k \in (i + 1)..m, F[k] # f[k] PROVE FALSE
      OBVIOUS
    <3>2. k \in T /\ ~(k <= i)
      BY <2>4, <3>1
    <3> HIDE DEF T
    <3>3. QED BY <2>3, <3>2
  <2>7. i + 1 \in (i + 1)..m /\ i + 3 \in (i + 1)..m
    BY <1>0, <1>m, <2>4, <2>5
  <2>8. F[i + 1] = f[i + 1] /\ F[i + 3] = f[i + 3]
    BY <2>6, <2>7
  <2>9. QED BY <1>6, <2>4, <2>5, <2>8
<1>12. Fills(S, t, vs, f)
  BY <1>0, <1>m, <1>6 DEF Fills
<1>13. QED BY <1>8, <1>11, <1>12, <1>m

\* To fill one placeholder is what replace does.
LEMMA ReplaceIs ==
  ASSUME NEW S, NEW t \in Seq(S), NEW v \in Vars(S)
  PROVE  Replace(t, v.key, v.value) = AtOnce(t, <<v>>) /\ AtOnce(t, <<v>>) \in Seq(S)
<1>0. PICK n \in Nat : n = Len(t)
  OBVIOUS
<1>m. PICK m \in Nat : m = n + 3
  OBVIOUS
<1>1. <<v>> \in Seq(Vars(S)) /\ ToSet(<<v>>) = {v}
  BY DEF ToSet
<1>2. PICK f : Fills(S, t, <<v>>, f) /\ AtOnce(t, <<v>>) = f[1]
  BY <1>1, FillsExist
<1>3. \A i : At(t, <<v>>, i) = IF NeedleAt(t, v.key, i) THEN {v} ELSE {}
  BY <1>1 DEF At
<1>4. \A i : NeedleAt(t, v.key, i) => Put(t, <<v>>, i) = v.value
  BY <1>3 DEF Put
<1>5. \A i \in 1..m :
        /\ f[i] \in Seq(S)
        /\ i > n => f[i] = <<>>
        /\ i <= n /\ ~NeedleAt(t, v.key, i) => f[i] = <<t[i]>> \o f[i + 1]
        /\ i <= n /\ NeedleAt(t, v.key, i) => f[i] = v.value \o f[i + 3]
  BY <1>0, <1>m, <1>2, <1>3, <1>4 DEF Fills
<1> DEFINE Body(g, i) == IF i > n THEN <<>> ELSE IF NeedleAt(t, v.key, i) THEN v.value \o g[i + 3]
                         ELSE <<t[i]>> \o g[i + 1]
           Is(g) == g = [i \in 1..m |-> Body(g, i)]
           F == CHOOSE g : Is(g)
           f0 == [i \in 1..m |-> f[i]]
<1>7. Is(f0)
  <2>1. ASSUME NEW i \in 1..m PROVE f0[i] = Body(f0, i)
    <3>1. i > n \/ i <= n
      BY <1>0
    <3>2. f0[i] = f[i]
      OBVIOUS
    <3>3. i <= n => f0[i + 1] = f[i + 1] /\ f0[i + 3] = f[i + 3]
      <4>1. i <= n => i + 1 \in 1..m /\ i + 3 \in 1..m
        BY <1>0, <1>m
      <4>2. QED BY <4>1
    <3> HIDE DEF f0
    <3>4. QED BY <1>5, <3>1, <3>2, <3>3
  <2> HIDE DEF Body
  <2>2. QED BY <2>1
<1>8. Replace(t, v.key, v.value) = F[1]
  BY <1>0, <1>m DEF Replace
<1>9. Is(F)
  <2> HIDE DEF Is
  <2>1. QED BY <1>7
<1>10. \A i \in 1..m : F[i] = Body(F, i)
  <2> HIDE DEF Body, F
  <2>1. QED BY <1>9
<1> HIDE DEF F, Is, f0
<1>11. \A i \in 1..m : F[i] = f[i]
  <2> DEFINE T == {i \in 1..m : F[i] # f[i]}
  <2>1. SUFFICES ASSUME T # {} PROVE FALSE
    OBVIOUS
  <2>2. T \in SUBSET (0..m)
    OBVIOUS
  <2>3. PICK i \in T : \A k \in T : k <= i
    <3> HIDE DEF T
    <3>1. QED BY <1>m, <2>1, <2>2, GreatestNat
  <2>4. i \in 1..m /\ F[i] = Body(F, i) /\ F[i] # f[i]
    BY <1>10, <2>3
  <2>5. i <= n
    <3>1. SUFFICES ASSUME i > n PROVE FALSE
      BY <1>0, <2>4
    <3>2. f[i] = <<>>
      BY <1>5, <2>4, <3>1
    <3>3. F[i] = <<>>
      BY <2>4, <3>1
    <3>4. QED BY <2>4, <3>2, <3>3
  <2>6. \A k \in (i + 1)..m : F[k] = f[k]
    <3>1. SUFFICES ASSUME NEW k \in (i + 1)..m, F[k] # f[k] PROVE FALSE
      OBVIOUS
    <3>2. k \in T /\ ~(k <= i)
      BY <2>4, <3>1
    <3> HIDE DEF T
    <3>3. QED BY <2>3, <3>2
  <2>7. i + 1 \in (i + 1)..m /\ i + 3 \in (i + 1)..m
    BY <1>0, <1>m, <2>4, <2>5
  <2>8. F[i + 1] = f[i + 1] /\ F[i + 3] = f[i + 3]
    BY <2>6, <2>7
  <2>9. QED BY <1>5, <2>4, <2>5, <2>8
<1>12. 1 \in 1..m
  BY <1>m
<1>13. QED BY <1>2, <1>5, <1>8, <1>11, <1>12

Joins(a, b, c) == a \o (b \o c) = (a \o b) \o c

\* Three texts put together, either way.
LEMMA JoinTexts ==
  ASSUME NEW S, NEW a \in Seq(S), NEW b \in Seq(S), NEW c \in Seq(S)
  PROVE  Joins(a, b, c)
BY DEF Joins

\* An "x" parts a template: what stands before it and after it is filled by itself.
LEMMA FilledApart ==
  ASSUME NEW S, "x" \in S, NEW vs \in Seq(Vars(S)), \A v \in ToSet(vs) : v.key # "x",
         NEW a \in Seq(S), NEW b \in Seq(S)
  PROVE  /\ AtOnce(a, vs) \in Seq(S)
         /\ AtOnce(a \o (<<"x">> \o b), vs) = AtOnce(a, vs) \o (<<"x">> \o AtOnce(b, vs))
<1>x. PICK x \in S : x = "x"
  OBVIOUS
<1>0. PICK n \in Nat, p \in Nat : n = Len(a) /\ p = Len(b)
  OBVIOUS
<1>1. PICK s \in Seq(S) :
        /\ s = a \o (<<x>> \o b) /\ Len(s) = n + 1 + p /\ s[n + 1] = x
        /\ \A i \in 1..n : s[i] = a[i]
        /\ \A i \in 1..p : s[n + 1 + i] = b[i]
  <2> DEFINE s == a \o (<<x>> \o b)
  <2>1. s \in Seq(S) /\ Len(s) = n + 1 + p
    BY <1>0
  <2>2. s[n + 1] = x
    BY <1>0
  <2>3. \A i \in 1..n : s[i] = a[i]
    BY <1>0
  <2>4. \A i \in 1..p : s[n + 1 + i] = b[i]
    BY <1>0
  <2> HIDE DEF s
  <2>5. QED BY <2>1, <2>2, <2>3, <2>4 DEF s
<1>2. PICK f : Fills(S, a, vs, f) /\ AtOnce(a, vs) = f[1]
  BY FillsExist
<1>3. PICK g : Fills(S, b, vs, g) /\ AtOnce(b, vs) = g[1]
  BY FillsExist
<1>4. PICK h : Fills(S, s, vs, h) /\ AtOnce(s, vs) = h[1]
  BY FillsExist
<1>5. \A i \in 1..(n + 3) :
        /\ f[i] \in Seq(S)
        /\ i > n => f[i] = <<>>
        /\ i <= n /\ At(a, vs, i) = {} => f[i] = <<a[i]>> \o f[i + 1]
        /\ i <= n /\ At(a, vs, i) # {} => f[i] = Put(a, vs, i) \o f[i + 3]
  BY <1>0, <1>2 DEF Fills
<1>6. \A i \in 1..(p + 3) :
        /\ g[i] \in Seq(S)
        /\ i > p => g[i] = <<>>
        /\ i <= p /\ At(b, vs, i) = {} => g[i] = <<b[i]>> \o g[i + 1]
        /\ i <= p /\ At(b, vs, i) # {} => g[i] = Put(b, vs, i) \o g[i + 3]
  BY <1>0, <1>3 DEF Fills
<1>7. \A i \in 1..(n + 1 + p + 3) :
        /\ h[i] \in Seq(S)
        /\ i > n + 1 + p => h[i] = <<>>
        /\ i <= n + 1 + p /\ At(s, vs, i) = {} => h[i] = <<s[i]>> \o h[i + 1]
        /\ i <= n + 1 + p /\ At(s, vs, i) # {} => h[i] = Put(s, vs, i) \o h[i + 3]
  BY <1>1, <1>4 DEF Fills
<1>8. \A i \in 1..n, v \in ToSet(vs) : NeedleAt(s, v.key, i) <=> NeedleAt(a, v.key, i)
  <2>1. SUFFICES ASSUME NEW i \in 1..n, NEW v \in ToSet(vs)
                 PROVE  NeedleAt(s, v.key, i) <=> NeedleAt(a, v.key, i)
    OBVIOUS
  <2>k. PICK k : k = v.key
    OBVIOUS
  <2>2. /\ NeedleAt(s, k, i) <=>
             i + 2 <= Len(s) /\ s[i] = "open" /\ s[i + 1] = k /\ s[i + 2] = "close"
        /\ NeedleAt(a, k, i) <=>
             i + 2 <= Len(a) /\ a[i] = "open" /\ a[i + 1] = k /\ a[i + 2] = "close"
    BY NeedleIs
  <2>3. CASE i + 2 <= n
    <3>1. i + 1 \in 1..n /\ i + 2 \in 1..n /\ i + 2 <= Len(s)
      BY <1>0, <1>1, <2>3
    <3>2. QED BY <1>0, <1>1, <2>2, <2>3, <2>k, <3>1
  <2>4. CASE ~(i + 2 <= n)
    <3>1. i + 1 = n + 1 \/ i + 2 = n + 1
      BY <2>4
    <3>2. k # x /\ "close" # x
      BY <1>x, <2>k
    <3>3. s[i + 1] = x \/ s[i + 2] = x
      BY <1>1, <3>1
    <3>4. QED BY <1>0, <2>2, <2>4, <2>k, <3>2, <3>3
  <2>5. QED BY <2>3, <2>4
<1>9. \A v \in ToSet(vs) : ~NeedleAt(s, v.key, n + 1)
  <2>1. n + 1 \in Nat \ {0} /\ s[n + 1] # "open"
    BY <1>1, <1>x
  <2>2. QED BY <2>1, NeedleIs
<1>10. \A j \in 1..p, v \in ToSet(vs) : NeedleAt(s, v.key, n + 1 + j) <=> NeedleAt(b, v.key, j)
  <2>1. SUFFICES ASSUME NEW j \in 1..p, NEW v \in ToSet(vs)
                 PROVE  NeedleAt(s, v.key, n + 1 + j) <=> NeedleAt(b, v.key, j)
    OBVIOUS
  <2>k. PICK k : k = v.key
    OBVIOUS
  <2>i. PICK i \in Nat \ {0} : i = n + 1 + j
    OBVIOUS
  <2>2. /\ NeedleAt(s, k, i) <=>
             i + 2 <= Len(s) /\ s[i] = "open" /\ s[i + 1] = k /\ s[i + 2] = "close"
        /\ NeedleAt(b, k, j) <=>
             j + 2 <= Len(b) /\ b[j] = "open" /\ b[j + 1] = k /\ b[j + 2] = "close"
    BY NeedleIs
  <2>3. i + 2 <= Len(s) <=> j + 2 <= Len(b)
    BY <1>0, <1>1, <2>i
  <2>4. CASE j + 2 <= Len(b)
    <3>1. j + 1 \in 1..p /\ j + 2 \in 1..p /\ i + 1 = n + 1 + (j + 1) /\ i + 2 = n + 1 + (j + 2)
      BY <1>0, <2>4, <2>i
    <3>2. s[i] = b[j] /\ s[i + 1] = b[j + 1] /\ s[i + 2] = b[j + 2]
      BY <1>1, <2>i, <3>1
    <3>3. QED BY <2>2, <2>3, <2>k, <2>i, <3>2
  <2>5. CASE ~(j + 2 <= Len(b))
    BY <2>2, <2>3, <2>5, <2>k, <2>i
  <2>6. QED BY <2>4, <2>5
<1>11. /\ \A i \in 1..n : At(s, vs, i) = At(a, vs, i)
       /\ At(s, vs, n + 1) = {}
       /\ \A j \in 1..p : At(s, vs, n + 1 + j) = At(b, vs, j)
  BY <1>8, <1>9, <1>10 DEF At
<1>12. /\ \A i \in 1..n : Put(s, vs, i) = Put(a, vs, i)
       /\ \A j \in 1..p : Put(s, vs, n + 1 + j) = Put(b, vs, j)
  BY <1>11 DEF Put
\* After the "x".
<1>13. \A j \in 1..(p + 3) : h[n + 1 + j] = g[j]
  <2> DEFINE T == {j \in 1..(p + 3) : h[n + 1 + j] # g[j]}
  <2>1. SUFFICES ASSUME T # {} PROVE FALSE
    OBVIOUS
  <2>2. T \in SUBSET (0..(p + 3)) /\ p + 3 \in Nat
    OBVIOUS
  <2>3. PICK j \in T : \A k \in T : k <= j
    <3> HIDE DEF T
    <3>1. QED BY <2>1, <2>2, GreatestNat
  <2>4. j \in 1..(p + 3) /\ h[n + 1 + j] # g[j]
    BY <2>3
  <2>5. \A k \in (j + 1)..(p + 3) : h[n + 1 + k] = g[k]
    <3>1. SUFFICES ASSUME NEW k \in (j + 1)..(p + 3), h[n + 1 + k] # g[k] PROVE FALSE
      OBVIOUS
    <3>2. k \in T /\ ~(k <= j)
      BY <2>4, <3>1
    <3> HIDE DEF T
    <3>3. QED BY <2>3, <3>2
  <2> HIDE DEF T
  <2>6. PICK i \in 1..(n + 1 + p + 3) : i = n + 1 + j
    BY <2>4
  <2>7. CASE j > p
    <3>1. g[j] = <<>>
      BY <1>6, <2>4, <2>7
    <3>2. i > n + 1 + p
      BY <2>4, <2>6, <2>7
    <3>3. h[i] = <<>>
      BY <1>7, <3>2
    <3>4. QED BY <2>4, <2>6, <3>1, <3>3
  <2>8. CASE j <= p
    <3>1. j \in 1..p /\ i <= n + 1 + p
      BY <2>4, <2>6, <2>8
    <3>2. At(s, vs, i) = At(b, vs, j) /\ Put(s, vs, i) = Put(b, vs, j) /\ s[i] = b[j]
      BY <1>1, <1>11, <1>12, <2>6, <3>1
    <3>3. j + 1 \in (j + 1)..(p + 3) /\ j + 3 \in (j + 1)..(p + 3)
      BY <2>4, <2>8
    <3>4. h[n + 1 + (j + 1)] = g[j + 1] /\ h[n + 1 + (j + 3)] = g[j + 3]
      BY <2>5, <3>3
    <3>5. i + 1 = n + 1 + (j + 1) /\ i + 3 = n + 1 + (j + 3)
      BY <2>4, <2>6
    <3>6. h[i + 1] = g[j + 1] /\ h[i + 3] = g[j + 3]
      BY <3>4, <3>5
    <3>7. CASE At(b, vs, j) = {}
      <4>1. g[j] = <<b[j]>> \o g[j + 1]
        BY <1>6, <2>4, <2>8, <3>7
      <4>2. h[i] = <<s[i]>> \o h[i + 1]
        BY <1>7, <3>1, <3>2, <3>7
      <4>3. QED BY <2>4, <2>6, <3>2, <3>6, <4>1, <4>2
    <3>8. CASE At(b, vs, j) # {}
      <4>1. g[j] = Put(b, vs, j) \o g[j + 3]
        BY <1>6, <2>4, <2>8, <3>8
      <4>2. h[i] = Put(s, vs, i) \o h[i + 3]
        BY <1>7, <3>1, <3>2, <3>8
      <4>3. QED BY <2>4, <2>6, <3>2, <3>6, <4>1, <4>2
    <3>9. QED BY <3>7, <3>8
  <2>9. QED BY <2>4, <2>7, <2>8
<1>14. PICK r \in Seq(S) : r = <<x>> \o g[1] /\ h[n + 1] = r
  <2>1. n + 1 \in 1..(n + 1 + p + 3) /\ n + 1 <= n + 1 + p /\ 1 \in 1..(p + 3)
    OBVIOUS
  <2>2. h[n + 1] = <<s[n + 1]>> \o h[(n + 1) + 1]
    BY <1>7, <1>11, <2>1
  <2>3. h[(n + 1) + 1] = g[1] /\ g[1] \in Seq(S)
    BY <1>6, <1>13, <2>1
  <2>4. <<x>> \o g[1] \in Seq(S)
    BY <2>3
  <2>5. QED BY <1>1, <2>2, <2>3, <2>4
\* Before it.
<1>15. \A i \in 1..(n + 1) : h[i] = f[i] \o r
  <2> DEFINE T == {i \in 1..(n + 1) : h[i] # f[i] \o r}
  <2>1. SUFFICES ASSUME T # {} PROVE FALSE
    OBVIOUS
  <2>2. T \in SUBSET (0..(n + 1)) /\ n + 1 \in Nat
    OBVIOUS
  <2>3. PICK i \in T : \A k \in T : k <= i
    <3> HIDE DEF T
    <3>1. QED BY <2>1, <2>2, GreatestNat
  <2>4. i \in 1..(n + 1) /\ h[i] # f[i] \o r
    BY <2>3
  <2>5. \A k \in (i + 1)..(n + 1) : h[k] = f[k] \o r
    <3>1. SUFFICES ASSUME NEW k \in (i + 1)..(n + 1), h[k] # f[k] \o r PROVE FALSE
      OBVIOUS
    <3>2. k \in T /\ ~(k <= i)
      BY <2>4, <3>1
    <3> HIDE DEF T
    <3>3. QED BY <2>3, <3>2
  <2> HIDE DEF T
  <2>6. CASE i = n + 1
    <3>1. i \in 1..(n + 3) /\ i > n
      BY <2>6
    <3>2. f[i] = <<>>
      BY <1>5, <3>1
    <3>3. <<>> \o r = r
      BY ConcatEmptySeq
    <3>4. QED BY <1>14, <2>4, <2>6, <3>2, <3>3
  <2>7. CASE i # n + 1
    <3>1. /\ i \in 1..n /\ i <= n /\ i \in 1..(n + 3) /\ i \in 1..(n + 1 + p + 3) /\ i <= n + 1 + p
          /\ i + 1 \in (i + 1)..(n + 1) /\ i + 1 \in 1..(n + 3) /\ i + 3 \in 1..(n + 3)
      BY <2>4, <2>7
    <3>2. At(s, vs, i) = At(a, vs, i) /\ Put(s, vs, i) = Put(a, vs, i) /\ s[i] = a[i]
      BY <1>1, <1>11, <1>12, <3>1
    <3>3. CASE At(a, vs, i) = {}
      <4>1. f[i] = <<a[i]>> \o f[i + 1] /\ f[i + 1] \in Seq(S)
        BY <1>5, <3>1, <3>3
      <4>2. h[i] = <<s[i]>> \o h[i + 1]
        BY <1>7, <3>1, <3>2, <3>3
      <4>3. h[i + 1] = f[i + 1] \o r
        BY <2>5, <3>1
      <4>4. <<a[i]>> \o (f[i + 1] \o r) = (<<a[i]>> \o f[i + 1]) \o r
        <5>1. PICK u \in Seq(S), w \in Seq(S) : u = <<a[i]>> /\ w = f[i + 1]
          <6>1. a[i] \in S
            BY <1>0, <3>1
          <6>2. <<a[i]>> \in Seq(S)
            BY <6>1
          <6>3. QED BY <4>1, <6>2
        <5>2. Joins(u, w, r)
          BY JoinTexts
        <5>3. u \o (w \o r) = (u \o w) \o r
          BY <5>2 DEF Joins
        <5>4. QED BY <5>1, <5>3
      <4>5. QED BY <2>4, <3>2, <4>1, <4>2, <4>3, <4>4
    <3>4. CASE At(a, vs, i) # {}
      <4>1. f[i] = Put(a, vs, i) \o f[i + 3] /\ f[i + 3] \in Seq(S)
        BY <1>5, <3>1, <3>4
      <4>2. h[i] = Put(s, vs, i) \o h[i + 3]
        BY <1>7, <3>1, <3>2, <3>4
      <4>3. PICK v \in ToSet(vs) : v \in At(a, vs, i) /\ Put(a, vs, i) = v.value
        <5>1. (CHOOSE v \in At(a, vs, i) : TRUE) \in At(a, vs, i)
          BY <3>4
        <5>2. QED BY <5>1 DEF Put, At
      <4>4. i + 2 <= n
        BY <1>0, <4>3 DEF At, NeedleAt
      <4>5. i + 3 \in (i + 1)..(n + 1)
        BY <3>1, <4>4
      <4>6. h[i + 3] = f[i + 3] \o r
        BY <2>5, <4>5
      <4>7. v.value \in Seq(S)
        <5>1. v \in Vars(S)
          BY DEF ToSet
        <5>2. QED BY <5>1 DEF Vars
      <4>8. Put(a, vs, i) \o (f[i + 3] \o r) = (Put(a, vs, i) \o f[i + 3]) \o r
        <5>1. PICK u \in Seq(S), w \in Seq(S) : u = Put(a, vs, i) /\ w = f[i + 3]
          BY <4>1, <4>3, <4>7
        <5>2. Joins(u, w, r)
          BY JoinTexts
        <5>3. u \o (w \o r) = (u \o w) \o r
          BY <5>2 DEF Joins
        <5>4. QED BY <5>1, <5>3
      <4>9. QED BY <2>4, <3>2, <4>1, <4>2, <4>6, <4>8
    <3>5. QED BY <3>3, <3>4
  <2>8. QED BY <2>6, <2>7
<1>16. 1 \in 1..(n + 1) /\ 1 \in 1..(n + 3)
  OBVIOUS
<1>17. h[1] = f[1] \o r /\ f[1] \in Seq(S)
  BY <1>5, <1>15, <1>16
<1>18. QED BY <1>1, <1>2, <1>3, <1>4, <1>14, <1>17, <1>x

\* A text that names no key is left as it is; a placeholder becomes its value.
LEMMA FilledNot ==
  ASSUME NEW S, NEW vs \in Seq(Vars(S)), NEW t \in Seq(S),
         \A v \in ToSet(vs), k \in 1..Len(t) : ~NeedleAt(t, v.key, k)
  PROVE  AtOnce(t, vs) = t
<1>0. PICK n \in Nat : n = Len(t)
  OBVIOUS
<1>1. PICK f : Fills(S, t, vs, f) /\ AtOnce(t, vs) = f[1]
  BY FillsExist
<1>2. \A i \in 1..n : At(t, vs, i) = {}
  BY <1>0 DEF At
<1>3. \A i \in 1..(n + 1) :
        /\ i > n => f[i] = <<>>
        /\ i <= n => f[i] = <<t[i]>> \o f[i + 1]
  <2>1. \A i \in 1..(n + 1) : i \in 1..(Len(t) + 3) /\ (i <= n => i \in 1..n)
    BY <1>0
  <2>2. SUFFICES ASSUME NEW i \in 1..(n + 1)
                 PROVE  /\ i > n => f[i] = <<>>
                        /\ i <= n => f[i] = <<t[i]>> \o f[i + 1]
    OBVIOUS
  <2>3. /\ i > n => f[i] = <<>>
        /\ i <= n /\ At(t, vs, i) = {} => f[i] = <<t[i]>> \o f[i + 1]
    BY <1>0, <1>1, <2>1 DEF Fills
  <2>4. QED BY <1>2, <2>1, <2>3
<1> DEFINE T == {i \in 1..(n + 1) : f[i] # SubSeq(t, i, n)}
<1>4. T = {}
  <2>1. SUFFICES ASSUME T # {} PROVE FALSE
    OBVIOUS
  <2>2. T \in SUBSET (0..(n + 1)) /\ n + 1 \in Nat
    OBVIOUS
  <2>3. PICK i \in T : \A k \in T : k <= i
    <3> HIDE DEF T
    <3>1. QED BY <2>1, <2>2, GreatestNat
  <2>4. i \in 1..(n + 1) /\ f[i] # SubSeq(t, i, n)
    BY <2>3
  <2>5. CASE i > n
    <3>1. f[i] = <<>>
      BY <1>3, <2>4, <2>5
    <3>2. SubSeq(t, i, n) = <<>>
      BY <2>4, <2>5, SubSeqEmpty
    <3>3. QED BY <2>4, <3>1, <3>2
  <2>6. CASE ~(i > n)
    <3>1. i \in 1..n /\ i + 1 \in 1..(n + 1) /\ n \in i..n /\ ~(i + 1 <= i)
      BY <2>4, <2>6
    <3>2. f[i] = <<t[i]>> \o f[i + 1]
      BY <1>3, <2>4, <2>6
    <3>3. f[i + 1] = SubSeq(t, i + 1, n)
      <4>1. SUFFICES ASSUME f[i + 1] # SubSeq(t, i + 1, n) PROVE FALSE
        OBVIOUS
      <4>2. i + 1 \in T
        BY <3>1, <4>1
      <4> HIDE DEF T
      <4>3. QED BY <2>3, <3>1, <4>2
    <3>4. SubSeq(t, i, n) = <<t[i]>> \o SubSeq(t, i + 1, n)
      BY <1>0, <3>1, SubSeqRecursiveFirst
    <3>5. QED BY <2>4, <3>2, <3>3, <3>4
  <2>7. QED BY <2>5, <2>6
<1>5. f[1] = SubSeq(t, 1, n)
  <2>1. 1 \in 1..(n + 1)
    OBVIOUS
  <2>2. QED BY <1>4, <2>1
<1>6. SubSeq(t, 1, n) = t
  BY <1>0, SubSeqFull
<1>7. QED BY <1>1, <1>5, <1>6

\* A placeholder holds itself and no other.
LEMMA NeedleHolds ==
  ASSUME NEW S, "open" \in S, "close" \in S, NEW k \in S
  PROVE  /\ Needle(k) \in Seq(S) /\ Len(Needle(k)) = 3
         /\ \A j \in S, i \in Nat \ {0} : NeedleAt(Needle(k), j, i) <=> i = 1 /\ j = k
<1>1. PICK o \in S, c \in S : o = "open" /\ c = "close"
  OBVIOUS
<1>2. PICK t \in Seq(S) : t = Needle(k) /\ Len(t) = 3 /\ t[1] = o /\ t[2] = k /\ t[3] = c
  <2>1. <<o, k, c>> \in Seq(S) /\ Len(<<o, k, c>>) = 3
    OBVIOUS
  <2>2. QED BY <1>1, <2>1 DEF Needle
<1>3. ASSUME NEW j \in S, NEW i \in Nat \ {0} PROVE NeedleAt(t, j, i) <=> i = 1 /\ j = k
  <2>1. NeedleAt(t, j, i) <=>
          i + 2 <= Len(t) /\ t[i] = "open" /\ t[i + 1] = j /\ t[i + 2] = "close"
    BY NeedleIs
  <2>2. i + 2 <= 3 <=> i = 1
    OBVIOUS
  <2>3. CASE i = 1
    BY <1>1, <1>2, <2>1, <2>3
  <2>4. CASE i # 1
    BY <1>2, <2>1, <2>2, <2>4
  <2>5. QED BY <2>3, <2>4
<1>4. QED BY <1>2, <1>3

\* A placeholder that is filled is its value.
LEMMA FilledIn ==
  ASSUME NEW S, "open" \in S, "close" \in S, NEW vs \in Seq(Vars(S)), NEW v \in ToSet(vs),
         \A u \in ToSet(vs) : u.key = v.key => u = v
  PROVE  AtOnce(Needle(v.key), vs) = v.value
<1>0. v \in Vars(S) /\ \A u \in ToSet(vs) : u.key \in S
  <2>1. ToSet(vs) \subseteq Vars(S)
    BY DEF ToSet
  <2>2. QED BY <2>1 DEF Vars
<1>k. PICK k \in S : k = v.key
  BY <1>0
<1>1. PICK t \in Seq(S) : t = Needle(k) /\ Len(t) = 3
  BY NeedleHolds
<1>2. PICK f : Fills(S, t, vs, f) /\ AtOnce(t, vs) = f[1]
  BY FillsExist
<1>3. At(t, vs, 1) = {v}
  <2>1. \A u \in ToSet(vs) : NeedleAt(t, u.key, 1) <=> u.key = k
    BY <1>0, <1>1, NeedleHolds
  <2>2. QED BY <1>k, <2>1 DEF At
<1>4. Put(t, vs, 1) = v.value
  BY <1>3 DEF Put
<1>5. f[1] = v.value \o f[4] /\ f[4] = <<>>
  <2>1. 1 \in 1..(3 + 3) /\ 4 \in 1..(3 + 3) /\ 4 > 3 /\ 1 <= 3 /\ 1 + 3 = 4
    OBVIOUS
  <2>2. At(t, vs, 1) # {} => f[1] = Put(t, vs, 1) \o f[1 + 3]
    BY <1>1, <1>2, <2>1 DEF Fills
  <2>3. f[4] = <<>>
    BY <1>1, <1>2, <2>1 DEF Fills
  <2>4. At(t, vs, 1) # {}
    BY <1>3
  <2>5. QED BY <1>4, <2>1, <2>2, <2>3, <2>4
<1>6. v.value \o <<>> = v.value
  BY <1>0, ConcatEmptySeq DEF Vars
<1>7. QED BY <1>1, <1>2, <1>5, <1>6, <1>k

-----------------------------------------------------------------------------
\* A template: a text, and then texts that an "x" parts.
Parted(c) == [i \in DOMAIN c |-> <<"x">> \o c[i]]
Paged(h, c) == (h \o FlattenSeq(Parted(c))) \o <<"x">>

\* A template is filled part by part: no placeholder reaches over an x.
LEMMA PagedOnce ==
  ASSUME NEW S, "x" \in S, NEW vs \in Seq(Vars(S)), \A v \in ToSet(vs) : v.key # "x",
         NEW h \in Seq(S), NEW c \in Seq(Seq(S))
  PROVE  /\ Paged(h, c) \in Seq(S)
         /\ AtOnce(Paged(h, c), vs) =
              Paged(AtOnce(h, vs), [i \in DOMAIN c |-> AtOnce(c[i], vs)])
<1>x. PICK x \in S : x = "x"
  OBVIOUS
<1>j. \A a0, b0, c0 \in Seq(S) : Joins(a0, b0, c0)
  BY JoinTexts
<1>0. PICK n \in Nat : n = Len(c) /\ DOMAIN c = 1..n
  OBVIOUS
<1>c. \A i \in 1..n : c[i] \in Seq(S)
  BY <1>0
<1> DEFINE d == [i \in DOMAIN c |-> AtOnce(c[i], vs)]
           A == Seq(S)
           X(w) == <<x>> \o w
<1>1. ASSUME NEW w \in Seq(S)
      PROVE  /\ AtOnce(w, vs) \in Seq(S) /\ X(w) \in Seq(S)
             /\ \A u \in Seq(S) : AtOnce(u \o X(w), vs) = AtOnce(u, vs) \o X(AtOnce(w, vs))
  <2>1. AtOnce(w, vs) \in Seq(S) /\ <<x>> \o w \in Seq(S)
    BY FilledApart
  <2>2. QED BY ZenonT(60), <1>x, <2>1, FilledApart
<1>d. \A i \in 1..n : d[i] = AtOnce(c[i], vs) /\ d[i] \in Seq(S)
  BY <1>0, <1>1, <1>c
<1>2. /\ Parted(c) \in Seq(A) /\ Len(Parted(c)) = n
      /\ \A i \in 1..n : Parted(c)[i] = X(c[i])
  <2>1. Parted(c) = [i \in 1..n |-> X(c[i])]
    BY <1>0, <1>x DEF Parted
  <2>2. \A i \in 1..n : X(c[i]) \in A
    BY <1>1, <1>c
  <2> HIDE DEF X, A
  <2>3. [i \in 1..n |-> X(c[i])] \in Seq(A)
    BY <2>2
  <2>4. Parted(c) \in Seq(A) /\ DOMAIN Parted(c) = 1..n
    BY <2>1, <2>3
  <2>5. Len(Parted(c)) = n
    BY <2>4, LenProperties
  <2>6. QED BY <2>1, <2>4, <2>5
<1>3. /\ Parted(d) \in Seq(A) /\ Len(Parted(d)) = n
      /\ \A i \in 1..n : Parted(d)[i] = X(AtOnce(c[i], vs))
  <2>1. Parted(d) = [i \in 1..n |-> X(AtOnce(c[i], vs))]
    BY <1>0, <1>x DEF Parted
  <2>2. \A i \in 1..n : X(AtOnce(c[i], vs)) \in A
    BY <1>1, <1>c
  <2> HIDE DEF X, A
  <2>3. [i \in 1..n |-> X(AtOnce(c[i], vs))] \in Seq(A)
    BY <2>2
  <2>4. Parted(d) \in Seq(A) /\ DOMAIN Parted(d) = 1..n
    BY <2>1, <2>3
  <2>5. Len(Parted(d)) = n
    BY <2>4, LenProperties
  <2>6. QED BY <2>1, <2>4, <2>5
<1> HIDE DEF d
<1>4. PICK f \in [0..n -> Seq(S)] : Parts(Parted(c), f) /\ FlattenSeq(Parted(c)) = f[n]
  BY <1>2, FlattenParts
<1>5. PICK g \in [0..n -> Seq(S)] : Parts(Parted(d), g) /\ FlattenSeq(Parted(d)) = g[n]
  BY <1>3, FlattenParts
<1> DEFINE a == AtOnce(h, vs)
           T == {k \in Nat : k <= n => AtOnce(h \o f[k], vs) = a \o g[k]}
<1>a. a \in Seq(S)
  BY <1>1
<1>6. 0 \in T
  <2>1. f[0] = <<>> /\ g[0] = <<>>
    BY <1>4, <1>5 DEF Parts
  <2>2. h \o <<>> = h /\ a \o <<>> = a
    BY <1>a, ConcatEmptySeq
  <2>3. QED BY <2>1, <2>2
<1> HIDE DEF a
<1>7. ASSUME NEW k \in T PROVE k + 1 \in T
  <2>1. SUFFICES ASSUME k + 1 <= n PROVE AtOnce(h \o f[k + 1], vs) = a \o g[k + 1]
    BY SMTT(30), <1>7
  <2>2. /\ k \in Nat /\ AtOnce(h \o f[k], vs) = a \o g[k] /\ k + 1 \in 1..n
        /\ (k + 1) - 1 = k /\ k \in 0..n
    BY <1>7, <2>1
  <2>3. f[k + 1] = f[k] \o X(c[k + 1])
    BY <1>2, <1>4, <2>2 DEF Parts
  <2>4. g[k + 1] = g[k] \o X(AtOnce(c[k + 1], vs))
    BY <1>3, <1>5, <2>2 DEF Parts
  <2>5. PICK w \in Seq(S) : w = c[k + 1]
    BY <1>c, <2>2
  <2>6. PICK u \in Seq(S), y \in Seq(S) : u = f[k] /\ y = g[k]
    BY <2>2
  <2>7. X(w) \in Seq(S) /\ AtOnce(w, vs) \in Seq(S) /\ X(AtOnce(w, vs)) \in Seq(S)
    BY <1>1
  <2>8. PICK z \in Seq(S), v \in Seq(S) : z = X(w) /\ v = X(AtOnce(w, vs))
    BY <2>7
  <2>9. AtOnce((h \o u) \o X(w), vs) = AtOnce(h \o u, vs) \o X(AtOnce(w, vs))
    <3>1. h \o u \in Seq(S)
      OBVIOUS
    <3> HIDE DEF X
    <3>2. QED BY <1>1, <3>1
  <2> HIDE DEF X, T
  <2>10. h \o (u \o z) = (h \o u) \o z /\ a \o (y \o v) = (a \o y) \o v
    <3>1. Joins(h, u, z) /\ Joins(a, y, v)
      BY <1>a, <1>j
    <3>2. QED BY <3>1 DEF Joins
  <2>11. QED BY <2>2, <2>3, <2>4, <2>5, <2>6, <2>8, <2>9, <2>10
<1>8. AtOnce(h \o f[n], vs) = a \o g[n]
  <2> HIDE DEF T
  <2>1. T = Nat
    BY <1>6, <1>7, AllNat DEF T
  <2>2. n \in T /\ n <= n
    BY <2>1
  <2>3. QED BY <2>2 DEF T
<1>9. PICK e \in Seq(S) : e = <<>>
  BY EmptySeq
<1>10. PICK u \in Seq(S) : u = h \o f[n]
  <2>1. PICK w \in Seq(S) : w = f[n]
    BY <1>4
  <2>2. h \o w \in Seq(S)
    OBVIOUS
  <2>3. QED BY <2>1, <2>2
<1>11. X(e) = <<x>> /\ X(e) \in Seq(S) /\ AtOnce(e, vs) = e
  <2>1. X(e) = <<x>>
    BY <1>9
  <2>2. AtOnce(e, vs) = e
    <3>1. \A k \in 1..Len(e) : FALSE
      BY <1>9
    <3>2. QED BY <3>1, FilledNot
  <2>3. QED BY <1>1, <2>1, <2>2
<1>12. AtOnce(u \o X(e), vs) = AtOnce(u, vs) \o X(AtOnce(e, vs))
  <2> HIDE DEF X
  <2>1. QED BY <1>1
<1>13. Paged(h, c) = u \o X(e)
  BY <1>4, <1>10, <1>11, <1>x DEF Paged
<1>14. Paged(a, d) = (a \o g[n]) \o X(e)
  BY <1>5, <1>11, <1>x DEF Paged
<1>15. u \o X(e) \in Seq(S)
  <2> HIDE DEF X
  <2>1. QED BY <1>11
<1>16. QED BY <1>8, <1>10, <1>11, <1>12, <1>13, <1>14, <1>15 DEF a, d

\* replace_all: the template after each key.
Filling(t, vs, r) ==
  /\ r[0] = t /\ ReplaceKeys(t, vs) = r[Len(vs)]
  /\ \A k \in 1..Len(vs) : r[k] = AtOnce(r[k - 1], <<vs[k]>>)

\* The template after each key exists.
LEMMA FillingExists ==
  ASSUME NEW S, NEW t \in Seq(S), NEW vs \in Seq(Vars(S)) PROVE \E r : Filling(t, vs, r)
<1>0. PICK n \in Nat : n = Len(vs) /\ DOMAIN vs = 1..n
  OBVIOUS
<1>a. \A k \in 1..n : vs[k] \in Vars(S)
  BY <1>0
<1> DEFINE A == Seq(S)
           Put1(w, k) == Replace(w, vs[k].key, vs[k].value)
           step == [p \in (1..n) \X A |-> Put1(p[2], p[1])]
           Is(x) == x = [s \in SUBSET (1..n) |->
                      IF s = {} THEN t ELSE Put1(x[s \ {Max(s)}], Max(s))]
           g == CHOOSE x : Is(x)
<1>b. \A k \in 1..n, w \in A : Put1(w, k) = AtOnce(w, <<vs[k]>>) /\ Put1(w, k) \in A
  BY <1>a, ReplaceIs
<1>1. step \in [(1..n) \X A -> A]
  <2> HIDE DEF A, Put1
  <2>1. QED BY <1>b
<1>2. \A k \in 1..n, w \in A : step[<<k, w>>] = Put1(w, k)
  <2> HIDE DEF A, Put1
  <2>1. QED OBVIOUS
<1>3. ReplaceKeys(t, vs) = g[1..n]
  BY <1>0 DEF ReplaceKeys, FoldLeft, MapThenFoldSet
<1> HIDE DEF step, Put1, A
<1>c. t \in A
  BY DEF A
<1>4. PICK it : Iterates(it, n, A, t, step)
  BY <1>1, <1>c, IterExists
<1>5. Is(it)
  <2>1. /\ it \in [SUBSET (1..n) -> A]
        /\ \A s \in SUBSET (1..n) :
             it[s] = IF s = {} THEN t ELSE step[<<Max(s), it[s \ {Max(s)}]>>]
    BY <1>4 DEF Iterates
  <2>2. ASSUME NEW s \in SUBSET (1..n)
        PROVE  it[s] = IF s = {} THEN t ELSE Put1(it[s \ {Max(s)}], Max(s))
    <3>1. s # {} => Max(s) \in 1..n /\ it[s \ {Max(s)}] \in A
      BY <2>1, MaxLast
    <3>2. QED BY <1>2, <2>1, <3>1
  <2>3. QED BY <2>1, <2>2
<1>6. Is(g)
  <2> HIDE DEF Is
  <2>1. QED BY <1>5
<1>7. \A s \in SUBSET (1..n) :
        g[s] = IF s = {} THEN t ELSE Put1(g[s \ {Max(s)}], Max(s))
  <2> HIDE DEF g
  <2>1. QED BY <1>6
<1> HIDE DEF g, Is
<1> DEFINE f == [k \in 0..n |-> g[1..k]]
<1>8. Climbs(f, A, t, n, step)
  <2>1. g[{}] = t
    BY <1>7
  <2>2. ASSUME NEW k \in 1..n, g[1..(k - 1)] \in A
        PROVE  g[1..k] = step[<<k, g[1..(k - 1)]>>]
    <3>1. g[1..k] = Put1(g[1..(k - 1)], k)
      BY <1>7, UpTo
    <3>2. QED BY <1>2, <2>2, <3>1
  <2>3. QED BY <1>1, <1>c, <2>1, <2>2, IterClimbs
<1>9. f[n] = g[1..n]
  BY <1>0
<1> HIDE DEF f
<1>10. /\ f \in [0..n -> A] /\ f[0] = t /\ \A k \in 1..n : f[k] = step[<<k, f[k - 1]>>]
  BY <1>8 DEF Climbs
<1>11. \A k \in 1..n : f[k] = AtOnce(f[k - 1], <<vs[k]>>)
  <2>1. \A k \in 1..n : k - 1 \in 0..n
    BY <1>0
  <2>2. QED BY <1>2, <1>b, <1>10, <2>1
<1>12. QED BY <1>0, <1>3, <1>9, <1>10, <1>11 DEF Filling

\* A slot of a template, when the first j keys are replaced: no slot at all (0), the
\* value of its key, or still the placeholder.
Slot(vs, m, j) ==
  IF m = 0 THEN <<>> ELSE IF m <= j THEN vs[m].value ELSE Needle(vs[m].key)
Made(vs, h, c, j) == Paged(Slot(vs, h, j), [i \in DOMAIN c |-> Slot(vs, c[i], j)])
Distinct(vs) == \A i, j \in 1..Len(vs) : vs[i].key = vs[j].key => i = j

\* A slot before and after its key is replaced.
LEMMA SlotFacts ==
  ASSUME NEW S, "open" \in S, "close" \in S, NEW vs \in Seq(Vars(S)), Distinct(vs),
         NamesNoLater(vs), NEW m \in 0..Len(vs)
  PROVE  /\ \A j \in 0..Len(vs) : Slot(vs, m, j) \in Seq(S)
         /\ \A j \in 1..Len(vs) : AtOnce(Slot(vs, m, j - 1), <<vs[j]>>) = Slot(vs, m, j)
         /\ AtOnce(Slot(vs, m, 0), vs) = Slot(vs, m, Len(vs))
<1>0. PICK n \in Nat : n = Len(vs) /\ DOMAIN vs = 1..n
  OBVIOUS
<1>a. \A k \in 1..n : vs[k] \in Vars(S) /\ vs[k].key \in S /\ vs[k].value \in Seq(S)
  <2>1. \A k \in 1..n : vs[k] \in Vars(S)
    BY <1>0
  <2>2. QED BY <2>1 DEF Vars
<1>d. PICK e \in Seq(S) : e = <<>>
  BY EmptySeq
<1>e. e = <<>> /\ e \in Seq(S) /\ \A k \in 1..Len(e) : FALSE
  BY <1>d
<1>1. ASSUME NEW us \in Seq(Vars(S)) PROVE AtOnce(e, us) = e
  BY <1>e, FilledNot
<1>2. ASSUME NEW j \in 0..n PROVE Slot(vs, m, j) \in Seq(S)
  <2>1. CASE m = 0
    BY <1>e, <2>1 DEF Slot
  <2>2. CASE m # 0
    <3>1. m \in 1..n
      BY <1>0, <2>2
    <3>2. Needle(vs[m].key) \in Seq(S)
      BY <1>a, <3>1, NeedleHolds
    <3>3. QED BY <1>a, <2>2, <3>1, <3>2 DEF Slot
  <2>3. QED BY <2>1, <2>2
<1>3. ASSUME NEW j \in 1..n PROVE AtOnce(Slot(vs, m, j - 1), <<vs[j]>>) = Slot(vs, m, j)
  <2>1. <<vs[j]>> \in Seq(Vars(S)) /\ ToSet(<<vs[j]>>) = {vs[j]}
    BY <1>a DEF ToSet
  <2>2. CASE m = 0
    BY <1>1, <1>e, <2>1, <2>2 DEF Slot
  <2>3. CASE m # 0 /\ m <= j - 1
    <3>1. m \in 1..n /\ m < j
      BY <1>0, <2>3
    <3>2. Slot(vs, m, j - 1) = vs[m].value /\ Slot(vs, m, j) = vs[m].value
      BY <2>3, <3>1 DEF Slot
    <3>3. PICK w \in Seq(S) : w = vs[m].value /\ DOMAIN w = 1..Len(w)
      BY <1>a, <3>1
    <3>4. \A k \in 1..Len(w) : ~NeedleAt(w, vs[j].key, k)
      BY <1>0, <3>1, <3>3 DEF NamesNoLater
    <3>5. AtOnce(w, <<vs[j]>>) = w
      BY <2>1, <3>4, FilledNot
    <3>6. QED BY <3>2, <3>3, <3>5
  <2>4. CASE m = j
    <3>1. Slot(vs, m, j - 1) = Needle(vs[j].key) /\ Slot(vs, m, j) = vs[j].value
      BY <2>4 DEF Slot
    <3>2. vs[j] \in ToSet(<<vs[j]>>) /\ \A u \in ToSet(<<vs[j]>>) : u.key = vs[j].key => u = vs[j]
      BY <2>1
    <3>3. AtOnce(Needle(vs[j].key), <<vs[j]>>) = vs[j].value
      BY <2>1, <3>2, FilledIn
    <3>4. QED BY <3>1, <3>3
  <2>5. CASE m > j
    <3>1. m \in 1..n /\ m # j /\ m # 0 /\ ~(m <= j) /\ ~(m <= j - 1)
      BY <1>0, <2>5
    <3>2. PICK w \in Seq(S) : w = Needle(vs[m].key)
      BY <1>a, <3>1, NeedleHolds
    <3>3. Slot(vs, m, j - 1) = w /\ Slot(vs, m, j) = w
      BY <3>1, <3>2 DEF Slot
    <3>4. vs[m].key # vs[j].key
      BY <1>0, <3>1 DEF Distinct
    <3>5. \A k \in 1..Len(w) : ~NeedleAt(w, vs[j].key, k)
      BY SMTT(30), <1>a, <3>1, <3>2, <3>4, NeedleHolds
    <3>6. AtOnce(w, <<vs[j]>>) = w
      BY <2>1, <3>5, FilledNot
    <3>7. QED BY <3>3, <3>6
  <2>6. QED BY <1>0, <2>2, <2>3, <2>4, <2>5
<1>4. AtOnce(Slot(vs, m, 0), vs) = Slot(vs, m, n)
  <2>1. CASE m = 0
    BY <1>1, <1>e, <2>1 DEF Slot
  <2>2. CASE m # 0
    <3>1. m \in 1..n /\ ~(m <= 0) /\ m <= n
      BY <1>0, <2>2
    <3>2. Slot(vs, m, 0) = Needle(vs[m].key) /\ Slot(vs, m, n) = vs[m].value
      BY <2>2, <3>1 DEF Slot
    <3>3. vs[m] \in ToSet(vs) /\ \A u \in ToSet(vs) : \E k \in 1..n : u = vs[k]
      BY <1>0, <3>1 DEF ToSet
    <3>4. \A u \in ToSet(vs) : u.key = vs[m].key => u = vs[m]
      BY <1>0, <3>1, <3>3 DEF Distinct
    <3>5. QED BY <3>2, <3>3, <3>4, FilledIn
  <2>3. QED BY <2>1, <2>2
<1>5. QED BY <1>0, <1>2, <1>3, <1>4

\* One key after the other does what all at once does, when no value names a key that
\* is replaced after it.
LEMMA FilledOnce ==
  ASSUME NEW S, "x" \in S, "open" \in S, "close" \in S, NEW vs \in Seq(Vars(S)),
         \A k \in 1..Len(vs) : vs[k].key # "x", Distinct(vs), NamesNoLater(vs),
         NEW h \in 0..Len(vs), NEW c \in Seq(0..Len(vs)), NEW t, t = Made(vs, h, c, 0)
  PROVE  ReplaceKeys(t, vs) = AtOnce(t, vs) /\ AtOnce(t, vs) \in Seq(S)
<1>0. PICK n \in Nat : n = Len(vs) /\ DOMAIN vs = 1..n
  OBVIOUS
<1>p. \A us \in Seq(Vars(S)), h0 \in Seq(S), c0 \in Seq(Seq(S)) :
        (\A v \in ToSet(us) : v.key # "x") =>
          /\ Paged(h0, c0) \in Seq(S)
          /\ AtOnce(Paged(h0, c0), us) =
               Paged(AtOnce(h0, us), [i \in DOMAIN c0 |-> AtOnce(c0[i], us)])
  BY SMTT(30), PagedOnce
<1>a. \A k \in 1..n : vs[k] \in Vars(S)
  BY <1>0
<1>k. \A v \in ToSet(vs) : v.key # "x"
  BY <1>0 DEF ToSet
<1>c. DOMAIN c = 1..Len(c) /\ Len(c) \in Nat /\ \A i \in DOMAIN c : c[i] \in 0..n
  BY <1>0
<1> DEFINE d(j) == [i \in DOMAIN c |-> Slot(vs, c[i], j)]
           q(j) == Slot(vs, h, j)
<1>1. ASSUME NEW j \in 0..n
      PROVE  /\ q(j) \in Seq(S) /\ d(j) \in Seq(Seq(S)) /\ DOMAIN d(j) = DOMAIN c
             /\ \A i \in DOMAIN c : d(j)[i] = Slot(vs, c[i], j)
  <2>1. q(j) \in Seq(S) /\ \A i \in DOMAIN c : Slot(vs, c[i], j) \in Seq(S)
    BY <1>0, <1>c, SlotFacts
  <2> DEFINE A == Seq(S)
  <2>2. \A i \in 1..Len(c) : Slot(vs, c[i], j) \in A
    BY <1>c, <2>1
  <2> HIDE DEF A
  <2>3. [i \in 1..Len(c) |-> Slot(vs, c[i], j)] \in Seq(A)
    BY <1>c, <2>2
  <2>4. QED BY <1>c, <2>1, <2>3 DEF A
<1>2. \A j \in 0..n : Made(vs, h, c, j) = Paged(q(j), d(j))
  BY DEF Made
<1>3. ASSUME NEW j \in 1..n
      PROVE  AtOnce(Made(vs, h, c, j - 1), <<vs[j]>>) = Made(vs, h, c, j)
  <2>1. <<vs[j]>> \in Seq(Vars(S)) /\ \A v \in ToSet(<<vs[j]>>) : v.key # "x"
    BY <1>0, <1>a DEF ToSet
  <2>2. j - 1 \in 0..n /\ j \in 0..n
    BY <1>0
  <2>3. AtOnce(q(j - 1), <<vs[j]>>) = q(j)
    BY <1>0, SlotFacts
  <2>4. [i \in DOMAIN c |-> AtOnce(d(j - 1)[i], <<vs[j]>>)] = d(j)
    <3>1. \A i \in DOMAIN c : AtOnce(Slot(vs, c[i], j - 1), <<vs[j]>>) = Slot(vs, c[i], j)
      BY <1>0, <1>c, SlotFacts
    <3>2. \A i \in DOMAIN c : AtOnce(d(j - 1)[i], <<vs[j]>>) = Slot(vs, c[i], j)
      BY <3>1
    <3>3. QED BY <3>2
  <2>5. q(j - 1) \in Seq(S) /\ d(j - 1) \in Seq(Seq(S)) /\ DOMAIN d(j - 1) = DOMAIN c
    BY <1>1, <2>2
  <2> HIDE DEF q, d
  <2>6. AtOnce(Paged(q(j - 1), d(j - 1)), <<vs[j]>>) = Paged(q(j), d(j))
    <3>1. AtOnce(Paged(q(j - 1), d(j - 1)), <<vs[j]>>)
            = Paged(AtOnce(q(j - 1), <<vs[j]>>),
                    [i \in DOMAIN d(j - 1) |-> AtOnce(d(j - 1)[i], <<vs[j]>>)])
      BY <1>p, <2>1, <2>5
    <3>2. [i \in DOMAIN d(j - 1) |-> AtOnce(d(j - 1)[i], <<vs[j]>>)] = d(j)
      BY <2>4, <2>5
    <3>3. QED BY <2>3, <3>1, <3>2
  <2>7. QED BY <1>2, <2>2, <2>6
<1>4. AtOnce(t, vs) = Made(vs, h, c, n) /\ Made(vs, h, c, n) \in Seq(S)
  <2>1. AtOnce(q(0), vs) = q(n)
    BY <1>0, SlotFacts
  <2>2. [i \in DOMAIN c |-> AtOnce(d(0)[i], vs)] = d(n)
    <3>1. \A i \in DOMAIN c : AtOnce(Slot(vs, c[i], 0), vs) = Slot(vs, c[i], n)
      BY <1>0, <1>c, SlotFacts
    <3>2. \A i \in DOMAIN c : AtOnce(d(0)[i], vs) = Slot(vs, c[i], n)
      BY <3>1
    <3>3. QED BY <3>2
  <2>3. 0 \in 0..n /\ n \in 0..n
    OBVIOUS
  <2>4. /\ q(0) \in Seq(S) /\ d(0) \in Seq(Seq(S)) /\ DOMAIN d(0) = DOMAIN c
        /\ q(n) \in Seq(S) /\ d(n) \in Seq(Seq(S))
    BY <1>1, <2>3
  <2> HIDE DEF q, d
  <2>5. AtOnce(Paged(q(0), d(0)), vs) = Paged(q(n), d(n))
    <3>1. AtOnce(Paged(q(0), d(0)), vs)
            = Paged(AtOnce(q(0), vs), [i \in DOMAIN d(0) |-> AtOnce(d(0)[i], vs)])
      BY <1>k, <1>p, <2>4
    <3>2. [i \in DOMAIN d(0) |-> AtOnce(d(0)[i], vs)] = d(n)
      BY <2>2, <2>4
    <3>3. QED BY <2>1, <3>1, <3>2
  <2>6. Paged(q(n), d(n)) \in Seq(S)
    BY <1>k, <1>p, <2>4
  <2>7. QED BY <1>2, <2>3, <2>5, <2>6
<1>5. t \in Seq(S)
  <2>1. 0 \in 0..n
    OBVIOUS
  <2>2. q(0) \in Seq(S) /\ d(0) \in Seq(Seq(S)) /\ t = Paged(q(0), d(0))
    BY <1>1, <1>2, <2>1
  <2> HIDE DEF q, d
  <2>3. QED BY <1>k, <1>p, <2>2
<1>6. PICK r : Filling(t, vs, r)
  BY <1>5, FillingExists
<1> DEFINE T == {j \in Nat : j <= n => r[j] = Made(vs, h, c, j)}
<1>7. 0 \in T
  BY <1>6 DEF Filling
<1>8. ASSUME NEW j \in T PROVE j + 1 \in T
  <2>1. SUFFICES ASSUME j + 1 <= n PROVE r[j + 1] = Made(vs, h, c, j + 1)
    BY <1>8
  <2>2. j \in Nat /\ r[j] = Made(vs, h, c, j) /\ j + 1 \in 1..n /\ (j + 1) - 1 = j
    BY <1>8, <2>1
  <2>3. r[j + 1] = AtOnce(r[j], <<vs[j + 1]>>)
    BY <1>0, <1>6, <2>2 DEF Filling
  <2>4. AtOnce(Made(vs, h, c, j), <<vs[j + 1]>>) = Made(vs, h, c, j + 1)
    BY <1>3, <2>2
  <2>5. QED BY <2>2, <2>3, <2>4
<1>9. r[n] = Made(vs, h, c, n)
  <2> HIDE DEF T
  <2>1. T = Nat
    BY <1>7, <1>8, AllNat DEF T
  <2>2. n \in T /\ n <= n
    BY <2>1
  <2>3. QED BY <2>2 DEF T
<1>10. QED BY <1>0, <1>4, <1>6, <1>9 DEF Filling

-----------------------------------------------------------------------------
\* The templates, and the names of their placeholders.
Keys ==
  {"x", "open", "close", "TITLE", "NAV", "BODY", "ROWS", "PROBLEM_TITLE", "PROBLEM_ID",
   "TESTCASE_ROWS", "DIFFICULTY", "DESCRIPTION", "SAMPLE_CASES", "TEMPLATE_LABEL", "ID",
   "TEMPLATE", "RESULT", "TITLE_VALUE", "DIFFICULTY_OPTIONS", "CONTENT", "SUBMIT_FN",
   "SUBMIT_LABEL"}
Strings == STRING \cup Keys
AnyText == Seq(Strings)
Rows == [title : AnyText, content : AnyText, template : AnyText, cases : Seq(AnyText)]

\* vs are values for the placeholders ks, in that order.
ValuesFor(vs, ks) ==
  /\ vs \in Seq(Vars(Strings)) /\ Len(vs) = Len(ks)
  /\ \A i \in 1..Len(ks) : vs[i].key = ks[i]

\* The template with the placeholders names, each after a part of its own.
Template(names) ==
  FlattenSeq([i \in 1..Len(names) |-> <<"x">> \o Needle(names[i])]) \o <<"x">>

\* The names of the placeholders are strings.
LEMMA KeyFacts ==
  /\ Keys \subseteq Strings /\ "x" \in Strings /\ "open" \in Strings /\ "close" \in Strings
  /\ <<"x">> \in Seq(Strings)
<1>1. Keys \subseteq Strings
  BY DEF Strings
<1>2. "x" \in Keys /\ "open" \in Keys /\ "close" \in Keys
  BY DEF Keys
<1>3. PICK x \in Strings : x = "x"
  BY <1>1, <1>2
<1>4. <<x>> \in Seq(Strings)
  OBVIOUS
<1>5. QED BY <1>1, <1>2, <1>3, <1>4

\* A template is made of slots.
LEMMA TemplateMade ==
  ASSUME NEW vs, NEW ks, ValuesFor(vs, ks), NEW names, NEW n \in Nat, Len(names) = n,
         NEW c \in Seq(1..Len(vs)), Len(c) = n, \A i \in 1..n : ks[c[i]] = names[i],
         Len(ks) \in Nat
  PROVE  Template(names) = Made(vs, 0, c, 0)
<1>0. PICK m \in Nat : m = Len(vs) /\ DOMAIN vs = 1..m /\ m = Len(ks) /\ vs \in Seq(Vars(Strings))
  BY DEF ValuesFor
<1>1. DOMAIN c = 1..n /\ \A i \in 1..n : c[i] \in 1..m
  BY <1>0
<1>2. ASSUME NEW i \in 1..n PROVE Slot(vs, c[i], 0) = Needle(names[i])
  <2>1. c[i] \in 1..m /\ c[i] # 0 /\ ~(c[i] <= 0)
    BY <1>1
  <2>2. vs[c[i]].key = ks[c[i]]
    BY <1>0, <2>1 DEF ValuesFor
  <2>3. QED BY <2>1, <2>2 DEF Slot
<1>d. ASSUME NEW i \in 1..n PROVE Slot(vs, c[i], 0) \in Seq(Strings)
  <2>1. Slot(vs, c[i], 0) = Needle(names[i]) /\ c[i] \in 1..m
    BY <1>1, <1>2
  <2>2. vs[c[i]] \in Vars(Strings) /\ vs[c[i]].key = names[i]
    BY <1>0, <2>1 DEF ValuesFor
  <2>3. names[i] \in Strings
    BY <2>2 DEF Vars
  <2>4. Needle(names[i]) \in Seq(Strings)
    BY <2>3, KeyFacts, NeedleHolds
  <2>5. QED BY <2>1, <2>4
<1> DEFINE d == [i \in 1..n |-> Slot(vs, c[i], 0)]
<1>3. Parted(d) = [i \in 1..n |-> <<"x">> \o Needle(names[i])]
  BY <1>2 DEF Parted
<1>4. d \in Seq(Seq(Strings))
  <2> DEFINE A == Seq(Strings)
  <2>1. \A i \in 1..n : d[i] \in A
    BY <1>d
  <2> HIDE DEF A
  <2>2. d \in [1..n -> A]
    BY <2>1
  <2>3. d \in Seq(A)
    <3> HIDE DEF d
    <3>1. QED BY <2>2
  <2>4. QED BY <2>3 DEF A
<1>5. FlattenSeq(Parted(d)) \in Seq(Strings)
  <2> DEFINE A == Seq(Strings)
  <2>1. ASSUME NEW i \in 1..n PROVE Parted(d)[i] \in A
    <3>1. Parted(d)[i] = <<"x">> \o d[i]
      BY DEF Parted
    <3>2. PICK w \in Seq(Strings) : w = Slot(vs, c[i], 0)
      BY <1>d
    <3>5. PICK u \in Seq(Strings) : u = <<"x">>
      BY KeyFacts
    <3>6. d[i] = w
      BY <3>2
    <3>3. u \o w \in Seq(Strings)
      OBVIOUS
    <3>4. QED BY <3>1, <3>3, <3>5, <3>6
  <2> HIDE DEF A
  <2>2. Parted(d) \in [1..n -> A]
    BY <2>1 DEF Parted
  <2>3. Parted(d) \in Seq(A)
    BY SMTT(30), <2>2
  <2>4. Parted(d) \in Seq(Seq(Strings))
    BY <2>3 DEF A
  <2>5. QED BY <2>4, FlattenJoin
<1>6. <<>> \o FlattenSeq(Parted(d)) = FlattenSeq(Parted(d))
  BY <1>5, ConcatEmptySeq
<1>7. Slot(vs, 0, 0) = <<>> /\ d = [i \in DOMAIN c |-> Slot(vs, c[i], 0)]
  BY <1>1 DEF Slot
<1>8. Made(vs, 0, c, 0) = Paged(<<>>, d)
  BY <1>7 DEF Made
<1> HIDE DEF d
<1>9. QED BY <1>3, <1>6, <1>8 DEF Template, Paged

\* The n names are among the m placeholders ks, which differ: c says which.
Among(names, n, ks, m, c) ==
  /\ n \in Nat /\ m \in Nat /\ Len(names) = n /\ Len(ks) = m
  /\ \A i \in 1..m : ks[i] # "x"
  /\ \A i, j \in 1..m : ks[i] = ks[j] => i = j
  /\ c \in Seq(1..m) /\ Len(c) = n
  /\ \A i \in 1..n : ks[c[i]] = names[i]

\* A template that is filled one key after the other is filled at once.
LEMMA TemplateFilled ==
  ASSUME NEW vs, NEW ks, NEW names, NEW n, NEW m, NEW c,
         ValuesFor(vs, ks), Among(names, n, ks, m, c), NamesNoLater(vs)
  PROVE  /\ ReplaceKeys(Template(names), vs) = AtOnce(Template(names), vs)
         /\ AtOnce(Template(names), vs) \in AnyText
<1>2. vs \in Seq(Vars(Strings)) /\ Len(vs) = m /\ Len(vs) = Len(ks) /\ m \in Nat /\ n \in Nat
  BY DEF ValuesFor, Among
<1>1. Template(names) = Made(vs, 0, c, 0)
  <2>1. /\ Len(names) = n /\ c \in Seq(1..Len(vs)) /\ Len(c) = n /\ Len(ks) \in Nat
        /\ \A i \in 1..n : ks[c[i]] = names[i]
    BY <1>2 DEF Among
  <2>2. QED BY SMTT(30), <1>2, <2>1, TemplateMade
<1>3. Distinct(vs) /\ \A k \in 1..Len(vs) : vs[k].key # "x"
  <2>1. \A i \in 1..Len(vs) : vs[i].key = ks[i]
    BY <1>2 DEF ValuesFor
  <2>2. \A i \in 1..Len(vs) : ks[i] # "x"
    BY <1>2 DEF Among
  <2>3. \A i, j \in 1..Len(vs) : ks[i] = ks[j] => i = j
    BY <1>2 DEF Among
  <2>4. QED BY <2>1, <2>2, <2>3 DEF Distinct
<1>4. c \in Seq(0..Len(vs)) /\ 0 \in 0..Len(vs)
  BY <1>2 DEF Among
<1>5. QED BY <1>1, <1>2, <1>3, <1>4, KeyFacts, FilledOnce DEF AnyText

\* A placeholder is a text.
LEMMA NeedleText ==
  ASSUME NEW k \in Keys
  PROVE  Needle(k) \in Seq(Strings) /\ k \in Strings
BY KeyFacts, NeedleHolds

\* What stands in the rows of a table.
LEMMA RowsWritten ==
  ASSUME NEW texts \in Seq(AnyText)
  PROVE  TableRows(texts) \in AnyText /\ SampleCases(texts) \in AnyText
<1>0. PICK n \in Nat : n = Len(texts) /\ DOMAIN texts = 1..n
  OBVIOUS
<1>x. PICK x \in AnyText : x = <<"x">>
  BY KeyFacts DEF AnyText
<1>e. PICK e \in AnyText : e = <<>>
  BY EmptySeq DEF AnyText
<1>1. ASSUME NEW u \in AnyText, NEW w \in AnyText PROVE u \o w \in AnyText
  BY DEF AnyText
<1> DEFINE d == [i \in 1..n |-> x \o texts[i]]
<1>2. d \in [1..n -> AnyText]
  <2>1. \A i \in 1..n : texts[i] \in AnyText
    BY <1>0
  <2>2. QED BY <1>1, <2>1
<1> HIDE DEF d
<1>3. d \in Seq(AnyText)
  BY <1>2
<1>4. FlattenSeq(d) \in AnyText
  <2>1. d \in Seq(Seq(Strings))
    BY <1>3 DEF AnyText
  <2>2. QED BY <2>1, FlattenJoin DEF AnyText
<1>5. FlattenSeq(d) \o x \in AnyText
  BY <1>1, <1>4
<1>6. TableRows(texts) \in AnyText
  <2>1. TableRows(texts) = IF texts = <<>> THEN x ELSE FlattenSeq(d) \o x
    BY <1>0, <1>x DEF TableRows, d
  <2>2. QED BY <1>5, <2>1
<1>7. QED BY <1>6, <1>e DEF SampleCases

\* A name and a text are a value for a placeholder.
LEMMA VarWritten ==
  ASSUME NEW k \in Keys, NEW w \in AnyText
  PROVE  Var(k, w) \in Vars(Strings) /\ Var(k, w).key = k /\ Var(k, w).value = w
<1>1. k \in Strings
  BY KeyFacts
<1>2. QED BY <1>1 DEF Var, Vars, AnyText

\* A sequence of one.
LEMMA OneVar ==
  ASSUME NEW A, NEW a1 \in A, NEW vs, vs = <<a1>>
  PROVE  vs \in Seq(A) /\ Len(vs) = 1 /\ vs[1] = a1
OBVIOUS

\* A sequence of three.
LEMMA ThreeVars ==
  ASSUME NEW A, NEW a1 \in A, NEW a2 \in A, NEW a3 \in A, NEW vs, vs = <<a1, a2, a3>>
  PROVE  vs \in Seq(A) /\ Len(vs) = 3 /\ vs[1] = a1 /\ vs[2] = a2 /\ vs[3] = a3
OBVIOUS

\* A sequence of eight.
LEMMA EightVars ==
  ASSUME NEW A, NEW a1 \in A, NEW a2 \in A, NEW a3 \in A, NEW a4 \in A,
         NEW a5 \in A, NEW a6 \in A, NEW a7 \in A, NEW a8 \in A,
         NEW vs, vs = <<a1, a2, a3, a4, a5, a6, a7, a8>>
  PROVE  /\ vs \in Seq(A) /\ Len(vs) = 8 /\ vs[1] = a1 /\ vs[2] = a2 /\ vs[3] = a3
         /\ vs[4] = a4 /\ vs[5] = a5 /\ vs[6] = a6 /\ vs[7] = a7 /\ vs[8] = a8
OBVIOUS

DetailKeys ==
  <<"DESCRIPTION", "DIFFICULTY", "ID", "RESULT", "SAMPLE_CASES", "TEMPLATE",
    "TEMPLATE_LABEL", "TITLE">>
DetailNames ==
  <<"TITLE", "DIFFICULTY", "DESCRIPTION", "SAMPLE_CASES", "TEMPLATE_LABEL", "ID",
    "TEMPLATE", "RESULT">>

\* The page of a problem.
LEMMA DetailFilled ==
  ASSUME NEW p \in Rows, NamesNoLater(DetailVars(p))
  PROVE  /\ ReplaceKeys(Detail, DetailVars(p)) = AtOnce(Detail, DetailVars(p))
         /\ AtOnce(Detail, DetailVars(p)) \in AnyText
<1>1. /\ p.title \in AnyText /\ p.content \in AnyText /\ p.template \in AnyText
      /\ SampleCases(p.cases) \in AnyText
  BY RowsWritten DEF Rows
<1>2. <<"x">> \in AnyText /\ <<>> \in AnyText
  BY KeyFacts, EmptySeq DEF AnyText
<1>c. Described(p.content) \in AnyText
  <2>1. PICK x \in AnyText : x = <<"x">>
    BY <1>2
  <2>2. ASSUME NEW u \in AnyText, NEW w \in AnyText PROVE u \o w \in AnyText
    BY DEF AnyText
  <2>3. x \o p.content \o x \in AnyText
    BY <1>1, <2>2
  <2>4. QED BY <1>2, <2>1, <2>3 DEF Described
<1>3. (IF p.template = <<>> THEN <<>> ELSE <<"x">>) \in AnyText
  BY <1>2
<1> DEFINE V(k, w) == Var(k, w)
           label == IF p.template = <<>> THEN <<>> ELSE <<"x">>
<1>4. /\ \A i \in 1..8 : DetailKeys[i] \in Keys
      /\ Len(DetailKeys) = 8 /\ Len(DetailNames) = 8
  BY DEF DetailKeys, DetailNames, Keys
<1>5. /\ V("DESCRIPTION", Described(p.content)) \in Vars(Strings)
      /\ V("DIFFICULTY", <<"x">>) \in Vars(Strings)
      /\ V("ID", <<"x">>) \in Vars(Strings) /\ V("RESULT", <<>>) \in Vars(Strings)
      /\ V("SAMPLE_CASES", SampleCases(p.cases)) \in Vars(Strings)
      /\ V("TEMPLATE", p.template) \in Vars(Strings)
      /\ V("TEMPLATE_LABEL", label) \in Vars(Strings) /\ V("TITLE", p.title) \in Vars(Strings)
  <2> HIDE DEF label
  <2>1. label \in AnyText
    BY <1>3 DEF label
  <2>2. /\ "DESCRIPTION" \in Keys /\ "DIFFICULTY" \in Keys /\ "ID" \in Keys /\ "RESULT" \in Keys
        /\ "SAMPLE_CASES" \in Keys /\ "TEMPLATE" \in Keys /\ "TEMPLATE_LABEL" \in Keys
        /\ "TITLE" \in Keys
    BY DEF Keys
  <2>3. QED BY <1>1, <1>2, <1>c, <2>1, <2>2, VarWritten
<1>6. ValuesFor(DetailVars(p), DetailKeys)
  <2> DEFINE vs == DetailVars(p)
  <2>1. vs = <<V("DESCRIPTION", Described(p.content)), V("DIFFICULTY", <<"x">>), V("ID", <<"x">>),
              V("RESULT", <<>>), V("SAMPLE_CASES", SampleCases(p.cases)),
              V("TEMPLATE", p.template), V("TEMPLATE_LABEL", label), V("TITLE", p.title)>>
    BY DEF DetailVars
  <2> HIDE DEF vs, V, label
  <2>2. /\ vs \in Seq(Vars(Strings)) /\ Len(vs) = 8
        /\ vs[1] = V("DESCRIPTION", Described(p.content)) /\ vs[2] = V("DIFFICULTY", <<"x">>)
        /\ vs[3] = V("ID", <<"x">>) /\ vs[4] = V("RESULT", <<>>)
        /\ vs[5] = V("SAMPLE_CASES", SampleCases(p.cases))
        /\ vs[6] = V("TEMPLATE", p.template) /\ vs[7] = V("TEMPLATE_LABEL", label)
        /\ vs[8] = V("TITLE", p.title)
    BY <1>5, <2>1, EightVars
  <2>3. \A k, w : V(k, w).key = k
    BY DEF V, Var
  <2>4. \A i \in 1..8 : vs[i].key = DetailKeys[i]
    BY <2>2, <2>3 DEF DetailKeys
  <2>5. QED BY <1>4, <2>2, <2>4 DEF vs, ValuesFor
<1>7. Detail = Template(DetailNames)
  BY <1>4 DEF Detail, Template, DetailNames
<1>8. PICK c : Among(DetailNames, 8, DetailKeys, 8, c)
  <2>1. <<8, 2, 1, 5, 7, 3, 6, 4>> \in Seq(1..8)
    OBVIOUS
  <2>2. PICK c \in Seq(1..8) : c = <<8, 2, 1, 5, 7, 3, 6, 4>>
    BY <2>1
  <2>3. Len(c) = 8 /\ 8 \in Nat
    BY <2>2
  <2>4. \A i \in 1..8 : DetailKeys[c[i]] = DetailNames[i]
    BY <2>2 DEF DetailKeys, DetailNames
  <2>5. \A i \in 1..8 : DetailKeys[i] # "x"
    BY DEF DetailKeys
  <2>6. \A i, j \in 1..8 : DetailKeys[i] = DetailKeys[j] => i = j
    BY DEF DetailKeys
  <2>7. Among(DetailNames, 8, DetailKeys, 8, c)
    BY <1>4, <2>3, <2>4, <2>5, <2>6 DEF Among
  <2>8. QED BY <2>7
<1>9. QED BY <1>6, <1>7, <1>8, TemplateFilled

FormKeys ==
  <<"CONTENT", "DIFFICULTY_OPTIONS", "ID", "SUBMIT_FN", "SUBMIT_LABEL", "TEMPLATE",
    "TITLE", "TITLE_VALUE">>
FormNames ==
  <<"TITLE", "TITLE_VALUE", "DIFFICULTY_OPTIONS", "CONTENT", "TEMPLATE", "SUBMIT_FN",
    "ID", "SUBMIT_LABEL">>

\* The form of a problem.
LEMMA FormFilled ==
  ASSUME NEW p \in Rows, NamesNoLater(FormVars(p))
  PROVE  /\ ReplaceKeys(Form, FormVars(p)) = AtOnce(Form, FormVars(p))
         /\ AtOnce(Form, FormVars(p)) \in AnyText
<1>1. p.title \in AnyText /\ p.content \in AnyText /\ p.template \in AnyText
  BY DEF Rows
<1>2. <<"x">> \in AnyText
  BY KeyFacts DEF AnyText
<1> DEFINE V(k, w) == Var(k, w)
<1>4. Len(FormKeys) = 8 /\ Len(FormNames) = 8
  BY DEF FormKeys, FormNames
<1>5. /\ V("CONTENT", p.content) \in Vars(Strings)
      /\ V("DIFFICULTY_OPTIONS", <<"x">>) \in Vars(Strings)
      /\ V("ID", <<"x">>) \in Vars(Strings) /\ V("SUBMIT_FN", <<"x">>) \in Vars(Strings)
      /\ V("SUBMIT_LABEL", <<"x">>) \in Vars(Strings)
      /\ V("TEMPLATE", p.template) \in Vars(Strings)
      /\ V("TITLE", <<"x">>) \in Vars(Strings) /\ V("TITLE_VALUE", p.title) \in Vars(Strings)
  <2>1. /\ "CONTENT" \in Keys /\ "DIFFICULTY_OPTIONS" \in Keys /\ "ID" \in Keys
        /\ "SUBMIT_FN" \in Keys /\ "SUBMIT_LABEL" \in Keys /\ "TEMPLATE" \in Keys
        /\ "TITLE" \in Keys /\ "TITLE_VALUE" \in Keys
    BY DEF Keys
  <2>2. QED BY <1>1, <1>2, <2>1, VarWritten
<1>6. ValuesFor(FormVars(p), FormKeys)
  <2> DEFINE vs == FormVars(p)
  <2>1. vs = <<V("CONTENT", p.content), V("DIFFICULTY_OPTIONS", <<"x">>), V("ID", <<"x">>),
              V("SUBMIT_FN", <<"x">>), V("SUBMIT_LABEL", <<"x">>), V("TEMPLATE", p.template),
              V("TITLE", <<"x">>), V("TITLE_VALUE", p.title)>>
    BY DEF FormVars
  <2> HIDE DEF vs, V
  <2>2. /\ vs \in Seq(Vars(Strings)) /\ Len(vs) = 8
        /\ vs[1] = V("CONTENT", p.content) /\ vs[2] = V("DIFFICULTY_OPTIONS", <<"x">>)
        /\ vs[3] = V("ID", <<"x">>) /\ vs[4] = V("SUBMIT_FN", <<"x">>)
        /\ vs[5] = V("SUBMIT_LABEL", <<"x">>) /\ vs[6] = V("TEMPLATE", p.template)
        /\ vs[7] = V("TITLE", <<"x">>) /\ vs[8] = V("TITLE_VALUE", p.title)
    BY <1>5, <2>1, EightVars
  <2>3. \A k, w : V(k, w).key = k
    BY DEF V, Var
  <2>4. \A i \in 1..8 : vs[i].key = FormKeys[i]
    BY <2>2, <2>3 DEF FormKeys
  <2>5. QED BY <1>4, <2>2, <2>4 DEF vs, ValuesFor
<1>7. Form = Template(FormNames)
  BY <1>4 DEF Form, Template, FormNames
<1>8. PICK c : Among(FormNames, 8, FormKeys, 8, c)
  <2>1. <<7, 8, 2, 1, 6, 4, 3, 5>> \in Seq(1..8)
    OBVIOUS
  <2>2. PICK c \in Seq(1..8) : c = <<7, 8, 2, 1, 6, 4, 3, 5>>
    BY <2>1
  <2>3. Len(c) = 8 /\ 8 \in Nat
    BY <2>2
  <2>4. \A i \in 1..8 : FormKeys[c[i]] = FormNames[i]
    BY <2>2 DEF FormKeys, FormNames
  <2>5. \A i \in 1..8 : FormKeys[i] # "x"
    BY DEF FormKeys
  <2>6. \A i, j \in 1..8 : FormKeys[i] = FormKeys[j] => i = j
    BY DEF FormKeys
  <2>7. Among(FormNames, 8, FormKeys, 8, c)
    BY <1>4, <2>3, <2>4, <2>5, <2>6 DEF Among
  <2>8. QED BY <2>7
<1>9. QED BY <1>6, <1>7, <1>8, TemplateFilled

CasesKeys == <<"PROBLEM_ID", "PROBLEM_TITLE", "TESTCASE_ROWS">>
CasesNames == <<"PROBLEM_TITLE", "PROBLEM_ID", "TESTCASE_ROWS">>

\* The table of a problem's cases.
LEMMA CasesFilled ==
  ASSUME NEW p \in Rows, NamesNoLater(CasesVars(p))
  PROVE  /\ ReplaceKeys(Cases, CasesVars(p)) = AtOnce(Cases, CasesVars(p))
         /\ AtOnce(Cases, CasesVars(p)) \in AnyText
<1>1. p.title \in AnyText /\ TableRows(p.cases) \in AnyText
  BY RowsWritten DEF Rows
<1>2. <<"x">> \in AnyText /\ <<"x">> \o p.title \in AnyText
  BY <1>1, KeyFacts DEF AnyText
<1> DEFINE V(k, w) == Var(k, w)
           vs == CasesVars(p)
<1>4. Len(CasesKeys) = 3 /\ Len(CasesNames) = 3
  BY DEF CasesKeys, CasesNames
<1>5. /\ V("PROBLEM_ID", <<"x">>) \in Vars(Strings)
      /\ V("PROBLEM_TITLE", <<"x">> \o p.title) \in Vars(Strings)
      /\ V("TESTCASE_ROWS", TableRows(p.cases)) \in Vars(Strings)
  <2>1. "PROBLEM_ID" \in Keys /\ "PROBLEM_TITLE" \in Keys /\ "TESTCASE_ROWS" \in Keys
    BY DEF Keys
  <2>2. QED BY <1>1, <1>2, <2>1, VarWritten
<1>6. ValuesFor(vs, CasesKeys)
  <2>1. vs = <<V("PROBLEM_ID", <<"x">>), V("PROBLEM_TITLE", <<"x">> \o p.title),
              V("TESTCASE_ROWS", TableRows(p.cases))>>
    BY DEF CasesVars
  <2> HIDE DEF vs, V
  <2>2. /\ vs \in Seq(Vars(Strings)) /\ Len(vs) = 3 /\ vs[1] = V("PROBLEM_ID", <<"x">>)
        /\ vs[2] = V("PROBLEM_TITLE", <<"x">> \o p.title)
        /\ vs[3] = V("TESTCASE_ROWS", TableRows(p.cases))
    BY <1>5, <2>1, ThreeVars
  <2>3. \A k, w : V(k, w).key = k
    BY DEF V, Var
  <2>4. \A i \in 1..3 : vs[i].key = CasesKeys[i]
    BY <2>2, <2>3 DEF CasesKeys
  <2>5. QED BY <1>4, <2>2, <2>4 DEF ValuesFor
<1>7. Cases = Template(CasesNames)
  BY <1>4 DEF Cases, Template, CasesNames
<1>8. PICK c : Among(CasesNames, 3, CasesKeys, 3, c)
  <2>0. <<2, 1, 3>> \in Seq(1..3)
    OBVIOUS
  <2>1. PICK c \in Seq(1..3) : c = <<2, 1, 3>>
    BY <2>0
  <2>2. Len(c) = 3 /\ 3 \in Nat
    BY <2>1
  <2>3. \A i \in 1..3 : CasesKeys[c[i]] = CasesNames[i] /\ CasesKeys[i] # "x"
    BY <2>1 DEF CasesKeys, CasesNames
  <2>4. \A i, j \in 1..3 : CasesKeys[i] = CasesKeys[j] => i = j
    BY DEF CasesKeys
  <2>5. Among(CasesNames, 3, CasesKeys, 3, c)
    BY <1>4, <2>2, <2>3, <2>4 DEF Among
  <2>6. QED BY <2>5
<1>9. QED BY <1>6, <1>7, <1>8, TemplateFilled

ListKeys == <<"ROWS">>

\* The lists.
LEMMA ListFilled ==
  ASSUME NEW texts \in Seq(AnyText), NamesNoLater(ListVars(texts))
  PROVE  /\ ReplaceKeys(List, ListVars(texts)) = AtOnce(List, ListVars(texts))
         /\ AtOnce(List, ListVars(texts)) \in AnyText
<1>1. TableRows(texts) \in AnyText
  BY RowsWritten
<1>2. Len(ListKeys) = 1
  BY DEF ListKeys
<1>3. ValuesFor(ListVars(texts), ListKeys)
  <2>1. "ROWS" \in Keys
    BY DEF Keys
  <2>2. PICK v \in Vars(Strings) : v = Var("ROWS", TableRows(texts)) /\ v.key = "ROWS"
    BY <1>1, <2>1, VarWritten
  <2>3. /\ ListVars(texts) \in Seq(Vars(Strings)) /\ Len(ListVars(texts)) = 1
        /\ ListVars(texts)[1] = v
    BY <2>2, OneVar DEF ListVars
  <2>4. \A i \in 1..1 : ListVars(texts)[i].key = ListKeys[i]
    BY <2>2, <2>3 DEF ListKeys
  <2>5. QED BY <1>2, <2>3, <2>4 DEF ValuesFor
<1>4. PICK e \in Seq(Strings) : e = <<"x">> \o Needle("ROWS")
  <2>1. PICK u \in Seq(Strings), w \in Seq(Strings) : u = <<"x">> /\ w = Needle("ROWS")
    BY KeyFacts, NeedleText DEF Keys
  <2>2. u \o w \in Seq(Strings)
    OBVIOUS
  <2>3. QED BY <2>1, <2>2
<1> DEFINE s == [i \in 1..1 |-> e]
<1>5. FlattenSeq(s) = e
  <2>1. s \in Seq(Seq(Strings)) /\ Len(s) = 1 /\ s[1] = e
    OBVIOUS
  <2> HIDE DEF s
  <2>2. PICK f \in [0..1 -> Seq(Strings)] : Parts(s, f) /\ FlattenSeq(s) = f[1]
    BY <2>1, FlattenParts
  <2>3. f[0] = <<>> /\ f[1] = f[0] \o e
    BY SMTT(30), <2>1, <2>2 DEF Parts
  <2>4. QED BY <2>2, <2>3, ConcatEmptySeq
<1>6. List = Template(ListKeys)
  <2>1. Template(ListKeys) = FlattenSeq(s) \o <<"x">>
    <3>1. \A i \in 1..1 : <<"x">> \o Needle(ListKeys[i]) = e
      BY <1>4 DEF ListKeys
    <3>2. [i \in 1..Len(ListKeys) |-> <<"x">> \o Needle(ListKeys[i])] = s
      BY <1>2, <3>1
    <3> HIDE DEF s
    <3>3. QED BY <3>2 DEF Template
  <2>2. QED BY <1>4, <1>5, <2>1 DEF List
<1>7. PICK c : Among(ListKeys, 1, ListKeys, 1, c)
  <2>0. <<1>> \in Seq(1..1)
    OBVIOUS
  <2>1. PICK c \in Seq(1..1) : c = <<1>>
    BY <2>0
  <2>2. Len(c) = 1 /\ \A i \in 1..1 : ListKeys[c[i]] = ListKeys[i] /\ ListKeys[i] # "x"
    BY <2>1 DEF ListKeys
  <2>3. \A i, j \in 1..1 : ListKeys[i] = ListKeys[j] => i = j
    OBVIOUS
  <2>4. Among(ListKeys, 1, ListKeys, 1, c)
    BY <1>2, <2>2, <2>3 DEF Among
  <2>5. QED BY <2>4
<1>8. QED BY <1>3, <1>6, <1>7, TemplateFilled

JoinsSix(a, b, c, d) == (a \o ((b \o c) \o (b \o d))) \o b = a \o b \o c \o b \o d \o b

\* Six texts put together, either way.
LEMMA JoinSix ==
  ASSUME NEW S, NEW a \in Seq(S), NEW b \in Seq(S), NEW c \in Seq(S), NEW d \in Seq(S)
  PROVE  JoinsSix(a, b, c, d)
<1>1. /\ b \o c \in Seq(S) /\ b \o d \in Seq(S) /\ a \o b \in Seq(S)
      /\ a \o (b \o c) \in Seq(S)
  OBVIOUS
<1>2. Joins(a, b \o c, b \o d) /\ Joins(a, b, c) /\ Joins(a \o (b \o c), b, d)
  BY <1>1, JoinTexts
<1>3. a \o ((b \o c) \o (b \o d)) = (a \o (b \o c)) \o (b \o d)
  BY <1>2 DEF Joins
<1>4. (a \o (b \o c)) \o (b \o d) = ((a \o (b \o c)) \o b) \o d
  BY <1>2 DEF Joins
<1>5. a \o (b \o c) = (a \o b) \o c
  BY <1>2 DEF Joins
<1>6. QED BY <1>3, <1>4, <1>5 DEF JoinsSix

BaseKeys == <<"BODY", "NAV", "TITLE">>

\* The page around them.
LEMMA BaseFilled ==
  ASSUME NEW title \in AnyText, NEW body \in AnyText, NEW nav \in AnyText,
         NamesNoLater(BaseVars(title, body, nav))
  PROVE  RenderPage(title, body, nav) = AtOnce(Base, BaseVars(title, body, nav))
<1> DEFINE vs == BaseVars(title, body, nav)
<1>1. /\ vs \in Seq(Vars(Strings)) /\ Len(vs) = 3
      /\ vs[1].key = "BODY" /\ vs[2].key = "NAV" /\ vs[3].key = "TITLE"
  <2>1. "BODY" \in Keys /\ "NAV" \in Keys /\ "TITLE" \in Keys
    BY DEF Keys
  <2>2. PICK v1 \in Vars(Strings), v2 \in Vars(Strings), v3 \in Vars(Strings) :
          /\ v1 = Var("BODY", body) /\ v2 = Var("NAV", nav) /\ v3 = Var("TITLE", title)
          /\ v1.key = "BODY" /\ v2.key = "NAV" /\ v3.key = "TITLE"
    BY <2>1, VarWritten
  <2>3. vs = <<v1, v2, v3>>
    BY <2>2 DEF BaseVars
  <2> HIDE DEF vs
  <2>4. vs \in Seq(Vars(Strings)) /\ Len(vs) = 3 /\ vs[1] = v1 /\ vs[2] = v2 /\ vs[3] = v3
    BY <2>3, ThreeVars
  <2>5. QED BY <2>2, <2>4
<1>2. NamesNoLater(vs)
  OBVIOUS
<1>3. RenderPage(title, body, nav) = ReplaceKeys(Base, vs)
  BY DEF RenderPage
<1> HIDE DEF vs
<1>4. PICK x \in Seq(Strings), t \in Seq(Strings), n \in Seq(Strings), b \in Seq(Strings) :
        x = <<"x">> /\ t = Needle("TITLE") /\ n = Needle("NAV") /\ b = Needle("BODY")
  BY KeyFacts, NeedleText DEF Keys
<1>j. x \o n \in Seq(Strings) /\ x \o b \in Seq(Strings) /\ JoinsSix(t, x, n, b)
  BY JoinSix
<1>5. <<2, 1>> \in Seq(0..3)
  OBVIOUS
<1>6. PICK c \in Seq(0..3) : c = <<2, 1>>
  BY <1>5
<1>7. DOMAIN c = 1..2 /\ c[1] = 2 /\ c[2] = 1
  BY <1>6
<1>8. Slot(vs, 3, 0) = t /\ Slot(vs, c[1], 0) = n /\ Slot(vs, c[2], 0) = b
  BY <1>1, <1>4, <1>7 DEF Slot
<1> DEFINE d == [i \in DOMAIN c |-> Slot(vs, c[i], 0)]
           s == Parted(d)
<1>9. s \in Seq(Seq(Strings)) /\ Len(s) = 2 /\ s[1] = x \o n /\ s[2] = x \o b
  <2>1. DOMAIN s = 1..2 /\ s[1] = x \o n /\ s[2] = x \o b
    BY <1>4, <1>7, <1>8 DEF Parted
  <2>2. s = [i \in 1..2 |-> s[i]]
    BY <1>7 DEF Parted
  <2> HIDE DEF s
  <2> DEFINE A == Seq(Strings)
  <2>3. s[1] \in A /\ s[2] \in A
    BY <1>j, <2>1
  <2> HIDE DEF A
  <2>4. \A i \in 1..2 : s[i] \in A
    BY <2>3
  <2>5. s \in Seq(A) /\ Len(s) = 2
    BY <2>2, <2>4
  <2>6. QED BY <2>1, <2>5 DEF A
<1> HIDE DEF s
<1>10. FlattenSeq(s) = (x \o n) \o (x \o b)
  <2>1. PICK f \in [0..2 -> Seq(Strings)] : Parts(s, f) /\ FlattenSeq(s) = f[2]
    BY <1>9, FlattenParts
  <2>2. f[0] = <<>> /\ f[1] = f[0] \o s[1] /\ f[2] = f[1] \o s[2]
    <3>1. 1 \in 1..2 /\ 2 \in 1..2 /\ 1 - 1 = 0 /\ 2 - 1 = 1
      OBVIOUS
    <3>2. f[0] = <<>> /\ \A k \in 1..2 : f[k] = f[k - 1] \o s[k]
      BY <1>9, <2>1 DEF Parts
    <3>3. f[1] = f[1 - 1] \o s[1] /\ f[2] = f[2 - 1] \o s[2]
      BY <3>1, <3>2
    <3>4. QED BY <3>1, <3>2, <3>3
  <2>3. PICK w \in Seq(Strings) : w = x \o n
    BY <1>j
  <2>4. f[1] = w
    BY <1>9, <2>2, <2>3, ConcatEmptySeq
  <2>5. QED BY <1>9, <2>1, <2>2, <2>3, <2>4
<1>11. Base = t \o x \o n \o x \o b \o x
  BY <1>4 DEF Base
<1>12. Base = Made(vs, 3, c, 0)
  <2>1. Made(vs, 3, c, 0) = (t \o FlattenSeq(s)) \o x
    BY <1>4, <1>8 DEF Made, Paged, s
  <2>2. (t \o ((x \o n) \o (x \o b))) \o x = t \o x \o n \o x \o b \o x
    BY <1>j DEF JoinsSix
  <2>3. QED BY <1>10, <1>11, <2>1, <2>2
<1>13. Distinct(vs) /\ \A k \in 1..Len(vs) : vs[k].key # "x"
  BY <1>1 DEF Distinct
<1>14. 3 \in 0..Len(vs) /\ c \in Seq(0..Len(vs))
  BY <1>1
<1>15. ReplaceKeys(Base, vs) = AtOnce(Base, vs)
  BY <1>1, <1>2, <1>12, <1>13, <1>14, KeyFacts, FilledOnce
<1>16. QED BY <1>3, <1>15 DEF vs

\* A page whose body is filled at once is filled at once.
LEMMA PageFilled ==
  ASSUME NEW title \in AnyText, NEW name \in AnyText, NEW t, NEW vs,
         NamesNoLater(vs) => ReplaceKeys(t, vs) = AtOnce(t, vs) /\ AtOnce(t, vs) \in AnyText
  PROVE  PlacedOnce(title, t, vs, name, RenderPage(title, ReplaceKeys(t, vs), NavUser(name)))
<1>1. NavUser(name) \in AnyText
  <2>1. PICK x \in Seq(Strings) : x = <<"x">>
    BY KeyFacts
  <2>2. PICK w \in Seq(Strings) : w = name
    BY DEF AnyText
  <2>3. (x \o w) \o x \in Seq(Strings)
    OBVIOUS
  <2>4. QED BY <2>1, <2>2, <2>3 DEF NavUser, AnyText
<1>2. QED BY <1>1, BaseFilled DEF PlacedOnce

\* Sequences over a larger set.
LEMMA SeqWithin == ASSUME NEW S, NEW T, S \subseteq T, NEW w \in Seq(S) PROVE w \in Seq(T)
OBVIOUS

\* Pages are called with texts.
LEMMA ShownPages ==
  /\ \A p \in Problems : p \in Rows
  /\ \A u \in UserNames : u \in AnyText
<1>1. STRING \subseteq Strings
  BY DEF Strings
<1>2. ASSUME NEW w \in Seq(STRING) PROVE w \in AnyText
  BY <1>1, SeqWithin DEF AnyText
<1>3. ASSUME NEW p \in Problems PROVE p \in Rows
  <2>1. p \in [title : Seq(STRING), content : Seq(STRING), template : Seq(STRING),
               cases : Seq(Seq(STRING))]
    BY TextsAssumption
  <2>2. Seq(STRING) \subseteq AnyText
    BY <1>2
  <2> DEFINE A == Seq(STRING)
  <2> HIDE DEF A
  <2>3. A \subseteq AnyText /\ p \in [title : A, content : A, template : A, cases : Seq(A)]
    BY <2>1, <2>2 DEF A
  <2>4. QED BY <2>3 DEF Rows
<1>4. QED BY <1>2, <1>3, TextsAssumption

\* Every value on a problem's page, in its form, in its table of cases and in the
\* lists stands where its placeholder was, and is what is stored: replace_all, which
\* goes over the page once for each key, does what filling all of them at once does,
\* unless a value names a placeholder that is still to be replaced (render.cc 13-30,
\* server.cc 242-271, 319-328, 380-393, 447-454, 505-511).
THEOREM ValuesArePlaced == Spec => []Placed
<1>1. ASSUME NEW p \in Rows, NEW u \in AnyText
      PROVE  /\ PlacedOnce(p.title, Detail, DetailVars(p), u, DetailPage(p, u))
             /\ PlacedOnce(<<"x">>, Form, FormVars(p), u, FormPage(p, u))
             /\ PlacedOnce(<<"x">>, Cases, CasesVars(p), u, CasesPage(p, u))
  <2>1. p.title \in AnyText /\ <<"x">> \in AnyText
    BY KeyFacts DEF Rows, AnyText
  <2>2. PlacedOnce(p.title, Detail, DetailVars(p), u, DetailPage(p, u))
    BY <2>1, DetailFilled, PageFilled DEF DetailPage
  <2>3. PlacedOnce(<<"x">>, Form, FormVars(p), u, FormPage(p, u))
    BY <2>1, FormFilled, PageFilled DEF FormPage
  <2>4. PlacedOnce(<<"x">>, Cases, CasesVars(p), u, CasesPage(p, u))
    BY <2>1, CasesFilled, PageFilled DEF CasesPage
  <2>5. QED BY <2>2, <2>3, <2>4
<1>2. ASSUME NEW texts \in Seq(AnyText), NEW u \in AnyText
      PROVE  PlacedOnce(<<"x">>, List, ListVars(texts), u, ListPage(texts, u))
  <2>1. <<"x">> \in AnyText
    BY KeyFacts DEF AnyText
  <2>2. QED BY <2>1, ListFilled, PageFilled DEF ListPage
<1>3. Called => Placed
  <2> SUFFICES ASSUME Called PROVE Placed
    OBVIOUS
  <2>1. of = "DetailPage" =>
          PlacedOnce(given[1].title, Detail, DetailVars(given[1]), given[2], result)
    BY <1>1, ShownPages DEF Called
  <2>2. of = "FormPage" => PlacedOnce(<<"x">>, Form, FormVars(given[1]), given[2], result)
    BY <1>1, ShownPages DEF Called
  <2>3. of = "CasesPage" => PlacedOnce(<<"x">>, Cases, CasesVars(given[1]), given[2], result)
    BY <1>1, ShownPages DEF Called
  <2>4. of = "ListPage" => PlacedOnce(<<"x">>, List, ListVars(given[1]), given[2], result)
    <3>1. SUFFICES ASSUME of = "ListPage"
                   PROVE  PlacedOnce(<<"x">>, List, ListVars(given[1]), given[2], result)
      OBVIOUS
    <3>2. PICK t1 \in AnyText, t2 \in AnyText, u \in AnyText :
            given = <<<<t1, t2>>, u>> /\ result = ListPage(<<t1, t2>>, u)
      BY ZenonT(60), <3>1, ShownPages DEF Called, Rows
    <3>3. <<t1, t2>> \in Seq(AnyText)
      OBVIOUS
    <3>4. given[1] = <<t1, t2>> /\ given[2] = u
      BY <3>2
    <3>5. QED BY <1>2, <3>2, <3>3, <3>4
  <2>5. QED BY <2>1, <2>2, <2>3, <2>4 DEF Placed
<1>4. QED BY <1>3, CalledInvariant, PTL

=============================================================================
