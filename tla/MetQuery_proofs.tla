-------------------------- MODULE MetQuery_proofs --------------------------
(***************************************************************************)
(* Proofs about MetQuery: for any budgets, grids, frames and queries, what *)
(* is pinned stays resident, the budget is kept, nobody starves, and the   *)
(* answers are those asked for.                                            *)
(***************************************************************************)
EXTENDS MetQuery, FiniteSetTheorems, TLAPS

-----------------------------------------------------------------------------
\* Induction over the natural numbers, without an operator parameter.

LEMMA LowestExists ==
    ASSUME NEW S \in SUBSET Nat, S # {}
    PROVE  \E l \in S : \A j \in S : l <= j
PROOF
  <1>1. IsWellFoundedOn({ss \in Nat \X Nat : ss[1] < ss[2]}, Nat)
    BY NatLessThanWellFounded DEF OpToRel
  <1>2. PICK l \in S : \A j \in S : ~ (<<j, l>> \in {ss \in Nat \X Nat : ss[1] < ss[2]})
    <2>1. \A R : IsWellFoundedOn(R, Nat) => \E x \in S : \A y \in S : ~ (<<y, x>> \in R)
      BY WFMin
    <2>. QED BY <1>1, <2>1
  <1>3. \A j \in S : ~ (j < l) /\ j \in Nat /\ l \in Nat
    BY <1>2
  <1>. QED BY <1>3

LEMMA CountUp ==
    ASSUME NEW S \in SUBSET Nat, 0 \in S, \A n \in S : n + 1 \in S
    PROVE  S = Nat
PROOF
  <1>. SUFFICES ASSUME Nat \ S # {} PROVE FALSE
    OBVIOUS
  <1>1. PICK l \in Nat \ S : \A j \in Nat \ S : l <= j
    BY LowestExists
  <1>2. l - 1 \in Nat /\ l - 1 \in S /\ (l - 1) + 1 = l
    <2>1. l # 0 /\ l \in Nat
      OBVIOUS
    <2>2. l - 1 \in Nat /\ ~ (l <= l - 1) /\ (l - 1) + 1 = l
      BY <2>1
    <2>. QED BY <1>1, <2>2
  <1>. QED BY <1>2

LEMMA MinIs ==
    ASSUME NEW S \in SUBSET Nat, S # {}
    PROVE  Min(S) \in S /\ \A j \in S : Min(S) <= j
BY LowestExists DEF Min

\* A walk of n moves from f0 exists; the functions that the model defines along a
\* sequence are such walks.
Walks(f, f0, n, move, V) ==
    f \in [0..n -> V] /\ f[0] = f0 /\ \A i \in 1..n : f[i] = move[<<f[i - 1], i>>]

LEMMA WalkExists ==
    ASSUME NEW V, NEW f0 \in V, NEW n \in Nat, NEW move \in [V \X (1..n) -> V]
    PROVE  \E f : Walks(f, f0, n, move, V)
PROOF
  <1>. DEFINE Walk(f, m) == /\ f \in [0..m -> V] /\ f[0] = f0
                            /\ \A i \in 1..m : f[i] = move[<<f[i - 1], i>>]
              S == {m \in Nat : m <= n => \E f : Walk(f, m)}
  <1>1. 0 \in S
    <2>1. Walk([i \in 0..0 |-> f0], 0)
      OBVIOUS
    <2>. QED BY <2>1
  <1>2. ASSUME NEW m \in S
        PROVE  m + 1 \in S
    <2>. SUFFICES ASSUME m + 1 <= n PROVE \E f : Walk(f, m + 1)
      OBVIOUS
    <2>1. PICK f : Walk(f, m)
      OBVIOUS
    <2>2. m \in Nat /\ m \in 0..m /\ f[m] \in V /\ m + 1 \in 1..n
      BY <2>1
    <2>3. move[<<f[m], m + 1>>] \in V
      BY <2>2
    <2>. DEFINE g == [i \in 0..(m + 1) |-> IF i = m + 1 THEN move[<<f[m], m + 1>>] ELSE f[i]]
    <2>4. g \in [0..(m + 1) -> V] /\ g[0] = f0
      <3>1. \A i \in 0..(m + 1) : i # m + 1 => i \in 0..m
        BY <2>2
      <3>. QED BY <2>1, <2>2, <2>3, <3>1
    <2>5. ASSUME NEW i \in 1..(m + 1)
          PROVE  g[i] = move[<<g[i - 1], i>>]
      <3>1. i - 1 \in 0..m /\ i - 1 # m + 1 /\ g[i - 1] = f[i - 1]
        BY <2>2
      <3>2. CASE i = m + 1
        <4>1. m + 1 \in 0..(m + 1) /\ (m + 1) - 1 = m
          BY <2>2
        <4>2. g[m + 1] = move[<<f[m], m + 1>>]
          BY <4>1
        <4>. QED BY <3>1, <3>2, <4>1, <4>2
      <3>3. CASE i # m + 1
        <4>1. i \in 1..m /\ g[i] = f[i]
          BY <2>2, <3>3
        <4>. QED BY <2>1, <3>1, <4>1
      <3>. QED BY <3>2, <3>3
    <2>. QED BY <2>4, <2>5
  <1>3. S = Nat
    <2>. HIDE DEF S
    <2>1. S \in SUBSET Nat
      BY DEF S
    <2>. QED BY <1>1, <1>2, <2>1, CountUp
  <1>4. PICK f : Walk(f, n)
    <2>1. n \in S
      <3>. HIDE DEF S
      <3>. QED BY <1>3
    <2>2. n <= n
      OBVIOUS
    <2>. QED BY <2>1, <2>2
  <1>. QED BY <1>4 DEF Walks

-----------------------------------------------------------------------------
(* Sequences without some of their elements.                               *)

\* The function that Without evaluates.
Kept(f, s, gone) ==
    f = [i \in 0..Len(s) |-> IF i = 0 THEN <<>>
                             ELSE IF s[i] \in gone THEN f[i - 1] ELSE Append(f[i - 1], s[i])]

\* A walk along s from the empty sequence.
Keeps(f, s, gone, W) ==
    /\ f \in [0..Len(s) -> W] /\ f[0] = <<>>
    /\ \A i \in 1..Len(s) : f[i] = IF s[i] \in gone THEN f[i - 1] ELSE Append(f[i - 1], s[i])

LEMMA WithoutWalks ==
    ASSUME NEW V, NEW s \in Seq(V), NEW gone
    PROVE  \E f : Keeps(f, s, gone, Seq(V)) /\ Without(s, gone) = f[Len(s)]
PROOF
  <1>1. Len(s) \in Nat
    OBVIOUS
  <1>2. Without(s, gone) = (CHOOSE f : Kept(f, s, gone))[Len(s)]
    BY DEF Without, Kept
  <1>. DEFINE move == [x \in Seq(V) \X (1..Len(s)) |->
                          IF s[x[2]] \in gone THEN x[1] ELSE Append(x[1], s[x[2]])]
  <1>3. move \in [Seq(V) \X (1..Len(s)) -> Seq(V)]
    <2>1. ASSUME NEW x \in Seq(V) \X (1..Len(s))
          PROVE  x[1] \in Seq(V) /\ s[x[2]] \in V
      OBVIOUS
    <2>. QED BY <2>1
  <1>4. PICK f \in [0..Len(s) -> Seq(V)] :
           f[0] = <<>> /\ \A i \in 1..Len(s) : f[i] = move[<<f[i - 1], i>>]
    <2>1. PICK W, e, mv : W = Seq(V) /\ e = <<>> /\ mv = move
      OBVIOUS
    <2>2. e \in W /\ mv \in [W \X (1..Len(s)) -> W]
      BY <1>3, <2>1
    <2>3. PICK f : Walks(f, e, Len(s), mv, W)
      BY <1>1, <2>2, WalkExists
    <2>. HIDE DEF move
    <2>. QED BY <2>1, <2>3 DEF Walks
  <1>5. \A i \in 1..Len(s) : f[i] = IF s[i] \in gone THEN f[i - 1] ELSE Append(f[i - 1], s[i])
    <2>. TAKE i \in 1..Len(s)
    <2>1. i - 1 \in 0..Len(s) /\ f[i - 1] \in Seq(V)
      BY <1>1
    <2>2. <<f[i - 1], i>> \in Seq(V) \X (1..Len(s))
      BY <2>1
    <2>. QED BY <1>4, <2>2
  <1>6. Kept(f, s, gone)
    <2>. HIDE DEF move
    <2>1. \A i \in 0..Len(s) : i # 0 => i \in 1..Len(s)
      BY <1>1
    <2>2. f = [i \in 0..Len(s) |-> f[i]]
      OBVIOUS
    <2>3. \A i \in 0..Len(s) :
             f[i] = IF i = 0 THEN <<>>
                    ELSE IF s[i] \in gone THEN f[i - 1] ELSE Append(f[i - 1], s[i])
      BY <1>4, <1>5, <2>1
    <2>. QED BY <2>2, <2>3 DEF Kept
  <1>7. ASSUME NEW h, Kept(h, s, gone)
        PROVE  h = f
    <2>1. h = [i \in 0..Len(s) |-> h[i]] /\ h[0] = <<>>
      BY <1>1, <1>7 DEF Kept
    <2>2. \A i \in 1..Len(s) : h[i] = IF s[i] \in gone THEN h[i - 1] ELSE Append(h[i - 1], s[i])
      <3>. TAKE i \in 1..Len(s)
      <3>1. i \in 0..Len(s) /\ i # 0
        BY <1>1
      <3>. QED BY <1>7, <3>1 DEF Kept
    <2>. DEFINE S == {m \in Nat : m <= Len(s) => h[m] = f[m]}
    <2>3. 0 \in S
      BY <1>4, <2>1
    <2>4. \A m \in S : m + 1 \in S
      <3>. SUFFICES ASSUME NEW m \in S, m + 1 <= Len(s) PROVE h[m + 1] = f[m + 1]
        OBVIOUS
      <3>1. m + 1 \in 1..Len(s) /\ (m + 1) - 1 = m /\ h[m] = f[m]
        BY <1>1
      <3>. QED BY <1>5, <2>2, <3>1
    <2>5. S = Nat
      <3>. HIDE DEF S
      <3>1. S \in SUBSET Nat
        BY DEF S
      <3>. QED BY <2>3, <2>4, <3>1, CountUp
    <2>6. \A i \in 0..Len(s) : h[i] = f[i]
      BY <1>1, <2>5
    <2>. QED BY <2>1, <2>6
  <1>8. Keeps(f, s, gone, Seq(V))
    <2>. HIDE DEF move
    <2>. QED BY <1>4, <1>5 DEF Keeps
  <1>. QED BY <1>2, <1>6, <1>7, <1>8

\* The first i of s without the gone: all others are there, in their order.
Thins(w, s, gone, i) ==
    /\ \A a \in 1..Len(w) : \E j \in 1..i : w[a] = s[j] /\ s[j] \notin gone
    /\ \A j \in 1..i : s[j] \notin gone => \E a \in 1..Len(w) : w[a] = s[j]
    /\ \A a, b \in 1..Len(w) : a < b => \E j, l \in 1..i : j < l /\ w[a] = s[j] /\ w[b] = s[l]

LEMMA OneMoreThins ==
    ASSUME NEW V, NEW s \in Seq(V), NEW gone, NEW w \in Seq(V), NEW i \in Nat, i + 1 <= Len(s),
           Thins(w, s, gone, i)
    PROVE  Thins(IF s[i + 1] \in gone THEN w ELSE Append(w, s[i + 1]), s, gone, i + 1)
PROOF
  <1>1. Len(w) \in Nat /\ Len(s) \in Nat /\ i + 1 \in 1..Len(s) /\ s[i + 1] \in V
    OBVIOUS
  <1>2. \A j \in 1..i : j \in 1..(i + 1) /\ j < i + 1
    OBVIOUS
  <1>3. \A j \in 1..(i + 1) : j \in 1..i \/ j = i + 1
    OBVIOUS
  <1>4. CASE s[i + 1] \in gone
    BY <1>2, <1>3, <1>4 DEF Thins
  <1>5. CASE s[i + 1] \notin gone
    <2>1. PICK v : v = Append(w, s[i + 1])
      OBVIOUS
    <2>2. /\ Len(v) = Len(w) + 1 /\ v[Len(w) + 1] = s[i + 1]
          /\ \A a \in 1..Len(w) : v[a] = w[a]
      BY <1>1, <2>1
    <2>3. \A a \in 1..Len(v) : a \in 1..Len(w) \/ a = Len(w) + 1
      BY <1>1, <2>2
    <2>4. \A a \in 1..Len(v) : \E j \in 1..(i + 1) : v[a] = s[j] /\ s[j] \notin gone
      <3>. TAKE a \in 1..Len(v)
      <3>1. CASE a \in 1..Len(w)
        <4>1. PICK j \in 1..i : w[a] = s[j] /\ s[j] \notin gone
          BY <3>1 DEF Thins
        <4>. QED BY <1>2, <2>2, <3>1, <4>1
      <3>2. CASE a = Len(w) + 1
        BY <1>5, <2>2, <3>2
      <3>. QED BY <2>3, <3>1, <3>2
    <2>5. \A j \in 1..(i + 1) : s[j] \notin gone => \E a \in 1..Len(v) : v[a] = s[j]
      <3>1. Len(w) + 1 \in 1..Len(v) /\ \A a \in 1..Len(w) : a \in 1..Len(v)
        BY <1>1, <2>2
      <3>. QED BY <1>3, <2>2, <3>1 DEF Thins
    <2>6. ASSUME NEW a \in 1..Len(v), NEW b \in 1..Len(v), a < b
          PROVE  \E j, l \in 1..(i + 1) : j < l /\ v[a] = s[j] /\ v[b] = s[l]
      <3>1. a \in 1..Len(w)
        BY <1>1, <2>2, <2>6
      <3>2. CASE b \in 1..Len(w)
        <4>1. PICK j \in 1..i, l \in 1..i : j < l /\ w[a] = s[j] /\ w[b] = s[l]
          BY <2>6, <3>1, <3>2 DEF Thins
        <4>. QED BY <1>2, <2>2, <3>1, <3>2, <4>1
      <3>3. CASE b = Len(w) + 1
        <4>1. PICK j \in 1..i : w[a] = s[j]
          BY <3>1 DEF Thins
        <4>. QED BY <1>1, <1>2, <2>2, <3>1, <3>3, <4>1
      <3>. QED BY <2>3, <3>2, <3>3
    <2>7. Thins(v, s, gone, i + 1)
      BY <2>4, <2>5, <2>6 DEF Thins
    <2>. QED BY <1>5, <2>1, <2>7
  <1>. QED BY <1>4, <1>5

LEMMA WithoutThins ==
    ASSUME NEW V, NEW s \in Seq(V), NEW gone
    PROVE  Without(s, gone) \in Seq(V) /\ Thins(Without(s, gone), s, gone, Len(s))
PROOF
  <1>0. PICK f : Keeps(f, s, gone, Seq(V)) /\ Without(s, gone) = f[Len(s)]
    BY WithoutWalks
  <1>1. /\ f \in [0..Len(s) -> Seq(V)] /\ f[0] = <<>> /\ Without(s, gone) = f[Len(s)]
        /\ \A i \in 1..Len(s) :
              f[i] = IF s[i] \in gone THEN f[i - 1] ELSE Append(f[i - 1], s[i])
    BY <1>0 DEF Keeps
  <1>2. Len(s) \in Nat /\ Len(s) \in 0..Len(s)
    OBVIOUS
  <1>. DEFINE S == {m \in Nat : m <= Len(s) => Thins(f[m], s, gone, m)}
  <1>3. 0 \in S
    <2>1. Thins(<<>>, s, gone, 0)
      <3>1. Len(<<>>) = 0 /\ \A a \in 1..0 : FALSE
        OBVIOUS
      <3>. QED BY <3>1 DEF Thins
    <2>. QED BY <1>1, <2>1
  <1>4. \A m \in S : m + 1 \in S
    <2>. SUFFICES ASSUME NEW m \in S, m + 1 <= Len(s) PROVE Thins(f[m + 1], s, gone, m + 1)
      OBVIOUS
    <2>1. m \in Nat /\ m + 1 \in 1..Len(s) /\ (m + 1) - 1 = m /\ m \in 0..Len(s) /\ m <= Len(s)
      BY <1>2
    <2>2. Thins(f[m], s, gone, m) /\ f[m] \in Seq(V)
      BY <1>1, <2>1
    <2>3. f[m + 1] = IF s[m + 1] \in gone THEN f[m] ELSE Append(f[m], s[m + 1])
      BY <1>1, <2>1
    <2>. QED BY <2>1, <2>2, <2>3, OneMoreThins
  <1>5. S = Nat
    <2>. HIDE DEF S
    <2>1. S \in SUBSET Nat
      BY DEF S
    <2>. QED BY <1>3, <1>4, <2>1, CountUp
  <1>. QED BY <1>1, <1>2, <1>5

LEMMA RangeIs ==
    ASSUME NEW V, NEW s \in Seq(V)
    PROVE  /\ Range(s) \subseteq V
           /\ \A x : x \in Range(s) <=> \E i \in 1..Len(s) : s[i] = x
BY DEF Range

LEMMA WithoutIs ==
    ASSUME NEW V, NEW s \in Seq(V), NEW gone
    PROVE  /\ Without(s, gone) \in Seq(V)
           /\ Range(Without(s, gone)) = Range(s) \ gone
           /\ IsInjective(s) => IsInjective(Without(s, gone))
PROOF
  <1>1. PICK w : w = Without(s, gone)
    OBVIOUS
  <1>2. w \in Seq(V) /\ Thins(w, s, gone, Len(s))
    BY <1>1, WithoutThins
  <1>3. Range(w) = Range(s) \ gone
    <2>1. \A x : x \in Range(w) <=> \E i \in 1..Len(w) : w[i] = x
      BY <1>2, RangeIs
    <2>2. \A x : x \in Range(s) <=> \E i \in 1..Len(s) : s[i] = x
      BY RangeIs
    <2>3. ASSUME NEW x
          PROVE  x \in Range(w) <=> x \in Range(s) /\ x \notin gone
      <3>1. ASSUME NEW a \in 1..Len(w), w[a] = x
            PROVE  (\E i \in 1..Len(s) : s[i] = x) /\ x \notin gone
        <4>1. PICK j \in 1..Len(s) : w[a] = s[j] /\ s[j] \notin gone
          BY <1>2 DEF Thins
        <4>. QED BY <3>1, <4>1
      <3>2. ASSUME NEW i \in 1..Len(s), s[i] = x, x \notin gone
            PROVE  \E a \in 1..Len(w) : w[a] = x
        BY <1>2, <3>2 DEF Thins
      <3>. QED BY <2>1, <2>2, <3>1, <3>2
    <2>. QED BY <2>3
  <1>4. ASSUME IsInjective(s)
        PROVE  IsInjective(w)
    <2>. SUFFICES ASSUME NEW a \in 1..Len(w), NEW b \in 1..Len(w), w[a] = w[b] PROVE a = b
      BY <1>2 DEF IsInjective
    <2>1. ASSUME NEW c \in 1..Len(w), NEW d \in 1..Len(w), c < d
          PROVE  w[c] # w[d]
      <3>1. PICK j \in 1..Len(s), l \in 1..Len(s) : j < l /\ w[c] = s[j] /\ w[d] = s[l]
        BY <1>2, <2>1 DEF Thins
      <3>2. j # l /\ DOMAIN s = 1..Len(s)
        BY <3>1
      <3>. QED BY <1>4, <3>1, <3>2 DEF IsInjective
    <2>2. ~ (a < b) /\ ~ (b < a)
      BY <2>1
    <2>3. a \in Int /\ b \in Int
      BY <1>2
    <2>. QED BY <2>2, <2>3
  <1>. QED BY <1>1, <1>2, <1>3, <1>4

LEMMA AppendIs ==
    ASSUME NEW V, NEW s \in Seq(V), NEW x \in V
    PROVE  /\ Append(s, x) \in Seq(V) /\ Range(Append(s, x)) = Range(s) \union {x}
           /\ IsInjective(s) /\ x \notin Range(s) => IsInjective(Append(s, x))
PROOF
  <1>1. PICK v : v = Append(s, x)
    OBVIOUS
  <1>2. /\ v \in Seq(V) /\ Len(v) = Len(s) + 1 /\ v[Len(s) + 1] = x /\ Len(s) \in Nat
        /\ \A i \in 1..Len(s) : v[i] = s[i]
    BY <1>1
  <1>3. \A i \in 1..Len(v) : i \in 1..Len(s) \/ i = Len(s) + 1
    BY <1>2
  <1>4. \A i \in 1..Len(s) : i \in 1..Len(v)
    BY <1>2
  <1>5. Len(s) + 1 \in 1..Len(v)
    BY <1>2
  <1>6. \A y : y \in Range(v) <=> y \in Range(s) \/ y = x
    <2>1. \A y : y \in Range(v) <=> \E i \in 1..Len(v) : v[i] = y
      BY <1>2, RangeIs
    <2>2. \A y : y \in Range(s) <=> \E i \in 1..Len(s) : s[i] = y
      BY RangeIs
    <2>. QED BY <1>2, <1>3, <1>4, <1>5, <2>1, <2>2
  <1>7. ASSUME IsInjective(s), x \notin Range(s)
        PROVE  IsInjective(v)
    <2>1. \A i \in 1..Len(s) : s[i] # x
      BY <1>7, RangeIs
    <2>2. \A i, j \in 1..Len(s) : s[i] = s[j] => i = j
      BY <1>7 DEF IsInjective
    <2>3. \A i, j \in 1..Len(v) : v[i] = v[j] => i = j
      BY <1>2, <1>3, <2>1, <2>2
    <2>4. DOMAIN v = 1..Len(v)
      BY <1>2
    <2>. QED BY <2>3, <2>4 DEF IsInjective
  <1>8. Range(v) = Range(s) \union {x}
    BY <1>6
  <1>. QED BY <1>1, <1>2, <1>7, <1>8

LEMMA FirstIs ==
    ASSUME NEW V, NEW cands \in Seq(V), NEW n \in 0..Len(cands)
    PROVE  /\ First(cands, n) \subseteq Range(cands)
           /\ n = Len(cands) => First(cands, n) = Range(cands)
PROOF
  <1>1. \A x : x \in Range(cands) <=> \E i \in 1..Len(cands) : cands[i] = x
    BY RangeIs
  <1>2. \A i \in 1..n : i \in 1..Len(cands)
    OBVIOUS
  <1>. QED BY <1>1, <1>2 DEF First

LEMMA OldestIs ==
    ASSUME NEW V, NEW cands \in Seq(V), NEW enough \in SUBSET (0..Len(cands))
    PROVE  \E n \in 0..Len(cands) :
              /\ Oldest(cands, enough) = First(cands, n)
              /\ n \in enough \/ (enough = {} /\ n = Len(cands))
PROOF
  <1>1. CASE enough = {}
    <2>1. Len(cands) \in 0..Len(cands)
      OBVIOUS
    <2>. QED BY <1>1, <2>1 DEF Oldest
  <1>2. CASE enough # {}
    <2>1. enough \in SUBSET Nat
      OBVIOUS
    <2>2. Min(enough) \in enough
      BY <1>2, <2>1, MinIs
    <2>. QED BY <1>2, <2>2 DEF Oldest
  <1>. QED BY <1>1, <1>2

-----------------------------------------------------------------------------
(* Bytes.                                                                  *)

Contents(keys) == UNION {{k} \X (1..Size(k)) : k \in keys}

LEMMA ContentsAre ==
    ASSUME NEW keys
    PROVE  \A x : x \in Contents(keys) <=> \E k \in keys : x \in {k} \X (1..Size(k))
BY DEF Contents

LEMMA SizeIs == ASSUME NEW k \in ColumnKeys PROVE Size(k) \in Nat
BY QueryAssumption DEF Size, ColumnKeys

LEMMA ColumnsAreFinite == IsFiniteSet(ColumnKeys)
PROOF
  <1>. DEFINE D == ((1..Jobs) \X Cells) \X {"plan", "bare"}
              f == [x \in D |-> [frame |-> x[1][1], cell |-> x[1][2], caps |-> x[2]]]
  <1>1. IsFiniteSet(1..Jobs) /\ IsFiniteSet(Cells)
    BY QueryAssumption, FS_Interval
  <1>2. IsFiniteSet({"plan", "bare"})
    <2>1. IsFiniteSet({"plan"})
      BY FS_Singleton
    <2>2. {"plan", "bare"} = {"plan"} \union {"bare"}
      OBVIOUS
    <2>. QED BY <2>1, <2>2, FS_AddElement
  <1>3. IsFiniteSet(D)
    BY <1>1, <1>2, FS_Product
  <1>4. f \in Surjection(D, ColumnKeys)
    <2>1. f \in [D -> ColumnKeys]
      BY DEF ColumnKeys
    <2>2. ASSUME NEW k \in ColumnKeys
          PROVE  \E x \in D : f[x] = k
      <3>1. /\ k = [frame |-> k.frame, cell |-> k.cell, caps |-> k.caps]
            /\ <<<<k.frame, k.cell>>, k.caps>> \in D
        BY DEF ColumnKeys
      <3>. QED BY <3>1
    <2>. QED BY <2>1, <2>2 DEF Surjection
  <1>. QED BY <1>3, <1>4, FS_Surjection

LEMMA ContentsAreFinite ==
    ASSUME NEW S \in SUBSET ColumnKeys
    PROVE  IsFiniteSet(S) /\ IsFiniteSet(Contents(S))
PROOF
  <1>. DEFINE T == {{k} \X (1..Size(k)) : k \in S}
              f == [k \in S |-> {k} \X (1..Size(k))]
  <1>1. IsFiniteSet(S)
    BY ColumnsAreFinite, FS_Subset
  <1>2. f \in Surjection(S, T)
    BY DEF Surjection
  <1>3. IsFiniteSet(T)
    BY <1>1, <1>2, FS_Surjection
  <1>4. ASSUME NEW k \in S
        PROVE  IsFiniteSet({k} \X (1..Size(k)))
    <2>1. IsFiniteSet({k})
      BY FS_Singleton
    <2>2. IsFiniteSet(1..Size(k))
      BY SizeIs, FS_Interval
    <2>. QED BY <2>1, <2>2, FS_Product
  <1>5. \A x \in T : IsFiniteSet(x)
    BY <1>4
  <1>6. IsFiniteSet(UNION T)
    <2>. HIDE DEF T
    <2>. QED BY <1>3, <1>5, FS_UNION
  <1>. QED BY <1>1, <1>6 DEF Contents

LEMMA BytesAre ==
    ASSUME NEW S \in SUBSET ColumnKeys
    PROVE  Bytes(S) \in Nat
PROOF
  <1>1. Bytes(S) = Cardinality(Contents(S))
    BY DEF Bytes, Contents
  <1>. QED BY <1>1, ContentsAreFinite, FS_CardinalityType

LEMMA BytesOfPart ==
    ASSUME NEW T \in SUBSET ColumnKeys, NEW S \in SUBSET T
    PROVE  Bytes(S) <= Bytes(T)
PROOF
  <1>1. Bytes(S) = Cardinality(Contents(S)) /\ Bytes(T) = Cardinality(Contents(T))
    BY DEF Bytes, Contents
  <1>2. Contents(S) \subseteq Contents(T)
    BY ContentsAre
  <1>. QED BY <1>1, <1>2, ContentsAreFinite, FS_Subset

LEMMA BytesOfBoth ==
    ASSUME NEW S \in SUBSET ColumnKeys, NEW T \in SUBSET ColumnKeys, S \intersect T = {}
    PROVE  Bytes(S \union T) = Bytes(S) + Bytes(T)
PROOF
  <1>1. /\ Bytes(S) = Cardinality(Contents(S)) /\ Bytes(T) = Cardinality(Contents(T))
        /\ Bytes(S \union T) = Cardinality(Contents(S \union T))
    BY DEF Bytes, Contents
  <1>2. Contents(S \union T) = Contents(S) \union Contents(T)
    BY ContentsAre
  <1>3. Contents(S) \intersect Contents(T) = {}
    <2>. SUFFICES ASSUME NEW x \in Contents(S), x \in Contents(T) PROVE FALSE
      OBVIOUS
    <2>1. PICK k \in S : x \in {k} \X (1..Size(k))
      BY ContentsAre
    <2>2. PICK l \in T : x \in {l} \X (1..Size(l))
      BY ContentsAre
    <2>3. x[1] = k /\ x[1] = l
      BY <2>1, <2>2
    <2>. QED BY <2>3
  <1>4. IsFiniteSet(Contents(S)) /\ IsFiniteSet(Contents(T))
    BY ContentsAreFinite
  <1>5. Cardinality(Contents(S) \intersect Contents(T)) = 0
    BY <1>3, FS_EmptySet
  <1>6. Cardinality(Contents(S)) \in Nat /\ Cardinality(Contents(T)) \in Nat
    BY <1>4, FS_CardinalityType
  <1>7. Cardinality(Contents(S) \union Contents(T)) =
           Cardinality(Contents(S)) + Cardinality(Contents(T))
             - Cardinality(Contents(S) \intersect Contents(T))
    BY <1>4, FS_Union
  <1>8. PICK a \in Nat, b \in Nat :
           a = Cardinality(Contents(S)) /\ b = Cardinality(Contents(T)) /\ a + b - 0 = a + b
    BY <1>6
  <1>9. Cardinality(Contents(S) \union Contents(T)) = a + b - 0
    BY <1>5, <1>7, <1>8
  <1>. QED BY <1>1, <1>2, <1>8, <1>9

LEMMA BytesOfNone == Bytes({}) = 0
PROOF
  <1>1. Bytes({}) = Cardinality(Contents({})) /\ Contents({}) = {}
    BY DEF Bytes, Contents
  <1>. QED BY <1>1, FS_EmptySet

LEMMA BytesOfOne ==
    ASSUME NEW k \in ColumnKeys
    PROVE  Bytes({k}) = Size(k) /\ Size(k) \in Nat
PROOF
  <1>1. Bytes({k}) = Cardinality({k} \X (1..Size(k)))
    BY DEF Bytes
  <1>2. IsFiniteSet({k}) /\ Cardinality({k}) = 1
    BY FS_Singleton
  <1>3. Size(k) \in Nat
    BY SizeIs
  <1>4. IsFiniteSet(1..Size(k)) /\ Cardinality(1..Size(k)) = Size(k)
    BY <1>3, FS_Interval
  <1>5. Cardinality({k} \X (1..Size(k))) = Cardinality({k}) * Cardinality(1..Size(k))
    BY <1>2, <1>4, FS_Product
  <1>6. 1 * Size(k) = Size(k)
    BY <1>3
  <1>. QED BY <1>1, <1>2, <1>3, <1>4, <1>5, <1>6

LEMMA BytesOfMore ==
    ASSUME NEW S \in SUBSET ColumnKeys, NEW k \in ColumnKeys, k \notin S
    PROVE  Bytes(S \union {k}) = Bytes(S) + Size(k)
PROOF
  <1>1. S \intersect {k} = {} /\ {k} \in SUBSET ColumnKeys
    OBVIOUS
  <1>2. Bytes(S \union {k}) = Bytes(S) + Bytes({k})
    BY <1>1, BytesOfBoth
  <1>. QED BY <1>2, BytesOfOne

-----------------------------------------------------------------------------
(* Taking the columns of a preparation, and trimming the cache.            *)

TakeStates == [lru : Seq(ColumnKeys), held : SUBSET ColumnKeys, taken : SUBSET ColumnKeys,
               ok : BOOLEAN]

\* Evicting from the front leaves what is pinned, and is enough or takes all the rest.
Evicts(gone, s, pinned) == gone \subseteq Range(s) \ pinned

LEMMA CandidatesAre ==
    ASSUME NEW s \in Seq(ColumnKeys), NEW pinned
    PROVE  /\ Candidates(s, pinned) \in Seq(ColumnKeys)
           /\ Range(Candidates(s, pinned)) = Range(s) \ pinned
BY WithoutIs DEF Candidates

LEMMA EvictionFor ==
    ASSUME NEW s \in Seq(ColumnKeys), NEW pinned, NEW cands, cands = Candidates(s, pinned),
           NEW enough \in SUBSET (0..Len(cands))
    PROVE  \E n \in 0..Len(cands) :
              /\ Oldest(cands, enough) = First(cands, n)
              /\ Evicts(First(cands, n), s, pinned)
              /\ n \in enough \/ (enough = {} /\ First(cands, n) = Range(s) \ pinned)
PROOF
  <1>1. cands \in Seq(ColumnKeys) /\ Range(cands) = Range(s) \ pinned
    BY CandidatesAre
  <1>2. PICK n \in 0..Len(cands) : /\ Oldest(cands, enough) = First(cands, n)
                                   /\ n \in enough \/ (enough = {} /\ n = Len(cands))
    BY <1>1, OldestIs
  <1>3. /\ First(cands, n) \subseteq Range(cands)
        /\ n = Len(cands) => First(cands, n) = Range(cands)
    BY <1>1, FirstIs
  <1>. QED BY <1>1, <1>2, <1>3 DEF Evicts

\* What one call of the cache does: a hit, an insertion, or a refusal.
Hits(st, key, st2) ==
    /\ key \in Range(st.lru)
    /\ st2 = [st EXCEPT !.lru = Touch(st.lru, key), !.taken = st.taken \union {key}]

Inserts(st, key, st2, gone) ==
    /\ key \notin Range(st.lru) /\ Evicts(gone, st.lru, st.taken \union st.held)
    /\ st2 = [st EXCEPT !.lru = Append(Without(st.lru, gone), key),
                        !.taken = st.taken \union {key}]

Refuses(st, key, st2) ==
    /\ key \notin Range(st.lru) /\ st2 = [st EXCEPT !.ok = FALSE]
    /\ Bytes(Range(st.lru) \intersect (st.taken \union st.held)) + Size(key) > Budget

LEMMA TakeDoes ==
    ASSUME NEW st \in TakeStates, NEW key \in ColumnKeys
    PROVE  \/ ~ st.ok /\ Take(st, key) = st
           \/ st.ok /\ Hits(st, key, Take(st, key))
           \/ st.ok /\ \E gone : Inserts(st, key, Take(st, key), gone)
           \/ st.ok /\ Refuses(st, key, Take(st, key))
PROOF
  <1>. DEFINE cands == Candidates(st.lru, st.taken \union st.held)
              Fits(gone) == Bytes(Range(st.lru) \ gone) + Size(key) <= Budget
              enough == {n \in 0..Len(cands) : Fits(First(cands, n))}
              gone == Oldest(cands, enough)
  <1>1. Take(st, key) = CASE ~ st.ok -> st
                          [] st.ok /\ key \in Range(st.lru) ->
                                [st EXCEPT !.lru = Touch(@, key), !.taken = @ \union {key}]
                          [] st.ok /\ key \notin Range(st.lru) /\ Fits(gone) ->
                                [st EXCEPT !.lru = Append(Without(@, gone), key),
                                           !.taken = @ \union {key}]
                          [] OTHER -> [st EXCEPT !.ok = FALSE]
    BY DEF Take
  <1>2. st.lru \in Seq(ColumnKeys) /\ st.taken \subseteq ColumnKeys /\ st.held \subseteq ColumnKeys
    BY DEF TakeStates
  <1>3. PICK n \in 0..Len(cands) :
           /\ gone = First(cands, n) /\ Evicts(First(cands, n), st.lru, st.taken \union st.held)
           /\ n \in enough \/ (enough = {}
                                 /\ First(cands, n) = Range(st.lru) \ (st.taken \union st.held))
    <2>1. PICK c, e, s, p : /\ c = cands /\ e = enough
                            /\ s = st.lru /\ p = st.taken \union st.held
      OBVIOUS
    <2>2. e \in SUBSET (0..Len(c)) /\ c = Candidates(s, p) /\ s \in Seq(ColumnKeys)
      BY <1>2, <2>1
    <2>3. \E n \in 0..Len(c) :
             /\ Oldest(c, e) = First(c, n) /\ Evicts(First(c, n), s, p)
             /\ n \in e \/ (e = {} /\ First(c, n) = Range(s) \ p)
      BY <2>2, EvictionFor
    <2>. HIDE DEF cands, enough
    <2>. QED BY <2>1, <2>3
  <1>4. Fits(gone) \/ gone = Range(st.lru) \ (st.taken \union st.held)
    BY <1>3
  <1>. HIDE DEF Fits, gone, enough, cands
  <1>5. CASE ~ st.ok
    BY <1>1, <1>5
  <1>6. CASE st.ok /\ key \in Range(st.lru)
    <2>1. Take(st, key) = [st EXCEPT !.lru = Touch(@, key), !.taken = @ \union {key}]
      BY <1>1, <1>6
    <2>. QED BY <1>6, <2>1 DEF Hits
  <1>7. CASE st.ok /\ key \notin Range(st.lru) /\ Fits(gone)
    <2>1. Take(st, key) = [st EXCEPT !.lru = Append(Without(@, gone), key),
                                     !.taken = @ \union {key}]
      BY <1>1, <1>7
    <2>. QED BY <1>3, <1>7, <2>1 DEF Inserts
  <1>8. CASE st.ok /\ key \notin Range(st.lru) /\ ~ Fits(gone)
    <2>1. Take(st, key) = [st EXCEPT !.ok = FALSE]
      BY <1>1, <1>8
    <2>2. Range(st.lru) \ gone = Range(st.lru) \intersect (st.taken \union st.held)
      BY <1>4, <1>8
    <2>3. Bytes(Range(st.lru) \intersect (st.taken \union st.held)) + Size(key) > Budget
      <3>1. PICK S : S = Range(st.lru) \intersect (st.taken \union st.held)
        OBVIOUS
      <3>2. S \in SUBSET ColumnKeys
        BY <1>2, <3>1
      <3>3. Bytes(S) \in Nat /\ Size(key) \in Nat /\ Budget \in Nat
        BY <3>2, BytesAre, SizeIs, QueryAssumption
      <3>4. ~ (Bytes(S) + Size(key) <= Budget)
        BY <1>8, <2>2, <3>1 DEF Fits
      <3>. QED BY <3>1, <3>3, <3>4
    <2>. QED BY <1>8, <2>1, <2>3 DEF Refuses
  <1>. QED BY <1>5, <1>6, <1>7, <1>8

(***************************************************************************)
(* A preparation that has been asked for the keys K: what it has taken and *)
(* what was held are resident; it has refused only because these and K do  *)
(* not fit.                                                                *)
(***************************************************************************)
Sound(st, held, K) ==
    /\ st \in TakeStates /\ st.held = held /\ IsInjective(st.lru)
    /\ st.taken \subseteq K /\ st.taken \subseteq Range(st.lru) /\ held \subseteq Range(st.lru)
    /\ st.ok => st.taken = K
    /\ ~ st.ok => Bytes(held \union K) > Budget

LEMMA TakeKeeps ==
    ASSUME NEW st, NEW held \in SUBSET ColumnKeys, NEW K \in SUBSET ColumnKeys,
           NEW key \in ColumnKeys, Sound(st, held, K)
    PROVE  Sound(Take(st, key), held, K \union {key})
PROOF
  <1>1. /\ st \in TakeStates /\ st.held = held /\ IsInjective(st.lru)
        /\ st.lru \in Seq(ColumnKeys) /\ st.taken \in SUBSET ColumnKeys
        /\ st.taken \subseteq K /\ st.taken \subseteq Range(st.lru) /\ held \subseteq Range(st.lru)
    BY DEF Sound, TakeStates
  <1>2. Range(st.lru) \subseteq ColumnKeys
    BY <1>1, RangeIs
  <1>3. CASE ~ st.ok /\ Take(st, key) = st
    <2>1. Bytes(held \union K) > Budget
      BY <1>3 DEF Sound
    <2>2. Bytes(held \union K) <= Bytes(held \union (K \union {key}))
      <3>1. PICK S, T : S = held \union K /\ T = held \union (K \union {key})
        OBVIOUS
      <3>2. T \in SUBSET ColumnKeys /\ S \in SUBSET T
        BY <3>1
      <3>. QED BY <3>1, <3>2, BytesOfPart
    <2>3. Bytes(held \union (K \union {key})) > Budget
      <3>1. held \union K \in SUBSET ColumnKeys /\ held \union (K \union {key}) \in SUBSET ColumnKeys
        OBVIOUS
      <3>2. /\ Bytes(held \union K) \in Nat /\ Bytes(held \union (K \union {key})) \in Nat
            /\ Budget \in Nat
        BY <3>1, BytesAre, QueryAssumption
      <3>. QED BY <2>1, <2>2, <3>2
    <2>. QED BY <1>1, <1>3, <2>3 DEF Sound
  <1>4. CASE st.ok /\ Hits(st, key, Take(st, key))
    <2>1. PICK w : w = Touch(st.lru, key)
      OBVIOUS
    <2>2. PICK u : u = Without(st.lru, {key})
      OBVIOUS
    <2>3. u \in Seq(ColumnKeys) /\ Range(u) = Range(st.lru) \ {key} /\ IsInjective(u)
      BY <1>1, <2>2, WithoutIs
    <2>4. /\ w \in Seq(ColumnKeys) /\ IsInjective(w)
          /\ Range(w) = Range(st.lru) \union {key}
      <3>1. w = Append(u, key) /\ key \notin Range(u)
        BY <2>1, <2>2, <2>3 DEF Touch
      <3>2. w \in Seq(ColumnKeys) /\ IsInjective(w) /\ Range(w) = Range(u) \union {key}
        BY <2>3, <3>1, AppendIs
      <3>. QED BY <2>3, <3>2
    <2>5. PICK t \in SUBSET ColumnKeys : t = st.taken \union {key}
      BY <1>1
    <2>6. Take(st, key) = [st EXCEPT !.lru = w, !.taken = t] /\ key \in Range(st.lru)
      BY <1>4, <2>1, <2>5 DEF Hits
    <2>7. /\ Take(st, key) \in TakeStates /\ Take(st, key).lru = w /\ Take(st, key).taken = t
          /\ Take(st, key).held = held /\ Take(st, key).ok
      BY <1>1, <1>4, <2>4, <2>6 DEF TakeStates
    <2>8. st.taken = K
      BY <1>4 DEF Sound
    <2>9. t = K \union {key} /\ t \subseteq Range(w) /\ held \subseteq Range(w)
      BY <1>1, <2>4, <2>5, <2>8
    <2>. QED BY <2>4, <2>7, <2>9 DEF Sound
  <1>5. ASSUME NEW gone, st.ok, Inserts(st, key, Take(st, key), gone)
        PROVE  Sound(Take(st, key), held, K \union {key})
    <2>1. PICK u : u = Without(st.lru, gone)
      OBVIOUS
    <2>2. PICK w : w = Append(u, key)
      OBVIOUS
    <2>3. u \in Seq(ColumnKeys) /\ Range(u) = Range(st.lru) \ gone /\ IsInjective(u)
      BY <1>1, <2>1, WithoutIs
    <2>4. key \notin Range(st.lru) /\ gone \subseteq Range(st.lru) \ (st.taken \union held)
      BY <1>1, <1>5 DEF Inserts, Evicts
    <2>5. /\ w \in Seq(ColumnKeys) /\ IsInjective(w) /\ Range(w) = Range(u) \union {key}
      BY <2>2, <2>3, <2>4, AppendIs
    <2>6. PICK t \in SUBSET ColumnKeys : t = st.taken \union {key}
      BY <1>1
    <2>7. Take(st, key) = [st EXCEPT !.lru = w, !.taken = t]
      BY <1>5, <2>1, <2>2, <2>6 DEF Inserts
    <2>8. /\ Take(st, key) \in TakeStates /\ Take(st, key).lru = w /\ Take(st, key).taken = t
          /\ Take(st, key).held = held /\ Take(st, key).ok
      BY <1>1, <1>5, <2>5, <2>7 DEF TakeStates
    <2>9. st.taken = K
      BY <1>5 DEF Sound
    <2>10. t = K \union {key} /\ t \subseteq Range(w) /\ held \subseteq Range(w)
      BY <1>1, <2>3, <2>4, <2>5, <2>6, <2>9
    <2>. QED BY <2>5, <2>8, <2>10 DEF Sound
  <1>6. CASE st.ok /\ Refuses(st, key, Take(st, key))
    <2>1. st.taken = K
      BY <1>6 DEF Sound
    <2>2. /\ Take(st, key) \in TakeStates /\ Take(st, key).lru = st.lru
          /\ Take(st, key).taken = st.taken /\ Take(st, key).held = held /\ ~ Take(st, key).ok
      BY <1>1, <1>6 DEF Refuses, TakeStates
    <2>3. PICK S \in SUBSET ColumnKeys : S = held \union K
      OBVIOUS
    <2>4. Range(st.lru) \intersect (st.taken \union st.held) = S /\ key \notin S
      BY <1>1, <1>6, <2>1, <2>3 DEF Refuses
    <2>5. Bytes(S) + Size(key) > Budget
      BY <1>6, <2>4 DEF Refuses
    <2>6. Bytes(S \union {key}) = Bytes(S) + Size(key)
      BY <2>4, BytesOfMore
    <2>7. S \union {key} = held \union (K \union {key})
      BY <2>3
    <2>8. Bytes(held \union (K \union {key})) > Budget
      BY <2>5, <2>6, <2>7
    <2>. QED BY <1>1, <2>2, <2>8 DEF Sound
  <1>. QED BY <1>1, <1>3, <1>4, <1>5, <1>6, TakeDoes

\* The function that TakeAll evaluates.
Taken(f, s, held, keys) ==
    f = [i \in 0..Len(keys) |->
            IF i = 0 THEN [lru |-> s, held |-> held, taken |-> {}, ok |-> TRUE]
            ELSE Take(f[i - 1], keys[i])]

LEMMA TakenExists ==
    ASSUME NEW s \in Seq(ColumnKeys), IsInjective(s), NEW held \in SUBSET ColumnKeys,
           held \subseteq Range(s), NEW keys \in Seq(ColumnKeys)
    PROVE  \E f : Taken(f, s, held, keys)
PROOF
  <1>1. Len(keys) \in Nat /\ \A i \in 1..Len(keys) : keys[i] \in ColumnKeys
    OBVIOUS
  <1>2. PICK V : V = {st \in TakeStates : \E K \in SUBSET ColumnKeys : Sound(st, held, K)}
    OBVIOUS
  <1>3. PICK e : e = [lru |-> s, held |-> held, taken |-> {}, ok |-> TRUE]
    OBVIOUS
  <1>4. e \in V
    <2>1. e \in TakeStates
      BY <1>3 DEF TakeStates
    <2>2. Sound(e, held, {})
      BY <1>3, <2>1 DEF Sound
    <2>. QED BY <1>2, <2>1, <2>2
  <1>5. ASSUME NEW st \in V, NEW key \in ColumnKeys
        PROVE  Take(st, key) \in V
    <2>1. PICK K \in SUBSET ColumnKeys : Sound(st, held, K)
      BY <1>2
    <2>2. Sound(Take(st, key), held, K \union {key}) /\ K \union {key} \in SUBSET ColumnKeys
      BY <2>1, TakeKeeps
    <2>3. Take(st, key) \in TakeStates
      BY <2>2 DEF Sound
    <2>. QED BY <1>2, <2>2, <2>3
  <1>6. PICK move : move = [x \in V \X (1..Len(keys)) |-> Take(x[1], keys[x[2]])]
    OBVIOUS
  <1>7. move \in [V \X (1..Len(keys)) -> V]
    <2>1. ASSUME NEW x \in V \X (1..Len(keys))
          PROVE  Take(x[1], keys[x[2]]) \in V
      <3>1. x[1] \in V /\ keys[x[2]] \in ColumnKeys
        BY <1>1
      <3>. QED BY <1>5, <3>1
    <2>. QED BY <1>6, <2>1
  <1>8. PICK f : Walks(f, e, Len(keys), move, V)
    BY <1>1, <1>4, <1>7, WalkExists
  <1>9. ASSUME NEW i \in 0..Len(keys)
        PROVE  f[i] = IF i = 0 THEN e ELSE Take(f[i - 1], keys[i])
    <2>1. CASE i = 0
      BY <1>8, <2>1 DEF Walks
    <2>2. CASE i # 0
      <3>1. i \in 1..Len(keys) /\ i - 1 \in 0..Len(keys)
        BY <1>1, <2>2
      <3>2. f[i] = move[<<f[i - 1], i>>] /\ <<f[i - 1], i>> \in V \X (1..Len(keys))
        BY <1>8, <3>1 DEF Walks
      <3>. QED BY <1>6, <2>2, <3>2
    <2>. QED BY <2>1, <2>2
  <1>10. f = [i \in 0..Len(keys) |-> f[i]]
    BY <1>8 DEF Walks
  <1>11. Taken(f, s, held, keys)
    BY <1>3, <1>9, <1>10 DEF Taken
  <1>. QED BY <1>11

LEMMA TakeAllIs ==
    ASSUME NEW s \in Seq(ColumnKeys), IsInjective(s), NEW held \in SUBSET ColumnKeys,
           held \subseteq Range(s), NEW keys \in Seq(ColumnKeys)
    PROVE  Sound(TakeAll(s, held, keys), held, Range(keys))
PROOF
  <1>1. Len(keys) \in Nat /\ \A i \in 1..Len(keys) : keys[i] \in ColumnKeys
    OBVIOUS
  <1>2. TakeAll(s, held, keys) = (CHOOSE f : Taken(f, s, held, keys))[Len(keys)]
    BY DEF TakeAll, Taken
  <1>3. PICK f : Taken(f, s, held, keys) /\ TakeAll(s, held, keys) = f[Len(keys)]
    BY <1>2, TakenExists
  <1>4. f[0] = [lru |-> s, held |-> held, taken |-> {}, ok |-> TRUE]
    BY <1>1, <1>3 DEF Taken
  <1>5. \A i \in 1..Len(keys) : f[i] = Take(f[i - 1], keys[i])
    <2>. TAKE i \in 1..Len(keys)
    <2>1. i \in 0..Len(keys) /\ i # 0
      BY <1>1
    <2>. QED BY <1>3, <2>1 DEF Taken
  <1>. DEFINE P(m) == Sound(f[m], held, {keys[j] : j \in 1..m})
              S == {m \in Nat : m <= Len(keys) => P(m)}
  <1>6. 0 \in S
    <2>1. {keys[j] : j \in 1..0} = {}
      OBVIOUS
    <2>2. Sound(f[0], held, {})
      <3>1. f[0] \in TakeStates
        BY <1>4 DEF TakeStates
      <3>. QED BY <1>4, <3>1 DEF Sound
    <2>. QED BY <2>1, <2>2
  <1>7. \A m \in S : m + 1 \in S
    <2>. SUFFICES ASSUME NEW m \in S, m + 1 <= Len(keys) PROVE P(m + 1)
      <3>. HIDE DEF P
      <3>. QED OBVIOUS
    <2>1. m + 1 \in 1..Len(keys) /\ (m + 1) - 1 = m /\ m \in Nat /\ m <= Len(keys)
      BY <1>1
    <2>2. PICK K : K = {keys[j] : j \in 1..m}
      OBVIOUS
    <2>3. K \in SUBSET ColumnKeys /\ Sound(f[m], held, K)
      BY <1>1, <2>1, <2>2
    <2>4. f[m + 1] = Take(f[m], keys[m + 1])
      BY <1>5, <2>1
    <2>5. {keys[j] : j \in 1..(m + 1)} = K \union {keys[m + 1]}
      <3>1. \A j \in 1..(m + 1) : j \in 1..m \/ j = m + 1
        BY <2>1
      <3>2. m + 1 \in 1..(m + 1) /\ \A j \in 1..m : j \in 1..(m + 1)
        BY <2>1
      <3>. QED BY <2>2, <3>1, <3>2
    <2>. QED BY <1>1, <2>1, <2>3, <2>4, <2>5, TakeKeeps
  <1>8. S = Nat
    <2>. HIDE DEF S
    <2>1. S \in SUBSET Nat
      BY DEF S
    <2>. QED BY <1>6, <1>7, <2>1, CountUp
  <1>9. Sound(f[Len(keys)], held, {keys[j] : j \in 1..Len(keys)})
    <2>1. Len(keys) \in S
      <3>. HIDE DEF S
      <3>. QED BY <1>1, <1>8
    <2>. QED BY <1>1, <2>1
  <1>10. Range(keys) = {keys[j] : j \in 1..Len(keys)}
    BY DEF Range
  <1>. QED BY <1>3, <1>9, <1>10

\* Trimming keeps what is pinned, and fails only when that alone is above the target.
LEMMA TrimIs ==
    ASSUME NEW s \in Seq(ColumnKeys), IsInjective(s), NEW pinned, NEW target \in Int,
           NEW trim, trim = Trim(s, pinned, target)
    PROVE  /\ trim.lru \in Seq(ColumnKeys) /\ IsInjective(trim.lru) /\ trim.ok \in BOOLEAN
           /\ Range(trim.lru) \subseteq Range(s) /\ pinned \intersect Range(s) \subseteq Range(trim.lru)
           /\ trim.ok <=> Bytes(Range(trim.lru)) <= target
           /\ Bytes(pinned \intersect Range(s)) <= target => trim.ok
PROOF
  <1>. DEFINE cands == Candidates(s, pinned)
              Met(gone) == Bytes(Range(s) \ gone) <= target
              enough == {n \in 0..Len(cands) : Met(First(cands, n))}
              gone == Oldest(cands, enough)
  <1>1. trim = [lru |-> Without(s, gone), ok |-> Met(gone)]
    BY DEF Trim
  <1>2. PICK n \in 0..Len(cands) :
           /\ gone = First(cands, n) /\ Evicts(First(cands, n), s, pinned)
           /\ n \in enough \/ (enough = {} /\ First(cands, n) = Range(s) \ pinned)
    <2>1. PICK c, e : c = cands /\ e = enough
      OBVIOUS
    <2>2. e \in SUBSET (0..Len(c)) /\ c = Candidates(s, pinned)
      BY <2>1
    <2>3. \E n \in 0..Len(c) :
             /\ Oldest(c, e) = First(c, n) /\ Evicts(First(c, n), s, pinned)
             /\ n \in e \/ (e = {} /\ First(c, n) = Range(s) \ pinned)
      BY <2>2, EvictionFor
    <2>. HIDE DEF cands, enough
    <2>. QED BY <2>1, <2>3
  <1>3. Met(gone) \/ gone = Range(s) \ pinned
    BY <1>2
  <1>4. gone \subseteq Range(s) \ pinned
    BY <1>2 DEF Evicts
  <1>. HIDE DEF gone, enough, cands
  <1>5. PICK w : w = Without(s, gone)
    OBVIOUS
  <1>6. w \in Seq(ColumnKeys) /\ IsInjective(w) /\ Range(w) = Range(s) \ gone
    BY <1>5, WithoutIs
  <1>7. trim.lru = w /\ (trim.ok <=> Bytes(Range(w)) <= target) /\ trim.ok \in BOOLEAN
    <2>1. trim.lru = w
      BY <1>1, <1>5
    <2>2. trim.ok = Met(gone)
      <3>. HIDE DEF Met
      <3>. QED BY <1>1
    <2>3. Met(gone) = (Bytes(Range(w)) <= target)
      BY <1>6
    <2>4. CASE Bytes(Range(w)) <= target
      <3>1. trim.ok = TRUE
        BY <2>2, <2>3, <2>4
      <3>. QED BY <2>1, <2>4, <3>1
    <2>5. CASE ~ (Bytes(Range(w)) <= target)
      <3>1. Bytes(Range(w)) \in Nat
        <4>1. Range(w) \in SUBSET ColumnKeys
          BY <1>6, RangeIs
        <4>. QED BY <4>1, BytesAre
      <3>2. (Bytes(Range(w)) <= target) = FALSE
        BY <2>5, <3>1
      <3>3. trim.ok = FALSE
        BY <2>2, <2>3, <3>2
      <3>. QED BY <2>1, <2>5, <3>3
    <2>. QED BY <2>4, <2>5
  <1>8. Range(w) \subseteq Range(s) /\ pinned \intersect Range(s) \subseteq Range(w)
    BY <1>4, <1>6
  <1>9. ASSUME Bytes(pinned \intersect Range(s)) <= target
        PROVE  trim.ok
    <2>1. CASE Met(gone)
      <3>1. Bytes(Range(w)) <= target
        BY <1>6, <2>1
      <3>. QED BY <1>7, <3>1
    <2>2. CASE gone = Range(s) \ pinned
      <3>1. Range(s) \ gone = pinned \intersect Range(s)
        BY <2>2
      <3>. QED BY <1>6, <1>7, <1>9, <3>1
    <2>. QED BY <1>3, <2>1, <2>2
  <1>. QED BY <1>6, <1>7, <1>8, <1>9

-----------------------------------------------------------------------------
(* The columns a query asks for.                                           *)

LEMMA SetToSeqIs ==
    ASSUME NEW S, IsFiniteSet(S)
    PROVE  SetToSeq(S) \in Seq(S)
PROOF
  <1>1. Cardinality(S) \in Nat /\ ExistsBijection(1..Cardinality(S), S)
    BY FS_CardinalityType
  <1>2. PICK f \in [1..Cardinality(S) -> S] : \A a, b \in 1..Cardinality(S) : f[a] = f[b] => a = b
    <2>1. PICK f : f \in Bijection(1..Cardinality(S), S)
      BY <1>1 DEF ExistsBijection
    <2>2. f \in Injection(1..Cardinality(S), S)
      BY <2>1 DEF Bijection
    <2>3. f \in [1..Cardinality(S) -> S] /\ IsInjective(f)
      BY <2>2 DEF Injection
    <2>4. DOMAIN f = 1..Cardinality(S)
      BY <2>3
    <2>. QED BY <2>3, <2>4 DEF IsInjective
  <1>3. f \in [1..Cardinality(S) -> S] /\ IsInjective(f)
    BY <1>2 DEF IsInjective
  <1>4. SetToSeq(S) \in [1..Cardinality(S) -> S]
    BY <1>3 DEF SetToSeq
  <1>. QED BY <1>1, <1>4

\* The function that Keys evaluates.
Asked(f, kind, time, points) ==
    f = [i \in 0..Jobs |->
            IF i = 0 THEN <<>>
            ELSE IF i \in WindowFrames(time, Derivatives(kind))
                 THEN f[i - 1] \o SetToSeq({[frame |-> i, cell |-> c, caps |-> Capabilities(kind)] :
                                              c \in {CellOf[p] : p \in Range(points)}})
                 ELSE f[i - 1]]

LEMMA KeysAre ==
    ASSUME NEW kind, NEW time, NEW points \in Batches
    PROVE  Keys(kind, time, points) \in Seq(ColumnKeys)
PROOF
  <1>1. Keys(kind, time, points) = (CHOOSE f : Asked(f, kind, time, points))[Jobs]
    BY DEF Keys, Asked
  <1>2. PICK cells : cells = {CellOf[p] : p \in Range(points)}
    OBVIOUS
  <1>3. cells \subseteq Cells
    <2>1. points \in Seq(Points) /\ CellOf \in [Points -> Cells]
      BY QueryAssumption
    <2>2. Range(points) \subseteq Points
      BY <2>1, RangeIs
    <2>. QED BY <1>2, <2>1, <2>2
  <1>4. PICK columns : columns = [i \in 1..Jobs |->
           SetToSeq({[frame |-> i, cell |-> c, caps |-> Capabilities(kind)] : c \in cells})]
    OBVIOUS
  <1>5. ASSUME NEW i \in 1..Jobs
        PROVE  columns[i] \in Seq(ColumnKeys)
    <2>1. PICK S : S = {[frame |-> i, cell |-> c, caps |-> Capabilities(kind)] : c \in cells}
      OBVIOUS
    <2>2. S \in SUBSET ColumnKeys
      BY <1>3, <2>1 DEF ColumnKeys, Capabilities
    <2>3. SetToSeq(S) \in Seq(S)
      BY <2>2, ContentsAreFinite, SetToSeqIs
    <2>4. SetToSeq(S) \in Seq(ColumnKeys)
      BY <2>2, <2>3
    <2>. QED BY <1>4, <2>1, <2>4
  <1>6. PICK W, e, window : /\ W = Seq(ColumnKeys) /\ e = <<>>
                            /\ window = WindowFrames(time, Derivatives(kind))
    OBVIOUS
  <1>7. e \in W /\ (\A i \in 1..Jobs : columns[i] \in W)
    BY <1>5, <1>6
  <1>8. \A a, b \in W : a \o b \in W
    BY <1>6
  <1>9. PICK move : move = [x \in W \X (1..Jobs) |->
                               IF x[2] \in window THEN x[1] \o columns[x[2]] ELSE x[1]]
    OBVIOUS
  <1>10. move \in [W \X (1..Jobs) -> W]
    BY <1>7, <1>8, <1>9
  <1>11. Jobs \in Nat
    BY QueryAssumption
  <1>12. ASSUME NEW f, f \in [0..Jobs -> W], f[0] = e,
                \A i \in 1..Jobs : f[i] = IF i \in window THEN f[i - 1] \o columns[i] ELSE f[i - 1]
         PROVE  Asked(f, kind, time, points)
    <2>1. f = [i \in 0..Jobs |-> f[i]]
      BY <1>12
    <2>2. ASSUME NEW i \in 0..Jobs
          PROVE  f[i] = IF i = 0 THEN <<>>
                        ELSE IF i \in WindowFrames(time, Derivatives(kind))
                        THEN f[i - 1] \o SetToSeq({[frame |-> i, cell |-> c, caps |-> Capabilities(kind)] :
                                              c \in {CellOf[p] : p \in Range(points)}})
                        ELSE f[i - 1]
      <3>1. CASE i = 0
        BY <1>6, <1>12, <3>1
      <3>2. CASE i # 0
        <4>1. i \in 1..Jobs
          BY <1>11, <3>2
        <4>2. columns[i] = SetToSeq({[frame |-> i, cell |-> c, caps |-> Capabilities(kind)] :
                                              c \in {CellOf[p] : p \in Range(points)}})
          BY <1>2, <1>4, <4>1
        <4>3. f[i] = IF i \in window THEN f[i - 1] \o columns[i] ELSE f[i - 1]
          BY <1>12, <4>1
        <4>. QED BY <1>6, <3>2, <4>2, <4>3
      <3>. QED BY <3>1, <3>2
    <2>. QED BY <2>1, <2>2 DEF Asked
  <1>13. \E f : Asked(f, kind, time, points)
    <2>1. PICK f : Walks(f, e, Jobs, move, W)
      BY <1>7, <1>10, <1>11, WalkExists
    <2>2. f \in [0..Jobs -> W] /\ f[0] = e
      BY <2>1 DEF Walks
    <2>3. ASSUME NEW i \in 1..Jobs
          PROVE  f[i] = IF i \in window THEN f[i - 1] \o columns[i] ELSE f[i - 1]
      <3>1. i - 1 \in 0..Jobs
        BY <1>11
      <3>2. <<f[i - 1], i>> \in W \X (1..Jobs) /\ f[i] = move[<<f[i - 1], i>>]
        BY <2>1, <2>2, <3>1 DEF Walks
      <3>. QED BY <1>9, <3>2
    <2>. QED BY <1>12, <2>2, <2>3
  <1>14. PICK f : Asked(f, kind, time, points) /\ Keys(kind, time, points) = f[Jobs]
    BY <1>1, <1>13
  <1>15. f[0] = e
    BY <1>6, <1>11, <1>14 DEF Asked
  <1>16. ASSUME NEW i \in 1..Jobs
         PROVE  f[i] = IF i \in window THEN f[i - 1] \o columns[i] ELSE f[i - 1]
    <2>1. i \in 0..Jobs /\ i # 0
      BY <1>11
    <2>2. columns[i] = SetToSeq({[frame |-> i, cell |-> c, caps |-> Capabilities(kind)] :
                                              c \in {CellOf[p] : p \in Range(points)}})
      BY <1>2, <1>4
    <2>3. f[i] = IF i \in WindowFrames(time, Derivatives(kind))
                        THEN f[i - 1] \o SetToSeq({[frame |-> i, cell |-> c, caps |-> Capabilities(kind)] :
                                              c \in {CellOf[p] : p \in Range(points)}})
                        ELSE f[i - 1]
      BY <1>14, <2>1 DEF Asked
    <2>. QED BY <1>6, <2>2, <2>3
  <1>. DEFINE S == {m \in Nat : m <= Jobs => f[m] \in W}
  <1>17. 0 \in S
    BY <1>7, <1>15
  <1>18. \A m \in S : m + 1 \in S
    <2>. SUFFICES ASSUME NEW m \in S, m + 1 <= Jobs PROVE f[m + 1] \in W
      OBVIOUS
    <2>1. m + 1 \in 1..Jobs /\ (m + 1) - 1 = m /\ f[m] \in W
      BY <1>11
    <2>. QED BY <1>7, <1>8, <1>16, <2>1
  <1>19. S = Nat
    <2>. HIDE DEF S
    <2>1. S \in SUBSET Nat
      BY DEF S
    <2>. QED BY <1>17, <1>18, <2>1, CountUp
  <1>20. f[Jobs] \in W
    <2>1. Jobs \in S
      <3>. HIDE DEF S
      <3>. QED BY <1>11, <1>19
    <2>. QED BY <1>11, <2>1
  <1>. QED BY <1>6, <1>14, <1>20

-----------------------------------------------------------------------------
(* A boundary query.                                                       *)

Sessions == [pins : SUBSET ColumnKeys, bytes : Nat]
BoundaryStates == [ok : BOOLEAN, lru : Seq(ColumnKeys), session : Sessions]

\* A cache and a session: nothing twice, the session's columns resident and counted.
Holds(s, session1) ==
    /\ s \in Seq(ColumnKeys) /\ IsInjective(s)
    /\ session1 \in Sessions /\ session1.pins \subseteq Range(s)
    /\ session1.bytes = Bytes(session1.pins)

LEMMA SessionGrows ==
    ASSUME NEW s \in Sessions, s.bytes = Bytes(s.pins), NEW keys \in SUBSET ColumnKeys
    PROVE  /\ SessionWith(s, keys) \in Sessions
           /\ SessionWith(s, keys).pins = s.pins \union keys
           /\ SessionWith(s, keys).bytes = Bytes(s.pins \union keys)
PROOF
  <1>1. PICK p \in SUBSET ColumnKeys, m \in SUBSET ColumnKeys : p = s.pins /\ m = keys \ s.pins
    BY DEF Sessions
  <1>2. p \intersect m = {} /\ p \union m = s.pins \union keys
    BY <1>1
  <1>3. Bytes(p \union m) = Bytes(p) + Bytes(m)
    BY <1>1, <1>2, BytesOfBoth
  <1>4. Bytes(p) \in Nat /\ Bytes(m) \in Nat
    BY <1>1, BytesAre
  <1>5. SessionWith(s, keys) = [pins |-> s.pins \union keys, bytes |-> Bytes(s.pins \union keys)]
    BY <1>1, <1>2, <1>3 DEF SessionWith
  <1>6. s.pins \union keys \in SUBSET ColumnKeys /\ Bytes(s.pins \union keys) \in Nat
    <2>1. PICK q \in SUBSET ColumnKeys : q = p \union m
      OBVIOUS
    <2>2. q = s.pins \union keys /\ Bytes(q) \in Nat
      BY <1>2, <2>1, BytesAre
    <2>. QED BY <2>2
  <1>7. PICK q \in SUBSET ColumnKeys, n \in Nat :
           q = s.pins \union keys /\ n = Bytes(s.pins \union keys)
    BY <1>6
  <1>8. SessionWith(s, keys) = [pins |-> q, bytes |-> n]
    BY <1>5, <1>7
  <1>9. SessionWith(s, keys) \in Sessions
    BY <1>8 DEF Sessions
  <1>. QED BY <1>7, <1>8, <1>9

LEMMA BoundaryOnceIs ==
    ASSUME NEW s, NEW lru1, Holds(lru1, s), NEW keys \in Seq(ColumnKeys),
           NEW got, got = BoundaryOnce(s, lru1, keys)
    PROVE  /\ got \in BoundaryStates /\ Holds(got.lru, got.session)
           /\ got.ok => Range(keys) \subseteq got.session.pins
           /\ ~ got.ok => Bytes(s.pins \union Range(keys)) > Budget
PROOF
  <1>1. PICK new : new = Without(keys, s.pins)
    OBVIOUS
  <1>2. new \in Seq(ColumnKeys) /\ Range(new) = Range(keys) \ s.pins
    BY <1>1, WithoutIs
  <1>3. PICK take : take = TakeAll(lru1, s.pins, new)
    OBVIOUS
  <1>4. /\ lru1 \in Seq(ColumnKeys) /\ IsInjective(lru1) /\ s \in Sessions
        /\ s.pins \in SUBSET ColumnKeys /\ s.pins \subseteq Range(lru1) /\ s.bytes = Bytes(s.pins)
    BY DEF Holds, Sessions
  <1>5. Sound(take, s.pins, Range(new))
    BY <1>2, <1>3, <1>4, TakeAllIs
  <1>6. /\ take.lru \in Seq(ColumnKeys) /\ IsInjective(take.lru) /\ take.taken \in SUBSET ColumnKeys
        /\ take.taken \subseteq Range(take.lru) /\ s.pins \subseteq Range(take.lru) /\ take.ok \in BOOLEAN
    BY <1>5 DEF Sound, TakeStates
  <1>7. got = [ok |-> take.ok, lru |-> take.lru, session |-> SessionWith(s, take.taken)]
    BY <1>1, <1>3 DEF BoundaryOnce
  <1>8. PICK after : after = SessionWith(s, take.taken)
    OBVIOUS
  <1>9. /\ after \in Sessions /\ after.pins = s.pins \union take.taken
        /\ after.bytes = Bytes(after.pins)
    BY <1>4, <1>6, <1>8, SessionGrows
  <1>10. got \in BoundaryStates /\ got.lru = take.lru /\ got.session = after /\ got.ok = take.ok
    BY <1>6, <1>7, <1>8, <1>9 DEF BoundaryStates
  <1>11. Holds(got.lru, got.session)
    BY <1>6, <1>9, <1>10 DEF Holds
  <1>12. ASSUME take.ok
         PROVE  Range(keys) \subseteq after.pins
    <2>1. take.taken = Range(new)
      BY <1>5, <1>12 DEF Sound
    <2>. QED BY <1>2, <1>9, <2>1
  <1>13. ASSUME ~ take.ok
         PROVE  Bytes(s.pins \union Range(keys)) > Budget
    <2>1. Bytes(s.pins \union Range(new)) > Budget
      BY <1>5, <1>13 DEF Sound
    <2>2. s.pins \union Range(new) = s.pins \union Range(keys)
      BY <1>2
    <2>. QED BY <2>1, <2>2
  <1>. QED BY <1>10, <1>11, <1>12, <1>13

LEMMA BoundaryPinsAre ==
    ASSUME Holds(lru, session), NEW keys \in Seq(ColumnKeys), NEW got, got = BoundaryPins(keys)
    PROVE  /\ got \in BoundaryStates /\ Holds(got.lru, got.session)
           /\ got.ok => Range(keys) \subseteq got.session.pins
           /\ ~ got.ok => Bytes(Range(keys)) > Budget
PROOF
  <1>1. PICK once : once = BoundaryOnce(session, lru, keys)
    OBVIOUS
  <1>2. /\ once \in BoundaryStates /\ Holds(once.lru, once.session)
        /\ once.ok => Range(keys) \subseteq once.session.pins
    BY <1>1, BoundaryOnceIs
  <1>3. got = IF once.ok THEN once ELSE BoundaryOnce(NoSession, once.lru, keys)
    BY <1>1 DEF BoundaryPins
  <1>4. CASE once.ok
    BY <1>2, <1>3, <1>4
  <1>5. CASE ~ once.ok
    <2>1. got = BoundaryOnce(NoSession, once.lru, keys)
      BY <1>3, <1>5
    <2>2. Holds(once.lru, NoSession)
      BY <1>2, BytesOfNone DEF Holds, NoSession, Sessions
    <2>3. /\ got \in BoundaryStates /\ Holds(got.lru, got.session)
          /\ got.ok => Range(keys) \subseteq got.session.pins
          /\ ~ got.ok => Bytes(NoSession.pins \union Range(keys)) > Budget
      BY <2>1, <2>2, BoundaryOnceIs
    <2>4. NoSession.pins \union Range(keys) = Range(keys)
      BY DEF NoSession
    <2>. QED BY <2>3, <2>4
  <1>. QED BY <1>4, <1>5

LEMMA SettleIs ==
    ASSUME NEW got \in BoundaryStates, Holds(got.lru, got.session), NEW keys \in SUBSET ColumnKeys,
           got.ok => keys \subseteq got.session.pins, ~ got.ok => Bytes(keys) > Budget,
           NEW done, done = Settle(got, keys)
    PROVE  /\ done \in BoundaryStates /\ Holds(done.lru, done.session)
           /\ done.ok => /\ keys \subseteq Range(done.lru)
                         /\ Bytes(Range(done.lru)) + Scratch <= Budget
           /\ ~ done.ok => Bytes(keys) + Scratch > Budget
PROOF
  <1>1. PICK allowed, kept : /\ allowed = Budget - Scratch
                             /\ kept = IF got.session.bytes > allowed THEN NoSession ELSE got.session
    OBVIOUS
  <1>2. PICK trim : trim = Trim(got.lru, kept.pins \union keys, allowed)
    OBVIOUS
  <1>3. done = IF got.ok /\ Bytes(keys) + Scratch <= Budget
               THEN [ok |-> trim.ok, lru |-> trim.lru, session |-> kept]
               ELSE [got EXCEPT !.ok = FALSE]
    BY <1>1, <1>2 DEF Settle
  <1>4. Bytes(keys) \in Nat /\ Scratch \in Nat /\ Budget \in Nat /\ allowed \in Int
    BY <1>1, BytesAre, QueryAssumption
  <1>5. /\ got.lru \in Seq(ColumnKeys) /\ IsInjective(got.lru) /\ got.session \in Sessions
        /\ got.session.pins \subseteq Range(got.lru) /\ got.session.bytes = Bytes(got.session.pins)
        /\ got.session.bytes \in Nat
    BY DEF Holds, Sessions
  <1>6. CASE got.ok /\ Bytes(keys) + Scratch <= Budget
    <2>1. done = [ok |-> trim.ok, lru |-> trim.lru, session |-> kept]
      BY <1>3, <1>6
    <2>2. kept = NoSession \/ (kept = got.session /\ got.session.bytes <= allowed)
      BY <1>1, <1>4, <1>5
    <2>3. keys \subseteq got.session.pins /\ keys \subseteq Range(got.lru)
      BY <1>5, <1>6
    <2>4. /\ kept \in Sessions /\ kept.pins \subseteq Range(got.lru) /\ kept.bytes = Bytes(kept.pins)
          /\ Bytes(kept.pins \union keys) <= allowed
      <3>1. CASE kept = NoSession
        <4>1. kept.pins = {} /\ kept.bytes = 0 /\ kept \in Sessions
          BY <3>1 DEF NoSession, Sessions
        <4>2. kept.pins \union keys = keys /\ Bytes(keys) <= allowed
          BY <1>1, <1>4, <1>6, <4>1
        <4>. QED BY <4>1, <4>2, BytesOfNone
      <3>2. CASE kept = got.session /\ got.session.bytes <= allowed
        <4>1. kept.pins \union keys = kept.pins
          BY <2>3, <3>2
        <4>. QED BY <1>5, <3>2, <4>1
      <3>. QED BY <2>2, <3>1, <3>2
    <2>5. PICK p : p = kept.pins \union keys
      OBVIOUS
    <2>6. p \intersect Range(got.lru) = p /\ trim = Trim(got.lru, p, allowed)
      BY <1>2, <2>3, <2>4, <2>5
    <2>7. /\ trim.lru \in Seq(ColumnKeys) /\ IsInjective(trim.lru) /\ trim.ok \in BOOLEAN
          /\ p \subseteq Range(trim.lru)
          /\ trim.ok <=> Bytes(Range(trim.lru)) <= allowed
          /\ Bytes(p) <= allowed => trim.ok
      <3>1. PICK s : s = got.lru
        OBVIOUS
      <3>2. s \in Seq(ColumnKeys) /\ IsInjective(s) /\ trim = Trim(s, p, allowed)
        BY <1>5, <2>6, <3>1
      <3>3. /\ trim.lru \in Seq(ColumnKeys) /\ IsInjective(trim.lru) /\ trim.ok \in BOOLEAN
            /\ p \intersect Range(s) \subseteq Range(trim.lru)
            /\ trim.ok <=> Bytes(Range(trim.lru)) <= allowed
            /\ Bytes(p \intersect Range(s)) <= allowed => trim.ok
        BY <1>4, <3>2, TrimIs
      <3>. QED BY <2>6, <3>1, <3>3
    <2>8. trim.ok /\ Bytes(Range(trim.lru)) <= allowed
      BY <2>4, <2>5, <2>7
    <2>9. Bytes(Range(trim.lru)) + Scratch <= Budget
      <3>1. Range(trim.lru) \in SUBSET ColumnKeys
        BY <2>7, RangeIs
      <3>2. Bytes(Range(trim.lru)) \in Nat
        BY <3>1, BytesAre
      <3>. QED BY <1>1, <1>4, <2>8, <3>2
    <2>10. /\ done \in BoundaryStates /\ done.lru = trim.lru /\ done.session = kept
           /\ done.ok = trim.ok
      BY <2>1, <2>4, <2>7 DEF BoundaryStates
    <2>11. Holds(done.lru, done.session) /\ keys \subseteq Range(done.lru)
      BY <2>4, <2>5, <2>7, <2>10 DEF Holds
    <2>. QED BY <2>8, <2>9, <2>10, <2>11
  <1>7. CASE ~ (got.ok /\ Bytes(keys) + Scratch <= Budget)
    <2>1. done = [got EXCEPT !.ok = FALSE]
      BY <1>3, <1>7
    <2>2. done \in BoundaryStates /\ done.lru = got.lru /\ done.session = got.session /\ done.ok = FALSE
      BY <2>1 DEF BoundaryStates
    <2>3. Bytes(keys) + Scratch > Budget
      <3>1. CASE ~ got.ok
        BY <1>4, <3>1
      <3>2. CASE got.ok
        BY <1>4, <1>7, <3>2
      <3>. QED BY <3>1, <3>2
    <2>. QED BY <2>2, <2>3
  <1>. QED BY <1>6, <1>7

-----------------------------------------------------------------------------
(* The pass over a cached query.                                           *)

ScanStates(cached) == [at : 0..Len(cached), rows : Seq(1..Len(cached)), ok : BOOLEAN]

\* After the first m points: as many rows, each at its point.
Matches(st, points, cached, m) ==
    /\ st \in ScanStates(cached)
    /\ st.ok => /\ Len(st.rows) = m
                /\ \A i \in 1..m : cached[st.rows[i]] = points[i]

LEMMA AdvanceMatches ==
    ASSUME NEW st, NEW cached \in Seq(Points), NEW points \in Seq(Points), NEW m \in Nat,
           m + 1 <= Len(points), Matches(st, points, cached, m)
    PROVE  Matches(Advance(st, points[m + 1], cached), points, cached, m + 1)
PROOF
  <1>1. PICK p, n : p = points[m + 1] /\ n = Len(cached)
    OBVIOUS
  <1>2. PICK later : later = {i \in 1..Len(cached) : i > st.at /\ cached[i] = p}
    OBVIOUS
  <1>3. PICK at \in 0..n, rows \in Seq(1..n), ok \in BOOLEAN : st = [at |-> at, rows |-> rows, ok |-> ok]
    BY <1>1 DEF Matches, ScanStates
  <1>4. n \in Nat
    BY <1>1
  <1>5. CASE ok /\ later # {}
    <2>1. later \in SUBSET Nat
      BY <1>1, <1>2, <1>4
    <2>2. PICK l \in 1..n : l = Min(later) /\ cached[l] = p
      <3>1. Min(later) \in later
        BY <1>5, <2>1, MinIs
      <3>. QED BY <1>1, <1>2, <3>1
    <2>3. PICK more \in Seq(1..n) : more = Append(rows, l)
      <3>1. Append(rows, l) \in Seq(1..n)
        OBVIOUS
      <3>. QED BY <3>1
    <2>4. Advance(st, p, cached) = [at |-> l, rows |-> more, ok |-> TRUE]
      <3>1. st.ok
        BY <1>3, <1>5
      <3>2. Advance(st, p, cached) = [st EXCEPT !.at = Min(later), !.rows = Append(@, Min(later))]
        BY <1>2, <1>5, <3>1 DEF Advance
      <3>3. ok = TRUE
        BY <1>5
      <3>. QED BY <1>3, <2>2, <2>3, <3>2, <3>3
    <2>5. l \in 0..n
      BY <1>4
    <2>6. [at |-> l, rows |-> more, ok |-> TRUE] \in ScanStates(cached)
      BY <1>1, <2>5 DEF ScanStates
    <2>7. Len(rows) = m /\ \A i \in 1..m : cached[rows[i]] = points[i]
      BY <1>3, <1>5 DEF Matches
    <2>8. Len(more) = m + 1
      BY <2>3, <2>7
    <2>9. ASSUME NEW i \in 1..(m + 1)
          PROVE  cached[more[i]] = points[i]
      <3>1. CASE i = m + 1
        BY <1>1, <2>2, <2>3, <2>7, <3>1
      <3>2. CASE i # m + 1
        <4>1. i \in 1..m
          BY <3>2
        <4>2. more[i] = rows[i]
          BY <2>3, <2>7, <4>1
        <4>. QED BY <2>7, <4>1, <4>2
      <3>. QED BY <3>1, <3>2
    <2>. QED BY <1>1, <2>4, <2>6, <2>8, <2>9 DEF Matches
  <1>6. CASE ~ (ok /\ later # {})
    <2>1. Advance(st, p, cached) = [at |-> at, rows |-> rows, ok |-> FALSE]
      <3>1. ~ (st.ok /\ later # {})
        BY <1>3, <1>6
      <3>2. Advance(st, p, cached) = [st EXCEPT !.ok = FALSE]
        BY <1>2, <3>1 DEF Advance
      <3>. QED BY <1>3, <3>2
    <2>2. [at |-> at, rows |-> rows, ok |-> FALSE] \in ScanStates(cached)
      BY <1>1, <1>3 DEF ScanStates
    <2>. QED BY <1>1, <2>1, <2>2 DEF Matches
  <1>. QED BY <1>5, <1>6

Scanned(f, points, cached) ==
    f = [n \in 0..Len(points) |->
            IF n = 0 THEN [at |-> 0, rows |-> <<>>, ok |-> TRUE]
            ELSE Advance(f[n - 1], points[n], cached)]

LEMMA AdvanceIs ==
    ASSUME NEW cached \in Seq(Points), NEW p \in Points, NEW st \in ScanStates(cached)
    PROVE  Advance(st, p, cached) \in ScanStates(cached)
PROOF
  <1>1. PICK points : points = <<p>>
    OBVIOUS
  <1>2. CASE st.ok
    <2>1. PICK later : later = {i \in 1..Len(cached) : i > st.at /\ cached[i] = p}
      OBVIOUS
    <2>2. PICK n \in Nat : n = Len(cached)
      OBVIOUS
    <2>3. CASE later # {}
      <3>1. Min(later) \in 1..n
        <4>1. later \in SUBSET Nat
          BY <2>1, <2>2
        <4>. QED BY <2>1, <2>2, <2>3, <4>1, MinIs
      <3>2. PICK l \in 1..n : l = Min(later)
        BY <3>1
      <3>3. PICK at \in 0..n, rows \in Seq(1..n), ok \in BOOLEAN : st = [at |-> at, rows |-> rows, ok |-> ok]
        BY <2>2 DEF ScanStates
      <3>4. PICK more \in Seq(1..n) : more = Append(rows, l)
        <4>1. Append(rows, l) \in Seq(1..n)
          OBVIOUS
        <4>. QED BY <4>1
      <3>5. Advance(st, p, cached) = [at |-> l, rows |-> more, ok |-> ok]
        <4>1. Advance(st, p, cached) = [st EXCEPT !.at = Min(later), !.rows = Append(@, Min(later))]
          BY <1>2, <2>1, <2>3 DEF Advance
        <4>. QED BY <3>2, <3>3, <3>4, <4>1
      <3>6. l \in 0..n
        BY <2>2
      <3>. QED BY <2>2, <3>5, <3>6 DEF ScanStates
    <2>4. CASE later = {}
      <3>1. Advance(st, p, cached) = [st EXCEPT !.ok = FALSE]
        BY <2>1, <2>4 DEF Advance
      <3>. QED BY <3>1 DEF ScanStates
    <2>. QED BY <2>3, <2>4
  <1>3. CASE ~ st.ok
    <2>1. Advance(st, p, cached) = [st EXCEPT !.ok = FALSE]
      BY <1>3 DEF Advance
    <2>. QED BY <2>1 DEF ScanStates
  <1>. QED BY <1>2, <1>3

LEMMA ScannedExists ==
    ASSUME NEW cached \in Seq(Points), NEW points \in Seq(Points)
    PROVE  \E f : Scanned(f, points, cached)
PROOF
  <1>1. Len(points) \in Nat /\ (\A i \in 1..Len(points) : points[i] \in Points) /\ Len(cached) \in Nat
    OBVIOUS
  <1>2. PICK V, e : V = ScanStates(cached) /\ e = [at |-> 0, rows |-> <<>>, ok |-> TRUE]
    OBVIOUS
  <1>3. e \in V
    BY <1>1, <1>2 DEF ScanStates
  <1>4. PICK move : move = [x \in V \X (1..Len(points)) |-> Advance(x[1], points[x[2]], cached)]
    OBVIOUS
  <1>5. move \in [V \X (1..Len(points)) -> V]
    <2>1. ASSUME NEW x \in V \X (1..Len(points))
          PROVE  Advance(x[1], points[x[2]], cached) \in V
      <3>1. x[1] \in ScanStates(cached) /\ points[x[2]] \in Points
        BY <1>1, <1>2
      <3>. QED BY <1>2, <3>1, AdvanceIs
    <2>. QED BY <1>4, <2>1
  <1>6. PICK f : Walks(f, e, Len(points), move, V)
    BY <1>1, <1>3, <1>5, WalkExists
  <1>7. ASSUME NEW i \in 0..Len(points)
        PROVE  f[i] = IF i = 0 THEN e ELSE Advance(f[i - 1], points[i], cached)
    <2>1. CASE i = 0
      BY <1>6, <2>1 DEF Walks
    <2>2. CASE i # 0
      <3>1. i \in 1..Len(points) /\ i - 1 \in 0..Len(points)
        BY <1>1, <2>2
      <3>2. f[i] = move[<<f[i - 1], i>>] /\ <<f[i - 1], i>> \in V \X (1..Len(points))
        BY <1>6, <3>1 DEF Walks
      <3>. QED BY <1>4, <2>2, <3>2
    <2>. QED BY <2>1, <2>2
  <1>8. f = [i \in 0..Len(points) |-> f[i]]
    BY <1>6 DEF Walks
  <1>9. Scanned(f, points, cached)
    BY <1>2, <1>7, <1>8 DEF Scanned
  <1>. QED BY <1>9

LEMMA ScanIs ==
    ASSUME NEW cached \in Seq(Points), NEW points \in Seq(Points)
    PROVE  Matches(Scan(points, cached), points, cached, Len(points))
PROOF
  <1>1. Len(points) \in Nat /\ Len(cached) \in Nat
    OBVIOUS
  <1>2. Scan(points, cached) = (CHOOSE f : Scanned(f, points, cached))[Len(points)]
    BY DEF Scan, Scanned
  <1>3. PICK f : Scanned(f, points, cached) /\ Scan(points, cached) = f[Len(points)]
    BY <1>2, ScannedExists
  <1>4. f[0] = [at |-> 0, rows |-> <<>>, ok |-> TRUE]
    BY <1>1, <1>3 DEF Scanned
  <1>5. \A i \in 1..Len(points) : f[i] = Advance(f[i - 1], points[i], cached)
    <2>. TAKE i \in 1..Len(points)
    <2>1. i \in 0..Len(points) /\ i # 0
      BY <1>1
    <2>. QED BY <1>3, <2>1 DEF Scanned
  <1>. DEFINE S == {m \in Nat : m <= Len(points) => Matches(f[m], points, cached, m)}
  <1>6. 0 \in S
    <2>1. f[0] \in ScanStates(cached)
      BY <1>1, <1>4 DEF ScanStates
    <2>2. Len(<<>>) = 0
      OBVIOUS
    <2>3. Matches(f[0], points, cached, 0)
      BY <1>4, <2>1, <2>2 DEF Matches
    <2>. QED BY <2>3
  <1>7. \A m \in S : m + 1 \in S
    <2>. SUFFICES ASSUME NEW m \in S, m + 1 <= Len(points)
                  PROVE  Matches(f[m + 1], points, cached, m + 1)
      OBVIOUS
    <2>1. m + 1 \in 1..Len(points) /\ (m + 1) - 1 = m /\ m \in Nat /\ m <= Len(points)
      BY <1>1
    <2>2. f[m + 1] = Advance(f[m], points[m + 1], cached)
      BY <1>5, <2>1
    <2>3. Matches(f[m], points, cached, m)
      BY <2>1
    <2>. QED BY <2>1, <2>2, <2>3, AdvanceMatches
  <1>8. S = Nat
    <2>. HIDE DEF S
    <2>1. S \in SUBSET Nat
      BY DEF S
    <2>. QED BY <1>6, <1>7, <2>1, CountUp
  <1>9. Matches(f[Len(points)], points, cached, Len(points))
    <2>1. Len(points) \in S
      <3>. HIDE DEF S
      <3>. QED BY <1>1, <1>8
    <2>. QED BY <1>1, <2>1
  <1>. QED BY <1>3, <1>9

-----------------------------------------------------------------------------
(* The frames.                                                             *)

Ascending(s) == \A a, b \in 1..Len(s) : a < b => s[a] < s[b]

\* In time order and without a hole up to frame n.
InOrder(s, n) ==
    /\ s \in Seq(1..n) /\ Ascending(s)
    /\ \A x \in Range(s) : x..n \subseteq Range(s)

\* The first of the candidates in time order: with a frame goes every older one.
LEMMA OlderGoFirst ==
    ASSUME NEW n \in Nat, NEW s \in Seq(1..n), Ascending(s), NEW cands, cands = Without(s, {n}),
           NEW m \in 0..Len(cands), NEW x \in First(cands, m), NEW y \in Range(s), y < x
    PROVE  y \in First(cands, m)
PROOF
  <1>1. cands \in Seq(1..n) /\ Thins(cands, s, {n}, Len(s))
    BY WithoutThins
  <1>2. Len(cands) \in Nat /\ Len(s) \in Nat /\ m \in Nat
    BY <1>1
  <1>3. PICK i \in 1..m : x = cands[i]
    BY DEF First
  <1>4. i \in 1..Len(cands) /\ x \in 1..n
    BY <1>1, <1>2, <1>3
  <1>5. PICK j \in 1..Len(s) : y = s[j]
    BY RangeIs
  <1>6. y \in 1..n /\ y # n
    BY <1>4, <1>5
  <1>7. PICK a \in 1..Len(cands) : cands[a] = y
    BY <1>1, <1>5, <1>6 DEF Thins
  <1>8. a < i
    <2>1. a # i
      BY <1>3, <1>4, <1>6, <1>7
    <2>2. ASSUME i < a
          PROVE  FALSE
      <3>1. PICK k, l \in 1..Len(s) : k < l /\ cands[i] = s[k] /\ cands[a] = s[l]
        BY <1>1, <1>4, <2>2 DEF Thins
      <3>2. s[k] < s[l]
        BY <3>1 DEF Ascending
      <3>. QED BY <1>3, <1>4, <1>6, <1>7, <3>1, <3>2
    <2>. QED BY <1>2, <1>4, <2>1, <2>2
  <1>9. a \in 1..m
    BY <1>2, <1>8
  <1>. QED BY <1>7, <1>9 DEF First

LEMMA FramesAfterAre ==
    ASSUME loaded \in Nat, InOrder(frames, loaded)
    PROVE  InOrder(FramesAfter(loaded + 1).frames, loaded + 1)
PROOF
  <1>0. PICK n \in Nat : n = loaded
    OBVIOUS
  <1>1. PICK s : n = loaded /\ s = frames
    BY <1>0
  <1>2. s \in Seq(1..n) /\ Ascending(s) /\ (\A x \in Range(s) : x..n \subseteq Range(s))
    BY <1>1 DEF InOrder
  <1>3. PICK cands : cands = Without(s, {n})
    OBVIOUS
  <1>4. cands \in Seq(1..n) /\ Range(cands) = Range(s) \ {n} /\ Len(cands) \in Nat
    <2>1. cands \in Seq(1..n) /\ Range(cands) = Range(s) \ {n}
      BY <1>2, <1>3, WithoutIs
    <2>. QED BY <2>1
  <1>5. \E enough \in SUBSET (0..Len(cands)) :
           FramesAfter(n + 1).frames = Append(Without(s, Oldest(cands, enough)), n + 1)
    <2>1. (n + 1) - 1 = n
      OBVIOUS
    <2>. QED BY <1>1, <1>3, <2>1 DEF FramesAfter, Candidates
  <1>6. PICK m \in 0..Len(cands) :
           FramesAfter(n + 1).frames = Append(Without(s, First(cands, m)), n + 1)
    <2>1. PICK enough \in SUBSET (0..Len(cands)) :
             FramesAfter(n + 1).frames = Append(Without(s, Oldest(cands, enough)), n + 1)
      BY <1>5
    <2>2. PICK m \in 0..Len(cands) : Oldest(cands, enough) = First(cands, m)
      BY <1>4, OldestIs
    <2>. QED BY <2>1, <2>2
  <1>7. PICK gone, kept : gone = First(cands, m) /\ kept = Without(s, gone)
    OBVIOUS
  <1>8. kept \in Seq(1..n) /\ Range(kept) = Range(s) \ gone /\ Thins(kept, s, gone, Len(s))
    BY <1>2, <1>7, WithoutIs, WithoutThins
  <1>9. PICK new : new = Append(kept, n + 1)
    OBVIOUS
  <1>10. kept \in Seq(1..(n + 1)) /\ n + 1 \in 1..(n + 1)
    BY <1>8
  <1>11. /\ new \in Seq(1..(n + 1)) /\ Range(new) = Range(kept) \union {n + 1}
         /\ Len(new) = Len(kept) + 1 /\ Len(kept) \in Nat
         /\ new[Len(kept) + 1] = n + 1 /\ \A a \in 1..Len(kept) : new[a] = kept[a]
    <2>1. new \in Seq(1..(n + 1)) /\ Range(new) = Range(kept) \union {n + 1}
      BY <1>9, <1>10, AppendIs
    <2>. QED BY <1>9, <1>10, <2>1
  <1>12. Ascending(new)
    <2>. SUFFICES ASSUME NEW a \in 1..Len(new), NEW b \in 1..Len(new), a < b
                  PROVE  new[a] < new[b]
      BY DEF Ascending
    <2>1. a \in 1..Len(kept) /\ new[a] = kept[a] /\ kept[a] \in 1..n
      <3>1. PICK k \in Nat : k = Len(kept) /\ Len(new) = k + 1
        BY <1>11
      <3>2. a \in 1..k
        BY <3>1
      <3>3. a \in 1..Len(kept)
        BY <3>1, <3>2
      <3>4. kept \in Seq(1..n)
        BY <1>8
      <3>5. kept[a] \in 1..n
        BY <3>3, <3>4
      <3>. QED BY <1>11, <3>3, <3>5
    <2>2. CASE b = Len(kept) + 1
      BY <1>11, <2>1, <2>2
    <2>3. CASE b # Len(kept) + 1
      <3>1. b \in 1..Len(kept) /\ new[b] = kept[b]
        <4>1. PICK k \in Nat : k = Len(kept) /\ Len(new) = k + 1
          BY <1>11
        <4>2. b \in 1..k
          BY <2>3, <4>1
        <4>3. b \in 1..Len(kept)
          BY <4>1, <4>2
        <4>. QED BY <1>11, <4>3
      <3>2. PICK k, l \in 1..Len(s) : k < l /\ kept[a] = s[k] /\ kept[b] = s[l]
        BY <1>8, <2>1, <3>1 DEF Thins
      <3>3. s[k] < s[l]
        BY <1>2, <3>2 DEF Ascending
      <3>. QED BY <2>1, <3>1, <3>2, <3>3
    <2>. QED BY <2>2, <2>3
  <1>13. gone \subseteq Range(cands)
    BY <1>4, <1>7, FirstIs
  <1>14. ASSUME NEW x \in Range(new), NEW z \in x..(n + 1)
         PROVE  z \in Range(new)
    <2>1. CASE z = n + 1
      BY <1>11, <2>1
    <2>2. CASE z # n + 1
      <3>1. x \in Nat /\ x \in 1..(n + 1)
        <4>1. x \in 1..(n + 1)
          BY <1>11, RangeIs
        <4>. QED BY <4>1
      <3>2. z \in x..n /\ x # n + 1
        BY <2>2, <3>1
      <3>3. x \in Range(s) /\ x \notin gone
        BY <1>8, <1>11, <3>2
      <3>4. z \in Range(s)
        BY <1>2, <3>2, <3>3
      <3>5. z \notin gone
        <4>1. SUFFICES ASSUME z \in gone PROVE FALSE
          OBVIOUS
        <4>2. x < z
          BY <3>1, <3>2, <3>3, <4>1
        <4>3. x \in First(cands, m)
          BY <1>2, <1>3, <1>7, <3>3, <4>1, <4>2, OlderGoFirst
        <4>. QED BY <1>7, <3>3, <4>3
      <3>. QED BY <1>8, <1>11, <3>4, <3>5
    <2>. QED BY <2>1, <2>2
  <1>15. InOrder(new, n + 1)
    BY <1>11, <1>12, <1>14 DEF InOrder
  <1>. QED BY <1>1, <1>6, <1>7, <1>9, <1>15

-----------------------------------------------------------------------------
(***************************************************************************)
(* The inductive invariant.  The frames are in time order up to the last   *)
(* one loaded; the column cache, the session and the prepared batch agree; *)
(* and the cached transport result is exact, as the answer made from it    *)
(* has to be.                                                              *)
(***************************************************************************)

FramesPart == loaded \in 0..Jobs /\ InOrder(frames, loaded)

BatchOK ==
    \/ batch = NoBatch
    \/ batch \in [kind : Kinds \union {"boundary"}, time : Times, points : Batches,
                  pins : SUBSET ColumnKeys]

CachePart ==
    /\ phase \in {"loading", "ready", "failed"} /\ boundary \in BOOLEAN
    /\ lru \in Seq(ColumnKeys) /\ IsInjective(lru)
    /\ session \in Sessions /\ BatchOK
    /\ PinnedResident /\ SessionCounts /\ ExecutionFits
    /\ ~ boundary => session = NoSession
    /\ phase = "loading" => batch = NoBatch

\* A result has the value of each of its points at its own time.
IsExact(result) ==
    /\ result \in Results
    /\ \A i \in 1..Len(result.points) : result.rows[i] = Value(result.time, result.points[i])

QueryInv == FramesPart /\ CachePart /\ IsExact(last) /\ IsExact(answer) /\ NeverStarved

LEMMA NoResultIsExact == IsExact(NoResult)
PROOF
  <1>1. Len(NoResult.points) = 0 /\ NoResult \in Results
    BY DEF NoResult, Results
  <1>. QED BY <1>1 DEF IsExact

\* A run that has not failed, or has no batch, starves nobody.
LEMMA NotStarved ==
    ASSUME phase' # "failed" \/ batch' = NoBatch
    PROVE  NeverStarved'
BY DEF NeverStarved

LEMMA NeverStarvedStays ==
    ASSUME NeverStarved, UNCHANGED <<phase, batch, frames>>
    PROVE  NeverStarved'
BY DEF NeverStarved, Keys, WindowFrames, Pair, Exact, Before, After

\* A query that would not fit alone may fail.
LEMMA RightlyFailed ==
    ASSUME UNCHANGED frames, NEW kind, NEW time, NEW points,
           batch'.kind = kind, batch'.time = time, batch'.points = points,
           Bytes(Range(Keys(kind, time, points))) + Scratch > Budget
    PROVE  NeverStarved'
BY DEF NeverStarved, Keys, WindowFrames, Pair, Exact, Before, After

LEMMA InvInit == Init => QueryInv
PROOF
  <1>. SUFFICES ASSUME Init PROVE QueryInv
    OBVIOUS
  <1>1. /\ loaded = 0 /\ frames = <<>> /\ phase = "loading" /\ lru = <<>> /\ session = NoSession
        /\ batch = NoBatch /\ boundary = FALSE /\ last = NoResult /\ answer = NoResult
    BY DEF Init
  <1>2. FramesPart
    <2>1. Len(<<>>) = 0 /\ Range(<<>>) = {}
      BY DEF Range
    <2>2. InOrder(<<>>, 0)
      BY <2>1 DEF InOrder, Ascending
    <2>. QED BY <1>1, <2>2, QueryAssumption DEF FramesPart
  <1>3. CachePart
    <2>1. <<>> \in Seq(ColumnKeys) /\ IsInjective(<<>>) /\ Range(<<>>) = {}
      BY DEF IsInjective, Range
    <2>2. NoSession \in Sessions /\ NoSession.pins = {} /\ NoSession.bytes = 0
      BY DEF NoSession, Sessions
    <2>3. NoBatch.pins = {}
      BY DEF NoBatch
    <2>4. PinnedResident /\ SessionCounts /\ ExecutionFits
      BY <1>1, <2>1, <2>2, <2>3, BytesOfNone DEF PinnedResident, SessionCounts, ExecutionFits
    <2>. QED BY <1>1, <2>1, <2>2, <2>4 DEF CachePart, BatchOK
  <1>4. NeverStarved
    BY <1>1 DEF NeverStarved
  <1>. QED BY <1>1, <1>2, <1>3, <1>4, NoResultIsExact DEF QueryInv

LEMMA LoadFrameKeeps ==
    ASSUME QueryInv, LoadFrame
    PROVE  QueryInv'
PROOF
  <1>1. /\ phase = "loading" /\ loaded < Jobs /\ last' = NoResult
        /\ UNCHANGED <<lru, session, batch, boundary, answer>>
        /\ \/ /\ frames' = FramesAfter(loaded + 1).frames /\ loaded' = loaded + 1
              /\ phase' = phase
           \/ phase' = "failed" /\ UNCHANGED <<frames, loaded>>
    BY DEF LoadFrame
  <1>2. batch = NoBatch
    BY <1>1 DEF QueryInv, CachePart
  <1>3. FramesPart'
    <2>1. loaded \in 0..Jobs /\ InOrder(frames, loaded) /\ loaded \in Nat /\ Jobs \in Nat
      BY QueryAssumption DEF QueryInv, FramesPart
    <2>2. CASE frames' = FramesAfter(loaded + 1).frames /\ loaded' = loaded + 1
      <3>1. InOrder(FramesAfter(loaded + 1).frames, loaded + 1)
        BY <2>1, FramesAfterAre
      <3>2. loaded + 1 \in 0..Jobs
        BY <1>1, <2>1
      <3>. QED BY <2>2, <3>1, <3>2 DEF FramesPart
    <2>3. CASE UNCHANGED <<frames, loaded>>
      BY <2>1, <2>3 DEF FramesPart
    <2>. QED BY <1>1, <2>2, <2>3
  <1>4. CachePart'
    BY <1>1, <1>2 DEF QueryInv, CachePart, BatchOK, PinnedResident, SessionCounts, ExecutionFits
  <1>5. IsExact(last)' /\ IsExact(answer)'
    BY <1>1, NoResultIsExact DEF QueryInv
  <1>6. NeverStarved'
    BY <1>1, <1>2, NotStarved
  <1>. QED BY <1>3, <1>4, <1>5, <1>6 DEF QueryInv

LEMMA LoadedKeeps ==
    ASSUME QueryInv, Loaded
    PROVE  QueryInv'
PROOF
  <1>1. /\ phase = "loading" /\ phase' = "ready"
        /\ UNCHANGED <<loaded, frames, lru, session, batch, boundary, last, answer>>
    BY DEF Loaded
  <1>2. batch = NoBatch
    BY <1>1 DEF QueryInv, CachePart
  <1>3. CachePart'
    BY <1>1, <1>2 DEF QueryInv, CachePart, BatchOK, PinnedResident, SessionCounts, ExecutionFits
  <1>4. NeverStarved'
    BY <1>1, NotStarved
  <1>. QED BY <1>1, <1>3, <1>4 DEF QueryInv, FramesPart

LEMMA QueryFailsKeeps ==
    ASSUME QueryInv, NEW kind, NEW time, QueryFails(kind, time)
    PROVE  QueryInv'
PROOF
  <1>1. /\ batch = NoBatch /\ phase' = "failed"
        /\ UNCHANGED <<loaded, frames, lru, session, batch, boundary, last, answer>>
    BY DEF QueryFails, Idle
  <1>2. CachePart'
    BY <1>1 DEF QueryInv, CachePart, BatchOK, PinnedResident, SessionCounts, ExecutionFits
  <1>3. NeverStarved'
    BY <1>1, NotStarved
  <1>. QED BY <1>1, <1>2, <1>3 DEF QueryInv, FramesPart

LEMMA BoundaryTurns ==
    ASSUME QueryInv, BeginBatch \/ EndBatch
    PROVE  QueryInv'
PROOF
  <1>1. /\ batch = NoBatch /\ phase = "ready" /\ boundary' \in BOOLEAN
        /\ session' = NoSession /\ answer' = NoResult
        /\ UNCHANGED <<loaded, frames, phase, lru, batch, last>>
    BY DEF BeginBatch, EndBatch, Idle
  <1>2. CachePart'
    <2>1. NoSession \in Sessions /\ NoSession.pins = {} /\ NoSession.bytes = 0
      BY DEF NoSession, Sessions
    <2>2. PinnedResident' /\ SessionCounts' /\ ExecutionFits'
      BY <1>1, <2>1, BytesOfNone DEF QueryInv, CachePart, PinnedResident, SessionCounts, ExecutionFits
    <2>. QED BY <1>1, <2>1, <2>2 DEF QueryInv, CachePart, BatchOK
  <1>3. NeverStarved'
    BY <1>1, NotStarved
  <1>. QED BY <1>1, <1>2, <1>3, NoResultIsExact DEF QueryInv, FramesPart

LEMMA PhysicsKeeps ==
    ASSUME QueryInv, ExecutePhysics
    PROVE  QueryInv'
PROOF
  <1>1. /\ phase = "ready" /\ batch' = NoBatch
        /\ UNCHANGED <<loaded, frames, phase, lru, session, boundary, last, answer>>
    BY DEF ExecutePhysics
  <1>2. NoBatch.pins = {}
    BY DEF NoBatch
  <1>3. CachePart'
    BY <1>1, <1>2 DEF QueryInv, CachePart, BatchOK, PinnedResident, SessionCounts, ExecutionFits
  <1>4. NeverStarved'
    BY <1>1, NotStarved
  <1>. QED BY <1>1, <1>3, <1>4 DEF QueryInv, FramesPart

\* What a transport execution answers, computed or copied.
LEMMA ResultsAre ==
    ASSUME NEW points \in Batches, NEW time \in Times,
           NEW rows \in [1..Len(points) -> Times \X Points],
           \A i \in 1..Len(points) : rows[i] = Value(time, points[i])
    PROVE  IsExact([time |-> time, points |-> points, rows |-> rows])
PROOF
  <1>1. [time |-> time, points |-> points, rows |-> rows]
           \in [time : Times, points : {points}, rows : [1..Len(points) -> Times \X Points]]
    OBVIOUS
  <1>2. [time |-> time, points |-> points, rows |-> rows] \in Results
    BY <1>1 DEF Results
  <1>. QED BY <1>2 DEF IsExact

LEMMA FreshIsExact ==
    ASSUME NEW points \in Batches, NEW time \in Times
    PROVE  IsExact([time |-> time, points |-> points,
                    rows |-> [i \in 1..Len(points) |-> Value(time, points[i])]])
PROOF
  <1>1. points \in Seq(Points)
    BY QueryAssumption
  <1>2. [i \in 1..Len(points) |-> Value(time, points[i])] \in [1..Len(points) -> Times \X Points]
    BY <1>1 DEF Value
  <1>. QED BY <1>2, ResultsAre

LEMMA ReusedIsExact ==
    ASSUME NEW points \in Batches, NEW time \in Times, IsExact(last), Reusable(time, points),
           NEW rows, rows = Scan(points, last.points).rows
    PROVE  IsExact([time |-> time, points |-> points,
                    rows |-> [i \in 1..Len(rows) |-> last.rows[rows[i]]]])
PROOF
  <1>1. last # NoResult /\ last.time = time /\ Scan(points, last.points).ok
    BY DEF Reusable
  <1>2. PICK cached \in Batches :
           /\ last \in [time : Times, points : {cached}, rows : [1..Len(cached) -> Times \X Points]]
    BY <1>1 DEF IsExact, Results
  <1>3. /\ last.points = cached /\ last.rows \in [1..Len(cached) -> Times \X Points]
        /\ points \in Seq(Points) /\ cached \in Seq(Points)
    BY <1>2, QueryAssumption
  <1>4. Matches(Scan(points, cached), points, cached, Len(points))
    BY <1>3, ScanIs
  <1>5. /\ Len(rows) = Len(points) /\ rows \in Seq(1..Len(cached))
        /\ \A i \in 1..Len(points) : cached[rows[i]] = points[i]
    BY <1>1, <1>3, <1>4 DEF Matches, ScanStates
  <1>6. PICK copied : copied = [i \in 1..Len(points) |-> last.rows[rows[i]]]
    OBVIOUS
  <1>7. ASSUME NEW i \in 1..Len(points)
        PROVE  /\ rows[i] \in 1..Len(cached)
               /\ last.rows[rows[i]] \in Times \X Points
               /\ last.rows[rows[i]] = Value(time, points[i])
    <2>1. rows[i] \in 1..Len(cached)
      BY <1>5
    <2>2. last.rows[rows[i]] = Value(last.time, last.points[rows[i]])
      BY <1>3, <2>1 DEF IsExact
    <2>3. last.rows[rows[i]] \in Times \X Points
      BY <1>3, <2>1
    <2>. QED BY <1>1, <1>3, <1>5, <2>1, <2>2, <2>3
  <1>8. copied \in [1..Len(points) -> Times \X Points]
    BY <1>6, <1>7
  <1>9. \A i \in 1..Len(points) : copied[i] = Value(time, points[i])
    BY <1>6, <1>7
  <1>10. IsExact([time |-> time, points |-> points, rows |-> copied])
    BY <1>8, <1>9, ResultsAre
  <1>. QED BY <1>5, <1>6, <1>10

LEMMA ExecuteKeeps ==
    ASSUME QueryInv, NEW publish \in BOOLEAN, Execute(publish)
    PROVE  QueryInv'
PROOF
  <1>1. /\ batch.kind = "transport" /\ phase = "ready" /\ batch' = NoBatch
        /\ UNCHANGED <<loaded, frames, phase, lru, session, boundary>>
    BY DEF Execute
  <1>2. batch.points \in Batches /\ batch.time \in Times
    <2>1. batch # NoBatch
      BY <1>1 DEF NoBatch
    <2>. QED BY <2>1 DEF QueryInv, CachePart, BatchOK
  <1>3. PICK points \in Batches, time \in Times : points = batch.points /\ time = batch.time
    BY <1>2
  <1>4. IsExact(last)
    BY DEF QueryInv
  <1>5. IsExact(answer)' /\ IsExact(last)'
    <2>1. CASE Reusable(time, points)
      <3>1. PICK rows : rows = Scan(points, last.points).rows
        OBVIOUS
      <3>2. /\ answer' = [time |-> time, points |-> points,
                          rows |-> [i \in 1..Len(rows) |-> last.rows[rows[i]]]]
            /\ last' = last
        BY <1>3, <2>1, <3>1 DEF Execute
      <3>3. IsExact(answer')
        BY <1>4, <2>1, <3>1, <3>2, ReusedIsExact
      <3>. QED BY <1>4, <3>2, <3>3
    <2>2. CASE ~ Reusable(time, points)
      <3>1. /\ answer' = [time |-> time, points |-> points,
                          rows |-> [i \in 1..Len(points) |-> Value(time, points[i])]]
            /\ last' = answer' \/ last' = last
        BY <1>3, <2>2 DEF Execute
      <3>2. IsExact(answer')
        BY <3>1, FreshIsExact
      <3>. QED BY <1>4, <3>1, <3>2
    <2>. QED BY <2>1, <2>2
  <1>6. CachePart'
    <2>1. NoBatch.pins = {}
      BY DEF NoBatch
    <2>. QED BY <1>1, <2>1 DEF QueryInv, CachePart, BatchOK, PinnedResident, SessionCounts, ExecutionFits
  <1>7. NeverStarved'
    BY <1>1, NotStarved
  <1>. QED BY <1>1, <1>5, <1>6, <1>7 DEF QueryInv, FramesPart

LEMMA BatchesAreOK ==
    ASSUME NEW kind \in Kinds \union {"boundary"}, NEW time \in Times, NEW points \in Batches,
           NEW pins \in SUBSET ColumnKeys,
           batch' = [kind |-> kind, time |-> time, points |-> points, pins |-> pins]
    PROVE  /\ BatchOK'
           /\ batch'.kind = kind /\ batch'.time = time /\ batch'.points = points
           /\ batch'.pins = pins
BY DEF BatchOK

LEMMA PrepareKeeps ==
    ASSUME QueryInv, NEW kind \in Kinds, NEW time \in Times, NEW points \in Batches,
           Prepare(kind, time, points)
    PROVE  QueryInv'
PROOF
  <1>1. PICK keys \in Seq(ColumnKeys) : keys = Keys(kind, time, points)
    BY KeysAre
  <1>2. /\ phase = "ready" /\ batch = NoBatch /\ ~ boundary /\ answer' = NoResult
        /\ UNCHANGED <<loaded, frames, session, boundary, last>>
    BY DEF Prepare, Idle
  <1>3. session = NoSession /\ session.pins = {}
    BY <1>2 DEF QueryInv, CachePart, NoSession
  <1>4. PICK take : take = TakeAll(lru, {}, keys)
    OBVIOUS
  <1>5. Sound(take, {}, Range(keys))
    <2>1. lru \in Seq(ColumnKeys) /\ IsInjective(lru) /\ {} \in SUBSET ColumnKeys /\ {} \subseteq Range(lru)
      BY DEF QueryInv, CachePart
    <2>. QED BY <1>4, <2>1, TakeAllIs
  <1>6. /\ take.lru \in Seq(ColumnKeys) /\ IsInjective(take.lru) /\ take.taken \in SUBSET ColumnKeys
        /\ take.taken \subseteq Range(take.lru) /\ take.ok \in BOOLEAN
        /\ take.ok => take.taken = Range(keys)
        /\ ~ take.ok => Bytes(Range(keys)) > Budget
    BY <1>5 DEF Sound, TakeStates
  <1>7. PICK trim : trim = Trim(take.lru, take.taken, Bytes(take.taken))
    OBVIOUS
  <1>8. /\ trim.lru \in Seq(ColumnKeys) /\ IsInjective(trim.lru) /\ trim.ok \in BOOLEAN
        /\ take.taken \subseteq Range(trim.lru)
        /\ trim.ok /\ Bytes(Range(trim.lru)) <= Bytes(take.taken)
    <2>1. PICK s \in Seq(ColumnKeys), pinned \in SUBSET ColumnKeys, target \in Nat :
             s = take.lru /\ pinned = take.taken /\ target = Bytes(take.taken)
      <3>1. take.lru \in Seq(ColumnKeys) /\ take.taken \in SUBSET ColumnKeys /\ Bytes(take.taken) \in Nat
        BY <1>6, BytesAre
      <3>. QED BY <3>1
    <2>2. s \in Seq(ColumnKeys) /\ IsInjective(s) /\ pinned \intersect Range(s) = pinned /\ target \in Int
      BY <1>6, <2>1
    <2>3. trim = Trim(s, pinned, target)
      BY <1>7, <2>1
    <2>4. /\ trim.lru \in Seq(ColumnKeys) /\ IsInjective(trim.lru) /\ trim.ok \in BOOLEAN
          /\ pinned \intersect Range(s) \subseteq Range(trim.lru)
          /\ trim.ok <=> Bytes(Range(trim.lru)) <= target
          /\ Bytes(pinned \intersect Range(s)) <= target => trim.ok
      BY <2>2, <2>3, TrimIs
    <2>5. Bytes(pinned) <= target
      BY <2>1
    <2>. QED BY <2>1, <2>2, <2>4, <2>5
  <1>9. PICK fits : fits = (take.ok /\ trim.ok /\ Bytes(take.taken) + Scratch <= Budget)
    OBVIOUS
  <1>10. /\ lru' = IF take.ok THEN trim.lru ELSE take.lru
         /\ fits => /\ phase' = phase
                    /\ batch' = [kind |-> kind, time |-> time, points |-> points, pins |-> take.taken]
         /\ ~ fits => /\ phase' = "failed"
                      /\ batch' = [kind |-> kind, time |-> time, points |-> points, pins |-> {}]
    <2>1. take.taken \union {} = take.taken
      OBVIOUS
    <2>. QED BY <1>1, <1>3, <1>4, <1>7, <1>9, <2>1 DEF Prepare
  <1>11. lru' \in Seq(ColumnKeys) /\ IsInjective(lru')
    BY <1>6, <1>8, <1>10
  <1>12. kind \in Kinds \union {"boundary"} /\ Scratch \in Nat /\ Budget \in Nat
    BY QueryAssumption
  <1>13. SessionCounts' /\ session' = NoSession /\ NoSession \in Sessions /\ NoSession.pins = {}
    BY <1>2, <1>3 DEF QueryInv, CachePart, SessionCounts, NoSession
  <1>14. CachePart' /\ NeverStarved'
    <2>1. CASE fits
      <3>1. take.ok /\ Bytes(take.taken) + Scratch <= Budget /\ lru' = trim.lru /\ phase' = "ready"
        BY <1>2, <1>9, <1>10, <2>1
      <3>2. BatchOK' /\ batch'.pins = take.taken
        BY <1>6, <1>10, <1>12, <2>1, BatchesAreOK
      <3>3. PinnedResident'
        BY <1>8, <1>13, <3>1, <3>2 DEF PinnedResident
      <3>4. ExecutionFits'
        <4>1. Range(trim.lru) \in SUBSET ColumnKeys
          BY <1>8, RangeIs
        <4>2. Bytes(Range(trim.lru)) \in Nat /\ Bytes(take.taken) \in Nat
          BY <1>6, <4>1, BytesAre
        <4>3. Bytes(Range(trim.lru)) + Scratch <= Budget
          BY <1>8, <1>12, <3>1, <4>2
        <4>. QED BY <3>1, <4>3 DEF ExecutionFits
      <3>5. NeverStarved'
        BY <3>1, NotStarved
      <3>. QED BY <1>2, <1>11, <1>13, <3>1, <3>2, <3>3, <3>4, <3>5 DEF QueryInv, CachePart
    <2>2. CASE ~ fits
      <3>1. {} \in SUBSET ColumnKeys /\ phase' = "failed"
        BY <1>10, <2>2
      <3>2. BatchOK' /\ batch'.kind = kind /\ batch'.time = time /\ batch'.points = points
        BY <1>10, <1>12, <2>2, <3>1, BatchesAreOK
      <3>3. PinnedResident' /\ ExecutionFits'
        BY <3>1 DEF PinnedResident, ExecutionFits
      <3>4. Bytes(Range(keys)) + Scratch > Budget
        <4>1. Range(keys) \in SUBSET ColumnKeys
          BY RangeIs
        <4>2. PICK bytes \in Nat : bytes = Bytes(Range(keys))
          BY <4>1, BytesAre
        <4>3. CASE ~ take.ok
          BY <1>6, <1>12, <4>2, <4>3
        <4>4. CASE take.ok
          <5>1. ~ (bytes + Scratch <= Budget)
            BY <1>6, <1>8, <1>9, <2>2, <4>2, <4>4
          <5>. QED BY <1>12, <4>2, <5>1
        <4>. QED BY <4>3, <4>4
      <3>5. NeverStarved'
        BY <1>1, <1>2, <3>2, <3>4, RightlyFailed
      <3>. QED BY <1>2, <1>11, <1>13, <3>1, <3>2, <3>3, <3>5 DEF QueryInv, CachePart
    <2>. QED BY <2>1, <2>2
  <1>. QED BY <1>2, <1>14, NoResultIsExact DEF QueryInv, FramesPart

LEMMA PrepareBoundaryKeeps ==
    ASSUME QueryInv, NEW time \in Times, NEW points \in Batches, PrepareBoundary(time, points)
    PROVE  QueryInv'
PROOF
  <1>1. PICK keys \in Seq(ColumnKeys) : keys = Keys("boundary", time, points)
    BY KeysAre
  <1>2. /\ phase = "ready" /\ batch = NoBatch /\ boundary /\ answer' = NoResult
        /\ UNCHANGED <<loaded, frames, boundary, last>>
    BY DEF PrepareBoundary, Idle
  <1>3. Holds(lru, session)
    BY <1>2 DEF QueryInv, CachePart, PinnedResident, SessionCounts, Holds
  <1>4. PICK got : got = BoundaryPins(keys)
    OBVIOUS
  <1>5. /\ got \in BoundaryStates /\ Holds(got.lru, got.session)
        /\ got.ok => Range(keys) \subseteq got.session.pins
        /\ ~ got.ok => Bytes(Range(keys)) > Budget
    BY <1>3, <1>4, BoundaryPinsAre
  <1>6. PICK asked \in SUBSET ColumnKeys : asked = Range(keys)
    BY RangeIs
  <1>7. PICK done : done = Settle(got, asked)
    OBVIOUS
  <1>8. /\ done \in BoundaryStates /\ Holds(done.lru, done.session)
        /\ done.ok => /\ asked \subseteq Range(done.lru)
                      /\ Bytes(Range(done.lru)) + Scratch <= Budget
        /\ ~ done.ok => Bytes(asked) + Scratch > Budget
    BY <1>5, <1>6, <1>7, SettleIs
  <1>9. /\ lru' = done.lru /\ session' = done.session
        /\ batch' = [kind |-> "boundary", time |-> time, points |-> points,
                     pins |-> IF done.ok THEN asked ELSE {}]
        /\ phase' = IF done.ok THEN phase ELSE "failed"
    BY <1>1, <1>4, <1>6, <1>7 DEF PrepareBoundary
  <1>10. PICK pins \in SUBSET ColumnKeys : pins = IF done.ok THEN asked ELSE {}
    OBVIOUS
  <1>11. /\ BatchOK' /\ batch'.kind = "boundary" /\ batch'.time = time /\ batch'.points = points
         /\ batch'.pins = pins
    <2>1. "boundary" \in Kinds \union {"boundary"}
      OBVIOUS
    <2>2. batch' = [kind |-> "boundary", time |-> time, points |-> points, pins |-> pins]
      BY <1>9, <1>10
    <2>. QED BY <2>1, <2>2, BatchesAreOK
  <1>12. /\ lru' \in Seq(ColumnKeys) /\ IsInjective(lru') /\ session' \in Sessions
         /\ session'.pins \subseteq Range(lru') /\ SessionCounts'
    BY <1>8, <1>9 DEF Holds, SessionCounts
  <1>13. CachePart' /\ NeverStarved'
    <2>1. CASE done.ok
      <3>1. phase' = "ready" /\ pins = asked /\ asked \subseteq Range(lru')
        BY <1>2, <1>8, <1>9, <1>10, <2>1
      <3>2. PinnedResident' /\ ExecutionFits'
        BY <1>8, <1>9, <1>11, <1>12, <2>1, <3>1 DEF PinnedResident, ExecutionFits
      <3>3. NeverStarved'
        BY <3>1, NotStarved
      <3>. QED BY <1>2, <1>11, <1>12, <3>1, <3>2, <3>3 DEF QueryInv, CachePart
    <2>2. CASE ~ done.ok
      <3>1. phase' = "failed" /\ Bytes(Range(keys)) + Scratch > Budget
        BY <1>6, <1>8, <1>9, <2>2
      <3>2. PinnedResident' /\ ExecutionFits'
        BY <3>1 DEF PinnedResident, ExecutionFits
      <3>3. NeverStarved'
        BY <1>1, <1>2, <1>11, <3>1, RightlyFailed
      <3>. QED BY <1>2, <1>11, <1>12, <3>1, <3>2, <3>3 DEF QueryInv, CachePart
    <2>. QED BY <2>1, <2>2
  <1>. QED BY <1>2, <1>13, NoResultIsExact DEF QueryInv, FramesPart

LEMMA InvStep == QueryInv /\ [Next]_vars => QueryInv'
PROOF
  <1>. SUFFICES ASSUME QueryInv, [Next]_vars PROVE QueryInv'
    OBVIOUS
  <1>1. CASE LoadFrame
    BY <1>1, LoadFrameKeeps
  <1>2. CASE Loaded
    BY <1>2, LoadedKeeps
  <1>3. CASE BeginBatch \/ EndBatch
    BY <1>3, BoundaryTurns
  <1>4. CASE ExecutePhysics
    BY <1>4, PhysicsKeeps
  <1>5. CASE UNCHANGED vars
    <2>1. UNCHANGED <<loaded, frames, phase, lru, session, batch, boundary, last, answer>>
      BY <1>5 DEF vars
    <2>2. CachePart'
      BY <2>1 DEF QueryInv, CachePart, BatchOK, PinnedResident, SessionCounts, ExecutionFits
    <2>3. NeverStarved'
      BY <2>1, NeverStarvedStays DEF QueryInv
    <2>. QED BY <2>1, <2>2, <2>3 DEF QueryInv, FramesPart
  <1>6. CASE \E publish \in BOOLEAN : Execute(publish)
    BY <1>6, ExecuteKeeps
  <1>7. CASE \E time \in Times, points \in Batches, kind \in Kinds : Prepare(kind, time, points)
    BY <1>7, PrepareKeeps
  <1>8. CASE \E time \in Times, points \in Batches : PrepareBoundary(time, points)
    BY <1>8, PrepareBoundaryKeeps
  <1>9. CASE \E time \in Times, kind \in Kinds \union {"boundary"} : QueryFails(kind, time)
    BY <1>9, QueryFailsKeeps
  <1>. QED BY <1>1, <1>2, <1>3, <1>4, <1>5, <1>6, <1>7, <1>8, <1>9 DEF Next, Stopped

LEMMA InvImplies == QueryInv => CacheIsSound
PROOF
  <1>. SUFFICES ASSUME QueryInv PROVE CacheIsSound
    OBVIOUS
  <1>1. loaded \in 0..Jobs /\ loaded \in Nat /\ InOrder(frames, loaded)
    BY QueryAssumption DEF QueryInv, FramesPart
  <1>2. TypeOK
    BY <1>1 DEF QueryInv, CachePart, BatchOK, InOrder, IsExact, TypeOK, Sessions
  <1>3. FramesHaveNoHole
    <2>. SUFFICES ASSUME NEW f \in Range(frames), NEW g \in Range(frames)
                  PROVE  f..g \subseteq Range(frames)
      BY DEF FramesHaveNoHole
    <2>1. frames \in Seq(1..loaded) /\ f..loaded \subseteq Range(frames)
      BY <1>1 DEF InOrder
    <2>2. f \in 1..loaded /\ g \in 1..loaded
      BY <2>1, RangeIs
    <2>3. f..g \subseteq f..loaded
      BY <1>1, <2>2
    <2>. QED BY <2>1, <2>3
  <1>4. ReuseIsExact
    BY DEF QueryInv, IsExact, ReuseIsExact
  <1>. QED BY <1>2, <1>3, <1>4 DEF QueryInv, CachePart, CacheIsSound

\* For every budget, grid, number of frames and set of queries, in any order of
\* loading, batches, boundary queries and failures: pinned columns stay resident, the
\* session counts its own bytes, an execution never exceeds the budget, the run stops
\* only on a query that would not fit alone, the frames held have no hole, and a
\* reused transport answer is the answer to this query.
THEOREM CacheSound == Spec => []CacheIsSound
PROOF
  <1>1. QueryInv /\ [Next]_vars => QueryInv'
    BY InvStep
  <1>2. Spec => []QueryInv
    BY InvInit, <1>1, PTL DEF Spec
  <1>. QED BY <1>2, InvImplies, PTL
=============================================================================
