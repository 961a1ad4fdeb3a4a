--------------------------- MODULE Dispatch_proofs ---------------------------
(***************************************************************************)
(* Proofs about the planner and about the ticks that use it.  The first    *)
(* part has the lemmas about resource sums and about one iteration of the  *)
(* loop of `plan_dispatch', for queues of any length; the second proves    *)
(* PassIsSound of SchedulerPass, one call of the planner; the third proves *)
(* DispatchIsSound of DispatchLoop, the planner over time, from an         *)
(* inductive invariant that says what a stale read still tells.            *)
(***************************************************************************)
EXTENDS DispatchLoop, SchedulerPass, FiniteSetTheorems, TLAPS

USE BypassAssumption

-----------------------------------------------------------------------------
\* Induction over the natural numbers, without an operator parameter: a set of natural
\* numbers has a least element.

LEMMA LowestExists ==
    ASSUME NEW S \in SUBSET Nat, S # {}
    PROVE  \E l \in S : \A j \in S : l <= j
PROOF
  <1>1. IsWellFoundedOn({ss \in Nat \X Nat : ss[1] < ss[2]}, Nat)
    BY NatLessThanWellFounded DEF OpToRel
  <1>2. PICK l \in S : \A j \in S : ~ (<<j, l>> \in {ss \in Nat \X Nat : ss[1] < ss[2]})
    <2>1. \A R : IsWellFoundedOn(R, Nat) => \E x \in S : \A y \in S : ~ (<<y, x>> \in R)
      BY WFMin
    <2>. QED BY <1>1, <2>1
  <1>3. \A j \in S : ~ (j < l) /\ j \in Nat /\ l \in Nat
    BY <1>2
  <1>. QED BY <1>3

LEMMA CountUp ==
    ASSUME NEW S \in SUBSET Nat, 0 \in S, \A n \in S : n + 1 \in S
    PROVE  S = Nat
PROOF
  <1>. SUFFICES ASSUME Nat \ S # {} PROVE FALSE
    OBVIOUS
  <1>1. PICK l \in Nat \ S : \A j \in Nat \ S : l <= j
    BY LowestExists
  <1>2. l - 1 \in Nat /\ l - 1 \in S /\ (l - 1) + 1 = l
    <2>1. l # 0 /\ l \in Nat
      OBVIOUS
    <2>2. l - 1 \in Nat /\ ~ (l <= l - 1) /\ (l - 1) + 1 = l
      BY <2>1
    <2>. QED BY <1>1, <2>2
  <1>. QED BY <1>2

LEMMA SubsetInduction ==
    ASSUME NEW A, IsFiniteSet(A), NEW F,
           \A s \in SUBSET A : (\A t \in SUBSET s : t # s => t \in F) => s \in F
    PROVE  \A s \in SUBSET A : s \in F
PROOF
  <1>. DEFINE S == {n \in Nat : \A s \in SUBSET A : Cardinality(s) <= n => s \in F}
  <1>1. \A s \in SUBSET A : IsFiniteSet(s) /\ Cardinality(s) \in Nat
    BY FS_Subset, FS_CardinalityType
  <1>2. ASSUME NEW s \in SUBSET A, NEW t \in SUBSET s, t # s
        PROVE  Cardinality(t) < Cardinality(s)
    <2>1. Cardinality(t) <= Cardinality(s) /\ (Cardinality(t) = Cardinality(s) => t = s)
      BY <1>1, FS_Subset
    <2>2. Cardinality(t) \in Nat /\ Cardinality(s) \in Nat
      BY <1>1
    <2>. QED BY <1>2, <2>1, <2>2
  <1>3. 0 \in S
    <2>. SUFFICES ASSUME NEW s \in SUBSET A, Cardinality(s) <= 0 PROVE s \in F
      OBVIOUS
    <2>1. \A t \in SUBSET s : t # s => FALSE
      <3>. TAKE t \in SUBSET s
      <3>1. Cardinality(t) \in Nat /\ Cardinality(s) \in Nat
        BY <1>1
      <3>. QED BY <1>2, <3>1
    <2>. QED BY <2>1
  <1>4. \A n \in S : n + 1 \in S
    <2>. TAKE n \in S
    <2>. SUFFICES ASSUME NEW s \in SUBSET A, Cardinality(s) <= n + 1 PROVE s \in F
      OBVIOUS
    <2>1. ASSUME NEW t \in SUBSET s, t # s
          PROVE  t \in F
      <3>1. Cardinality(t) < Cardinality(s) /\ Cardinality(t) \in Nat /\ Cardinality(s) \in Nat /\ n \in Nat
        BY <1>1, <1>2, <2>1
      <3>2. Cardinality(t) <= n /\ t \in SUBSET A
        BY <3>1
      <3>. QED BY <3>2
    <2>. QED BY <2>1
  <1>5. S = Nat
    <2>. HIDE DEF S
    <2>1. S \in SUBSET Nat
      BY DEF S
    <2>. QED BY <1>3, <1>4, <2>1, CountUp
  <1>6. ASSUME NEW s \in SUBSET A
        PROVE  s \in F
    <2>1. Cardinality(s) \in Nat
      BY <1>1
    <2>2. Cardinality(s) \in S /\ Cardinality(s) <= Cardinality(s)
      BY <1>5, <2>1
    <2>. QED BY <2>2
  <1>. QED BY <1>6

-----------------------------------------------------------------------------
\* The sum of resource vectors over a finite set does not depend on the order in which
\* it is taken, although `Total' is defined by a choice of that order.

\* The function on the subsets of `runs' that Total evaluates.
Unfolds(g, wants, runs) ==
    g = [s \in SUBSET runs |->
            IF s = {} THEN Zero
            ELSE Plus(g[s \ {CHOOSE x \in s : TRUE}], wants[CHOOSE x \in s : TRUE])]

LEMMA TotalUnfolds ==
    ASSUME NEW wants, NEW runs
    PROVE  \E g : g = (CHOOSE h : Unfolds(h, wants, runs)) /\ Total(wants, runs) = g[runs]
PROOF
  <1>1. Total(wants, runs) = (CHOOSE h : Unfolds(h, wants, runs))[runs]
    BY DEF Total, FoldSet, MapThenFoldSet, Unfolds
  <1>. QED BY <1>1

LEMMA UnfoldsExists ==
    ASSUME NEW wants, NEW runs, IsFiniteSet(runs)
    PROVE  \E g : Unfolds(g, wants, runs)
PROOF
  <1>. DEFINE Level(n) == {s \in SUBSET runs : Cardinality(s) <= n}
              To(g, n) == g = [s \in Level(n) |->
                                  IF s = {} THEN Zero
                                  ELSE Plus(g[s \ {CHOOSE x \in s : TRUE}], wants[CHOOSE x \in s : TRUE])]
              S == {n \in Nat : \E g : To(g, n)}
  <1>1. \A s \in SUBSET runs : IsFiniteSet(s) /\ Cardinality(s) \in Nat
    BY FS_Subset, FS_CardinalityType
  <1>2. 0 \in S
    <2>. DEFINE g == [s \in Level(0) |-> Zero]
    <2>1. \A s \in Level(0) : s = {}
      <3>. TAKE s \in Level(0)
      <3>1. Cardinality(s) = 0
        BY <1>1
      <3>. QED BY <1>1, <3>1, FS_EmptySet
    <2>2. To(g, 0)
      BY <2>1
    <2>. QED BY <2>2
  <1>3. ASSUME NEW n \in S
        PROVE  n + 1 \in S
    <2>1. PICK g : To(g, n)
      OBVIOUS
    <2>. DEFINE Value(s) == IF s = {} THEN Zero
                            ELSE Plus(g[s \ {CHOOSE x \in s : TRUE}], wants[CHOOSE x \in s : TRUE])
                h == [s \in Level(n + 1) |-> Value(s)]
    <2>2. n \in Nat
      OBVIOUS
    <2>3. \A s \in Level(n) : s \in Level(n + 1) /\ g[s] = Value(s)
      <3>. TAKE s \in Level(n)
      <3>1. s \in Level(n + 1)
        BY <1>1, <2>2
      <3>. QED BY <2>1, <3>1
    <2>4. \A s \in Level(n) : h[s] = g[s]
      BY <2>3
    <2>5. \A s \in Level(n + 1) : s # {} => s \ {CHOOSE x \in s : TRUE} \in Level(n)
      <3>. SUFFICES ASSUME NEW s \in Level(n + 1), s # {}
                    PROVE  Cardinality(s \ {CHOOSE x \in s : TRUE}) <= n
        OBVIOUS
      <3>1. (CHOOSE x \in s : TRUE) \in s
        OBVIOUS
      <3>2. Cardinality(s \ {CHOOSE x \in s : TRUE}) = Cardinality(s) - 1
        BY <1>1, <3>1, FS_RemoveElement
      <3>3. Cardinality(s) \in Nat /\ Cardinality(s) <= n + 1
        BY <1>1
      <3>. QED BY <2>2, <3>2, <3>3
    <2>6. \A s \in Level(n + 1) :
             h[s] = IF s = {} THEN Zero
                    ELSE Plus(h[s \ {CHOOSE x \in s : TRUE}], wants[CHOOSE x \in s : TRUE])
      <3>. TAKE s \in Level(n + 1)
      <3>1. h[s] = Value(s)
        OBVIOUS
      <3>2. s # {} => h[s \ {CHOOSE x \in s : TRUE}] = g[s \ {CHOOSE x \in s : TRUE}]
        BY <2>4, <2>5
      <3>. HIDE DEF h
      <3>. QED BY <3>1, <3>2
    <2>7. To(h, n + 1)
      <3>1. h = [s \in Level(n + 1) |-> h[s]]
        OBVIOUS
      <3>. HIDE DEF h, Level
      <3>. QED BY <2>6, <3>1
    <2>. HIDE DEF h, To
    <2>. QED BY <2>2, <2>7 DEF S
  <1>4. S = Nat
    <2>. HIDE DEF S
    <2>1. S \in SUBSET Nat
      BY DEF S
    <2>. QED BY <1>2, <1>3, <2>1, CountUp
  <1>5. Cardinality(runs) \in Nat /\ Level(Cardinality(runs)) = SUBSET runs
    <2>1. \A s \in SUBSET runs : Cardinality(s) <= Cardinality(runs)
      BY FS_Subset
    <2>. QED BY <2>1, FS_CardinalityType
  <1>6. PICK g : To(g, Cardinality(runs))
    BY <1>4, <1>5
  <1>. QED BY <1>5, <1>6 DEF Unfolds

LEMMA TotalIs ==
    ASSUME NEW wants, NEW runs, IsFiniteSet(runs)
    PROVE  \E g : Unfolds(g, wants, runs) /\ Total(wants, runs) = g[runs]
BY TotalUnfolds, UnfoldsExists

LEMMA PlusIs ==
    /\ \A a, b \in Vector : Plus(a, b) \in Vector /\ Plus(a, b) = Plus(b, a)
    /\ \A a, b, c \in Vector : Plus(Plus(a, b), c) = Plus(Plus(a, c), b)
    /\ Zero \in Vector
PROOF
  <1>1. ASSUME NEW a \in Vector, NEW b \in Vector
        PROVE  Plus(a, b) \in Vector /\ Plus(a, b) = Plus(b, a)
    <2>1. a.cpu \in Nat /\ a.mem \in Nat /\ b.cpu \in Nat /\ b.mem \in Nat
      BY DEF Vector
    <2>2. a.cpu + b.cpu = b.cpu + a.cpu /\ a.mem + b.mem = b.mem + a.mem
          /\ a.cpu + b.cpu \in Nat /\ a.mem + b.mem \in Nat
      BY <2>1
    <2>. QED BY <2>2 DEF Plus, Vector
  <1>2. ASSUME NEW a \in Vector, NEW b \in Vector, NEW c \in Vector
        PROVE  Plus(Plus(a, b), c) = Plus(Plus(a, c), b)
    <2>1. /\ a.cpu \in Nat /\ b.cpu \in Nat /\ c.cpu \in Nat
          /\ a.mem \in Nat /\ b.mem \in Nat /\ c.mem \in Nat
      BY DEF Vector
    <2>2. /\ (a.cpu + b.cpu) + c.cpu = (a.cpu + c.cpu) + b.cpu
          /\ (a.mem + b.mem) + c.mem = (a.mem + c.mem) + b.mem
      BY <2>1
    <2>. QED BY <2>2 DEF Plus
  <1>3. Zero \in Vector
    BY DEF Zero, Vector
  <1>. QED BY <1>1, <1>2, <1>3

\* Whichever element is taken out first, the rest of the sum is the same.
LEMMA UnfoldsAnywhere ==
    ASSUME NEW wants, NEW runs, IsFiniteSet(runs), NEW g, Unfolds(g, wants, runs),
           \A x \in runs : wants[x] \in Vector
    PROVE  \A s \in SUBSET runs : /\ g[s] \in Vector
                                  /\ \A x \in s : g[s] = Plus(g[s \ {x}], wants[x])
PROOF
  <1>. DEFINE F == {s \in SUBSET runs : /\ g[s] \in Vector
                                        /\ \A x \in s : g[s] = Plus(g[s \ {x}], wants[x])}
  <1>1. \A s \in SUBSET runs :
           g[s] = IF s = {} THEN Zero
                  ELSE Plus(g[s \ {CHOOSE x \in s : TRUE}], wants[CHOOSE x \in s : TRUE])
    BY DEF Unfolds
  <1>2. ASSUME NEW s \in SUBSET runs, \A t \in SUBSET s : t # s => t \in F
        PROVE  s \in F
    <2>1. CASE s = {}
      BY <1>1, <2>1, PlusIs
    <2>2. CASE s # {}
      <3>1. PICK c \in s : g[s] = Plus(g[s \ {c}], wants[c])
        BY <1>1, <2>2
      <3>2. s \ {c} \in F /\ wants[c] \in Vector /\ g[s \ {c}] \in Vector
        BY <1>2, <3>1
      <3>3. g[s] \in Vector
        <4>. HIDE DEF F
        <4>1. \A a, b \in Vector : Plus(a, b) \in Vector
          BY PlusIs
        <4>. QED BY <3>1, <3>2, <4>1
      <3>4. ASSUME NEW x \in s, x # c
            PROVE  g[s] = Plus(g[s \ {x}], wants[x])
        <4>. PICK r : r = (s \ {c}) \ {x}
          OBVIOUS
        <4>1. s \ {x} \in F /\ r \in F /\ r = (s \ {x}) \ {c} /\ wants[x] \in Vector
          BY <1>2, <3>4
        <4>2. g[s \ {c}] = Plus(g[r], wants[x])
          BY <3>2, <3>4
        <4>3. g[s \ {x}] = Plus(g[r], wants[c])
          BY <3>4, <4>1
        <4>4. g[r] \in Vector
          BY <4>1
        <4>5. \A a, b, d \in Vector : Plus(Plus(a, b), d) = Plus(Plus(a, d), b)
          BY PlusIs
        <4>6. Plus(Plus(g[r], wants[x]), wants[c]) = Plus(Plus(g[r], wants[c]), wants[x])
          BY <3>2, <4>1, <4>4, <4>5
        <4>. HIDE DEF F
        <4>. QED BY <3>1, <4>2, <4>3, <4>6
      <3>. QED BY <3>1, <3>3, <3>4
    <2>. QED BY <2>1, <2>2
  <1>. HIDE DEF F
  <1>3. \A s \in SUBSET runs : s \in F
    BY <1>2, SubsetInduction
  <1>. QED BY <1>3 DEF F

\* Two sums over common runs that ask for the same are equal.
LEMMA UnfoldsAgree ==
    ASSUME NEW wants, NEW runs, IsFiniteSet(runs), NEW g, Unfolds(g, wants, runs),
           NEW other, NEW more, NEW h, Unfolds(h, other, more),
           runs \subseteq more, \A x \in runs : wants[x] = other[x]
    PROVE  \A s \in SUBSET runs : g[s] = h[s]
PROOF
  <1>. DEFINE F == {s \in SUBSET runs : g[s] = h[s]}
  <1>1. \A s \in SUBSET runs :
           /\ g[s] = IF s = {} THEN Zero
                  ELSE Plus(g[s \ {CHOOSE x \in s : TRUE}], wants[CHOOSE x \in s : TRUE])
           /\ h[s] = IF s = {} THEN Zero
                  ELSE Plus(h[s \ {CHOOSE x \in s : TRUE}], other[CHOOSE x \in s : TRUE])
    BY DEF Unfolds
  <1>2. ASSUME NEW s \in SUBSET runs, \A t \in SUBSET s : t # s => t \in F
        PROVE  s \in F
    <2>1. CASE s = {}
      BY <1>1, <2>1
    <2>2. CASE s # {}
      <3>. PICK c : c = CHOOSE x \in s : TRUE
        OBVIOUS
      <3>1. c \in s
        BY <2>2
      <3>2. s \ {c} \in F /\ wants[c] = other[c]
        BY <1>2, <3>1
      <3>. QED BY <1>1, <2>2, <3>2
    <2>. QED BY <2>1, <2>2
  <1>. HIDE DEF F
  <1>3. \A s \in SUBSET runs : s \in F
    BY <1>2, SubsetInduction
  <1>. QED BY <1>3 DEF F

-----------------------------------------------------------------------------
\* What the models use of `Total'.

LEMMA TotalOfNone == ASSUME NEW wants PROVE Total(wants, {}) = Zero
PROOF
  <1>1. IsFiniteSet({})
    BY FS_EmptySet
  <1>2. PICK g : Unfolds(g, wants, {}) /\ Total(wants, {}) = g[{}]
    BY <1>1, TotalIs
  <1>. QED BY <1>2 DEF Unfolds

LEMMA TotalIsVector ==
    ASSUME NEW wants, NEW runs, IsFiniteSet(runs), \A x \in runs : wants[x] \in Vector
    PROVE  Total(wants, runs) \in Vector
PROOF
  <1>1. PICK g : Unfolds(g, wants, runs) /\ Total(wants, runs) = g[runs]
    BY TotalIs
  <1>. QED BY <1>1, UnfoldsAnywhere

LEMMA TotalAgrees ==
    ASSUME NEW wants, NEW other, NEW runs, IsFiniteSet(runs), \A x \in runs : wants[x] = other[x]
    PROVE  Total(wants, runs) = Total(other, runs)
PROOF
  <1>1. PICK g : Unfolds(g, wants, runs) /\ Total(wants, runs) = g[runs]
    BY TotalIs
  <1>2. PICK h : Unfolds(h, other, runs) /\ Total(other, runs) = h[runs]
    BY TotalIs
  <1>. QED BY <1>1, <1>2, UnfoldsAgree

LEMMA TotalWithout ==
    ASSUME NEW wants, NEW runs, IsFiniteSet(runs), \A y \in runs : wants[y] \in Vector, NEW x \in runs
    PROVE  Total(wants, runs) = Plus(Total(wants, runs \ {x}), wants[x])
PROOF
  <1>1. PICK g : Unfolds(g, wants, runs) /\ Total(wants, runs) = g[runs]
    BY TotalIs
  <1>2. IsFiniteSet(runs \ {x})
    BY FS_Subset
  <1>3. PICK h : Unfolds(h, wants, runs \ {x}) /\ Total(wants, runs \ {x}) = h[runs \ {x}]
    BY <1>2, TotalIs
  <1>4. h[runs \ {x}] = g[runs \ {x}]
    <2>1. \A s \in SUBSET (runs \ {x}) : h[s] = g[s]
      BY <1>1, <1>2, <1>3, UnfoldsAgree
    <2>. QED BY <2>1
  <1>5. g[runs] = Plus(g[runs \ {x}], wants[x])
    BY <1>1, UnfoldsAnywhere
  <1>. QED BY <1>1, <1>3, <1>4, <1>5

LEMMA TotalWith ==
    ASSUME NEW wants, NEW runs, IsFiniteSet(runs), NEW x, x \notin runs,
           \A y \in runs \union {x} : wants[y] \in Vector
    PROVE  Total(wants, runs \union {x}) = Plus(Total(wants, runs), wants[x])
PROOF
  <1>1. IsFiniteSet(runs \union {x}) /\ x \in runs \union {x} /\ (runs \union {x}) \ {x} = runs
    BY FS_AddElement
  <1>. QED BY <1>1, TotalWithout

\* Addition respects `Fits'.
LEMMA FitsIs ==
    /\ \A a \in Vector : Fits(a, a) /\ Fits(Zero, a)
    /\ \A a, b, c \in Vector : Fits(a, b) /\ Fits(b, c) => Fits(a, c)
    /\ \A a, b, c, d \in Vector : Fits(a, b) /\ Fits(c, d) => Fits(Plus(a, c), Plus(b, d))
    /\ \A a, b \in Vector : Fits(a, Plus(a, b))
PROOF
  <1>1. \A a \in Vector : a.cpu \in Nat /\ a.mem \in Nat
    BY DEF Vector
  <1>2. \A a \in Vector : Fits(a, a) /\ Fits(Zero, a)
    BY <1>1 DEF Fits, Zero
  <1>3. \A a, b, c \in Vector : Fits(a, b) /\ Fits(b, c) => Fits(a, c)
    BY <1>1 DEF Fits
  <1>4. ASSUME NEW a \in Vector, NEW b \in Vector, NEW c \in Vector, NEW d \in Vector,
               Fits(a, b), Fits(c, d)
        PROVE  Fits(Plus(a, c), Plus(b, d))
    <2>1. a.cpu + c.cpu <= b.cpu + d.cpu /\ a.mem + c.mem <= b.mem + d.mem
      <3>1. /\ a.cpu \in Nat /\ b.cpu \in Nat /\ c.cpu \in Nat /\ d.cpu \in Nat
            /\ a.mem \in Nat /\ b.mem \in Nat /\ c.mem \in Nat /\ d.mem \in Nat
        BY <1>1
      <3>2. a.cpu <= b.cpu /\ a.mem <= b.mem /\ c.cpu <= d.cpu /\ c.mem <= d.mem
        BY <1>4 DEF Fits
      <3>. QED BY <3>1, <3>2
    <2>. QED BY <2>1 DEF Fits, Plus
  <1>5. ASSUME NEW a \in Vector, NEW b \in Vector
        PROVE  Fits(a, Plus(a, b))
    <2>1. /\ a.cpu \in Nat /\ b.cpu \in Nat /\ a.mem \in Nat /\ b.mem \in Nat
      BY <1>1
    <2>2. a.cpu <= a.cpu + b.cpu /\ a.mem <= a.mem + b.mem
      BY <2>1
    <2>. QED BY <2>2 DEF Fits, Plus
  <1>. QED BY <1>2, <1>3, <1>4, <1>5

\* A part of the runs asks for no more than all of them.
LEMMA TotalOfPart ==
    ASSUME NEW wants, NEW runs, IsFiniteSet(runs), \A x \in runs : wants[x] \in Vector,
           NEW part \in SUBSET runs
    PROVE  Fits(Total(wants, part), Total(wants, runs))
PROOF
  <1>. DEFINE F == {s \in SUBSET runs : \A u \in SUBSET s : Fits(Total(wants, u), Total(wants, s))}
  <1>1. \A s \in SUBSET runs : IsFiniteSet(s) /\ Total(wants, s) \in Vector
    <2>. TAKE s \in SUBSET runs
    <2>1. IsFiniteSet(s)
      BY FS_Subset
    <2>. QED BY <2>1, TotalIsVector
  <1>2. ASSUME NEW s \in SUBSET runs, \A t \in SUBSET s : t # s => t \in F
        PROVE  s \in F
    <2>. SUFFICES ASSUME NEW u \in SUBSET s PROVE Fits(Total(wants, u), Total(wants, s))
      OBVIOUS
    <2>1. CASE u = s
      BY <1>1, <2>1, FitsIs
    <2>2. CASE u # s
      <3>. PICK x \in s : x \notin u
        BY <2>2
      <3>1. s \ {x} \in F /\ u \in SUBSET (s \ {x})
        BY <1>2
      <3>2. Fits(Total(wants, u), Total(wants, s \ {x}))
        BY <3>1
      <3>3. Total(wants, s) = Plus(Total(wants, s \ {x}), wants[x])
        BY <1>1, TotalWithout
      <3>4. /\ Total(wants, u) \in Vector /\ Total(wants, s) \in Vector
            /\ Total(wants, s \ {x}) \in Vector /\ wants[x] \in Vector
        BY <1>1
      <3>. HIDE DEF F
      <3>5. Fits(Total(wants, s \ {x}), Total(wants, s))
        BY <3>3, <3>4, FitsIs
      <3>. QED BY <3>2, <3>4, <3>5, FitsIs
    <2>. QED BY <2>1, <2>2
  <1>. HIDE DEF F
  <1>3. \A s \in SUBSET runs : s \in F
    BY <1>2, SubsetInduction
  <1>. QED BY <1>3 DEF F

\* Two sets of runs without a common one ask for the sum of what each asks for.
LEMMA TotalOfBoth ==
    ASSUME NEW wants, NEW runs, IsFiniteSet(runs), NEW more, IsFiniteSet(more),
           runs \intersect more = {}, \A x \in runs \union more : wants[x] \in Vector
    PROVE  Total(wants, runs \union more) = Plus(Total(wants, runs), Total(wants, more))
PROOF
  <1>. DEFINE F == {s \in SUBSET more :
                       Total(wants, runs \union s) = Plus(Total(wants, runs), Total(wants, s))}
  <1>1. \A s \in SUBSET more : /\ IsFiniteSet(s) /\ Total(wants, s) \in Vector
                               /\ IsFiniteSet(runs \union s)
    <2>. TAKE s \in SUBSET more
    <2>1. IsFiniteSet(s)
      BY FS_Subset
    <2>. QED BY <2>1, TotalIsVector, FS_Union
  <1>2. Total(wants, runs) \in Vector
    BY TotalIsVector
  <1>3. ASSUME NEW s \in SUBSET more, \A t \in SUBSET s : t # s => t \in F
        PROVE  s \in F
    <2>1. CASE s = {}
      <3>1. Plus(Total(wants, runs), Zero) = Total(wants, runs)
        <4>1. PICK v \in Vector : v = Total(wants, runs)
          BY <1>2
        <4>2. v.cpu \in Nat /\ v.mem \in Nat /\ v = [cpu |-> v.cpu, mem |-> v.mem]
          BY DEF Vector
        <4>3. v.cpu + 0 = v.cpu /\ v.mem + 0 = v.mem
          BY <4>2
        <4>. QED BY <4>1, <4>2, <4>3 DEF Plus, Zero
      <3>2. runs \union s = runs
        BY <2>1
      <3>. QED BY <2>1, <3>1, <3>2, TotalOfNone
    <2>2. CASE s # {}
      <3>. PICK x \in s : TRUE
        BY <2>2
      <3>1. s \ {x} \in F
        BY <1>3
      <3>. PICK rest \in SUBSET more : rest = s \ {x}
        OBVIOUS
      <3>2. Total(wants, runs \union rest) = Plus(Total(wants, runs), Total(wants, rest))
        BY <3>1
      <3>3. Total(wants, s) = Plus(Total(wants, rest), wants[x])
        BY <1>1, TotalWithout
      <3>4. Total(wants, runs \union s) = Plus(Total(wants, runs \union rest), wants[x])
        <4>1. (runs \union s) \ {x} = runs \union rest /\ x \in runs \union s
          OBVIOUS
        <4>2. IsFiniteSet(runs \union s) /\ \A y \in runs \union s : wants[y] \in Vector
          BY <1>1
        <4>3. Total(wants, runs \union s) = Plus(Total(wants, (runs \union s) \ {x}), wants[x])
          BY <4>1, <4>2, TotalWithout
        <4>. QED BY <4>1, <4>3
      <3>5. Total(wants, rest) \in Vector /\ wants[x] \in Vector
        BY <1>1
      <3>. HIDE DEF F
      <3>6. Plus(Plus(Total(wants, runs), Total(wants, rest)), wants[x])
                = Plus(Total(wants, runs), Plus(Total(wants, rest), wants[x]))
        <4>1. \A a, b, c \in Vector : Plus(Plus(a, b), c) = Plus(a, Plus(b, c))
          <5>. TAKE a, b, c \in Vector
          <5>1. /\ a.cpu \in Nat /\ b.cpu \in Nat /\ c.cpu \in Nat
                /\ a.mem \in Nat /\ b.mem \in Nat /\ c.mem \in Nat
            BY DEF Vector
          <5>2. /\ (a.cpu + b.cpu) + c.cpu = a.cpu + (b.cpu + c.cpu)
                /\ (a.mem + b.mem) + c.mem = a.mem + (b.mem + c.mem)
            BY <5>1
          <5>. QED BY <5>2 DEF Plus
        <4>. QED BY <1>2, <3>5, <4>1
      <3>7. Total(wants, runs \union s) = Plus(Total(wants, runs), Total(wants, s))
        BY <3>2, <3>3, <3>4, <3>6
      <3>. QED BY <3>7 DEF F
    <2>. QED BY <2>1, <2>2
  <1>. HIDE DEF F
  <1>4. \A s \in SUBSET more : s \in F
    BY <1>3, SubsetInduction
  <1>. QED BY <1>4 DEF F

LEMMA ImageIsFinite ==
    ASSUME NEW places, IsFiniteSet(places), NEW run
    PROVE  /\ IsFiniteSet({run[i] : i \in places})
           /\ Cardinality({run[i] : i \in places}) <= Cardinality(places)
PROOF
  <1>. DEFINE T == {run[i] : i \in places}
              f == [i \in places |-> run[i]]
  <1>1. f \in Surjection(places, T)
    BY DEF Surjection
  <1>. HIDE DEF f, T
  <1>2. IsFiniteSet(T) /\ Cardinality(T) <= Cardinality(places)
    BY <1>1, FS_Surjection
  <1>. QED BY <1>2 DEF T

Covers(run, places, some) == \A x \in some : \E i \in places : run[i] = x

LEMMA ImagesAreFewer ==
    ASSUME NEW places, IsFiniteSet(places), NEW run, NEW some, Covers(run, places, some)
    PROVE  IsFiniteSet(some) /\ Cardinality(some) <= Cardinality(places)
PROOF
  <1>. PICK T : T = {run[i] : i \in places}
    OBVIOUS
  <1>1. IsFiniteSet(T) /\ Cardinality(T) <= Cardinality(places)
    BY ImageIsFinite
  <1>2. some \in SUBSET T
    BY DEF Covers
  <1>3. IsFiniteSet(some) /\ Cardinality(some) <= Cardinality(T)
    BY <1>1, <1>2, FS_Subset
  <1>4. Cardinality(some) \in Nat /\ Cardinality(T) \in Nat /\ Cardinality(places) \in Nat
    BY <1>1, <1>3, FS_CardinalityType
  <1>. QED BY <1>1, <1>3, <1>4

\* The runs of some positions ask for no more than is asked for at the positions.
LEMMA TotalOfImage ==
    ASSUME NEW places, IsFiniteSet(places), NEW run, NEW wants, NEW asked,
           \A i, j \in places : run[i] = run[j] => i = j,
           \A i \in places : /\ wants[run[i]] \in Vector /\ asked[i] \in Vector
                             /\ Fits(wants[run[i]], asked[i])
    PROVE  Fits(Total(wants, {run[i] : i \in places}), Total(asked, places))
PROOF
  <1>. DEFINE Image(s) == {run[i] : i \in s}
              F == {s \in SUBSET places : Fits(Total(wants, Image(s)), Total(asked, s))}
  <1>1. ASSUME NEW s \in SUBSET places
        PROVE  /\ IsFiniteSet(s) /\ IsFiniteSet(Image(s))
               /\ Total(asked, s) \in Vector /\ Total(wants, Image(s)) \in Vector
    <2>1. IsFiniteSet(s)
      BY FS_Subset
    <2>2. IsFiniteSet(Image(s))
      BY <2>1, ImageIsFinite
    <2>3. \A y \in Image(s) : wants[y] \in Vector
      OBVIOUS
    <2>. HIDE DEF Image
    <2>. QED BY <2>1, <2>2, <2>3, TotalIsVector
  <1>2. ASSUME NEW s \in SUBSET places, \A t \in SUBSET s : t # s => t \in F
        PROVE  s \in F
    <2>1. CASE s = {}
      <3>1. Image(s) = {}
        BY <2>1
      <3>. HIDE DEF Image
      <3>2. Total(wants, Image(s)) = Zero /\ Total(asked, s) = Zero
        BY <2>1, <3>1, TotalOfNone
      <3>. QED BY <3>2, PlusIs, FitsIs
    <2>2. CASE s # {}
      <3>. PICK x \in s : TRUE
        BY <2>2
      <3>1. s \ {x} \in F
        BY <1>2
      <3>. PICK rest \in SUBSET places : rest = s \ {x}
        OBVIOUS
      <3>2. Fits(Total(wants, Image(rest)), Total(asked, rest))
        BY <3>1
      <3>3. Total(asked, s) = Plus(Total(asked, rest), asked[x])
        BY <1>1, TotalWithout
      <3>4. /\ Image(s) = Image(rest) \union {run[x]} /\ run[x] \notin Image(rest)
            /\ \A y \in Image(rest) \union {run[x]} : wants[y] \in Vector
        OBVIOUS
      <3>5. /\ IsFiniteSet(Image(rest)) /\ wants[run[x]] \in Vector /\ asked[x] \in Vector
            /\ Total(asked, rest) \in Vector /\ Total(wants, Image(rest)) \in Vector
            /\ Fits(wants[run[x]], asked[x])
        BY <1>1
      <3>. HIDE DEF Image, F
      <3>6. Total(wants, Image(s)) = Plus(Total(wants, Image(rest)), wants[run[x]])
        BY <3>4, <3>5, TotalWith
      <3>7. Fits(Plus(Total(wants, Image(rest)), wants[run[x]]), Plus(Total(asked, rest), asked[x]))
        BY <3>2, <3>5, FitsIs
      <3>8. Fits(Total(wants, Image(s)), Total(asked, s))
        BY <3>3, <3>6, <3>7
      <3>. QED BY <3>8 DEF F
    <2>. QED BY <2>1, <2>2
  <1>. HIDE DEF F
  <1>3. \A s \in SUBSET places : s \in F
    BY <1>2, SubsetInduction
  <1>. QED BY <1>3 DEF F

\* If every run asks for less, they ask for less together.
LEMMA TotalOfLess ==
    ASSUME NEW runs, IsFiniteSet(runs), NEW wants, NEW asked,
           \A x \in runs : wants[x] \in Vector /\ asked[x] \in Vector /\ Fits(wants[x], asked[x])
    PROVE  Fits(Total(wants, runs), Total(asked, runs))
PROOF
  <1>. DEFINE same == [x \in runs |-> x]
  <1>1. /\ \A x \in runs : same[x] = x
        /\ {same[x] : x \in runs} = runs
    OBVIOUS
  <1>. HIDE DEF same
  <1>2. Fits(Total(wants, {same[x] : x \in runs}), Total(asked, runs))
    BY <1>1, TotalOfImage
  <1>. QED BY <1>1, <1>2

-----------------------------------------------------------------------------
\* What the catalog hands to the planner: vectors of natural numbers, and rows of
\* different runs.

Row(names) == [run : names, need : Vector, bypass : Nat]

Admitted(names, cap, used, q) ==
    /\ cap \in Vector /\ used \in Vector /\ q \in Seq(Row(names))
    /\ \A i, j \in 1..Len(q) : q[i].run = q[j].run => i = j
    /\ ~ PlanError(cap, used, q)

\* The locals of the loop keep their types.
PassType(names, p) ==
    p \in [available : Vector, remaining : Seq(Row(names)), selected : Seq(names),
           bypassed : SUBSET [run : names, bypass : Nat],
           stop : {"no", "drained", "head_reservation", "insufficient_resources"}]

\* The positions of the queue that are left, and those that are selected.
Places(q, runs) == {i \in 1..Len(q) : q[i].run \in runs}

LeftIn(q, p)   == Places(q, {p.remaining[k].run : k \in 1..Len(p.remaining)})
ChosenIn(q, p) == Places(q, {p.selected[k] : k \in 1..Len(p.selected)})

NeedsOf(q) == [i \in 1..Len(q) |-> q[i].need]

\* The k-th row that remains is the i-th of the queue.
Same(q, p, k, i) == p.remaining[k].run = q[i].run

\* The rows that remain are rows of the queue in its order, with what they ask for; only
\* the first may have another counter.
InOrder(q, p) ==
    /\ \A k \in 1..Len(p.remaining) : \E i \in 1..Len(q) :
          /\ Same(q, p, k, i) /\ p.remaining[k].need = q[i].need
          /\ k > 1 => p.remaining[k].bypass = q[i].bypass
    /\ \A k, l \in 1..Len(p.remaining), i, j \in 1..Len(q) :
          k < l /\ Same(q, p, k, i) /\ Same(q, p, l, j) => i < j

\* Every row is either left or selected, once.
Partition(q, p) ==
    /\ Cardinality(ChosenIn(q, p)) = Len(p.selected)
    /\ Cardinality(LeftIn(q, p)) = Len(p.remaining)
    /\ ChosenIn(q, p) \union LeftIn(q, p) = 1..Len(q)
    /\ ChosenIn(q, p) \intersect LeftIn(q, p) = {}

Accounted(cap, used, q, p) ==
    cap = Plus(Plus(used, Total(NeedsOf(q), ChosenIn(q, p))), p.available)

\* No row was overtaken that could start now.
NoneJumped(q, p) ==
    \A i \in LeftIn(q, p), j \in ChosenIn(q, p) : i < j => ~ Fits(NeedsOf(q)[i], p.available)

\* The front row that is left is charged for every row that overtook it.
Counted(q, p) ==
    LeftIn(q, p) # {} =>
        LET head  == Min(LeftIn(q, p))
            count == Head(p.remaining).bypass
        IN  /\ count = q[head].bypass + Cardinality({j \in ChosenIn(q, p) : j > head})
            /\ count <= MaximumHeadBypass
            /\ p.bypassed = IF count = q[head].bypass THEN {}
                            ELSE {[run |-> q[head].run, bypass |-> count]}

\* When no row is left, none is charged.
NoneCharged(q, p) == LeftIn(q, p) = {} => p.bypassed = {}

Maximal(q, p) ==
    p.stop # "no" =>
        \/ \A i \in LeftIn(q, p) : ~ Fits(NeedsOf(q)[i], p.available)
        \/ Head(p.remaining).bypass = MaximumHeadBypass

\* The invariant of the loop.
Good(names, cap, used, q, p) ==
    /\ Admitted(names, cap, used, q) /\ PassType(names, p)
    /\ InOrder(q, p) /\ Partition(q, p) /\ Accounted(cap, used, q, p)
    /\ NoneJumped(q, p) /\ Counted(q, p) /\ NoneCharged(q, p) /\ Maximal(q, p)

-----------------------------------------------------------------------------
LEMMA RemoveAtIs ==
    ASSUME NEW S, NEW s \in Seq(S), NEW k \in 1..Len(s)
    PROVE  /\ RemoveAt(s, k) \in Seq(S) /\ Len(RemoveAt(s, k)) = Len(s) - 1
           /\ \A l \in 1..Len(s) - 1 : RemoveAt(s, k)[l] = s[IF l < k THEN l ELSE l + 1]
PROOF
  <1>. DEFINE a == SubSeq(s, 1, k - 1)
              b == SubSeq(s, k + 1, Len(s))
  <1>1. a \in Seq(S) /\ Len(a) = k - 1 /\ \A l \in 1..k - 1 : a[l] = s[l]
    OBVIOUS
  <1>2. b \in Seq(S) /\ Len(b) = Len(s) - k /\ \A l \in 1..Len(s) - k : b[l] = s[k + l]
    OBVIOUS
  <1>3. RemoveAt(s, k) = a \o b
    BY DEF RemoveAt
  <1>. HIDE DEF a, b
  <1>4. a \o b \in Seq(S) /\ Len(a \o b) = Len(s) - 1
    <2>0. a \in Seq(S) /\ b \in Seq(S)
      BY <1>1, <1>2
    <2>1. a \o b \in Seq(S)
      BY <2>0
    <2>2. Len(a \o b) = Len(a) + Len(b)
      BY <2>0
    <2>3. Len(s) \in Int /\ k \in Int
      OBVIOUS
    <2>. QED BY <1>1, <1>2, <2>1, <2>2, <2>3
  <1>5. ASSUME NEW l \in 1..Len(s) - 1
        PROVE  (a \o b)[l] = s[IF l < k THEN l ELSE l + 1]
    <2>1. CASE l < k
      <3>1. l \in 1..k - 1
        BY <2>1
      <3>2. (a \o b)[l] = a[l]
        BY <1>1, <1>2, <3>1
      <3>. QED BY <1>1, <2>1, <3>1, <3>2
    <2>2. CASE ~ (l < k)
      <3>1. l - (k - 1) \in 1..Len(s) - k /\ k + (l - (k - 1)) = l + 1
        BY <2>2
      <3>2. (a \o b)[l] = b[l - (k - 1)]
        BY <1>1, <1>2, <2>2, <3>1
      <3>. QED BY <1>2, <2>2, <3>1, <3>2
    <2>. QED BY <2>1, <2>2
  <1>. QED BY <1>3, <1>4, <1>5

\* The row k of those that remain is selected, and nothing before it fits.
Takes(p, next, k) ==
    /\ k \in 1..Len(p.remaining)
    /\ Fits(p.remaining[k].need, p.available)
    /\ \A l \in 1..k - 1 : ~ Fits(p.remaining[l].need, p.available)
    /\ next.available = Minus(p.available, p.remaining[k].need)
    /\ next.selected = Append(p.selected, p.remaining[k].run)
    /\ Len(next.remaining) = Len(p.remaining) - 1
    /\ \A l \in 1..Len(p.remaining) - 1 :
          LET old == p.remaining[IF l < k THEN l ELSE l + 1]
          IN  /\ next.remaining[l].run = old.run /\ next.remaining[l].need = old.need
              /\ l > 1 => next.remaining[l].bypass = old.bypass
    /\ next.stop = "no"

\* Which q positions are left, and which are chosen, afterwards.
LEMMA TakesMoves ==
    ASSUME NEW names, NEW cap, NEW used, NEW q, NEW p, NEW next, NEW k,
           Good(names, cap, used, q, p), PassType(names, next), Takes(p, next, k)
    PROVE  \E i \in 1..Len(q) :
              /\ Same(q, p, k, i) /\ p.remaining[k].need = q[i].need
              /\ i \in LeftIn(q, p) /\ i \notin ChosenIn(q, p)
              /\ LeftIn(q, next) = LeftIn(q, p) \ {i} /\ ChosenIn(q, next) = ChosenIn(q, p) \union {i}
              /\ InOrder(q, next)
PROOF
  <1>. DEFINE rem == p.remaining
              now == next.remaining
  <1>1. /\ rem \in Seq(Row(names)) /\ now \in Seq(Row(names)) /\ q \in Seq(Row(names)) /\ p.selected \in Seq(names)
        /\ Len(now) = Len(rem) - 1 /\ k \in 1..Len(rem)
        /\ next.selected = Append(p.selected, rem[k].run)
    BY DEF Good, Admitted, PassType, Takes
  <1>2. \A l \in 1..Len(rem) - 1 :
           /\ now[l].run = rem[IF l < k THEN l ELSE l + 1].run
           /\ now[l].need = rem[IF l < k THEN l ELSE l + 1].need
           /\ l > 1 => now[l].bypass = rem[IF l < k THEN l ELSE l + 1].bypass
    BY DEF Takes
  <1>3. \A i, j \in 1..Len(q) : q[i].run = q[j].run => i = j
    BY DEF Good, Admitted
  <1>4. /\ \A l \in 1..Len(rem) : \E i \in 1..Len(q) :
             /\ rem[l].run = q[i].run /\ rem[l].need = q[i].need
             /\ l > 1 => rem[l].bypass = q[i].bypass
        /\ \A l, m \in 1..Len(rem), i, j \in 1..Len(q) :
             l < m /\ rem[l].run = q[i].run /\ rem[m].run = q[j].run => i < j
    BY DEF Good, InOrder, Same
  <1>5. PICK i \in 1..Len(q) : rem[k].run = q[i].run /\ rem[k].need = q[i].need
    BY <1>1, <1>4
  <1>6. \A j \in 1..Len(q) : j \in LeftIn(q, p) <=> \E l \in 1..Len(rem) : rem[l].run = q[j].run
    BY DEF LeftIn, Places
  <1>7. \A j \in 1..Len(q) : j \in LeftIn(q, next) <=> \E l \in 1..Len(now) : now[l].run = q[j].run
    BY <1>1 DEF LeftIn, Places
  <1>8. \A j \in 1..Len(q) :
           j \in ChosenIn(q, p) <=> \E l \in 1..Len(p.selected) : p.selected[l] = q[j].run
    BY DEF ChosenIn, Places
  <1>9. \A j \in 1..Len(q) :
           j \in ChosenIn(q, next) <=> \E l \in 1..Len(next.selected) : next.selected[l] = q[j].run
    BY <1>1 DEF ChosenIn, Places
  <1>10. /\ LeftIn(q, p) \subseteq 1..Len(q) /\ ChosenIn(q, p) \subseteq 1..Len(q)
         /\ LeftIn(q, next) \subseteq 1..Len(q) /\ ChosenIn(q, next) \subseteq 1..Len(q)
         /\ LeftIn(q, p) \intersect ChosenIn(q, p) = {}
    BY <1>1 DEF LeftIn, ChosenIn, Places, Good, Partition
  <1>. HIDE DEF rem, now
  <1>11. i \in LeftIn(q, p) /\ i \notin ChosenIn(q, p)
    BY <1>1, <1>5, <1>6, <1>10
  <1>12. \A l, m \in 1..Len(rem) : rem[l].run = rem[m].run => l = m
    <2>. SUFFICES ASSUME NEW l \in 1..Len(rem), NEW m \in 1..Len(rem), rem[l].run = rem[m].run, l < m
                  PROVE  FALSE
      BY <1>1
    <2>1. PICK j \in 1..Len(q) : rem[l].run = q[j].run
      BY <1>4
    <2>2. j < j
      BY <1>4, <2>1
    <2>. QED BY <1>1, <2>2
  <1>13. \A j \in 1..Len(q) : j \in LeftIn(q, next) <=> j \in LeftIn(q, p) /\ j # i
    <2>. TAKE j \in 1..Len(q)
    <2>1. ASSUME NEW l \in 1..Len(now), now[l].run = q[j].run
          PROVE  j \in LeftIn(q, p) /\ j # i
      <3>. DEFINE o == IF l < k THEN l ELSE l + 1
      <3>1. o \in 1..Len(rem) /\ o # k /\ rem[o].run = q[j].run
        <4>1. PICK n \in Nat : n = Len(rem) /\ Len(now) = n - 1
          BY <1>1
        <4>2. l \in 1..n - 1 /\ k \in 1..n
          BY <1>1, <2>1, <4>1
        <4>3. o \in 1..n /\ o # k
          BY <4>2
        <4>4. now[l].run = rem[o].run
          BY <1>2, <4>1, <4>2
        <4>. QED BY <2>1, <4>1, <4>3, <4>4
      <3>. QED BY <1>1, <1>5, <1>6, <1>12, <3>1
    <2>2. ASSUME NEW o \in 1..Len(rem), rem[o].run = q[j].run, j # i
          PROVE  \E l \in 1..Len(now) : now[l].run = q[j].run
      <3>1. o # k
        BY <1>3, <1>5, <2>2
      <3>. DEFINE l == IF o < k THEN o ELSE o - 1
      <3>2. l \in 1..Len(rem) - 1 /\ (IF l < k THEN l ELSE l + 1) = o
        BY <1>1, <3>1
      <3>. QED BY <1>1, <1>2, <2>2, <3>2
    <2>. QED BY <1>6, <1>7, <2>1, <2>2
  <1>14. \A j \in 1..Len(q) : j \in ChosenIn(q, next) <=> j \in ChosenIn(q, p) \/ j = i
    <2>1. /\ Len(next.selected) = Len(p.selected) + 1
          /\ next.selected[Len(p.selected) + 1] = rem[k].run
          /\ \A l \in 1..Len(p.selected) : next.selected[l] = p.selected[l]
          /\ Len(p.selected) \in Nat
      BY <1>1
    <2>. TAKE j \in 1..Len(q)
    <2>2. (\E l \in 1..Len(next.selected) : next.selected[l] = q[j].run)
            <=> \/ \E l \in 1..Len(p.selected) : p.selected[l] = q[j].run
                \/ rem[k].run = q[j].run
      <3>1. \A l : l \in 1..Len(next.selected)
                      <=> l \in 1..Len(p.selected) \/ l = Len(p.selected) + 1
        BY <2>1
      <3>. QED BY <2>1, <3>1
    <2>3. rem[k].run = q[j].run <=> j = i
      BY <1>3, <1>5
    <2>. QED BY <1>8, <1>9, <2>2, <2>3
  <1>15. LeftIn(q, next) = LeftIn(q, p) \ {i} /\ ChosenIn(q, next) = ChosenIn(q, p) \union {i}
    BY <1>10, <1>13, <1>14
  <1>16. \A l \in 1..Len(now) : \E j \in 1..Len(q) :
             /\ now[l].run = q[j].run /\ now[l].need = q[j].need
             /\ l > 1 => now[l].bypass = q[j].bypass
    <2>. TAKE l \in 1..Len(now)
    <2>. PICK o : o = IF l < k THEN l ELSE l + 1
      OBVIOUS
    <2>1. o \in 1..Len(rem) /\ (l > 1 => o > 1) /\ l \in 1..Len(rem) - 1
      BY <1>1
    <2>2. /\ now[l].run = rem[o].run /\ now[l].need = rem[o].need
          /\ l > 1 => now[l].bypass = rem[o].bypass
      BY <1>2, <2>1
    <2>. QED BY <1>4, <2>1, <2>2
  <1>17. \A l, m \in 1..Len(now), g, j \in 1..Len(q) :
             l < m /\ now[l].run = q[g].run /\ now[m].run = q[j].run => g < j
    <2>. TAKE l, m \in 1..Len(now), g, j \in 1..Len(q)
    <2>. HAVE l < m /\ now[l].run = q[g].run /\ now[m].run = q[j].run
    <2>. PICK o : o = IF l < k THEN l ELSE l + 1
      OBVIOUS
    <2>. PICK w : w = IF m < k THEN m ELSE m + 1
      OBVIOUS
    <2>1. /\ o \in 1..Len(rem) /\ w \in 1..Len(rem) /\ o < w
          /\ l \in 1..Len(rem) - 1 /\ m \in 1..Len(rem) - 1
      BY <1>1
    <2>2. rem[o].run = q[g].run /\ rem[w].run = q[j].run
      BY <1>2, <2>1
    <2>3. o \in 1..Len(rem) /\ w \in 1..Len(rem) /\ o < w
      BY <2>1
    <2>. QED BY <1>4, <2>2, <2>3, SMTT(60)
  <1>18. InOrder(q, next)
    BY <1>1, <1>16, <1>17 DEF InOrder, Same, now
  <1>. QED BY <1>5, <1>11, <1>15, <1>18 DEF Same, rem

-----------------------------------------------------------------------------
\* The first row that remains is the lowest position that is left.

LEMMA MinIs ==
    ASSUME NEW S \in SUBSET Int, NEW h \in S, \A y \in S : h <= y
    PROVE  Min(S) = h
PROOF
  <1>1. \A x \in S : (\A y \in S : x <= y) => x = h
    <2>. TAKE x \in S
    <2>1. x \in Int /\ h \in Int
      OBVIOUS
    <2>. QED BY <2>1
  <1>. QED BY <1>1 DEF Min

FirstAt(q, p, h) ==
    /\ h \in LeftIn(q, p) /\ Min(LeftIn(q, p)) = h /\ \A i \in LeftIn(q, p) : h <= i
    /\ Same(q, p, 1, h) /\ p.remaining[1].need = q[h].need

LEMMA FirstIsLowest ==
    ASSUME NEW names, NEW cap, NEW used, NEW q, NEW p,
           Admitted(names, cap, used, q), PassType(names, p), InOrder(q, p), p.remaining # <<>>
    PROVE  \E h \in 1..Len(q) : FirstAt(q, p, h)
PROOF
  <1>1. /\ p.remaining \in Seq(Row(names)) /\ q \in Seq(Row(names)) /\ 1 \in 1..Len(p.remaining)
        /\ \A i, j \in 1..Len(q) : q[i].run = q[j].run => i = j
    BY DEF Admitted, PassType
  <1>2. PICK h \in 1..Len(q) : Same(q, p, 1, h) /\ p.remaining[1].need = q[h].need
    BY <1>1 DEF InOrder
  <1>3. h \in LeftIn(q, p)
    BY <1>1, <1>2 DEF LeftIn, Places, Same
  <1>4. ASSUME NEW i \in LeftIn(q, p)
        PROVE  h <= i /\ i \in Int
    <2>1. PICK l \in 1..Len(p.remaining) : i \in 1..Len(q) /\ Same(q, p, l, i)
      BY DEF LeftIn, Places, Same
    <2>2. CASE l = 1
      <3>1. q[h].run = q[i].run
        BY <1>2, <2>1, <2>2 DEF Same
      <3>. QED BY <1>1, <2>1, <3>1
    <2>3. CASE l # 1
      <3>1. 1 < l
        BY <2>3
      <3>2. h < i
        BY <1>1, <1>2, <2>1, <3>1 DEF InOrder
      <3>. QED BY <2>1, <3>2
    <2>. QED BY <2>2, <2>3
  <1>5. Min(LeftIn(q, p)) = h
    BY <1>3, <1>4, MinIs
  <1>. QED BY <1>2, <1>3, <1>4, <1>5 DEF FirstAt

\* A row that is left is one of those that remain, with what it asks for.
LEMMA LeftRemains ==
    ASSUME NEW names, NEW cap, NEW used, NEW q, NEW p,
           Good(names, cap, used, q, p), NEW i \in LeftIn(q, p)
    PROVE  \E l \in 1..Len(p.remaining) :
              Same(q, p, l, i) /\ p.remaining[l].need = q[i].need /\ i \in 1..Len(q)
PROOF
  <1>1. PICK l \in 1..Len(p.remaining) : i \in 1..Len(q) /\ Same(q, p, l, i)
    BY DEF LeftIn, Places, Same
  <1>2. PICK j \in 1..Len(q) : Same(q, p, l, j) /\ p.remaining[l].need = q[j].need
    BY DEF Good, InOrder
  <1>3. i = j
    BY <1>1, <1>2 DEF Same, Good, Admitted
  <1>. QED BY <1>1, <1>2, <1>3

-----------------------------------------------------------------------------
\* A selection keeps the books and overtakes only rows that do not fit.

LEMMA PlacesAreFinite ==
    ASSUME NEW names, NEW cap, NEW used, NEW q, NEW p
    PROVE  /\ LeftIn(q, p) \subseteq 1..Len(q) /\ ChosenIn(q, p) \subseteq 1..Len(q)
           /\ Admitted(names, cap, used, q) => IsFiniteSet(LeftIn(q, p)) /\ IsFiniteSet(ChosenIn(q, p))
PROOF
  <1>1. LeftIn(q, p) \subseteq 1..Len(q) /\ ChosenIn(q, p) \subseteq 1..Len(q)
    BY DEF LeftIn, ChosenIn, Places
  <1>2. ASSUME Admitted(names, cap, used, q)
        PROVE  IsFiniteSet(1..Len(q))
    <2>1. Len(q) \in Int
      BY <1>2 DEF Admitted
    <2>. QED BY <2>1, FS_Interval
  <1>. QED BY <1>1, <1>2, FS_Subset

LEMMA MinusGivesBack ==
    ASSUME NEW a \in Vector, NEW t \in Vector, NEW n \in Vector, NEW f \in Vector, Fits(n, f)
    PROVE  Plus(Plus(a, t), f) = Plus(Plus(a, Plus(t, n)), Minus(f, n))
PROOF
  <1>1. /\ a.cpu \in Nat /\ t.cpu \in Nat /\ n.cpu \in Nat /\ f.cpu \in Nat
        /\ a.mem \in Nat /\ t.mem \in Nat /\ n.mem \in Nat /\ f.mem \in Nat
    BY DEF Vector
  <1>2. \A u, v, w, x \in Nat : (u + v) + x = (u + (v + w)) + (x - w)
    OBVIOUS
  <1>. QED BY <1>1, <1>2 DEF Plus, Minus

LEMMA TakesKeeps ==
    ASSUME NEW names, NEW cap, NEW used, NEW q, NEW p, NEW next, NEW k,
           Good(names, cap, used, q, p), PassType(names, next), Takes(p, next, k)
    PROVE  /\ InOrder(q, next) /\ Partition(q, next) /\ NoneJumped(q, next)
           /\ Accounted(cap, used, q, next)
PROOF
  <1>1. PICK i \in 1..Len(q) :
              /\ Same(q, p, k, i) /\ p.remaining[k].need = q[i].need
              /\ i \in LeftIn(q, p) /\ i \notin ChosenIn(q, p)
              /\ LeftIn(q, next) = LeftIn(q, p) \ {i} /\ ChosenIn(q, next) = ChosenIn(q, p) \union {i}
              /\ InOrder(q, next)
    BY TakesMoves
  <1>2. Admitted(names, cap, used, q)
    BY DEF Good, Admitted, Takes
  <1>3. /\ p.remaining \in Seq(Row(names)) /\ p.selected \in Seq(names)
        /\ k \in 1..Len(p.remaining) /\ q \in Seq(Row(names))
        /\ p.available \in Vector /\ next.available \in Vector
        /\ next.available = Minus(p.available, p.remaining[k].need)
        /\ p.remaining[k].need \in Vector
    <2>1. p.remaining \in Seq(Row(names)) /\ k \in 1..Len(p.remaining)
      BY DEF Good, PassType, Takes
    <2>2. p.remaining[k] \in Row(names)
      BY <2>1
    <2>. QED BY <2>1, <2>2 DEF Good, PassType, Takes, Admitted, Row
  <1>4. IsFiniteSet(LeftIn(q, p)) /\ IsFiniteSet(ChosenIn(q, p))
    BY PlacesAreFinite DEF Good
  <1>5. Cardinality(LeftIn(q, next)) = Cardinality(LeftIn(q, p)) - 1 /\ Cardinality(ChosenIn(q, next)) = Cardinality(ChosenIn(q, p)) + 1
    <2>1. Cardinality(LeftIn(q, p) \ {i}) = Cardinality(LeftIn(q, p)) - 1
      BY <1>1, <1>4, FS_RemoveElement
    <2>2. Cardinality(ChosenIn(q, p) \union {i}) = Cardinality(ChosenIn(q, p)) + 1
      BY <1>1, <1>4, FS_AddElement
    <2>. QED BY <1>1, <2>1, <2>2
  <1>6. Partition(q, next)
    <2>1. Len(next.remaining) = Len(p.remaining) - 1
      BY DEF Takes
    <2>2. Len(next.selected) = Len(p.selected) + 1
      BY <1>3 DEF Takes
    <2>3. ChosenIn(q, next) \union LeftIn(q, next) = 1..Len(q) /\ ChosenIn(q, next) \intersect LeftIn(q, next) = {}
      BY <1>1, <1>2 DEF Good, Partition
    <2>4. Cardinality(ChosenIn(q, next)) = Len(next.selected) /\ Cardinality(LeftIn(q, next)) = Len(next.remaining)
      BY <1>5, <2>1, <2>2 DEF Good, Partition
    <2>5. cap' \in Vector /\ used' \in Vector
      BY <1>2 DEF Admitted
    <2>. QED BY <1>3, <2>3, <2>4, <2>5 DEF Partition, Takes
  <1>7. NoneJumped(q, next)
    <2>. SUFFICES ASSUME NEW g \in LeftIn(q, next), NEW j \in ChosenIn(q, next), g < j
                  PROVE  ~ Fits(q[g].need, next.available)
      BY <1>1, <1>2, PlacesAreFinite DEF NoneJumped, NeedsOf
    <2>1. g \in LeftIn(q, p) /\ g # i /\ g \in 1..Len(q)
      BY <1>1, PlacesAreFinite
    <2>2. q[g].need \in Vector
      <3>1. q[g] \in Row(names)
        BY <1>3, <2>1
      <3>. QED BY <3>1 DEF Row
    <2>3. ~ Fits(q[g].need, p.available)
      <3>1. CASE j \in ChosenIn(q, p)
        BY <2>1, <3>1 DEF Good, NoneJumped, NeedsOf
      <3>2. CASE j = i
        <4>1. PICK l \in 1..Len(p.remaining) :
                 Same(q, p, l, g) /\ p.remaining[l].need = q[g].need
          BY <2>1, LeftRemains
        <4>2. l # k
          BY <1>1, <2>1, <4>1 DEF Same, Good, Admitted
        <4>3. ~ (k < l)
          BY <1>1, <1>3, <2>1, <3>2, <4>1 DEF Good, InOrder
        <4>4. l \in 1..k - 1
          BY <1>3, <4>2, <4>3
        <4>. QED BY <4>1, <4>4 DEF Takes
      <3>. QED BY <1>1, <3>1, <3>2
    <2>4. next.available.cpu <= p.available.cpu /\ next.available.mem <= p.available.mem
      <3>. PICK a, n : a = p.available /\ n = p.remaining[k].need
        OBVIOUS
      <3>1. a \in Vector /\ n \in Vector /\ next.available = Minus(a, n)
        BY <1>3
      <3>2. a.cpu - n.cpu <= a.cpu /\ a.mem - n.mem <= a.mem
        <4>1. a.cpu \in Nat /\ n.cpu \in Nat /\ a.mem \in Nat /\ n.mem \in Nat
          BY <3>1 DEF Vector
        <4>2. \A x, y \in Nat : x - y <= x
          OBVIOUS
        <4>. QED BY <4>1, <4>2
      <3>. QED BY <3>1, <3>2 DEF Minus
    <2>. QED BY <1>3, <2>2, <2>3, <2>4 DEF Fits, Vector
  <1>8. Accounted(cap, used, q, next)
    <2>. PICK t, n, f : t = Total(NeedsOf(q), ChosenIn(q, p)) /\ n = q[i].need /\ f = p.available
      OBVIOUS
    <2>1. \A j \in 1..Len(q) : NeedsOf(q)[j] \in Vector
      <3>. TAKE j \in 1..Len(q)
      <3>1. q[j] \in Row(names)
        BY <1>3
      <3>. QED BY <3>1 DEF NeedsOf, Row
    <2>2. Total(NeedsOf(q), ChosenIn(q, next)) = Plus(t, n)
      <3>1. \A j \in ChosenIn(q, p) \union {i} : NeedsOf(q)[j] \in Vector
        BY <2>1, PlacesAreFinite
      <3>2. NeedsOf(q)[i] = n
        BY DEF NeedsOf
      <3>. QED BY <1>1, <1>4, <3>1, <3>2, TotalWith
    <2>3. t \in Vector /\ n \in Vector /\ f \in Vector /\ used \in Vector /\ Fits(n, f)
      <3>1. t \in Vector
        BY <1>4, <2>1, PlacesAreFinite, TotalIsVector
      <3>. QED BY <1>1, <1>3, <3>1 DEF Good, Admitted, Takes
    <2>4. cap = Plus(Plus(used, t), f) /\ next.available = Minus(f, n)
      BY <1>1, <1>3 DEF Good, Accounted
    <2>5. Plus(Plus(used, t), f) = Plus(Plus(used, Plus(t, n)), Minus(f, n))
      BY <2>3, MinusGivesBack
    <2>. QED BY <2>2, <2>4, <2>5 DEF Accounted
  <1>. QED BY <1>1, <1>2, <1>6, <1>7, <1>8

-----------------------------------------------------------------------------
LEMMA FittingIsFree ==
    ASSUME NEW free \in Vector, NEW wants \in Vector, Fits(wants, free)
    PROVE  Minus(free, wants) \in Vector
PROOF
  <1>1. /\ free.cpu \in Nat /\ wants.cpu \in Nat /\ wants.cpu <= free.cpu
        /\ free.mem \in Nat /\ wants.mem \in Nat /\ wants.mem <= free.mem
    BY DEF Vector, Fits
  <1>2. \A x, y \in Nat : y <= x => x - y \in Nat
    OBVIOUS
  <1>. QED BY <1>1, <1>2 DEF Minus, Vector

\* Every row of the q passed the checks before the loop.
LEMMA RowsAreAdmitted ==
    ASSUME NEW names, NEW cap, NEW used, NEW q,
           Admitted(names, cap, used, q), NEW g \in 1..Len(q)
    PROVE  q[g].bypass <= MaximumHeadBypass /\ q[g].bypass \in Nat
PROOF
  <1>1. q[g] \in Row(names)
    BY DEF Admitted
  <1>2. q[g].bypass \in Nat
    BY <1>1 DEF Row
  <1>3. ~ (q[g].bypass > MaximumHeadBypass)
    BY DEF Admitted, PlanError
  <1>. QED BY <1>2, <1>3, BypassAssumption

\* The call starts with every row left.

LEMMA StartIsGood ==
    ASSUME NEW names, NEW cap, NEW used, NEW q, NEW p,
           Admitted(names, cap, used, q), p = StartPass(cap, used, q)
    PROVE  Good(names, cap, used, q, p)
PROOF
  <1>1. Admitted(names, cap, used, q)
    OBVIOUS
  <1>2. /\ p.available = Minus(cap, used) /\ p.remaining = q
        /\ p.selected = <<>> /\ p.bypassed = {} /\ p.stop = "no"
        /\ p = [available |-> Minus(cap, used), remaining |-> q,
                   selected |-> <<>>, bypassed |-> {}, stop |-> "no"]
    BY DEF StartPass
  <1>3. Minus(cap, used) \in Vector
    BY <1>1, FittingIsFree DEF Admitted, PlanError
  <1>4. PassType(names, p)
    <2>1. q \in Seq(Row(names)) /\ <<>> \in Seq(names)
      BY <1>1 DEF Admitted
    <2>2. {} \in SUBSET [run : names, bypass : Nat]
      OBVIOUS
    <2>. QED BY <1>2, <1>3, <2>1, <2>2 DEF PassType
  <1>5. LeftIn(q, p) = 1..Len(q) /\ ChosenIn(q, p) = {}
    BY <1>2 DEF LeftIn, ChosenIn, Places
  <1>6. InOrder(q, p)
    <2>1. \A k \in 1..Len(q) : \E i \in 1..Len(q) :
             /\ q[k].run = q[i].run /\ q[k].need = q[i].need
             /\ k > 1 => q[k].bypass = q[i].bypass
      OBVIOUS
    <2>2. \A k, l \in 1..Len(q), i, j \in 1..Len(q) :
             k < l /\ q[k].run = q[i].run /\ q[l].run = q[j].run => i < j
      BY <1>1 DEF Admitted
    <2>. QED BY <1>2, <2>1, <2>2 DEF InOrder, Same
  <1>7. Partition(q, p)
    <2>1. Len(q) \in Nat
      BY <1>1 DEF Admitted
    <2>2. Cardinality(1..Len(q)) = Len(q)
      <3>1. Cardinality(1..Len(q)) = IF 1 > Len(q) THEN 0 ELSE Len(q) - 1 + 1
        BY <2>1, FS_Interval
      <3>. QED BY <2>1, <3>1
    <2>3. Cardinality(ChosenIn(q, p)) = Len(p.selected)
      BY <1>2, <1>5, FS_EmptySet
    <2>4. Cardinality(LeftIn(q, p)) = Len(p.remaining)
      BY <1>2, <1>5, <2>2
    <2>. QED BY <1>1, <1>2, <1>3, <1>5, <2>3, <2>4 DEF Partition, Admitted
  <1>8. NoneJumped(q, p) /\ Maximal(q, p) /\ NoneCharged(q, p)
    BY <1>2, <1>5 DEF NoneJumped, Maximal, NoneCharged
  <1>9. Counted(q, p)
    <2>. SUFFICES ASSUME LeftIn(q, p) # {}
                  PROVE  /\ Head(p.remaining).bypass = q[Min(LeftIn(q, p))].bypass
                         /\ Head(p.remaining).bypass
                              = q[Min(LeftIn(q, p))].bypass + Cardinality({j \in ChosenIn(q, p) : j > Min(LeftIn(q, p))})
                         /\ Head(p.remaining).bypass <= MaximumHeadBypass
      BY <1>2 DEF Counted
    <2>1. Len(q) \in Nat /\ q \in Seq(Row(names)) /\ 1 \in 1..Len(q)
      <3>1. PICK l \in LeftIn(q, p) : TRUE
        OBVIOUS
      <3>2. Len(q) \in Nat /\ q \in Seq(Row(names))
        BY <1>1 DEF Admitted
      <3>. QED BY <1>5, <3>1, <3>2
    <2>2. Min(LeftIn(q, p)) = 1
      <3>1. LeftIn(q, p) \in SUBSET Int /\ 1 \in LeftIn(q, p) /\ \A y \in LeftIn(q, p) : 1 <= y
        BY <1>5, <2>1
      <3>. QED BY <3>1, MinIs
    <2>3. {j \in ChosenIn(q, p) : j > Min(LeftIn(q, p))} = {}
      BY <1>5
    <2>4. q[1].bypass \in Nat /\ q[1].bypass <= MaximumHeadBypass
      BY <1>1, <2>1, RowsAreAdmitted
    <2>6. Head(p.remaining) = q[1]
      BY <1>2, <2>1
    <2>7. Cardinality({j \in ChosenIn(q, p) : j > Min(LeftIn(q, p))}) = 0
      BY <2>3, FS_EmptySet
    <2>. QED BY <1>2, <2>2, <2>4, <2>6, <2>7
  <1>10. Accounted(cap, used, q, p)
    <2>1. Total(NeedsOf(q), ChosenIn(q, p)) = Zero
      BY <1>5, TotalOfNone
    <2>2. /\ cap.cpu \in Nat /\ used.cpu \in Nat /\ cap.mem \in Nat /\ used.mem \in Nat
          /\ cap = [cpu |-> cap.cpu, mem |-> cap.mem]
      BY <1>1 DEF Admitted, Vector
    <2>3. \A x, y \in Nat : (y + 0) + (x - y) = x
      OBVIOUS
    <2>4. /\ (used.cpu + 0) + (cap.cpu - used.cpu) = cap.cpu
          /\ (used.mem + 0) + (cap.mem - used.mem) = cap.mem
      BY <2>2, <2>3
    <2>. QED BY <1>2, <2>1, <2>2, <2>4 DEF Accounted, Plus, Minus, Zero
  <1>. QED BY <1>1, <1>4, <1>6, <1>7, <1>8, <1>9, <1>10 DEF Good

-----------------------------------------------------------------------------
\* The head fits: nobody was overtaken, and nobody is now.

LEMMA HeadKeeps ==
    ASSUME NEW names, NEW cap, NEW used, NEW q, NEW p, NEW next,
           Good(names, cap, used, q, p), p.stop = "no", HeadFits(p), next = TakeHead(p)
    PROVE  Good(names, cap, used, q, next)
PROOF
  <1>. PICK rem : rem = p.remaining
    OBVIOUS
  <1>1. /\ rem \in Seq(Row(names)) /\ rem # <<>> /\ Head(rem) = rem[1] /\ 1 \in 1..Len(rem)
        /\ rem[1] \in Row(names) /\ p.selected \in Seq(names)
    <2>1. rem \in Seq(Row(names)) /\ rem # <<>> /\ p.selected \in Seq(names)
      BY DEF Good, PassType, HeadFits
    <2>2. 1 \in 1..Len(rem) /\ Head(rem) = rem[1]
      BY <2>1
    <2>. QED BY <2>1, <2>2
  <1>2. /\ next.available = Minus(p.available, rem[1].need)
        /\ next.remaining = Tail(rem) /\ next.stop = "no"
        /\ next.selected = Append(p.selected, rem[1].run)
        /\ next.bypassed = p.bypassed
        /\ next = [available |-> next.available, remaining |-> next.remaining,
                    selected |-> next.selected, bypassed |-> next.bypassed, stop |-> "no"]
    BY <1>1 DEF TakeHead, Good, PassType
  <1>3. Fits(rem[1].need, p.available)
    BY <1>1 DEF HeadFits
  <1>4. /\ Tail(rem) \in Seq(Row(names)) /\ Len(Tail(rem)) = Len(rem) - 1
        /\ \A l \in 1..Len(rem) - 1 : Tail(rem)[l] = rem[l + 1]
    BY <1>1
  <1>5. Minus(p.available, rem[1].need) \in Vector
    <2>1. p.available \in Vector /\ rem[1].need \in Vector
      BY <1>1 DEF Good, PassType, Row
    <2>. QED BY <1>3, <2>1, FittingIsFree
  <1>6. PassType(names, next)
    <2>1. Append(p.selected, rem[1].run) \in Seq(names)
      <3>1. rem[1].run \in names
        BY <1>1 DEF Row
      <3>. QED BY <1>1, <3>1
    <2>. QED BY <1>2, <1>4, <1>5, <2>1 DEF PassType, Good
  <1>7. Takes(p, next, 1)
    BY <1>1, <1>2, <1>3, <1>4 DEF Takes
  <1>8. /\ Admitted(names, cap, used, q) /\ InOrder(q, next) /\ Partition(q, next)
        /\ NoneJumped(q, next) /\ Accounted(cap, used, q, next)
    BY <1>6, <1>7, TakesKeeps DEF Good
  <1>9. PICK i \in 1..Len(q) :
              /\ Same(q, p, 1, i) /\ rem[1].need = q[i].need
              /\ i \in LeftIn(q, p) /\ LeftIn(q, next) = LeftIn(q, p) \ {i} /\ ChosenIn(q, next) = ChosenIn(q, p) \union {i}
    BY <1>6, <1>7, TakesMoves
  <1>10. PICK h \in 1..Len(q) : FirstAt(q, p, h)
    BY <1>1, FirstIsLowest DEF Good
  <1>11. h = i
    BY <1>9, <1>10 DEF FirstAt, Same, Good, Admitted
  <1>12. \A j \in ChosenIn(q, p) : ~ (j > h)
    BY <1>3, <1>9, <1>10, <1>11, PlacesAreFinite DEF Good, NoneJumped, NeedsOf, FirstAt
  <1>13. p.bypassed = {}
    <2>1. {j \in ChosenIn(q, p) : j > h} = {}
      BY <1>12
    <2>2. Head(p.remaining).bypass = q[h].bypass + 0
      BY <1>10, <2>1, FS_EmptySet DEF FirstAt, Good, Counted
    <2>3. q[h].bypass \in Nat
      <3>1. q[h] \in Row(names)
        BY DEF Good, Admitted
      <3>. QED BY <3>1 DEF Row
    <2>. QED BY <1>10, <2>2, <2>3 DEF FirstAt, Good, Counted
  <1>14. Counted(q, next)
    <2>. SUFFICES ASSUME LeftIn(q, next) # {}
                  PROVE  LET head  == Min(LeftIn(q, next))
                             count == Head(next.remaining).bypass
                         IN  /\ count = q[head].bypass
                             /\ {j \in ChosenIn(q, next) : j > head} = {}
                             /\ count <= MaximumHeadBypass /\ count \in Nat
      <3>1. next.bypassed = {}
        BY <1>2, <1>13
      <3>2. \A n \in Nat : n = n + 0
        OBVIOUS
      <3>. QED BY <3>1, <3>2, FS_EmptySet DEF Counted
    <2>1. next.remaining # <<>>
      BY <1>2, <1>4 DEF LeftIn, Places
    <2>2. PICK g \in 1..Len(q) : FirstAt(q, next, g)
      BY <1>6, <1>8, <2>1, FirstIsLowest DEF Good
    <2>3. Min(LeftIn(q, next)) = g /\ g \in LeftIn(q, next) /\ g > h
      <3>1. Min(LeftIn(q, next)) = g /\ g \in LeftIn(q, next)
        BY <2>2 DEF FirstAt
      <3>2. g \in LeftIn(q, p) /\ g # h
        BY <1>9, <1>11, <3>1
      <3>. QED BY <1>10, <3>1, <3>2 DEF FirstAt
    <2>4. {j \in ChosenIn(q, next) : j > g} = {}
      <3>1. ASSUME NEW j \in ChosenIn(q, next), j > g
            PROVE  FALSE
        <4>1. j \in 1..Len(q)
          BY <1>9, PlacesAreFinite
        <4>2. j = h \/ ~ (j > h)
          BY <1>9, <1>11, <1>12
        <4>. QED BY <2>3, <3>1, <4>1, <4>2
      <3>. QED BY <3>1
    <2>5. 2 \in 1..Len(rem) /\ Head(next.remaining) = rem[2] /\ next.remaining[1] = rem[2]
      BY <1>1, <1>2, <1>4, <2>1
    <2>6. rem[2].bypass = q[g].bypass
      <3>1. rem[2].run = q[g].run
        BY <2>2, <2>5 DEF FirstAt, Same
      <3>2. PICK j \in 1..Len(q) : rem[2].run = q[j].run /\ rem[2].bypass = q[j].bypass
        <4>1. InOrder(q, p) /\ 2 > 1
          BY DEF Good
        <4>. QED BY <2>5, <4>1 DEF InOrder, Same
      <3>. QED BY <3>1, <3>2 DEF Good, Admitted
    <2>7. q[g].bypass <= MaximumHeadBypass /\ q[g].bypass \in Nat
      BY RowsAreAdmitted DEF Good
    <2>. QED BY <2>3, <2>4, <2>5, <2>6, <2>7
  <1>15. Maximal(q, next) /\ NoneCharged(q, next)
    BY <1>2, <1>13 DEF Maximal, NoneCharged
  <1>. QED BY <1>6, <1>8, <1>14, <1>15 DEF Good

\* A later row overtakes the head, and the head is charged for it.

Overtakes(p) ==
    /\ p.remaining # <<>> /\ ~ HeadFits(p) /\ Backfills(p) # {}
    /\ ~ (Head(p.remaining).bypass >= MaximumHeadBypass)

LEMMA BackfillKeeps ==
    ASSUME NEW names, NEW cap, NEW used, NEW q, NEW p, NEW next,
           Good(names, cap, used, q, p), p.stop = "no", Overtakes(p),
           next = TakeBackfill(p)
    PROVE  /\ Good(names, cap, used, q, next)
           /\ Len(next.remaining) = Len(p.remaining) - 1
PROOF
  <1>0. /\ p.remaining # <<>> /\ ~ HeadFits(p) /\ Backfills(p) # {}
        /\ ~ (Head(p.remaining).bypass >= MaximumHeadBypass)
    BY DEF Overtakes
  <1>. PICK rem : rem = p.remaining
    OBVIOUS
  <1>. PICK k : k = FirstBackfill(p)
    OBVIOUS
  <1>1. /\ rem \in Seq(Row(names)) /\ rem # <<>> /\ Head(rem) = rem[1] /\ 1 \in 1..Len(rem)
        /\ rem[1] \in Row(names) /\ p.selected \in Seq(names)
    <2>1. rem \in Seq(Row(names)) /\ rem # <<>> /\ p.selected \in Seq(names)
      BY <1>0 DEF Good, PassType
    <2>2. 1 \in 1..Len(rem) /\ Head(rem) = rem[1]
      BY <2>1
    <2>. QED BY <2>1, <2>2
  <1>2. k \in Backfills(p) /\ \A j \in Backfills(p) : k <= j
    <2>1. Backfills(p) \in SUBSET Nat
      BY <1>1 DEF Backfills
    <2>2. \E l \in Backfills(p) : \A j \in Backfills(p) : l <= j
      BY <1>0, <2>1, LowestExists
    <2>. QED BY <2>2 DEF FirstBackfill
  <1>3. /\ k \in 2..Len(rem) /\ Fits(rem[k].need, p.available)
        /\ \A l \in 1..k - 1 : ~ Fits(rem[l].need, p.available)
    <2>1. k \in 2..Len(rem) /\ Fits(rem[k].need, p.available)
      BY <1>2 DEF Backfills
    <2>2. ~ Fits(rem[1].need, p.available)
      BY <1>0, <1>1 DEF HeadFits
    <2>3. ASSUME NEW l \in 2..k - 1, Fits(rem[l].need, p.available)
          PROVE  FALSE
      <3>1. l \in 2..Len(rem) /\ l < k
        BY <1>1, <2>1
      <3>2. l \in Backfills(p)
        BY <2>3, <3>1 DEF Backfills
      <3>3. k <= l
        BY <1>2, <3>2
      <3>. QED BY <2>1, <3>1, <3>3
    <2>. QED BY <2>1, <2>2, <2>3
  <1>. PICK cut : cut = RemoveAt(rem, k)
    OBVIOUS
  <1>4. /\ cut \in Seq(Row(names)) /\ Len(cut) = Len(rem) - 1 /\ 1 \in 1..Len(cut)
        /\ \A l \in 1..Len(rem) - 1 : cut[l] = rem[IF l < k THEN l ELSE l + 1]
        /\ cut[1] = rem[1]
    <2>1. k \in 1..Len(rem)
      BY <1>1, <1>3
    <2>2. /\ cut \in Seq(Row(names)) /\ Len(cut) = Len(rem) - 1
          /\ \A l \in 1..Len(rem) - 1 : cut[l] = rem[IF l < k THEN l ELSE l + 1]
      BY <1>1, <2>1, RemoveAtIs
    <2>3. 1 \in 1..Len(rem) - 1 /\ 1 < k
      BY <1>1, <1>3
    <2>4. cut[1] = rem[1]
      BY <2>2, <2>3
    <2>. QED BY <2>2, <2>3, <2>4
  <1>. PICK rest : rest = [cut EXCEPT ![1].bypass = @ + 1]
    OBVIOUS
  <1>5. /\ rest \in Seq(Row(names)) /\ Len(rest) = Len(cut)
        /\ rest[1] = [rem[1] EXCEPT !.bypass = @ + 1]
        /\ \A l \in 1..Len(cut) : l > 1 => rest[l] = cut[l]
    <2>1. [rem[1] EXCEPT !.bypass = @ + 1] \in Row(names)
      <3>1. rem[1].bypass + 1 \in Nat
        BY <1>1 DEF Row
      <3>. QED BY <1>1, <3>1 DEF Row
    <2>2. rest = [cut EXCEPT ![1] = [rem[1] EXCEPT !.bypass = @ + 1]]
      BY <1>4
    <2>. QED BY <1>4, <2>1, <2>2
  <1>6. /\ rest[1].run = rem[1].run /\ rest[1].need = rem[1].need
        /\ rest[1].bypass = rem[1].bypass + 1 /\ rem[1].bypass \in Nat
    <2>1. \A r \in Row(names) : LET up == [r EXCEPT !.bypass = @ + 1]
                         IN  /\ up.run = r.run /\ up.need = r.need
                             /\ up.bypass = r.bypass + 1 /\ r.bypass \in Nat
      BY DEF Row
    <2>. QED BY <1>1, <1>5, <2>1
  <1>7. /\ next.available = Minus(p.available, rem[k].need)
        /\ next.remaining = rest /\ next.stop = "no"
        /\ next.selected = Append(p.selected, rem[k].run)
        /\ next.bypassed = {[run |-> rest[1].run, bypass |-> rest[1].bypass]}
        /\ next = [available |-> next.available, remaining |-> next.remaining,
                    selected |-> next.selected, bypassed |-> next.bypassed, stop |-> "no"]
    BY DEF TakeBackfill, Good, PassType
  <1>8. rem[k] \in Row(names) /\ k \in 1..Len(rem)
    BY <1>1, <1>3
  <1>9. PassType(names, next)
    <2>1. Minus(p.available, rem[k].need) \in Vector
      <3>1. p.available \in Vector /\ rem[k].need \in Vector
        BY <1>8 DEF Good, PassType, Row
      <3>. QED BY <1>3, <3>1, FittingIsFree
    <2>2. Append(p.selected, rem[k].run) \in Seq(names)
      <3>1. rem[k].run \in names
        BY <1>8 DEF Row
      <3>. QED BY <1>1, <3>1
    <2>3. {[run |-> rest[1].run, bypass |-> rest[1].bypass]} \in SUBSET [run : names, bypass : Nat]
      <3>1. rest[1].run \in names /\ rest[1].bypass \in Nat
        BY <1>1, <1>6 DEF Row
      <3>. QED BY <3>1
    <2>. QED BY <1>5, <1>7, <2>1, <2>2, <2>3 DEF PassType
  <1>10. Takes(p, next, k)
    <2>1. \A l \in 1..Len(rem) - 1 :
             LET old == rem[IF l < k THEN l ELSE l + 1]
             IN  /\ rest[l].run = old.run /\ rest[l].need = old.need
                 /\ l > 1 => rest[l].bypass = old.bypass
      <3>. TAKE l \in 1..Len(rem) - 1
      <3>1. CASE l = 1
        BY <1>3, <1>6, <3>1
      <3>2. CASE l # 1
        <4>1. l > 1 /\ l \in 1..Len(cut)
          BY <1>4, <3>2
        <4>2. rest[l] = rem[IF l < k THEN l ELSE l + 1]
          BY <1>4, <1>5, <4>1
        <4>. QED BY <4>2
      <3>. QED BY <3>1, <3>2
    <2>. QED BY <1>3, <1>4, <1>5, <1>7, <1>8, <2>1 DEF Takes
  <1>11. /\ Admitted(names, cap, used, q) /\ InOrder(q, next) /\ Partition(q, next)
         /\ NoneJumped(q, next) /\ Accounted(cap, used, q, next)
    BY <1>9, <1>10, TakesKeeps DEF Good
  <1>12. PICK i \in 1..Len(q) :
              /\ Same(q, p, k, i) /\ i \in LeftIn(q, p) /\ i \notin ChosenIn(q, p)
              /\ LeftIn(q, next) = LeftIn(q, p) \ {i} /\ ChosenIn(q, next) = ChosenIn(q, p) \union {i}
    BY <1>9, <1>10, TakesMoves
  <1>13. PICK h \in 1..Len(q) : FirstAt(q, p, h)
    BY <1>0, FirstIsLowest DEF Good
  <1>14. h < i
    <2>1. 1 < k /\ 1 \in 1..Len(p.remaining) /\ k \in 1..Len(p.remaining)
      BY <1>1, <1>3, <1>8
    <2>. QED BY <1>12, <1>13, <2>1 DEF FirstAt, Good, InOrder
  <1>15. Min(LeftIn(q, next)) = h
    <2>1. LeftIn(q, next) \in SUBSET Int /\ h \in LeftIn(q, next) /\ \A y \in LeftIn(q, next) : h <= y
      <3>1. /\ h \in LeftIn(q, p) /\ \A y \in LeftIn(q, p) : h <= y
            /\ LeftIn(q, next) \subseteq 1..Len(q)
        BY <1>13, PlacesAreFinite DEF FirstAt
      <3>2. h # i
        <4>1. Len(q) \in Nat
          BY DEF Good, Admitted
        <4>. QED BY <1>14, <4>1
      <3>. QED BY <1>12, <3>1, <3>2
    <2>. QED BY <2>1, MinIs
  <1>16. LET over  == {j \in ChosenIn(q, p) : j > h}
             later == {j \in ChosenIn(q, next) : j > h}
         IN  Cardinality(later) = Cardinality(over) + 1 /\ Cardinality(over) \in Nat
    <2>1. {j \in ChosenIn(q, next) : j > h} = {j \in ChosenIn(q, p) : j > h} \union {i}
      BY <1>12, <1>14
    <2>2. IsFiniteSet({j \in ChosenIn(q, p) : j > h}) /\ i \notin {j \in ChosenIn(q, p) : j > h}
      <3>1. IsFiniteSet(ChosenIn(q, p))
        BY PlacesAreFinite DEF Good
      <3>. QED BY <1>12, <3>1, FS_Subset
    <2>. QED BY <2>1, <2>2, FS_AddElement, FS_CardinalityType
  <1>17. /\ rem[1].bypass = q[h].bypass + Cardinality({j \in ChosenIn(q, p) : j > h})
         /\ rem[1].run = q[h].run
    BY <1>1, <1>13 DEF FirstAt, Same, Good, Counted
  <1>18. q[h].bypass \in Nat
    BY RowsAreAdmitted DEF Good
  <1>19. /\ rest[1].bypass = q[h].bypass + Cardinality({j \in ChosenIn(q, next) : j > h})
         /\ rest[1].bypass # q[h].bypass /\ rest[1].bypass <= MaximumHeadBypass
    <2>1. rem[1].bypass < MaximumHeadBypass
      BY <1>0, <1>1, <1>6, BypassAssumption
    <2>2. \A u, c, d, m \in Nat : d = c + 1 /\ u + c < m
             => u + c + 1 = u + d /\ u + c + 1 # u /\ u + c + 1 <= m
      OBVIOUS
    <2>3. Cardinality({j \in ChosenIn(q, next) : j > h}) \in Nat
      BY <1>16
    <2>. QED BY <1>6, <1>16, <1>17, <1>18, <2>1, <2>2, <2>3, BypassAssumption
  <1>20. Counted(q, next)
    <2>1. Head(next.remaining) = rest[1]
      <3>1. rest \in Seq(Row(names)) /\ 1 \in 1..Len(rest)
        BY <1>4, <1>5
      <3>. QED BY <1>7, <3>1
    <2>2. next.bypassed = {[run |-> q[h].run, bypass |-> rest[1].bypass]}
      BY <1>6, <1>7, <1>17
    <2>. QED BY <1>15, <1>19, <2>1, <2>2 DEF Counted
  <1>21. Maximal(q, next) /\ NoneCharged(q, next)
    <2>1. h \in LeftIn(q, next)
      <3>1. h \in LeftIn(q, p) /\ h # i
        <4>1. Len(q) \in Nat
          BY DEF Good, Admitted
        <4>. QED BY <1>13, <1>14, <4>1 DEF FirstAt
      <3>. QED BY <1>12, <3>1
    <2>. QED BY <1>7, <2>1 DEF Maximal, NoneCharged
  <1>. QED BY <1>4, <1>5, <1>7, <1>9, <1>11, <1>20, <1>21 DEF Good

-----------------------------------------------------------------------------
\* The loop ends: nothing that is left fits, or the head has been overtaken as often as
\* is allowed.

Stops(p, next, reason) ==
    /\ next = [p EXCEPT !.stop = reason]
    /\ reason \in {"drained", "head_reservation", "insufficient_resources"}

LEMMA StopKeeps ==
    ASSUME NEW names, NEW cap, NEW used, NEW q, NEW p, NEW next, NEW reason,
           Good(names, cap, used, q, p), Stops(p, next, reason),
           \/ \A l \in 1..Len(p.remaining) : ~ Fits(p.remaining[l].need, p.available)
           \/ /\ p.remaining # <<>>
              /\ Head(p.remaining).bypass >= MaximumHeadBypass
    PROVE  Good(names, cap, used, q, next)
PROOF
  <1>1. /\ next.available = p.available /\ next.remaining = p.remaining
        /\ next.selected = p.selected /\ next.bypassed = p.bypassed
        /\ next.stop = reason
    BY DEF Stops, Good, PassType
  <1>2. PassType(names, next)
    BY DEF Stops, Good, PassType
  <1>3. LeftIn(q, next) = LeftIn(q, p) /\ ChosenIn(q, next) = ChosenIn(q, p)
    BY <1>1 DEF LeftIn, ChosenIn, Places
  <1>4. Admitted(names, cap, used, q) /\ InOrder(q, next)
    <2>1. Admitted(names, cap, used, q) /\ InOrder(q, p)
      BY DEF Good
    <2>2. InOrder(q, next)
      <3>1. \A k, i : Same(q, next, k, i) <=> Same(q, p, k, i)
        BY <1>1 DEF Same
      <3>. QED BY <1>1, <2>1, <3>1, Zenon DEF InOrder
    <2>. QED BY <2>1, <2>2
  <1>5. /\ Partition(q, next) /\ NoneJumped(q, next) /\ Counted(q, next)
        /\ Accounted(cap, used, q, next)
    <2>1. /\ Partition(q, p) /\ NoneJumped(q, p) /\ Counted(q, p)
          /\ Accounted(cap, used, q, p)
      BY DEF Good
    <2>2. Partition(q, next) /\ NoneJumped(q, next) /\ Accounted(cap, used, q, next)
      <3>1. Partition(q, next)
        BY <1>1, <1>3, <2>1 DEF Partition
      <3>2. NoneJumped(q, next)
        BY <1>1, <1>3, <2>1 DEF NoneJumped
      <3>3. Accounted(cap, used, q, next)
        BY <1>1, <1>3, <2>1 DEF Accounted
      <3>. QED BY <3>1, <3>2, <3>3
    <2>3. Counted(q, next)
      BY <1>1, <1>3, <2>1 DEF Counted
    <2>. QED BY <2>2, <2>3
  <1>6. \/ \A i \in LeftIn(q, p) : ~ Fits(NeedsOf(q)[i], p.available)
        \/ Head(p.remaining).bypass = MaximumHeadBypass
    <2>1. ASSUME \A l \in 1..Len(p.remaining) : ~ Fits(p.remaining[l].need, p.available),
                 NEW i \in LeftIn(q, p)
          PROVE  ~ Fits(NeedsOf(q)[i], p.available)
      <3>1. PICK l \in 1..Len(p.remaining) :
               p.remaining[l].need = q[i].need /\ i \in 1..Len(q)
        BY LeftRemains
      <3>. QED BY <2>1, <3>1 DEF NeedsOf
    <2>2. ASSUME p.remaining # <<>>, Head(p.remaining).bypass >= MaximumHeadBypass
          PROVE  Head(p.remaining).bypass = MaximumHeadBypass
      <3>1. PICK h \in 1..Len(q) : FirstAt(q, p, h)
        BY <2>2, FirstIsLowest DEF Good
      <3>2. Head(p.remaining).bypass <= MaximumHeadBypass
        BY <3>1 DEF FirstAt, Good, Counted
      <3>3. Head(p.remaining).bypass \in Nat
        <4>1. Head(p.remaining) \in Row(names)
          BY <2>2 DEF Good, PassType
        <4>. QED BY <4>1 DEF Row
      <3>. QED BY <2>2, <3>2, <3>3, BypassAssumption
    <2>. QED BY <2>1, <2>2
  <1>7. Maximal(q, next) /\ NoneCharged(q, next)
    <2>1. NoneCharged(q, p)
      BY DEF Good
    <2>. QED BY <1>1, <1>3, <1>6, <2>1 DEF Maximal, NeedsOf, NoneCharged
  <1>. QED BY <1>2, <1>4, <1>5, <1>7 DEF Good

-----------------------------------------------------------------------------
\* The loop: every iteration keeps the invariant, and while it goes on a row goes.

LEMMA StepIsGood ==
    ASSUME NEW names, NEW cap, NEW used, NEW q, NEW p, NEW next,
           Good(names, cap, used, q, p), p.stop = "no", next = DispatchStep(p)
    PROVE  /\ Good(names, cap, used, q, next)
           /\ next.stop = "no" => Len(next.remaining) = Len(p.remaining) - 1
PROOF
  <1>. PICK rem : rem = p.remaining
    OBVIOUS
  <1>0. rem \in Seq(Row(names)) /\ p.stop = "no"
    BY DEF Good, PassType
  <1>1. CASE rem = <<>>
    <2>1. Stops(p, next, "drained")
      BY <1>0, <1>1 DEF DispatchStep, Stops
    <2>2. \A l \in 1..Len(p.remaining) : ~ Fits(p.remaining[l].need, p.available)
      BY <1>1
    <2>3. next.stop # "no"
      BY <2>1 DEF Stops, Good, PassType
    <2>. QED BY <2>1, <2>2, <2>3, StopKeeps
  <1>2. CASE rem # <<>> /\ HeadFits(p)
    <2>1. next = TakeHead(p)
      BY <1>0, <1>2 DEF DispatchStep
    <2>2. Good(names, cap, used, q, next)
      BY <1>2, <2>1, HeadKeeps
    <2>3. Len(next.remaining) = Len(rem) - 1
      <3>1. next.remaining = Tail(rem)
        BY <2>1 DEF TakeHead, Good, PassType
      <3>. QED BY <1>0, <1>2, <3>1
    <2>. QED BY <2>2, <2>3
  <1>3. CASE rem # <<>> /\ ~ HeadFits(p) /\ Head(rem).bypass >= MaximumHeadBypass
    <2>1. Stops(p, next, "head_reservation")
      BY <1>0, <1>3 DEF DispatchStep, Stops
    <2>3. next.stop # "no"
      BY <2>1 DEF Stops, Good, PassType
    <2>. QED BY <1>3, <2>1, <2>3, StopKeeps
  <1>4. CASE /\ rem # <<>> /\ ~ HeadFits(p) /\ ~ (Head(rem).bypass >= MaximumHeadBypass)
             /\ Backfills(p) = {}
    <2>1. Stops(p, next, "insufficient_resources")
      BY <1>0, <1>4 DEF DispatchStep, Stops
    <2>2. ASSUME NEW l \in 1..Len(rem)
          PROVE  ~ Fits(rem[l].need, p.available)
      <3>1. CASE l = 1
        BY <1>0, <1>4, <3>1 DEF HeadFits
      <3>2. CASE l # 1
        <4>1. l \in 2..Len(rem)
          BY <1>0, <3>2
        <4>. QED BY <1>4, <4>1 DEF Backfills
      <3>. QED BY <3>1, <3>2
    <2>3. next.stop # "no"
      BY <2>1 DEF Stops, Good, PassType
    <2>. QED BY <2>1, <2>2, <2>3, StopKeeps
  <1>5. CASE /\ rem # <<>> /\ ~ HeadFits(p) /\ ~ (Head(rem).bypass >= MaximumHeadBypass)
             /\ Backfills(p) # {}
    <2>1. next = TakeBackfill(p)
      BY <1>0, <1>5 DEF DispatchStep
    <2>2. /\ Good(names, cap, used, q, next)
          /\ Len(next.remaining) = Len(rem) - 1
      <3>1. p.stop = "no" /\ Overtakes(p)
        BY <1>0, <1>5 DEF Overtakes
      <3>. QED BY <2>1, <3>1, BackfillKeeps
    <2>. QED BY <2>2
  <1>. QED BY <1>1, <1>2, <1>3, <1>4, <1>5

\* The recursive function of PlanDispatch, as an equation.
Iterates(f, cap, used, q, n) ==
    f = [k \in 0..n |-> IF k = 0 THEN StartPass(cap, used, q) ELSE DispatchStep(f[k - 1])]

LEMMA IteratesExists ==
    ASSUME NEW cap, NEW used, NEW q, NEW m \in Nat
    PROVE  \E f : Iterates(f, cap, used, q, m)
PROOF
  <1>. DEFINE S == {n \in Nat : \E f : Iterates(f, cap, used, q, n)}
  <1>1. 0 \in S
    <2>. DEFINE f == [k \in 0..0 |-> StartPass(cap, used, q)]
    <2>1. f = [k \in 0..0 |-> IF k = 0 THEN StartPass(cap, used, q)
                              ELSE DispatchStep(f[k - 1])]
      OBVIOUS
    <2>. HIDE DEF f
    <2>2. Iterates(f, cap, used, q, 0)
      BY <2>1 DEF Iterates
    <2>. QED BY <2>2
  <1>2. ASSUME NEW n \in S
        PROVE  n + 1 \in S
    <2>1. PICK f : Iterates(f, cap, used, q, n)
      OBVIOUS
    <2>. DEFINE h == [k \in 0..n + 1 |-> IF k = n + 1 THEN DispatchStep(f[n]) ELSE f[k]]
    <2>2. /\ f[0] = StartPass(cap, used, q)
          /\ \A k \in 1..n : f[k] = DispatchStep(f[k - 1])
      BY <2>1 DEF Iterates
    <2>3. \A k \in 0..n + 1 : h[k] = IF k = 0 THEN StartPass(cap, used, q)
                                     ELSE DispatchStep(h[k - 1])
      <3>. TAKE k \in 0..n + 1
      <3>1. CASE k = 0
        BY <2>2, <3>1
      <3>2. CASE k = n + 1
        <4>1. k # 0 /\ k - 1 = n /\ k - 1 \in 0..n + 1 /\ k - 1 # n + 1
          BY <3>2
        <4>. QED BY <3>2, <4>1
      <3>3. CASE k # 0 /\ k # n + 1
        <4>1. k \in 1..n /\ k - 1 \in 0..n + 1 /\ k - 1 # n + 1
          BY <3>3
        <4>2. h[k] = f[k] /\ h[k - 1] = f[k - 1]
          BY <3>3, <4>1
        <4>. HIDE DEF h
        <4>. QED BY <2>2, <3>3, <4>1, <4>2
      <3>. QED BY <3>1, <3>2, <3>3
    <2>4. h = [k \in 0..n + 1 |-> h[k]]
      OBVIOUS
    <2>. HIDE DEF h
    <2>5. Iterates(h, cap, used, q, n + 1)
      BY <2>3, <2>4 DEF Iterates
    <2>. QED BY <2>5
  <1>. HIDE DEF S
  <1>3. S \in SUBSET Nat
    BY DEF S
  <1>4. S = Nat
    BY <1>1, <1>2, <1>3, CountUp
  <1>. QED BY <1>4 DEF S

LEMMA PlanIterates ==
    ASSUME NEW cap, NEW used, NEW q, Len(q) \in Nat
    PROVE  \E f : /\ Iterates(f, cap, used, q, Len(q) + 1)
                  /\ PlanDispatch(cap, used, FALSE, q) = f[Len(q) + 1]
PROOF
  <1>1. PlanDispatch(cap, used, FALSE, q)
           = (CHOOSE f : Iterates(f, cap, used, q, Len(q) + 1))[Len(q) + 1]
    BY DEF PlanDispatch, Iterates
  <1>2. \E f : Iterates(f, cap, used, q, Len(q) + 1)
    BY IteratesExists
  <1>. QED BY <1>1, <1>2

\* After k iterations the loop has stopped, or k rows are gone.
LEMMA IteratesAreGood ==
    ASSUME NEW names, NEW cap, NEW used, NEW q, Admitted(names, cap, used, q),
           NEW m \in Nat, NEW f, Iterates(f, cap, used, q, m), NEW i \in 0..m
    PROVE  /\ Good(names, cap, used, q, f[i])
           /\ f[i].stop # "no" \/ Len(f[i].remaining) = Len(q) - i
PROOF
  <1>. DEFINE S == {n \in Nat : n <= m =>
                      /\ Good(names, cap, used, q, f[n])
                      /\ f[n].stop # "no" \/ Len(f[n].remaining) = Len(q) - n}
  <1>1. /\ f[0] = StartPass(cap, used, q)
        /\ \A k \in 1..m : f[k] = DispatchStep(f[k - 1])
    BY DEF Iterates
  <1>2. Len(q) \in Nat
    BY DEF Admitted
  <1>3. 0 \in S
    <2>1. Good(names, cap, used, q, f[0])
      BY <1>1, StartIsGood
    <2>2. f[0].remaining = q
      BY <1>1 DEF StartPass
    <2>3. Len(q) = Len(q) - 0
      BY <1>2
    <2>. QED BY <2>1, <2>2, <2>3
  <1>4. ASSUME NEW n \in S
        PROVE  n + 1 \in S
    <2>. SUFFICES ASSUME n + 1 <= m
                  PROVE  /\ Good(names, cap, used, q, f[n + 1])
                         /\ f[n + 1].stop # "no" \/ Len(f[n + 1].remaining) = Len(q) - (n + 1)
      OBVIOUS
    <2>. PICK p : p = f[n]
      OBVIOUS
    <2>1. /\ Good(names, cap, used, q, p)
          /\ p.stop # "no" \/ Len(p.remaining) = Len(q) - n
          /\ n \in Nat
      OBVIOUS
    <2>2. f[n + 1] = DispatchStep(p)
      <3>1. n + 1 \in 1..m /\ (n + 1) - 1 = n
        BY <2>1
      <3>. QED BY <1>1, <3>1
    <2>. HIDE DEF S
    <2>3. CASE p.stop = "no"
      <3>1. /\ Good(names, cap, used, q, f[n + 1])
            /\ f[n + 1].stop = "no" => Len(f[n + 1].remaining) = Len(p.remaining) - 1
        <4>. PICK next : next = DispatchStep(p)
          OBVIOUS
        <4>1. /\ Good(names, cap, used, q, next)
              /\ next.stop = "no" => Len(next.remaining) = Len(p.remaining) - 1
          BY <2>1, <2>3, StepIsGood
        <4>. QED BY <2>2, <4>1
      <3>2. (Len(q) - n) - 1 = Len(q) - (n + 1)
        BY <1>2, <2>1
      <3>. QED BY <2>1, <2>3, <3>1, <3>2
    <2>4. CASE p.stop # "no"
      BY <2>1, <2>2, <2>4 DEF DispatchStep
    <2>. QED BY <2>3, <2>4
  <1>5. S = Nat
    <2>. HIDE DEF S
    <2>1. S \in SUBSET Nat
      BY DEF S
    <2>. QED BY <1>3, <1>4, <2>1, CountUp
  <1>6. i \in Nat /\ i <= m
    OBVIOUS
  <1>. QED BY <1>5, <1>6

\* The plan: the loop has stopped within the iterations that PlanDispatch grants it.
LEMMA PlanIsGood ==
    ASSUME NEW names, NEW cap, NEW used, NEW q, Admitted(names, cap, used, q)
    PROVE  /\ Good(names, cap, used, q, PlanDispatch(cap, used, FALSE, q))
           /\ PlanDispatch(cap, used, FALSE, q).stop # "no"
PROOF
  <1>1. Len(q) \in Nat
    BY DEF Admitted
  <1>2. PICK f : /\ Iterates(f, cap, used, q, Len(q) + 1)
                 /\ PlanDispatch(cap, used, FALSE, q) = f[Len(q) + 1]
    BY <1>1, PlanIterates
  <1>3. Len(q) + 1 \in Nat /\ Len(q) + 1 \in 0..Len(q) + 1
    BY <1>1
  <1>. PICK p : p = f[Len(q) + 1]
    OBVIOUS
  <1>4. /\ Good(names, cap, used, q, p)
        /\ p.stop # "no" \/ Len(p.remaining) = Len(q) - (Len(q) + 1)
    BY <1>2, <1>3, IteratesAreGood
  <1>5. Len(p.remaining) \in Nat
    BY <1>4 DEF Good, PassType
  <1>6. Len(q) - (Len(q) + 1) = 0 - 1
    BY <1>1
  <1>7. p.stop # "no"
    <2>1. Len(p.remaining) # 0 - 1
      BY <1>5
    <2>. QED BY <1>4, <1>6, <2>1
  <1>. QED BY <1>2, <1>4, <1>7
-----------------------------------------------------------------------------
\* What a caller may know of the plan, without the loop.

\* The runs that a pass selected are runs of the queue.
RunsAt(q, places, runs) == \A x : x \in runs <=> \E i \in places : q[i].run = x

LEMMA SelectedAreRows ==
    ASSUME NEW names, NEW cap, NEW used, NEW q, NEW p, Good(names, cap, used, q, p),
           NEW runs, runs = {p.selected[k] : k \in 1..Len(p.selected)}
    PROVE  RunsAt(q, ChosenIn(q, p), runs)
PROOF
  <1>. PICK s : s = p.selected
    OBVIOUS
  <1>. PICK C : C = ChosenIn(q, p)
    OBVIOUS
  <1>1. s \in Seq(names) /\ Len(s) \in Nat
    <2>1. s \in Seq(names)
      BY DEF Good, PassType
    <2>. QED BY <2>1
  <1>2. IsFiniteSet(C) /\ Cardinality(C) = Len(s)
    BY PlacesAreFinite DEF Good, Partition
  <1>3. IsFiniteSet(runs) /\ Cardinality(runs) <= Len(s) /\ Cardinality(runs) \in Nat
    <2>1. IsFiniteSet(1..Len(s)) /\ Cardinality(1..Len(s)) = Len(s)
      <3>. PICK n \in Nat : n = Len(s)
        BY <1>1
      <3>1. 1 \in Int /\ n \in Int
        OBVIOUS
      <3>2. IsFiniteSet(1..n) /\ Cardinality(1..n) = IF 1 > n THEN 0 ELSE n - 1 + 1
        BY <3>1, FS_Interval
      <3>. QED BY <3>2
    <2>2. IsFiniteSet({s[k] : k \in 1..Len(s)}) /\ Cardinality({s[k] : k \in 1..Len(s)}) <= Len(s)
      BY <2>1, ImageIsFinite
    <2>. QED BY <2>2, FS_CardinalityType
  <1>. DEFINE f == [i \in C |-> q[i].run]
              T == {q[i].run : i \in C}
  <1>4. C \subseteq 1..Len(q) /\ \A i \in C : q[i].run \in runs
    BY DEF ChosenIn, Places
  <1>5. \A i, j \in 1..Len(q) : q[i].run = q[j].run => i = j
    BY DEF Good, Admitted
  <1>6. f \in Surjection(C, T)
    BY DEF Surjection
  <1>7. f \in Injection(C, T)
    BY <1>4, <1>5, <1>6 DEF Injection, IsInjective, Surjection
  <1>8. T \in SUBSET runs
    BY <1>4
  <1>. HIDE DEF f, T
  <1>9. Cardinality(T) = Cardinality(C)
    BY <1>2, <1>6, <1>7, FS_Surjection
  <1>10. Cardinality(T) <= Cardinality(runs)
    BY <1>3, <1>8, FS_Subset
  <1>11. Cardinality(T) = Cardinality(runs)
    BY <1>1, <1>2, <1>3, <1>9, <1>10
  <1>12. runs = T
    BY <1>3, <1>8, <1>11, FS_Subset
  <1>. QED BY <1>12 DEF T, RunsAt

\* The counters that a pass stores pay for the rows it starts out of turn.
Charges(q, runs, bypassed) ==
    /\ bypassed = {} =>
          \A d, c \in 1..Len(q) : d < c /\ q[c].run \in runs => q[d].run \in runs
    /\ \A b, c \in bypassed : b = c
    /\ \A b \in bypassed : \E h \in 1..Len(q) :
          /\ b.run = q[h].run /\ q[h].run \notin runs /\ b.bypass <= MaximumHeadBypass
          /\ \A d \in 1..Len(q) : d < h => q[d].run \in runs
          /\ b.bypass = q[h].bypass + Cardinality({c \in Places(q, runs) : c > h})

ChargedAt(q, runs, b, h) ==
    /\ b.run = q[h].run /\ q[h].run \notin runs /\ b.bypass <= MaximumHeadBypass
    /\ \A d \in 1..Len(q) : d < h => q[d].run \in runs
    /\ b.bypass = q[h].bypass + Cardinality({c \in Places(q, runs) : c > h})

LEMMA ChargeIs ==
    ASSUME NEW q, NEW runs, NEW bypassed, Charges(q, runs, bypassed), NEW b \in bypassed
    PROVE  \E h \in 1..Len(q) : ChargedAt(q, runs, b, h)
BY DEF Charges, ChargedAt

LEMMA PlanCharges ==
    ASSUME NEW names, NEW cap, NEW used, NEW q, NEW p, Good(names, cap, used, q, p),
           NEW runs, runs = {p.selected[k] : k \in 1..Len(p.selected)}
    PROVE  Charges(q, runs, p.bypassed)
PROOF
  <1>. PICK C : C = ChosenIn(q, p)
    OBVIOUS
  <1>. PICK L : L = LeftIn(q, p)
    OBVIOUS
  <1>1. /\ C = Places(q, runs) /\ C \union L = 1..Len(q) /\ C \intersect L = {}
        /\ IsFiniteSet(C)
    BY PlacesAreFinite DEF ChosenIn, Good, Partition
  <1>2. \A c \in 1..Len(q) : c \in C <=> q[c].run \in runs
    BY <1>1 DEF Places
  <1>3. CASE L = {}
    <2>1. p.bypassed = {}
      BY <1>3 DEF Good, NoneCharged
    <2>. QED BY <1>1, <1>2, <1>3, <2>1 DEF Charges
  <1>4. CASE L # {}
    <2>1. p.remaining # <<>>
      BY <1>4 DEF LeftIn, Places
    <2>2. PICK h \in 1..Len(q) : FirstAt(q, p, h)
      BY <2>1, FirstIsLowest DEF Good
    <2>3. h \in L /\ Min(L) = h /\ \A d \in L : h <= d
      BY <2>2 DEF FirstAt
    <2>. PICK count : count = Head(p.remaining).bypass
      OBVIOUS
    <2>. PICK over : over = {c \in C : c > h}
      OBVIOUS
    <2>4. /\ count = q[h].bypass + Cardinality(over) /\ count <= MaximumHeadBypass
          /\ p.bypassed = IF count = q[h].bypass THEN {} ELSE {[run |-> q[h].run, bypass |-> count]}
      BY <1>4, <2>3 DEF Good, Counted
    <2>5. q[h].bypass \in Nat /\ q[h].run \notin runs
      BY <1>1, <1>2, <2>3, RowsAreAdmitted DEF Good
    <2>6. ASSUME NEW d \in 1..Len(q), NEW c \in 1..Len(q), d < c, q[c].run \in runs,
                 q[d].run \notin runs
          PROVE  p.bypassed # {}
      <3>1. h <= d /\ c \in C
        BY <1>1, <1>2, <2>3, <2>6
      <3>2. c \in over
        BY <2>6, <3>1
      <3>3. IsFiniteSet(over)
        BY <1>1, FS_Subset
      <3>4. Cardinality(over) # 0 /\ Cardinality(over) \in Nat
        BY <3>2, <3>3, FS_EmptySet, FS_CardinalityType
      <3>5. count # q[h].bypass
        BY <2>4, <2>5, <3>4
      <3>. QED BY <2>4, <3>5
    <2>7. ASSUME NEW b \in p.bypassed
          PROVE  b = [run |-> q[h].run, bypass |-> count]
      BY <2>4, <2>7
    <2>8. ASSUME NEW d \in 1..Len(q), d < h
          PROVE  q[d].run \in runs
      <3>1. d \notin L
        BY <2>3, <2>8
      <3>2. d \in C
        BY <1>1, <3>1
      <3>. QED BY <1>2, <3>2
    <2>9. over = {c \in Places(q, runs) : c > h}
      BY <1>1
    <2>10. ASSUME NEW b \in p.bypassed
           PROVE  /\ b.run = q[h].run /\ q[h].run \notin runs /\ b.bypass <= MaximumHeadBypass
                  /\ b.bypass = q[h].bypass + Cardinality({c \in Places(q, runs) : c > h})
      <3>1. b.run = q[h].run /\ b.bypass = count
        BY <2>7
      <3>. QED BY <2>4, <2>5, <2>9, <3>1
    <2>11. \A b, c \in p.bypassed : b = c
      BY <2>7, Zenon
    <2>. QED BY <2>6, <2>8, <2>10, <2>11 DEF Charges
  <1>. QED BY <1>3, <1>4

\* What a pass selected fits beside what was reserved.
LEMMA PlanHasRoom ==
    ASSUME NEW names, NEW cap, NEW used, NEW q, NEW p, Good(names, cap, used, q, p)
    PROVE  Fits(Plus(used, Total(NeedsOf(q), ChosenIn(q, p))), cap)
PROOF
  <1>. PICK C : C = ChosenIn(q, p)
    OBVIOUS
  <1>1. IsFiniteSet(C) /\ C \subseteq 1..Len(q)
    BY PlacesAreFinite DEF Good
  <1>2. \A i \in C : NeedsOf(q)[i] \in Vector
    <2>1. \A i \in 1..Len(q) : q[i] \in Row(names)
      BY DEF Good, Admitted
    <2>. QED BY <1>1, <2>1 DEF NeedsOf, Row
  <1>3. Total(NeedsOf(q), C) \in Vector
    BY <1>1, <1>2, TotalIsVector
  <1>4. used \in Vector /\ p.available \in Vector
    BY DEF Good, Admitted, PassType
  <1>5. Plus(used, Total(NeedsOf(q), C)) \in Vector
    BY <1>3, <1>4, PlusIs
  <1>6. cap = Plus(Plus(used, Total(NeedsOf(q), C)), p.available)
    BY DEF Good, Accounted
  <1>. QED BY <1>4, <1>5, <1>6, FitsIs

-----------------------------------------------------------------------------
(* One call of the planner.                                                *)

\* The function that PlanDispatch evaluates.
Loop == CHOOSE f : Iterates(f, capacity, reserved, line, Len(line) + 1)

\* The invariant: the loop is in order, and it is at one of the values of that function.
PassInv ==
    /\ Good(Runs(line), capacity, reserved, line, pass)
    /\ \E k \in 0..Len(line) + 1 : pass = Loop[k]

LEMMA LoopIterates ==
    ASSUME Len(line) \in Nat
    PROVE  /\ Iterates(Loop, capacity, reserved, line, Len(line) + 1)
           /\ PlanDispatch(capacity, reserved, FALSE, line) = Loop[Len(line) + 1]
PROOF
  <1>1. \E f : Iterates(f, capacity, reserved, line, Len(line) + 1)
    <2>1. Len(line) + 1 \in Nat
      OBVIOUS
    <2>. QED BY <2>1, IteratesExists
  <1>2. PlanDispatch(capacity, reserved, FALSE, line) = Loop[Len(line) + 1]
    BY DEF PlanDispatch, Iterates, Loop
  <1>. QED BY <1>1, <1>2 DEF Loop

LEMMA InitInv == PassInit => PassInv
PROOF
  <1>. SUFFICES ASSUME PassInit PROVE PassInv
    OBVIOUS
  <1>1. Admitted(Runs(line), capacity, reserved, line)
    BY PassAssumption DEF PassInit, Admitted, Row
  <1>2. Len(line) \in Nat
    BY <1>1 DEF Admitted
  <1>3. pass = Loop[0] /\ 0 \in 0..Len(line) + 1
    BY <1>2, LoopIterates DEF Iterates, PassInit
  <1>4. Good(Runs(line), capacity, reserved, line, pass)
    BY <1>1, StartIsGood DEF PassInit
  <1>. QED BY <1>3, <1>4 DEF PassInv

LEMMA NextInv == PassInv /\ [PassNext]_passVars => PassInv'
PROOF
  <1>. SUFFICES ASSUME PassInv, [PassNext]_passVars PROVE PassInv'
    OBVIOUS
  <1>1. CASE UNCHANGED passVars
    BY <1>1 DEF passVars, PassInv, Loop, Runs
  <1>2. CASE Iterate
    <2>. PICK next : next = DispatchStep(pass)
      OBVIOUS
    <2>1. pass.stop = "no" /\ pass' = next /\ UNCHANGED <<capacity, reserved, line>>
      BY <1>2 DEF Iterate
    <2>2. Good(Runs(line), capacity, reserved, line, next)
      BY <2>1, StepIsGood DEF PassInv
    <2>3. PICK k \in 0..Len(line) + 1 : pass = Loop[k]
      BY DEF PassInv
    <2>4. Admitted(Runs(line), capacity, reserved, line) /\ Len(line) \in Nat
      BY DEF PassInv, Good, Admitted
    <2>5. k # Len(line) + 1
      <3>1. CASE k = Len(line) + 1
        <4>1. PlanDispatch(capacity, reserved, FALSE, line).stop # "no"
          BY <2>4, PlanIsGood
        <4>. QED BY <2>1, <2>3, <2>4, <3>1, <4>1, LoopIterates
      <3>. QED BY <3>1
    <2>6. k + 1 \in 0..Len(line) + 1 /\ next = Loop[k + 1]
      <3>1. k + 1 \in 1..Len(line) + 1 /\ (k + 1) - 1 = k /\ k + 1 # 0
        BY <2>4, <2>5
      <3>2. Loop[k + 1] = DispatchStep(Loop[k])
        BY <2>4, <3>1, LoopIterates DEF Iterates
      <3>. QED BY <2>3, <3>1, <3>2
    <2>7. Loop' = Loop /\ Runs(line)' = Runs(line)
      BY <2>1 DEF Loop, Runs
    <2>. QED BY <2>1, <2>2, <2>6, <2>7 DEF PassInv
  <1>3. CASE Returned
    BY <1>1, <1>3 DEF Returned
  <1>. QED BY <1>1, <1>2, <1>3 DEF PassNext

\* Once the loop has stopped, further iterations change nothing.
LEMMA StoppedIsThePlan == PassInv => PassIsThePlan
PROOF
  <1>. SUFFICES ASSUME PassInv, pass.stop # "no"
                PROVE  pass = PlanDispatch(capacity, reserved, FALSE, line)
    BY DEF PassIsThePlan
  <1>1. Len(line) \in Nat
    BY DEF PassInv, Good, Admitted
  <1>2. PICK k \in 0..Len(line) + 1 : pass = Loop[k]
    BY DEF PassInv
  <1>. DEFINE S == {n \in Nat : k + n <= Len(line) + 1 => Loop[k + n] = pass}
  <1>3. 0 \in S
    BY <1>1, <1>2
  <1>4. ASSUME NEW n \in S
        PROVE  n + 1 \in S
    <2>. SUFFICES ASSUME k + (n + 1) <= Len(line) + 1
                  PROVE  Loop[k + (n + 1)] = pass
      OBVIOUS
    <2>1. /\ k + n <= Len(line) + 1 /\ k + (n + 1) \in 0..Len(line) + 1
          /\ k + (n + 1) # 0 /\ (k + (n + 1)) - 1 = k + n
      BY <1>1
    <2>2. Loop[k + n] = pass
      BY <2>1
    <2>3. Loop[k + (n + 1)] = DispatchStep(Loop[k + n])
      BY <1>1, <2>1, LoopIterates DEF Iterates
    <2>. QED BY <2>2, <2>3 DEF DispatchStep
  <1>5. S = Nat
    <2>. HIDE DEF S
    <2>1. S \in SUBSET Nat
      BY DEF S
    <2>. QED BY <1>3, <1>4, <2>1, CountUp
  <1>6. (Len(line) + 1) - k \in Nat /\ k + ((Len(line) + 1) - k) = Len(line) + 1
    BY <1>1
  <1>7. Loop[Len(line) + 1] = pass
    <2>1. PICK n \in Nat : n = (Len(line) + 1) - k
      BY <1>6
    <2>2. n \in S /\ k + n = Len(line) + 1 /\ k + n <= Len(line) + 1
      <3>. HIDE DEF S
      <3>1. n \in S
        BY <1>5
      <3>. QED BY <1>1, <1>6, <2>1, <3>1
    <2>3. Loop[k + n] = pass
      BY <2>2
    <2>. QED BY <2>2, <2>3
  <1>. QED BY <1>1, <1>7, LoopIterates

LEMMA InvIsSound == PassInv => PassIsSound
PROOF
  <1>. SUFFICES ASSUME PassInv PROVE PassIsSound
    OBVIOUS
  <1>1. Good(Runs(line), capacity, reserved, line, pass)
    BY DEF PassInv
  <1>2. Left = LeftIn(line, pass) /\ Selected = ChosenIn(line, pass) /\ NeedAt = NeedsOf(line)
    BY DEF Left, Selected, Positions, LeftIn, ChosenIn, Places, NeedAt, NeedsOf
  <1>3. PassTypeOK
    BY <1>1, <1>2 DEF Good, Admitted, PassType, Partition, PassTypeOK
  <1>4. ExactAccounting
    BY <1>1, <1>2 DEF Good, Accounted, ExactAccounting
  <1>5. OvertakenRowCannotStart
    BY <1>1, <1>2 DEF Good, NoneJumped, OvertakenRowCannotStart
  <1>6. EveryOvertakeIsCounted
    BY <1>1, <1>2 DEF Good, Counted, EveryOvertakeIsCounted
  <1>7. MaximalUnlessReserved
    BY <1>1, <1>2 DEF Good, Maximal, MaximalUnlessReserved
  <1>. QED BY <1>3, <1>4, <1>5, <1>6, <1>7, StoppedIsThePlan DEF PassIsSound

(***************************************************************************)
(* At every iteration of `plan_dispatch', whatever the queue: resources    *)
(* are accounted for exactly, FIFO order is broken by safe backfill only,  *)
(* every overtaking is charged to the front row, and the finished plan is  *)
(* maximal but for what an exhausted front row holds back.                 *)
(***************************************************************************)
THEOREM PassSound == PassSpec => []PassIsSound
PROOF
  <1>. QED BY InitInv, NextInv, InvIsSound, PTL DEF PassSpec

-----------------------------------------------------------------------------
(* A queue without some of its runs.                                       *)

\* The function that QueueWithout evaluates, up to n.
Kept(f, q, runs, n) ==
    f = [k \in 0..n |-> IF k = 0 THEN <<>>
                        ELSE IF q[k] \in runs THEN f[k - 1]
                        ELSE Append(f[k - 1], q[k])]

\* w is what is left of the first n elements of q: its k-th element was the e[k]-th.
Keeps(e, w, q, runs, n, Names) ==
    /\ w \in Seq(Names) /\ e \in [1..Len(w) -> 1..n]
    /\ \A k \in 1..Len(w) : w[k] = q[e[k]] /\ w[k] \notin runs
    /\ \A j, k \in 1..Len(w) : j < k => e[j] + (k - j) <= e[k]
    /\ \A i \in 1..n : q[i] \notin runs => \E k \in 1..Len(w) : e[k] = i

KeptStep(f, q, runs, k) ==
    f[k] = IF q[k] \in runs THEN f[k - 1] ELSE Append(f[k - 1], q[k])

LEMMA KeptIs ==
    ASSUME NEW q, NEW runs, NEW n \in Nat, NEW f, Kept(f, q, runs, n)
    PROVE  f[0] = <<>> /\ \A k \in 1..n : KeptStep(f, q, runs, k)
PROOF
  <1>1. \A k \in 0..n : f[k] = IF k = 0 THEN <<>>
                               ELSE IF q[k] \in runs THEN f[k - 1]
                               ELSE Append(f[k - 1], q[k])
    BY DEF Kept
  <1>2. 0 \in 0..n /\ \A k \in 1..n : k \in 0..n /\ k # 0
    OBVIOUS
  <1>3. f[0] = <<>>
    BY <1>1, <1>2
  <1>. QED BY <1>1, <1>2, <1>3 DEF KeptStep

LEMMA KeptExists ==
    ASSUME NEW q, NEW runs, NEW m \in Nat
    PROVE  \E f : Kept(f, q, runs, m)
PROOF
  <1>. DEFINE S == {n \in Nat : \E f : Kept(f, q, runs, n)}
  <1>1. 0 \in S
    <2>. DEFINE f == [k \in 0..0 |-> <<>>]
    <2>1. f = [k \in 0..0 |-> IF k = 0 THEN <<>>
                              ELSE IF q[k] \in runs THEN f[k - 1]
                              ELSE Append(f[k - 1], q[k])]
      OBVIOUS
    <2>. HIDE DEF f
    <2>2. Kept(f, q, runs, 0)
      BY <2>1 DEF Kept
    <2>. QED BY <2>2
  <1>2. ASSUME NEW n \in S
        PROVE  n + 1 \in S
    <2>1. PICK f : Kept(f, q, runs, n)
      OBVIOUS
    <2>. PICK last : last = IF q[n + 1] \in runs THEN f[n] ELSE Append(f[n], q[n + 1])
      OBVIOUS
    <2>. DEFINE h == [k \in 0..n + 1 |-> IF k = n + 1 THEN last ELSE f[k]]
    <2>2. /\ f[0] = <<>>
          /\ \A k \in 1..n : f[k] = IF q[k] \in runs THEN f[k - 1] ELSE Append(f[k - 1], q[k])
      <3>1. f[0] = <<>> /\ \A k \in 1..n : KeptStep(f, q, runs, k)
        BY <2>1, KeptIs
      <3>. QED BY <3>1 DEF KeptStep
    <2>3. \A k \in 0..n + 1 : h[k] = IF k = 0 THEN <<>>
                                     ELSE IF q[k] \in runs THEN h[k - 1]
                                     ELSE Append(h[k - 1], q[k])
      <3>. TAKE k \in 0..n + 1
      <3>1. CASE k = 0
        BY <2>2, <3>1
      <3>2. CASE k = n + 1
        <4>1. k # 0 /\ k - 1 = n /\ k - 1 \in 0..n + 1 /\ k - 1 # n + 1
          BY <3>2
        <4>2. h[k] = last /\ h[k - 1] = f[n]
          BY <3>2, <4>1
        <4>. HIDE DEF h
        <4>. QED BY <3>2, <4>1, <4>2
      <3>3. CASE k # 0 /\ k # n + 1
        <4>1. k \in 1..n /\ k - 1 \in 0..n + 1 /\ k - 1 # n + 1
          BY <3>3
        <4>2. h[k] = f[k] /\ h[k - 1] = f[k - 1]
          BY <3>3, <4>1
        <4>. HIDE DEF h
        <4>. QED BY <2>2, <3>3, <4>1, <4>2
      <3>. QED BY <3>1, <3>2, <3>3
    <2>4. h = [k \in 0..n + 1 |-> h[k]]
      OBVIOUS
    <2>. HIDE DEF h
    <2>5. Kept(h, q, runs, n + 1)
      BY <2>3, <2>4 DEF Kept
    <2>. QED BY <2>5
  <1>. HIDE DEF S
  <1>3. S \in SUBSET Nat
    BY DEF S
  <1>4. S = Nat
    BY <1>1, <1>2, <1>3, CountUp
  <1>. QED BY <1>4 DEF S

\* One more element is kept, or not.
LEMMA KeepsOneMore ==
    ASSUME NEW Names, NEW q \in Seq(Names), NEW runs, NEW n \in Nat, n + 1 <= Len(q),
           NEW w, NEW e, Keeps(e, w, q, runs, n, Names)
    PROVE  \E d : Keeps(d, IF q[n + 1] \in runs THEN w ELSE Append(w, q[n + 1]),
                        q, runs, n + 1, Names)
PROOF
  <1>1. /\ w \in Seq(Names) /\ Len(w) \in Nat /\ e \in [1..Len(w) -> 1..n]
        /\ \A k \in 1..Len(w) : e[k] \in Nat /\ e[k] <= n
    <2>1. w \in Seq(Names) /\ e \in [1..Len(w) -> 1..n]
      BY DEF Keeps
    <2>. QED BY <2>1
  <1>2. CASE q[n + 1] \in runs
    <2>1. e \in [1..Len(w) -> 1..n + 1]
      BY <1>1
    <2>2. \A i \in 1..n + 1 : q[i] \notin runs => i \in 1..n
      BY <1>2
    <2>3. Keeps(e, w, q, runs, n + 1, Names)
      BY <2>1, <2>2 DEF Keeps
    <2>. QED BY <1>2, <2>3
  <1>3. CASE q[n + 1] \notin runs
    <2>. PICK v : v = Append(w, q[n + 1])
      OBVIOUS
    <2>. DEFINE d == [k \in 1..Len(w) + 1 |-> IF k = Len(w) + 1 THEN n + 1 ELSE e[k]]
    <2>1. /\ v \in Seq(Names) /\ Len(v) = Len(w) + 1 /\ v[Len(w) + 1] = q[n + 1]
          /\ \A k \in 1..Len(w) : v[k] = w[k]
      BY <1>1
    <2>2. /\ d \in [1..Len(v) -> 1..n + 1] /\ d[Len(w) + 1] = n + 1
          /\ \A k \in 1..Len(w) : d[k] = e[k]
      BY <1>1, <2>1
    <2>. HIDE DEF d
    <2>3. \A k \in 1..Len(v) : k \in 1..Len(w) \/ k = Len(w) + 1
      BY <1>1, <2>1
    <2>4. \A k \in 1..Len(v) : v[k] = q[d[k]] /\ v[k] \notin runs
      <3>1. \A k \in 1..Len(w) : v[k] = q[d[k]] /\ v[k] \notin runs
        BY <2>1, <2>2 DEF Keeps
      <3>. QED BY <1>3, <2>1, <2>2, <2>3, <3>1
    <2>5. \A j, k \in 1..Len(v) : j < k => d[j] + (k - j) <= d[k]
      <3>. TAKE j, k \in 1..Len(v)
      <3>. HAVE j < k
      <3>1. CASE k \in 1..Len(w)
        <4>1. j \in 1..Len(w)
          BY <1>1, <3>1
        <4>2. e[j] + (k - j) <= e[k]
          BY <3>1, <4>1 DEF Keeps
        <4>. QED BY <2>2, <3>1, <4>1, <4>2
      <3>2. CASE k = Len(w) + 1 /\ j = Len(w)
        <4>1. j \in 1..Len(w)
          BY <1>1, <3>2
        <4>2. d[k] = n + 1 /\ d[j] = e[j] /\ e[j] \in Nat /\ e[j] <= n
          BY <1>1, <2>2, <3>2, <4>1
        <4>. QED BY <1>1, <3>2, <4>2
      <3>3. CASE k = Len(w) + 1 /\ j # Len(w)
        <4>1. j \in 1..Len(w) /\ Len(w) \in 1..Len(w) /\ j < Len(w)
          BY <1>1, <2>1, <3>3
        <4>2. e[j] + (Len(w) - j) <= e[Len(w)] /\ e[Len(w)] <= n
              /\ e[j] \in Nat /\ e[Len(w)] \in Nat
          BY <1>1, <4>1 DEF Keeps
        <4>3. d[k] = n + 1 /\ d[j] = e[j]
          BY <2>2, <3>3, <4>1
        <4>. QED BY <1>1, <3>3, <4>1, <4>2, <4>3
      <3>. QED BY <2>3, <3>1, <3>2, <3>3
    <2>6. \A i \in 1..n + 1 : q[i] \notin runs => \E k \in 1..Len(v) : d[k] = i
      <3>. TAKE i \in 1..n + 1
      <3>. HAVE q[i] \notin runs
      <3>1. CASE i = n + 1
        <4>1. Len(w) + 1 \in 1..Len(v)
          BY <1>1, <2>1
        <4>. QED BY <2>2, <3>1, <4>1
      <3>2. CASE i # n + 1
        <4>1. i \in 1..n
          BY <3>2
        <4>2. PICK k \in 1..Len(w) : e[k] = i
          BY <4>1 DEF Keeps
        <4>3. k \in 1..Len(v)
          BY <1>1, <2>1
        <4>. QED BY <2>2, <4>2, <4>3
      <3>. QED BY <3>1, <3>2
    <2>7. Keeps(d, v, q, runs, n + 1, Names)
      BY <2>1, <2>2, <2>4, <2>5, <2>6 DEF Keeps
    <2>. QED BY <1>3, <2>7
  <1>. QED BY <1>2, <1>3

LEMMA KeptKeeps ==
    ASSUME NEW Names, NEW q \in Seq(Names), NEW runs, NEW f, Kept(f, q, runs, Len(q))
    PROVE  \E e : Keeps(e, f[Len(q)], q, runs, Len(q), Names)
PROOF
  <1>. DEFINE S == {n \in Nat : n <= Len(q) => \E e : Keeps(e, f[n], q, runs, n, Names)}
  <1>0. Len(q) \in Nat
    OBVIOUS
  <1>1. f[0] = <<>> /\ \A k \in 1..Len(q) : KeptStep(f, q, runs, k)
    BY <1>0, KeptIs
  <1>2. 0 \in S
    <2>. DEFINE e == [k \in 1..0 |-> k]
    <2>1. f[0] \in Seq(Names) /\ Len(f[0]) = 0 /\ e \in [1..0 -> 1..0]
      BY <1>1
    <2>. HIDE DEF e
    <2>2. Keeps(e, f[0], q, runs, 0, Names)
      BY <2>1 DEF Keeps
    <2>. QED BY <2>2
  <1>3. ASSUME NEW n \in S
        PROVE  n + 1 \in S
    <2>. SUFFICES ASSUME n + 1 <= Len(q)
                  PROVE  \E e : Keeps(e, f[n + 1], q, runs, n + 1, Names)
      OBVIOUS
    <2>1. n <= Len(q) /\ n + 1 \in 1..Len(q) /\ (n + 1) - 1 = n
      BY <1>0
    <2>2. PICK e : Keeps(e, f[n], q, runs, n, Names)
      BY <2>1
    <2>3. f[n + 1] = IF q[n + 1] \in runs THEN f[n] ELSE Append(f[n], q[n + 1])
      BY <1>1, <2>1 DEF KeptStep
    <2>. HIDE DEF S
    <2>4. n \in Nat
      BY DEF S
    <2>. QED BY <2>2, <2>3, <2>4, KeepsOneMore
  <1>. HIDE DEF S
  <1>4. S \in SUBSET Nat
    BY DEF S
  <1>5. S = Nat
    BY <1>2, <1>3, <1>4, CountUp
  <1>6. Len(q) \in S
    BY <1>0, <1>5
  <1>. QED BY <1>0, <1>6 DEF S

LEMMA WithoutIs ==
    ASSUME NEW Names, queue \in Seq(Names), NEW runs
    PROVE  \E e : Keeps(e, QueueWithout(runs), queue, runs, Len(queue), Names)
PROOF
  <1>1. QueueWithout(runs) = (CHOOSE f : Kept(f, queue, runs, Len(queue)))[Len(queue)]
    BY DEF QueueWithout, Kept
  <1>2. \E f : Kept(f, queue, runs, Len(queue))
    <2>1. Len(queue) \in Nat
      OBVIOUS
    <2>. QED BY <2>1, KeptExists
  <1>. QED BY <1>1, <1>2, KeptKeeps

\* What the proof uses of it, for a queue of different runs.
Different(q) == \A i, j \in 1..Len(q) : q[i] = q[j] => i = j

Thinned(w, q, runs) ==
    /\ Different(w)
    /\ \A x : (\E k \in 1..Len(w) : w[k] = x) <=> (\E i \in 1..Len(q) : q[i] = x) /\ x \notin runs
    /\ \A a, b \in 1..Len(w) :
          a < b => \E i, j \in 1..Len(q) : i < j /\ w[a] = q[i] /\ w[b] = q[j]
    /\ \A k \in 1..Len(w) :
          \E i \in 1..Len(q) : w[k] = q[i] /\ k <= i /\ (q[1] \in runs => k < i)
    /\ Len(w) > 0 /\ q[1] \notin runs => w[1] = q[1]

LEMMA KeepsThins ==
    ASSUME NEW Names, NEW q \in Seq(Names), Different(q), NEW runs, NEW w, NEW e,
           Keeps(e, w, q, runs, Len(q), Names)
    PROVE  w \in Seq(Names) /\ Thinned(w, q, runs)
PROOF
  <1>1. w \in Seq(Names) /\ e \in [1..Len(w) -> 1..Len(q)]
    BY DEF Keeps
  <1>2. Len(w) \in Nat /\ Len(q) \in Nat /\ \A k \in 1..Len(w) : e[k] \in 1..Len(q)
    BY <1>1
  <1>3. \A k \in 1..Len(w) : w[k] = q[e[k]] /\ w[k] \notin runs
    BY DEF Keeps
  <1>4. \A j, k \in 1..Len(w) : j < k => e[j] + (k - j) <= e[k]
    BY DEF Keeps
  <1>5. \A j, k \in 1..Len(w) : j < k => e[j] < e[k]
    <2>. TAKE j, k \in 1..Len(w)
    <2>. HAVE j < k
    <2>1. e[j] \in Nat /\ e[k] \in Nat /\ e[j] + (k - j) <= e[k]
      BY <1>2, <1>4
    <2>. QED BY <2>1
  <1>6. Different(w)
    <2>. SUFFICES ASSUME NEW j \in 1..Len(w), NEW k \in 1..Len(w), w[j] = w[k] PROVE j = k
      BY DEF Different
    <2>1. e[j] = e[k]
      BY <1>2, <1>3 DEF Different
    <2>2. ~ (e[j] < e[k]) /\ ~ (e[k] < e[j])
      BY <1>2, <2>1
    <2>3. ~ (j < k) /\ ~ (k < j)
      BY <1>5, <2>2
    <2>. QED BY <1>2, <2>3
  <1>7. ASSUME NEW x
        PROVE  (\E k \in 1..Len(w) : w[k] = x) <=> (\E i \in 1..Len(q) : q[i] = x) /\ x \notin runs
    <2>1. ASSUME NEW k \in 1..Len(w), w[k] = x
          PROVE  (\E i \in 1..Len(q) : q[i] = x) /\ x \notin runs
      BY <1>2, <1>3, <2>1
    <2>2. ASSUME NEW i \in 1..Len(q), q[i] = x, x \notin runs
          PROVE  \E k \in 1..Len(w) : w[k] = x
      <3>1. PICK k \in 1..Len(w) : e[k] = i
        BY <2>2 DEF Keeps
      <3>. QED BY <1>3, <2>2, <3>1
    <2>. QED BY <2>1, <2>2
  <1>8. ASSUME NEW a \in 1..Len(w), NEW b \in 1..Len(w), a < b
        PROVE  \E i, j \in 1..Len(q) : i < j /\ w[a] = q[i] /\ w[b] = q[j]
    BY <1>2, <1>3, <1>5, <1>8
  <1>9. ASSUME NEW k \in 1..Len(w)
        PROVE  \E i \in 1..Len(q) : w[k] = q[i] /\ k <= i /\ (q[1] \in runs => k < i)
    <2>1. 1 \in 1..Len(w) /\ e[1] \in 1..Len(q) /\ e[k] \in 1..Len(q)
      BY <1>2
    <2>2. k # 1 => e[1] + (k - 1) <= e[k]
      BY <1>2, <1>4, <2>1
    <2>3. q[1] \in runs => e[1] # 1
      BY <1>3, <2>1
    <2>4. k <= e[k] /\ (q[1] \in runs => k < e[k])
      BY <1>2, <2>1, <2>2, <2>3
    <2>. QED BY <1>3, <2>1, <2>4
  <1>10. ASSUME Len(w) > 0, q[1] \notin runs
         PROVE  w[1] = q[1]
    <2>1. 1 \in 1..Len(w) /\ 1 \in 1..Len(q)
      BY <1>2, <1>10
    <2>2. PICK k \in 1..Len(w) : e[k] = 1
      BY <1>10, <2>1 DEF Keeps
    <2>3. ~ (1 < k)
      <3>1. e[1] \in 1..Len(q) /\ ~ (e[1] < 1)
        BY <1>2, <2>1
      <3>. QED BY <1>5, <2>1, <2>2, <3>1
    <2>4. k = 1
      BY <1>2, <2>3
    <2>. QED BY <1>3, <2>1, <2>2, <2>4
  <1>. QED BY <1>1, <1>6, <1>7, <1>8, <1>9, <1>10 DEF Thinned

LEMMA QueueIsThinned ==
    ASSUME NEW Names, queue \in Seq(Names), Different(queue), NEW runs
    PROVE  QueueWithout(runs) \in Seq(Names) /\ Thinned(QueueWithout(runs), queue, runs)
PROOF
  <1>1. PICK e : Keeps(e, QueueWithout(runs), queue, runs, Len(queue), Names)
    BY WithoutIs
  <1>. QED BY <1>1, KeepsThins

-----------------------------------------------------------------------------
(* The inductive invariant.                                                *)

Limit == MaximumHeadBypass

\* The durable rows: a queued run asks for something that fits, only the front one has
\* been overtaken, and a run that left has left nothing behind.
RowsInv ==
    /\ queue \in Seq(Ids) /\ Different(queue)
    /\ need \in [Ids -> Vector] /\ bypass \in [Ids -> 0..Limit]
    /\ active \in SUBSET Ids /\ IsFiniteSet(active) /\ active \intersect QueuedRuns = {}
    /\ \A r \in QueuedRuns : Positive(need[r]) /\ Fits(need[r], Capacity)
    /\ \A r \in Ids \ QueuedRuns : bypass[r] = 0 /\ (r \notin active => need[r] = Zero)
    /\ OnlyFrontIsBypassed

\* What the tick remembers, it remembers at its own stage only.
TickInv ==
    /\ tick \in {"idle", "queue", "planned", "down"} /\ pressure \in BOOLEAN
    /\ tick # "queue" => rows = <<>>
    /\ tick # "planned" => plan = NoPlan
    /\ plan.selected \in Seq(Ids) /\ plan.bypassed \in SUBSET [run : Ids, bypass : Nat]
    /\ plan.ok

\* A row that was read is queued as it was read, or it has been cancelled since: the
\* rows that were read come first in the queue, in the order in which they were read.
StillAsRead(row) ==
    /\ row.run \notin active
    /\ row.run \in QueuedRuns => row.need = need[row.run] /\ row.bypass = bypass[row.run]

ReadInv ==
    /\ rows \in Seq(Row(Ids))
    /\ \A i, j \in 1..Len(rows) : rows[i].run = rows[j].run => i = j
    /\ \A i \in 1..Len(rows) :
          /\ Positive(rows[i].need) /\ Fits(rows[i].need, Capacity) /\ rows[i].bypass <= Limit
          /\ StillAsRead(rows[i])
    /\ \A j \in 1..Len(rows), a, b \in 1..Len(queue) :
          a < b /\ queue[b] = rows[j].run =>
              \E i \in 1..Len(rows) : i < j /\ queue[a] = rows[i].run

\* The runs of the plan fit beside those that are active, even if some of both are gone.
RoomInv ==
    /\ Chosen \intersect active = {}
    /\ Fits(Total(need, active \union Chosen), Capacity)

\* Without a counter to store the plan overtakes nobody. With one, only the front row that
\* the plan leaves behind is overtaken, and the counter pays for every overtaking.
OvertakingInv ==
    /\ plan.bypassed = {} => \A r \in QueuedRuns \ Chosen : Overtakers(r) = {}
    /\ \A b, c \in plan.bypassed : b = c
    /\ \A b \in plan.bypassed :
          /\ b.run \notin Chosen /\ b.bypass <= Limit
          /\ \A i, j \in 1..Len(queue) : i < j /\ queue[j] = b.run => queue[i] \in Chosen
          /\ b.run \in QueuedRuns =>
                bypass[b.run] + Cardinality(Overtakers(b.run)) <= b.bypass

\* The patience that is left: a run has been overtaken at most as often as the rows that
\* were before it, and the front row so far, have been able to pay for.
PatienceInv ==
    /\ overtaken \in [Ids -> Nat] /\ ahead \in [Ids -> Nat] /\ faults \in 0..MaxFaults
    /\ \A r \in Ids \ QueuedRuns : overtaken[r] = 0
    /\ \A i \in 1..Len(queue) :
          overtaken[queue[i]] + (Limit - bypass[queue[1]]) + Limit * (i - 1)
              <= Limit * (ahead[queue[i]] + 1)

LoopInv == RowsInv /\ TickInv /\ ReadInv /\ RoomInv /\ OvertakingInv /\ PatienceInv

USE BypassAssumption, LoopAssumption

LEMMA LimitIs ==
    /\ Limit \in Nat /\ \A n \in Nat : Limit * n \in Nat /\ Limit * (n + 1) = Limit * n + Limit
    /\ \A n, m \in Nat : n <= m => Limit * n <= Limit * m
PROOF
  <1>1. \A n \in Nat : Limit * n \in Nat /\ Limit * (n + 1) = Limit * n + Limit
    BY DEF Limit
  <1>2. ASSUME NEW n \in Nat, NEW m \in Nat, n <= m
        PROVE  Limit * n <= Limit * m
    <2>. PICK d \in Nat : m = n + d
      <3>1. m - n \in Nat /\ m = n + (m - n)
        BY <1>2
      <3>. QED BY <3>1
    <2>1. \A k \in Nat : k * (n + d) = k * n + k * d
      OBVIOUS
    <2>2. Limit * m = Limit * n + Limit * d
      BY <2>1 DEF Limit
    <2>3. Limit * n \in Nat /\ Limit * d \in Nat
      BY <1>1
    <2>. QED BY <2>2, <2>3
  <1>3. Limit \in Nat
    BY DEF Limit
  <1>. QED BY <1>1, <1>2, <1>3

\* A run at whose place `old' counts is owed what is left of it; it moves to a place where
\* `new' counts, and the front pays for the overtakings there are more.
Owes(limit, count, front, place, owed) == count + (limit - front) + place <= owed
Pays(mine, more, after) == mine + more <= after
Moves(limit, mine, before, old, new) == new + limit <= old \/ (mine = before /\ new <= old)

\* What is owed to a run goes down if it moves up, or if the front stays as it was.
LEMMA LessIsOwed ==
    ASSUME NEW limit \in Nat, NEW count \in Nat, NEW before \in 0..limit, NEW after \in 0..limit,
           NEW old \in Nat, NEW new \in Nat, NEW owed \in Nat,
           Owes(limit, count, before, old, owed), Moves(limit, after, before, old, new)
    PROVE  Owes(limit, count, after, new, owed)
BY DEF Owes, Moves

\* The runs of the queue are as many as it is long.
LEMMA QueueIsCounted ==
    ASSUME NEW Names, queue \in Seq(Names), Different(queue)
    PROVE  IsFiniteSet(QueuedRuns) /\ Cardinality(QueuedRuns) = Len(queue)
PROOF
  <1>1. Len(queue) \in Nat
    OBVIOUS
  <1>2. IsFiniteSet(1..Len(queue)) /\ Cardinality(1..Len(queue)) = Len(queue)
    <2>. PICK n \in Nat : n = Len(queue)
      BY <1>1
    <2>1. 1 \in Int /\ n \in Int
      OBVIOUS
    <2>2. IsFiniteSet(1..n) /\ Cardinality(1..n) = IF 1 > n THEN 0 ELSE n - 1 + 1
      BY <2>1, FS_Interval
    <2>. QED BY <2>2
  <1>. DEFINE f == [i \in 1..Len(queue) |-> queue[i]]
  <1>3. f \in Surjection(1..Len(queue), QueuedRuns)
    BY DEF Surjection, QueuedRuns
  <1>4. f \in Injection(1..Len(queue), QueuedRuns)
    BY <1>3 DEF Injection, IsInjective, Surjection, Different, QueuedRuns
  <1>. HIDE DEF f
  <1>. QED BY <1>2, <1>3, <1>4, FS_Surjection

LEMMA ChosenIsFinite ==
    ASSUME NEW Names, plan.selected \in Seq(Names)
    PROVE  IsFiniteSet(Chosen) /\ Chosen \subseteq Names
PROOF
  <1>. PICK q : q = plan.selected
    OBVIOUS
  <1>1. IsFiniteSet(1..Len(q))
    <2>1. Len(q) \in Nat
      OBVIOUS
    <2>. QED BY <2>1, FS_Interval
  <1>2. IsFiniteSet({q[i] : i \in 1..Len(q)})
    BY <1>1, ImageIsFinite
  <1>3. Chosen = {q[i] : i \in 1..Len(q)}
    BY DEF Chosen
  <1>. QED BY <1>2, <1>3

\* A plan that starts nothing and counts nothing.
LEMMA NoPlanIsSafe ==
    plan.selected = <<>> /\ plan.bypassed = {} /\ RowsInv /\ CapacityRespected
        => RoomInv /\ OvertakingInv
PROOF
  <1>. SUFFICES ASSUME plan.selected = <<>>, plan.bypassed = {}, RowsInv, CapacityRespected
                PROVE  RoomInv /\ OvertakingInv
    OBVIOUS
  <1>1. Chosen = {}
    BY DEF Chosen
  <1>2. active \union Chosen = active
    BY <1>1
  <1>3. RoomInv
    BY <1>1, <1>2 DEF RoomInv, CapacityRespected
  <1>4. OvertakingInv
    BY <1>1 DEF OvertakingInv, Overtakers
  <1>. QED BY <1>3, <1>4

LEMMA NoPlanIsSafeNext ==
    (plan.selected = <<>> /\ plan.bypassed = {} /\ RowsInv /\ CapacityRespected)'
        => (RoomInv /\ OvertakingInv)'
BY NoPlanIsSafe, PTL

\* The active runs alone need no more than they need with those of the plan.
LEMMA RoomIsRespected == LoopInv => CapacityRespected
PROOF
  <1>. SUFFICES ASSUME LoopInv PROVE CapacityRespected
    OBVIOUS
  <1>. PICK both : both = active \union Chosen
    OBVIOUS
  <1>1. IsFiniteSet(Chosen) /\ Chosen \subseteq Ids
    BY ChosenIsFinite DEF LoopInv, TickInv
  <1>2. IsFiniteSet(both) /\ active \in SUBSET both
    BY <1>1, FS_Union DEF LoopInv, RowsInv
  <1>3. \A x \in both : need[x] \in Vector
    BY <1>1 DEF LoopInv, RowsInv
  <1>4. Fits(Total(need, active), Total(need, both))
    BY <1>2, <1>3, TotalOfPart
  <1>5. Fits(Total(need, both), Capacity)
    BY DEF LoopInv, RoomInv
  <1>6. Total(need, active) \in Vector /\ Total(need, both) \in Vector
    BY <1>2, <1>3, TotalIsVector DEF LoopInv, RowsInv
  <1>7. Fits(Total(need, active), Capacity)
    BY <1>4, <1>5, <1>6, FitsIs
  <1>. QED BY <1>7 DEF CapacityRespected

LEMMA InitLoop == Init => LoopInv
PROOF
  <1>. SUFFICES ASSUME Init PROVE LoopInv
    OBVIOUS
  <1>1. QueuedRuns = {} /\ Len(queue) = 0 /\ queue \in Seq(Ids)
    BY DEF Init, QueuedRuns
  <1>2. Zero \in Vector /\ Limit \in Nat
    BY PlusIs, LimitIs
  <1>3. RowsInv
    <2>1. IsFiniteSet(active)
      BY FS_EmptySet DEF Init
    <2>2. need \in [Ids -> Vector] /\ bypass \in [Ids -> 0..Limit]
      BY <1>2 DEF Init
    <2>. QED BY <1>1, <2>1, <2>2 DEF RowsInv, Init, Different, OnlyFrontIsBypassed
  <1>4. TickInv
    <2>1. plan.selected = <<>> /\ plan.bypassed = {} /\ plan.ok /\ plan = NoPlan
      BY DEF Init, NoPlan
    <2>2. plan.selected \in Seq(Ids) /\ plan.bypassed \in SUBSET [run : Ids, bypass : Nat]
      BY <2>1
    <2>. QED BY <2>1, <2>2 DEF TickInv, Init
  <1>5. ReadInv
    BY DEF ReadInv, Init
  <1>6. CapacityRespected
    <2>1. Total(need, active) = Zero
      BY TotalOfNone DEF Init
    <2>. QED BY <2>1, FitsIs DEF CapacityRespected
  <1>7. RoomInv /\ OvertakingInv
    BY <1>3, <1>6, NoPlanIsSafe DEF Init, NoPlan
  <1>8. PatienceInv
    BY <1>1 DEF PatienceInv, Init
  <1>. QED BY <1>3, <1>4, <1>5, <1>7, <1>8 DEF LoopInv

\* Steps that only change what the tick remembers, and forget the rows and the plan.
LEMMA ForgetKeeps ==
    ASSUME LoopInv, rows' = <<>>, plan' = NoPlan, pressure' \in BOOLEAN,
           UNCHANGED <<durable, overtaken, ahead>>,
           tick' \in {"idle", "down"}, faults' \in 0..MaxFaults
    PROVE  LoopInv'
PROOF
  <1>1. RowsInv'
    BY DEF LoopInv, RowsInv, durable, QueuedRuns, OnlyFrontIsBypassed
  <1>2. TickInv'
    <2>1. plan'.selected = <<>> /\ plan'.bypassed = {} /\ plan'.ok /\ plan' = NoPlan
      BY DEF NoPlan
    <2>2. plan'.selected \in Seq(Ids) /\ plan'.bypassed \in SUBSET [run : Ids, bypass : Nat]
      BY <2>1
    <2>3. NoPlan' = NoPlan
      BY DEF NoPlan
    <2>. QED BY <2>1, <2>2, <2>3 DEF TickInv
  <1>3. ReadInv'
    BY DEF ReadInv
  <1>4. CapacityRespected'
    BY RoomIsRespected DEF CapacityRespected, durable
  <1>5. RoomInv' /\ OvertakingInv'
    BY <1>1, <1>4, NoPlanIsSafeNext DEF NoPlan
  <1>6. PatienceInv'
    BY DEF LoopInv, PatienceInv, durable, QueuedRuns
  <1>. QED BY <1>1, <1>2, <1>3, <1>5, <1>6 DEF LoopInv

LEMMA FinishKeeps ==
    ASSUME LoopInv, NEW r \in Ids, Finish(r)
    PROVE  LoopInv'
PROOF
  <1>1. /\ r \in active /\ active' = active \ {r} /\ need' = [need EXCEPT ![r] = Zero]
        /\ queue' = queue /\ bypass' = bypass /\ UNCHANGED reads /\ UNCHANGED ghosts
    BY DEF Finish
  <1>2. r \notin QueuedRuns /\ QueuedRuns' = QueuedRuns /\ need \in [Ids -> Vector]
    BY <1>1 DEF LoopInv, RowsInv, QueuedRuns
  <1>3. /\ need' \in [Ids -> Vector] /\ need'[r] = Zero
        /\ \A x \in Ids : x # r => need'[x] = need[x]
    BY <1>1, <1>2, PlusIs
  <1>4. RowsInv'
    <2>1. active' \in SUBSET Ids /\ IsFiniteSet(active')
      BY <1>1, FS_Subset DEF LoopInv, RowsInv
    <2>2. \A x \in QueuedRuns : x \in Ids /\ x # r
      BY <1>2 DEF LoopInv, RowsInv, QueuedRuns
    <2>. QED BY <1>1, <1>2, <1>3, <2>1, <2>2 DEF LoopInv, RowsInv, OnlyFrontIsBypassed
  <1>5. TickInv'
    BY <1>1 DEF LoopInv, TickInv, reads
  <1>6. ReadInv'
    <2>1. rows' = rows /\ rows \in Seq(Row(Ids))
      BY <1>1 DEF reads, LoopInv, ReadInv
    <2>2. ASSUME NEW i \in 1..Len(rows)
          PROVE  StillAsRead(rows[i])'
      <3>0. rows[i] \in Row(Ids)
        BY <2>1
      <3>1. rows[i].run \in Ids
        BY <3>0 DEF Row
      <3>2. StillAsRead(rows[i])
        BY DEF LoopInv, ReadInv
      <3>. QED BY <1>1, <1>2, <1>3, <2>1, <3>1, <3>2 DEF StillAsRead
    <2>. QED BY <1>1, <2>1, <2>2 DEF LoopInv, ReadInv
  <1>7. RoomInv'
    <2>. PICK both : both = active \union Chosen
      OBVIOUS
    <2>. PICK rest : rest = active' \union Chosen
      OBVIOUS
    <2>1. IsFiniteSet(Chosen) /\ Chosen \subseteq Ids /\ Chosen' = Chosen
      BY <1>1, ChosenIsFinite DEF LoopInv, TickInv, reads, Chosen
    <2>2. IsFiniteSet(both) /\ rest \in SUBSET both /\ r \notin rest /\ both \in SUBSET Ids
      BY <1>1, <2>1, FS_Union DEF LoopInv, RowsInv, RoomInv
    <2>3. IsFiniteSet(rest)
      BY <2>2, FS_Subset
    <2>4. /\ \A x \in both : need[x] \in Vector
          /\ \A x \in rest : need'[x] = need[x] /\ need[x] \in Vector
      BY <1>2, <1>3, <2>2
    <2>5. Total(need', rest) = Total(need, rest)
      BY <2>3, <2>4, TotalAgrees
    <2>6. /\ Fits(Total(need, rest), Total(need, both))
          /\ Total(need, rest) \in Vector /\ Total(need, both) \in Vector
      BY <2>2, <2>3, <2>4, TotalOfPart, TotalIsVector
    <2>7. Fits(Total(need, both), Capacity)
      BY DEF LoopInv, RoomInv
    <2>8. Fits(Total(need', rest), Capacity)
      BY <2>5, <2>6, <2>7, FitsIs
    <2>9. Chosen \intersect active' = {}
      BY <1>1 DEF LoopInv, RoomInv
    <2>. QED BY <2>1, <2>8, <2>9 DEF RoomInv
  <1>8. OvertakingInv'
    <2>1. /\ Chosen' = Chosen /\ QueuedRuns' = QueuedRuns /\ plan' = plan
          /\ \A x : Overtakers(x)' = Overtakers(x)
      BY <1>1 DEF reads, Overtakers, Chosen, QueuedRuns
    <2>. QED BY <1>1, <2>1 DEF LoopInv, OvertakingInv
  <1>9. PatienceInv'
    BY <1>1 DEF LoopInv, PatienceInv, ghosts, QueuedRuns
  <1>. QED BY <1>4, <1>5, <1>6, <1>7, <1>8, <1>9 DEF LoopInv

LEMMA SubmitKeeps ==
    ASSUME LoopInv, NEW r \in Ids, NEW q \in Needs, Submit(r, q)
    PROVE  LoopInv'
PROOF
  <1>1. /\ r \notin QueuedRuns /\ r \notin active /\ r \notin ReadRuns
        /\ Positive(q) /\ Fits(q, Capacity) /\ q \in Vector
        /\ queue' = Append(queue, r) /\ need' = [need EXCEPT ![r] = q]
        /\ ahead' = [ahead EXCEPT ![r] = Len(queue)]
        /\ UNCHANGED <<bypass, active, reads, faults, overtaken>>
    BY DEF Submit
  <1>2. /\ queue \in Seq(Ids) /\ Different(queue) /\ need \in [Ids -> Vector]
        /\ bypass \in [Ids -> 0..Limit] /\ OnlyFrontIsBypassed
    BY DEF LoopInv, RowsInv
  <1>. PICK n \in Nat : n = Len(queue)
    BY <1>2
  <1>3. /\ queue' \in Seq(Ids) /\ Len(queue') = n + 1 /\ queue'[n + 1] = r
        /\ \A i \in 1..n : queue'[i] = queue[i] /\ queue[i] \in QueuedRuns /\ queue[i] \in Ids
      <2>1. \A i \in 1..n : queue[i] \in QueuedRuns
        BY DEF QueuedRuns
      <2>. QED BY <1>1, <1>2, <2>1
  <1>4. /\ need' \in [Ids -> Vector] /\ need'[r] = q
        /\ \A x \in Ids : x # r => need'[x] = need[x]
    BY <1>1, <1>2
  <1>5. \A i \in 1..n + 1 : i \in 1..n \/ i = n + 1
    OBVIOUS
  <1>6. QueuedRuns' = QueuedRuns \union {r}
    <2>1. QueuedRuns' = {queue'[i] : i \in 1..n + 1} /\ QueuedRuns = {queue[i] : i \in 1..n}
      BY <1>3 DEF QueuedRuns
    <2>2. \A i \in 1..n : i \in 1..n + 1
      OBVIOUS
    <2>3. n + 1 \in 1..n + 1
      OBVIOUS
    <2>. QED BY <1>3, <1>5, <2>1, <2>2, <2>3
  <1>7. RowsInv'
    <2>1. Different(queue')
      <3>1. \A i \in 1..n : queue'[i] # r
        BY <1>1, <1>3
      <3>. QED BY <1>2, <1>3, <1>5, <3>1 DEF Different
    <2>2. OnlyFrontIsBypassed'
      <3>. SUFFICES ASSUME NEW i \in 2..n + 1 PROVE bypass[queue'[i]] = 0
        BY <1>1, <1>3 DEF OnlyFrontIsBypassed
      <3>1. CASE i = n + 1
        BY <1>1, <1>3, <3>1 DEF LoopInv, RowsInv
      <3>2. CASE i # n + 1
        <4>1. i \in 2..n /\ i \in 1..n
          BY <3>2
        <4>. QED BY <1>2, <1>3, <4>1 DEF OnlyFrontIsBypassed
      <3>. QED BY <3>1, <3>2
    <2>3. \A x \in QueuedRuns' : Positive(need'[x]) /\ Fits(need'[x], Capacity)
      <3>1. \A x \in QueuedRuns : x \in Ids /\ x # r
        BY <1>1, <1>3 DEF QueuedRuns
      <3>. QED BY <1>1, <1>4, <1>6, <3>1 DEF LoopInv, RowsInv
    <2>4. \A x \in Ids \ QueuedRuns' : bypass'[x] = 0 /\ (x \notin active' => need'[x] = Zero)
      BY <1>1, <1>4, <1>6 DEF LoopInv, RowsInv
    <2>5. active' \intersect QueuedRuns' = {}
      BY <1>1, <1>6 DEF LoopInv, RowsInv
    <2>. QED BY <1>1, <1>2, <1>3, <1>4, <2>1, <2>2, <2>3, <2>4, <2>5 DEF LoopInv, RowsInv
  <1>8. TickInv'
    BY <1>1 DEF LoopInv, TickInv, reads
  <1>9. \A i \in 1..Len(rows) : rows[i].run # r
    BY <1>1 DEF ReadRuns
  <1>10. ReadInv'
    <2>1. rows' = rows /\ rows \in Seq(Row(Ids))
      BY <1>1 DEF reads, LoopInv, ReadInv
    <2>2. ASSUME NEW i \in 1..Len(rows)
          PROVE  StillAsRead(rows[i])'
      <3>1. rows[i] \in Row(Ids)
        BY <2>1
      <3>2. rows[i].run \in Ids /\ rows[i].run # r
        BY <1>9, <3>1 DEF Row
      <3>3. StillAsRead(rows[i])
        BY DEF LoopInv, ReadInv
      <3>. QED BY <1>1, <1>4, <1>6, <2>1, <3>2, <3>3 DEF StillAsRead
    <2>3. ASSUME NEW j \in 1..Len(rows), NEW a \in 1..n + 1, NEW b \in 1..n + 1,
                 a < b, queue'[b] = rows[j].run
          PROVE  \E i \in 1..Len(rows) : i < j /\ queue'[a] = rows[i].run
      <3>1. b \in 1..n
        BY <1>3, <1>5, <1>9, <2>3
      <3>2. a \in 1..n
        <4>1. a \in Nat /\ b \in Nat /\ 1 <= a
          OBVIOUS
        <4>. QED BY <2>3, <3>1, <4>1
      <3>3. /\ a \in 1..Len(queue) /\ b \in 1..Len(queue) /\ queue[b] = rows[j].run
            /\ queue'[a] = queue[a]
        BY <1>3, <2>3, <3>1, <3>2
      <3>. QED BY <2>3, <3>3 DEF LoopInv, ReadInv
    <2>4. /\ \A i, j \in 1..Len(rows) : rows[i].run = rows[j].run => i = j
          /\ \A i \in 1..Len(rows) :
                /\ Positive(rows[i].need) /\ Fits(rows[i].need, Capacity) /\ rows[i].bypass <= Limit
      BY DEF LoopInv, ReadInv
    <2>. QED BY <1>3, <2>1, <2>2, <2>3, <2>4 DEF ReadInv
  <1>11. /\ IsFiniteSet(Chosen) /\ Chosen \subseteq Ids /\ r \notin Chosen
         /\ Chosen' = Chosen /\ plan' = plan
    <2>1. IsFiniteSet(Chosen) /\ Chosen \subseteq Ids
      BY ChosenIsFinite DEF LoopInv, TickInv
    <2>2. r \notin Chosen
      BY <1>1 DEF ReadRuns, Touched
    <2>. QED BY <1>1, <2>1, <2>2 DEF reads, Chosen
  <1>12. RoomInv'
    <2>. PICK both : both = active \union Chosen
      OBVIOUS
    <2>1. IsFiniteSet(both) /\ r \notin both /\ both \in SUBSET Ids
      BY <1>1, <1>11, FS_Union DEF LoopInv, RowsInv
    <2>2. \A x \in both : need'[x] = need[x]
      BY <1>4, <2>1
    <2>3. Total(need', both) = Total(need, both)
      BY <2>1, <2>2, TotalAgrees
    <2>. QED BY <1>1, <1>11, <2>3 DEF LoopInv, RoomInv
  <1>13. \A x : Overtakers(x)' = Overtakers(x)
    <2>. TAKE x
    <2>1. Overtakers(x)' = {s \in Chosen : \E i, j \in 1..n + 1 :
                               i < j /\ queue'[i] = x /\ queue'[j] = s}
      BY <1>3, <1>11 DEF Overtakers
    <2>2. ASSUME NEW s \in Chosen, NEW i \in 1..n + 1, NEW j \in 1..n + 1,
                 i < j, queue'[i] = x, queue'[j] = s
          PROVE  i \in 1..n /\ j \in 1..n /\ queue[i] = x /\ queue[j] = s
      <3>1. j \in 1..n
        BY <1>3, <1>5, <1>11, <2>2
      <3>2. i \in 1..n
        BY <2>2, <3>1
      <3>. QED BY <1>3, <2>2, <3>1, <3>2
    <2>3. ASSUME NEW s \in Chosen, NEW i \in 1..n, NEW j \in 1..n,
                 i < j, queue[i] = x, queue[j] = s
          PROVE  i \in 1..n + 1 /\ j \in 1..n + 1 /\ queue'[i] = x /\ queue'[j] = s
      BY <1>3, <2>3
    <2>4. Overtakers(x) = {s \in Chosen : \E i, j \in 1..n :
                              i < j /\ queue[i] = x /\ queue[j] = s}
      BY DEF Overtakers
    <2>5. \A s : s \in Overtakers(x)' <=> s \in Overtakers(x)
      BY <2>1, <2>2, <2>3, <2>4
    <2>. QED BY <2>5
  <1>14. OvertakingInv'
    <2>1. \A b \in plan.bypassed : b.run # r
      BY <1>1 DEF ReadRuns, Touched
    <2>2. plan.bypassed = {} => \A x \in QueuedRuns' \ Chosen : Overtakers(x) = {}
      <3>1. Overtakers(r) = {}
        BY <1>1 DEF Overtakers, QueuedRuns
      <3>. QED BY <1>6, <3>1 DEF LoopInv, OvertakingInv
    <2>3. ASSUME NEW b \in plan.bypassed, NEW i \in 1..n + 1, NEW j \in 1..n + 1,
                 i < j, queue'[j] = b.run
          PROVE  queue'[i] \in Chosen
      <3>1. j \in 1..n
        BY <1>3, <1>5, <2>1, <2>3
      <3>2. i \in 1..n
        BY <2>3, <3>1
      <3>3. /\ i \in 1..Len(queue) /\ j \in 1..Len(queue) /\ queue[j] = b.run
            /\ queue'[i] = queue[i]
        BY <1>3, <2>3, <3>1, <3>2
      <3>. QED BY <2>3, <3>3 DEF LoopInv, OvertakingInv
    <2>4. \A b \in plan.bypassed : b.run \in QueuedRuns' => b.run \in QueuedRuns
      BY <1>6, <2>1
    <2>. QED BY <1>1, <1>3, <1>11, <1>13, <2>2, <2>3, <2>4 DEF LoopInv, OvertakingInv
  <1>15. PatienceInv'
    <2>1. ahead' \in [Ids -> Nat] /\ ahead'[r] = n /\ \A x \in Ids : x # r => ahead'[x] = ahead[x]
      BY <1>1 DEF LoopInv, PatienceInv
    <2>2. \A x \in Ids \ QueuedRuns' : overtaken'[x] = 0
      BY <1>1, <1>6 DEF LoopInv, PatienceInv
    <2>3. ASSUME NEW i \in 1..n + 1
          PROVE  overtaken[queue'[i]] + (Limit - bypass[queue'[1]]) + Limit * (i - 1)
                    <= Limit * (ahead'[queue'[i]] + 1)
      <3>1. CASE i \in 1..n
        <4>1. 1 \in 1..n
          BY <3>1
        <4>2. queue'[1] = queue[1] /\ queue'[i] = queue[i] /\ queue[i] # r /\ queue[i] \in Ids
          BY <1>1, <1>3, <3>1, <4>1
        <4>. QED BY <2>1, <3>1, <4>2 DEF LoopInv, PatienceInv
      <3>2. CASE i = n + 1
        <4>1. queue'[i] = r /\ overtaken[r] = 0 /\ ahead'[r] = n /\ i - 1 = n
          BY <1>1, <1>3, <2>1, <3>2 DEF LoopInv, PatienceInv
        <4>2. queue'[1] \in Ids
          <5>1. 1 \in 1..Len(queue')
            BY <1>3
          <5>. QED BY <1>3, <5>1
        <4>3. bypass[queue'[1]] \in Nat /\ bypass[queue'[1]] <= Limit /\ Limit \in Nat
          BY <1>2, <4>2, LimitIs
        <4>4. Limit * (n + 1) = Limit * n + Limit /\ Limit * n \in Nat
          BY LimitIs
        <4>. QED BY <4>1, <4>3, <4>4
      <3>. QED BY <1>5, <3>1, <3>2
    <2>. QED BY <1>1, <1>3, <2>1, <2>2, <2>3 DEF LoopInv, PatienceInv
  <1>. QED BY <1>7, <1>8, <1>10, <1>12, <1>14, <1>15 DEF LoopInv

LEMMA CancelKeeps ==
    ASSUME LoopInv, NEW r \in Ids, CancelQueued(r)
    PROVE  LoopInv'
PROOF
  <1>1. /\ r \in QueuedRuns /\ faults < MaxFaults
        /\ queue' = QueueWithout({r}) /\ need' = [need EXCEPT ![r] = Zero]
        /\ bypass' = [bypass EXCEPT ![r] = 0] /\ ahead' = [ahead EXCEPT ![r] = 0]
        /\ overtaken' = [overtaken EXCEPT ![r] = 0] /\ faults' = faults + 1
        /\ UNCHANGED <<active, reads>>
    BY DEF CancelQueued
  <1>2. /\ queue \in Seq(Ids) /\ Different(queue) /\ need \in [Ids -> Vector]
        /\ bypass \in [Ids -> 0..Limit] /\ OnlyFrontIsBypassed
        /\ overtaken \in [Ids -> Nat] /\ ahead \in [Ids -> Nat] /\ faults \in 0..MaxFaults
    BY DEF LoopInv, RowsInv, PatienceInv
  <1>3. queue' \in Seq(Ids) /\ Thinned(queue', queue, {r})
    BY <1>1, <1>2, QueueIsThinned
  <1>4. /\ need' \in [Ids -> Vector] /\ bypass' \in [Ids -> 0..Limit]
        /\ overtaken' \in [Ids -> Nat] /\ ahead' \in [Ids -> Nat]
        /\ need'[r] = Zero /\ bypass'[r] = 0 /\ overtaken'[r] = 0
        /\ \A x \in Ids : x # r => /\ need'[x] = need[x] /\ bypass'[x] = bypass[x]
                                   /\ overtaken'[x] = overtaken[x] /\ ahead'[x] = ahead[x]
    <2>1. Zero \in Vector /\ 0 \in 0..Limit /\ 0 \in Nat
      BY PlusIs, LimitIs
    <2>. QED BY <1>1, <1>2, <2>1
  <1>5. QueuedRuns' = QueuedRuns \ {r}
    <2>1. \A x : (\E k \in 1..Len(queue') : queue'[k] = x)
                   <=> (\E i \in 1..Len(queue) : queue[i] = x) /\ x \notin {r}
      BY <1>3 DEF Thinned
    <2>2. /\ \A x : x \in QueuedRuns <=> \E i \in 1..Len(queue) : queue[i] = x
          /\ \A x : x \in QueuedRuns' <=> \E k \in 1..Len(queue') : queue'[k] = x
      BY DEF QueuedRuns
    <2>. QED BY <2>1, <2>2
  <1>6. \A x \in QueuedRuns : x \in Ids
    BY <1>2 DEF QueuedRuns
  <1>7. \A k \in 1..Len(queue') : queue'[k] \in QueuedRuns' /\ queue'[k] \in Ids /\ queue'[k] # r
    BY <1>5, <1>6 DEF QueuedRuns
  <1>8. \A a, b \in 1..Len(queue') :
          a < b => \E i, j \in 1..Len(queue) : i < j /\ queue'[a] = queue[i] /\ queue'[b] = queue[j]
    BY <1>3 DEF Thinned
  <1>9. \A k \in 1..Len(queue') :
          \E i \in 1..Len(queue) : queue'[k] = queue[i] /\ k <= i /\ (queue[1] = r => k < i)
    BY <1>3 DEF Thinned
  <1>10. RowsInv'
    <2>1. Different(queue')
      BY <1>3 DEF Thinned
    <2>2. OnlyFrontIsBypassed'
      <3>. SUFFICES ASSUME NEW k \in 2..Len(queue') PROVE bypass'[queue'[k]] = 0
        BY DEF OnlyFrontIsBypassed
      <3>0. Len(queue') \in Nat /\ k \in 1..Len(queue')
        BY <1>3
      <3>1. PICK i \in 1..Len(queue) : queue'[k] = queue[i] /\ k <= i
        BY <1>9, <3>0
      <3>2. i \in 2..Len(queue)
        BY <1>2, <3>1
      <3>3. bypass[queue[i]] = 0
        BY <1>2, <3>2 DEF OnlyFrontIsBypassed
      <3>. QED BY <1>4, <1>7, <3>0, <3>1, <3>3
    <2>3. \A x \in QueuedRuns' : Positive(need'[x]) /\ Fits(need'[x], Capacity)
      BY <1>4, <1>5, <1>6 DEF LoopInv, RowsInv
    <2>4. \A x \in Ids \ QueuedRuns' : bypass'[x] = 0 /\ (x \notin active' => need'[x] = Zero)
      BY <1>1, <1>4, <1>5 DEF LoopInv, RowsInv
    <2>5. active' \intersect QueuedRuns' = {}
      BY <1>1, <1>5 DEF LoopInv, RowsInv
    <2>. QED BY <1>1, <1>2, <1>3, <1>4, <2>1, <2>2, <2>3, <2>4, <2>5 DEF LoopInv, RowsInv
  <1>11. TickInv'
    BY <1>1 DEF LoopInv, TickInv, reads
  <1>12. ReadInv'
    <2>1. rows' = rows /\ rows \in Seq(Row(Ids))
      BY <1>1 DEF reads, LoopInv, ReadInv
    <2>2. ASSUME NEW i \in 1..Len(rows)
          PROVE  StillAsRead(rows[i])'
      <3>1. rows[i] \in Row(Ids)
        BY <2>1
      <3>2. rows[i].run \in Ids
        BY <3>1 DEF Row
      <3>3. StillAsRead(rows[i])
        BY DEF LoopInv, ReadInv
      <3>. QED BY <1>1, <1>4, <1>5, <2>1, <3>2, <3>3 DEF StillAsRead
    <2>3. ASSUME NEW j \in 1..Len(rows), NEW a \in 1..Len(queue'), NEW b \in 1..Len(queue'),
                 a < b, queue'[b] = rows[j].run
          PROVE  \E i \in 1..Len(rows) : i < j /\ queue'[a] = rows[i].run
      <3>1. PICK k, l \in 1..Len(queue) : k < l /\ queue'[a] = queue[k] /\ queue'[b] = queue[l]
        BY <1>8, <2>3
      <3>2. \A c, d \in 1..Len(queue) :
               c < d /\ queue[d] = rows[j].run => \E i \in 1..Len(rows) : i < j /\ queue[c] = rows[i].run
        BY DEF LoopInv, ReadInv
      <3>3. queue[l] = rows[j].run
        BY <2>3, <3>1
      <3>4. \E i \in 1..Len(rows) : i < j /\ queue[k] = rows[i].run
        BY <3>1, <3>2, <3>3
      <3>. QED BY <3>1, <3>4
    <2>4. /\ \A i, j \in 1..Len(rows) : rows[i].run = rows[j].run => i = j
          /\ \A i \in 1..Len(rows) :
                /\ Positive(rows[i].need) /\ Fits(rows[i].need, Capacity) /\ rows[i].bypass <= Limit
      BY DEF LoopInv, ReadInv
    <2>. QED BY <2>1, <2>2, <2>3, <2>4 DEF ReadInv
  <1>13. IsFiniteSet(Chosen) /\ Chosen \subseteq Ids /\ Chosen' = Chosen /\ plan' = plan
    <2>1. IsFiniteSet(Chosen) /\ Chosen \subseteq Ids
      BY ChosenIsFinite DEF LoopInv, TickInv
    <2>. QED BY <1>1, <2>1 DEF reads, Chosen
  <1>14. RoomInv'
    <2>. PICK both : both = active \union Chosen
      OBVIOUS
    <2>1. IsFiniteSet(both) /\ both \in SUBSET Ids
      BY <1>1, <1>13, FS_Union DEF LoopInv, RowsInv
    <2>2. \A x \in both : need'[x] \in Vector /\ need[x] \in Vector /\ Fits(need'[x], need[x])
      <3>. TAKE x \in both
      <3>1. need'[x] \in Vector /\ need[x] \in Vector /\ (need'[x] = need[x] \/ need'[x] = Zero)
        BY <1>2, <1>4, <2>1
      <3>. QED BY <3>1, FitsIs
    <2>3. Fits(Total(need', both), Total(need, both))
      BY <2>1, <2>2, TotalOfLess
    <2>4. Total(need', both) \in Vector /\ Total(need, both) \in Vector
      BY <2>1, <2>2, TotalIsVector
    <2>5. Fits(Total(need, both), Capacity)
      BY DEF LoopInv, RoomInv
    <2>6. Fits(Total(need', both), Capacity)
      BY <2>3, <2>4, <2>5, FitsIs
    <2>. QED BY <1>1, <1>13, <2>6 DEF LoopInv, RoomInv
  <1>15. \A x : Overtakers(x)' \subseteq Overtakers(x)
    <2>. TAKE x
    <2>1. ASSUME NEW s \in Chosen, NEW a \in 1..Len(queue'), NEW b \in 1..Len(queue'),
                 a < b, queue'[a] = x, queue'[b] = s
          PROVE  s \in Overtakers(x)
      <3>1. PICK i, j \in 1..Len(queue) : i < j /\ queue'[a] = queue[i] /\ queue'[b] = queue[j]
        BY <1>8, <2>1
      <3>. QED BY <2>1, <3>1 DEF Overtakers
    <2>. QED BY <1>13, <2>1 DEF Overtakers
  <1>16. OvertakingInv'
    <2>1. plan.bypassed = {} => \A x \in QueuedRuns' \ Chosen : Overtakers(x)' = {}
      BY <1>5, <1>15 DEF LoopInv, OvertakingInv
    <2>2. ASSUME NEW b \in plan.bypassed, NEW k \in 1..Len(queue'), NEW l \in 1..Len(queue'),
                 k < l, queue'[l] = b.run
          PROVE  queue'[k] \in Chosen
      <3>1. PICK i, j \in 1..Len(queue) : i < j /\ queue'[k] = queue[i] /\ queue'[l] = queue[j]
        BY <1>8, <2>2
      <3>. QED BY <2>2, <3>1 DEF LoopInv, OvertakingInv
    <2>3. ASSUME NEW b \in plan.bypassed, b.run \in QueuedRuns'
          PROVE  bypass'[b.run] + Cardinality(Overtakers(b.run)') <= b.bypass
      <3>. PICK before : before = Overtakers(b.run)
        OBVIOUS
      <3>. PICK after : after = Overtakers(b.run)'
        OBVIOUS
      <3>1. b.run \in QueuedRuns /\ b.run \in Ids /\ bypass'[b.run] = bypass[b.run]
        BY <1>4, <1>5, <1>6, <2>3
      <3>2. bypass[b.run] + Cardinality(before) <= b.bypass
        BY <3>1 DEF LoopInv, OvertakingInv
      <3>3. after \subseteq before /\ before \subseteq Chosen
        BY <1>15 DEF Overtakers
      <3>4. IsFiniteSet(before)
        BY <1>13, <3>3, FS_Subset
      <3>5. IsFiniteSet(after) /\ Cardinality(after) <= Cardinality(before)
        BY <3>3, <3>4, FS_Subset
      <3>6. Cardinality(after) \in Nat /\ Cardinality(before) \in Nat
        BY <3>4, <3>5, FS_CardinalityType
      <3>7. bypass[b.run] \in Nat /\ b.bypass \in Nat
        BY <1>2, <3>1 DEF LoopInv, TickInv
      <3>8. bypass[b.run] + Cardinality(after) <= b.bypass
        BY <3>2, <3>5, <3>6, <3>7
      <3>. QED BY <3>1, <3>8
    <2>4. \A b, c \in plan.bypassed : b = c
      BY DEF LoopInv, OvertakingInv
    <2>5. \A b \in plan.bypassed : b.run \notin Chosen /\ b.bypass <= Limit
      BY DEF LoopInv, OvertakingInv
    <2>. QED BY <1>13, <2>1, <2>2, <2>3, <2>4, <2>5 DEF OvertakingInv
  <1>17. PatienceInv'
    <2>1. \A x \in Ids \ QueuedRuns' : overtaken'[x] = 0
      BY <1>4, <1>5 DEF LoopInv, PatienceInv
    <2>2. faults' \in 0..MaxFaults
      BY <1>1, <1>2
    <2>3. ASSUME NEW k \in 1..Len(queue')
          PROVE  overtaken'[queue'[k]] + (Limit - bypass'[queue'[1]]) + Limit * (k - 1)
                    <= Limit * (ahead'[queue'[k]] + 1)
      <3>1. PICK i \in 1..Len(queue) : queue'[k] = queue[i] /\ k <= i /\ (queue[1] = r => k < i)
        BY <1>9
      <3>2. /\ overtaken'[queue'[k]] = overtaken[queue[i]] /\ ahead'[queue'[k]] = ahead[queue[i]]
            /\ overtaken[queue[i]] \in Nat
        BY <1>2, <1>4, <1>7, <3>1
      <3>3. overtaken[queue[i]] + (Limit - bypass[queue[1]]) + Limit * (i - 1)
               <= Limit * (ahead[queue[i]] + 1)
        BY <3>1 DEF LoopInv, PatienceInv
      <3>4. /\ 1 \in 1..Len(queue) /\ 1 \in 1..Len(queue') /\ i - 1 \in Nat /\ k - 1 \in Nat
            /\ i \in Nat /\ k \in Nat /\ k - 1 <= i - 1 /\ (queue[1] = r => k <= i - 1)
        <4>1. Len(queue) \in Nat /\ Len(queue') \in Nat
          BY <1>2, <1>3
        <4>. QED BY <3>1, <4>1
      <3>5. queue[1] \in Ids /\ queue'[1] \in Ids /\ queue[i] \in Ids
        <4>1. queue[1] \in Ids /\ queue[i] \in Ids
          BY <1>2, <3>1, <3>4
        <4>2. queue'[1] \in Ids
          BY <1>3, <3>4
        <4>. QED BY <4>1, <4>2
      <3>. PICK before \in 0..Limit : before = bypass[queue[1]]
        BY <1>2, <3>5
      <3>. PICK after \in 0..Limit : after = bypass'[queue'[1]]
        BY <1>4, <3>5
      <3>. PICK count \in Nat : count = overtaken[queue[i]]
        BY <3>2
      <3>. PICK owed : owed = Limit * (ahead[queue[i]] + 1)
        OBVIOUS
      <3>. PICK mine \in Nat : mine = Limit * (i - 1)
        BY <3>4, LimitIs
      <3>. PICK yours \in Nat : yours = Limit * (k - 1)
        BY <3>4, LimitIs
      <3>6. owed \in Nat
        <4>1. ahead[queue[i]] \in Nat
          BY <1>2, <3>5
        <4>. PICK place \in Nat : place = ahead[queue[i]] + 1
          BY <4>1
        <4>2. Limit * place \in Nat
          BY LimitIs
        <4>. QED BY <4>2
      <3>7. CASE queue[1] = r
        <4>1. k <= i - 1 /\ k = (k - 1) + 1
          BY <3>4, <3>7
        <4>2. yours + Limit <= mine
          <5>1. Limit * k <= Limit * (i - 1)
            BY <3>4, <4>1, LimitIs
          <5>2. Limit * k = Limit * (k - 1) + Limit
            BY <3>4, <4>1, LimitIs
          <5>. QED BY <5>1, <5>2
        <4>3. Owes(Limit, count, after, yours, owed)
          <5>1. Moves(Limit, after, before, mine, yours)
            BY <4>2 DEF Moves
          <5>2. Limit \in Nat /\ Owes(Limit, count, before, mine, owed)
            BY <3>3, LimitIs DEF Owes
          <5>. QED BY <3>6, <5>1, <5>2, LessIsOwed
        <4>. QED BY <3>2, <4>3 DEF Owes
      <3>8. CASE queue[1] # r
        <4>1. after = before
          <5>1. Len(queue') > 0
            BY <3>4
          <5>2. queue'[1] = queue[1]
            BY <1>3, <3>8, <5>1 DEF Thinned
          <5>. QED BY <1>4, <1>7, <3>4, <5>2
        <4>2. yours <= mine
          BY <3>4, LimitIs
        <4>3. Owes(Limit, count, after, yours, owed)
          <5>1. Moves(Limit, after, before, mine, yours)
            BY <4>1, <4>2 DEF Moves
          <5>2. Limit \in Nat /\ Owes(Limit, count, before, mine, owed)
            BY <3>3, LimitIs DEF Owes
          <5>. QED BY <3>6, <5>1, <5>2, LessIsOwed
        <4>. QED BY <3>2, <4>3 DEF Owes
      <3>. QED BY <3>7, <3>8
    <2>. QED BY <1>4, <2>1, <2>2, <2>3 DEF PatienceInv
  <1>. QED BY <1>10, <1>11, <1>12, <1>14, <1>16, <1>17 DEF LoopInv

LEMMA ReadKeeps ==
    ASSUME LoopInv, NEW p \in BOOLEAN, ReadQueue(p)
    PROVE  LoopInv'
PROOF
  <1>1. /\ tick = "idle" /\ tick' = "queue" /\ pressure' = p
        /\ rows' = [i \in 1..Len(queue) |->
              [run |-> queue[i], need |-> need[queue[i]], bypass |-> bypass[queue[i]]]]
        /\ UNCHANGED <<durable, plan, ghosts>>
    BY DEF ReadQueue
  <1>2. /\ queue \in Seq(Ids) /\ Different(queue) /\ need \in [Ids -> Vector]
        /\ bypass \in [Ids -> 0..Limit] /\ OnlyFrontIsBypassed /\ Limit \in Nat
    BY LimitIs DEF LoopInv, RowsInv
  <1>. PICK n \in Nat : n = Len(queue)
    BY <1>2
  <1>3. /\ queue' = queue /\ need' = need /\ bypass' = bypass /\ active' = active
        /\ QueuedRuns' = QueuedRuns /\ Chosen' = Chosen
        /\ \A x : Overtakers(x)' = Overtakers(x)
    BY <1>1 DEF durable, QueuedRuns, Chosen, Overtakers
  <1>4. \A i \in 1..n : queue[i] \in Ids /\ queue[i] \in QueuedRuns
    BY <1>2 DEF QueuedRuns
  <1>5. \A i \in 1..n : /\ rows'[i] \in Row(Ids) /\ rows'[i].run = queue[i]
                        /\ rows'[i].need = need[queue[i]] /\ rows'[i].bypass = bypass[queue[i]]
    <2>. TAKE i \in 1..n
    <2>1. rows'[i] = [run |-> queue[i], need |-> need[queue[i]], bypass |-> bypass[queue[i]]]
      BY <1>1
    <2>2. queue[i] \in Ids /\ need[queue[i]] \in Vector /\ bypass[queue[i]] \in Nat
      BY <1>2, <1>4
    <2>. QED BY <2>1, <2>2 DEF Row
  <1>6. rows' \in Seq(Row(Ids)) /\ Len(rows') = n
    <2>1. rows' \in [1..n -> Row(Ids)]
      BY <1>1, <1>5
    <2>. QED BY <2>1
  <1>7. RowsInv'
    BY <1>3 DEF LoopInv, RowsInv, OnlyFrontIsBypassed
  <1>8. TickInv'
    BY <1>1, <1>3 DEF LoopInv, TickInv
  <1>9. ReadInv'
    <2>1. \A i, j \in 1..n : rows'[i].run = rows'[j].run => i = j
      BY <1>2, <1>5 DEF Different
    <2>2. ASSUME NEW i \in 1..n
          PROVE  /\ Positive(rows'[i].need) /\ Fits(rows'[i].need, Capacity)
                 /\ rows'[i].bypass <= Limit /\ StillAsRead(rows[i])'
      <3>1. Positive(need[queue[i]]) /\ Fits(need[queue[i]], Capacity) /\ queue[i] \notin active
        BY <1>4 DEF LoopInv, RowsInv
      <3>2. bypass[queue[i]] <= Limit
        BY <1>2, <1>4
      <3>3. StillAsRead(rows[i])'
        BY <1>3, <1>5, <3>1 DEF StillAsRead
      <3>. QED BY <1>5, <3>1, <3>2, <3>3
    <2>3. ASSUME NEW j \in 1..n, NEW a \in 1..n, NEW b \in 1..n, a < b, queue'[b] = rows'[j].run
          PROVE  \E i \in 1..n : i < j /\ queue'[a] = rows'[i].run
      <3>1. b = j
        BY <1>2, <1>3, <1>5, <2>3 DEF Different
      <3>. QED BY <1>3, <1>5, <2>3, <3>1
    <2>. QED BY <1>3, <1>6, <2>1, <2>2, <2>3 DEF ReadInv
  <1>10. RoomInv'
    BY <1>3 DEF LoopInv, RoomInv
  <1>11. OvertakingInv'
    BY <1>1, <1>3 DEF LoopInv, OvertakingInv
  <1>12. PatienceInv'
    BY <1>1, <1>3 DEF LoopInv, PatienceInv, ghosts
  <1>. QED BY <1>7, <1>8, <1>9, <1>10, <1>11, <1>12 DEF LoopInv
\* The plan is made from rows that were read before the usage was: a run that was read and
\* is gone asks for nothing now, and the others are as they were read.
LEMMA MakePlanKeeps ==
    ASSUME LoopInv, MakePlan
    PROVE  LoopInv'
PROOF
  <1>. PICK usage : usage = Total(need, active)
    OBVIOUS
  <1>. PICK made : made = PlanDispatch(Capacity, usage, pressure, rows)
    OBVIOUS
  <1>1. /\ tick = "queue" /\ tick' = "planned" /\ rows' = <<>> /\ pressure' = FALSE
        /\ plan' = [selected |-> made.selected, bypassed |-> made.bypassed,
                    ok |-> ~ PlanError(Capacity, usage, rows)]
        /\ UNCHANGED <<durable, ghosts>>
    BY DEF MakePlan
  <1>2. /\ queue' = queue /\ need' = need /\ bypass' = bypass /\ active' = active
        /\ QueuedRuns' = QueuedRuns
    BY <1>1 DEF durable, QueuedRuns
  <1>3. /\ queue \in Seq(Ids) /\ need \in [Ids -> Vector] /\ bypass \in [Ids -> 0..Limit]
        /\ active \in SUBSET Ids /\ IsFiniteSet(active) /\ rows \in Seq(Row(Ids))
        /\ pressure \in BOOLEAN
    BY DEF LoopInv, RowsInv, ReadInv, TickInv
  <1>4. Admitted(Ids, Capacity, usage, rows)
    <2>1. usage \in Vector /\ Capacity \in Vector
      <3>1. \A x \in active : need[x] \in Vector
        BY <1>3
      <3>. QED BY <1>3, <3>1, TotalIsVector
    <2>2. Fits(usage, Capacity)
      BY RoomIsRespected DEF CapacityRespected
    <2>3. ~ PlanError(Capacity, usage, rows)
      <3>1. ASSUME NEW i \in 1..Len(rows)
            PROVE  /\ Positive(rows[i].need) /\ Fits(rows[i].need, Capacity)
                   /\ ~ (rows[i].bypass > MaximumHeadBypass)
        <4>1. rows[i] \in Row(Ids) /\ rows[i].bypass <= Limit
          BY <1>3 DEF LoopInv, ReadInv
        <4>2. rows[i].bypass \in Nat
          BY <4>1 DEF Row
        <4>3. Positive(rows[i].need) /\ Fits(rows[i].need, Capacity)
          BY DEF LoopInv, ReadInv
        <4>. QED BY <4>1, <4>2, <4>3 DEF Limit
      <3>. QED BY <2>2, <3>1 DEF PlanError
    <2>4. \A i, j \in 1..Len(rows) : rows[i].run = rows[j].run => i = j
      BY DEF LoopInv, ReadInv
    <2>. QED BY <1>3, <2>1, <2>3, <2>4 DEF Admitted
  <1>5. plan'.selected = made.selected /\ plan'.bypassed = made.bypassed /\ plan'.ok
    BY <1>1, <1>4 DEF Admitted
  <1>6. RowsInv'
    BY <1>2 DEF LoopInv, RowsInv, OnlyFrontIsBypassed
  <1>7. ReadInv'
    BY <1>1 DEF ReadInv
  <1>8. PatienceInv'
    BY <1>1, <1>2 DEF LoopInv, PatienceInv, ghosts
  <1>9. ASSUME made.selected \in Seq(Ids), made.bypassed \in SUBSET [run : Ids, bypass : Nat],
               (RoomInv /\ OvertakingInv)'
        PROVE  LoopInv'
    <2>1. TickInv'
      BY <1>1, <1>5, <1>9 DEF TickInv
    <2>. QED BY <1>6, <1>7, <1>8, <1>9, <2>1 DEF LoopInv
  <1>10. CASE pressure
    <2>1. made.selected = <<>> /\ made.bypassed = {}
      BY <1>10 DEF PlanDispatch, StartPass
    <2>2. CapacityRespected'
      BY <1>2, RoomIsRespected DEF CapacityRespected
    <2>3. (RoomInv /\ OvertakingInv)'
      BY <1>5, <1>6, <2>1, <2>2, NoPlanIsSafeNext
    <2>. QED BY <1>9, <2>1, <2>3
  <1>11. CASE ~ pressure
    <2>1. Good(Ids, Capacity, usage, rows, made)
      <3>1. made = PlanDispatch(Capacity, usage, FALSE, rows)
        BY <1>3, <1>11
      <3>. QED BY <1>4, <3>1, PlanIsGood
    <2>2. made.selected \in Seq(Ids) /\ made.bypassed \in SUBSET [run : Ids, bypass : Nat]
      BY <2>1 DEF Good, PassType
    <2>. PICK runs : runs = {made.selected[k] : k \in 1..Len(made.selected)}
      OBVIOUS
    <2>. PICK C : C = ChosenIn(rows, made)
      OBVIOUS
    <2>3. Chosen' = runs
      BY <1>5 DEF Chosen
    <2>4. runs = {rows[c].run : c \in C} /\ Charges(rows, runs, made.bypassed)
      <3>1. RunsAt(rows, ChosenIn(rows, made), runs)
        BY <2>1, SelectedAreRows
      <3>2. Charges(rows, runs, made.bypassed)
        BY <2>1, PlanCharges
      <3>. QED BY <3>1, <3>2 DEF RunsAt
    <2>5. /\ C \subseteq 1..Len(rows) /\ IsFiniteSet(C) /\ C = Places(rows, runs)
          /\ \A c \in 1..Len(rows) : c \in C <=> rows[c].run \in runs
      <3>1. C = Places(rows, runs)
        BY DEF ChosenIn
      <3>2. C \subseteq 1..Len(rows) /\ IsFiniteSet(C)
        BY <1>4, PlacesAreFinite
      <3>. QED BY <3>1, <3>2 DEF Places
    <2>6. \A c \in 1..Len(rows) : /\ rows[c].run \in Ids /\ rows[c].need \in Vector
                                  /\ StillAsRead(rows[c])
      <3>1. \A c \in 1..Len(rows) : rows[c] \in Row(Ids)
        BY <1>3
      <3>. QED BY <3>1 DEF Row, LoopInv, ReadInv
    <2>7. RoomInv'
      <3>. DEFINE run == [c \in C |-> rows[c].run]
      <3>1. \A c \in C : run[c] = rows[c].run /\ NeedsOf(rows)[c] = rows[c].need
        BY <2>5 DEF NeedsOf
      <3>2. runs = {run[c] : c \in C}
        BY <2>4, <3>1
      <3>. HIDE DEF run
      <3>3. \A i, j \in C : run[i] = run[j] => i = j
        BY <2>5, <3>1 DEF LoopInv, ReadInv
      <3>4. ASSUME NEW c \in C
            PROVE  /\ need[run[c]] \in Vector /\ NeedsOf(rows)[c] \in Vector
                   /\ Fits(need[run[c]], NeedsOf(rows)[c]) /\ run[c] \notin active
        <4>1. run[c] \in Ids /\ rows[c].need \in Vector /\ StillAsRead(rows[c])
          BY <2>5, <2>6, <3>1
        <4>2. need[run[c]] = rows[c].need \/ need[run[c]] = Zero
          BY <3>1, <4>1 DEF StillAsRead, LoopInv, RowsInv
        <4>3. run[c] \notin active
          BY <3>1, <4>1 DEF StillAsRead
        <4>4. need[run[c]] \in Vector
          BY <1>3, <4>1
        <4>. QED BY <3>1, <4>1, <4>2, <4>3, <4>4, FitsIs
      <3>. PICK asked : asked = Total(NeedsOf(rows), C)
        OBVIOUS
      <3>5. Fits(Total(need, runs), asked)
        <4>1. \A c \in C : /\ need[run[c]] \in Vector /\ NeedsOf(rows)[c] \in Vector
                            /\ Fits(need[run[c]], NeedsOf(rows)[c])
          BY <3>4
        <4>2. IsFiniteSet(C)
          BY <2>5
        <4>3. Fits(Total(need, {run[c] : c \in C}), Total(NeedsOf(rows), C))
          BY <3>3, <4>1, <4>2, TotalOfImage
        <4>. QED BY <3>2, <4>3
      <3>6. runs \subseteq Ids /\ IsFiniteSet(runs) /\ active \intersect runs = {}
        <4>1. IsFiniteSet(runs)
          <5>1. IsFiniteSet(C)
            BY <2>5
          <5>2. IsFiniteSet({run[c] : c \in C})
            BY <5>1, ImageIsFinite
          <5>. QED BY <3>2, <5>2
        <4>2. runs \subseteq Ids
          BY <2>4, <2>5, <2>6
        <4>3. \A x \in runs : x \notin active
          BY <3>2, <3>4
        <4>. QED BY <4>1, <4>2, <4>3
      <3>7. Total(need, active \union runs) = Plus(usage, Total(need, runs))
        <4>1. \A x \in active \union runs : need[x] \in Vector
          BY <1>3, <3>6
        <4>. QED BY <1>3, <3>6, <4>1, TotalOfBoth
      <3>8. /\ usage \in Vector /\ asked \in Vector /\ Total(need, runs) \in Vector
            /\ Capacity \in Vector
        <4>1. \A x \in runs : need[x] \in Vector
          BY <1>3, <3>6
        <4>2. asked \in Vector
          BY <2>5, <3>4, TotalIsVector
        <4>. QED BY <1>4, <3>6, <4>1, <4>2, TotalIsVector DEF Admitted
      <3>9. Fits(Plus(usage, asked), Capacity)
        BY <2>1, PlanHasRoom
      <3>10. Fits(Plus(usage, Total(need, runs)), Plus(usage, asked))
        BY <3>5, <3>8, FitsIs
      <3>11. Plus(usage, Total(need, runs)) \in Vector /\ Plus(usage, asked) \in Vector
        BY <3>8, PlusIs
      <3>12. Fits(Total(need, active \union runs), Capacity)
        BY <3>7, <3>8, <3>9, <3>10, <3>11, FitsIs
      <3>. QED BY <1>2, <2>3, <3>6, <3>12 DEF RoomInv
    <2>8. \A c \in 1..Len(rows), a, b \in 1..Len(queue) :
             a < b /\ queue[b] = rows[c].run =>
                \E d \in 1..Len(rows) : d < c /\ queue[a] = rows[d].run
      BY DEF LoopInv, ReadInv
    <2>9. \A x, s : s \in Overtakers(x)' <=>
             s \in runs /\ \E a, b \in 1..Len(queue) : a < b /\ queue[a] = x /\ queue[b] = s
      BY <1>2, <2>3 DEF Overtakers
    <2>10. OvertakingInv'
      <3>1. ASSUME made.bypassed = {}, NEW x \in QueuedRuns \ runs, NEW s \in Overtakers(x)'
            PROVE  FALSE
        <4>1. PICK a, b \in 1..Len(queue) : a < b /\ queue[a] = x /\ queue[b] = s
          BY <2>9, <3>1
        <4>2. s \in runs
          BY <2>9, <3>1
        <4>3. PICK c \in 1..Len(rows) : rows[c].run = s
          <5>1. \A y \in runs : \E c \in C : rows[c].run = y
            BY <2>4
          <5>. QED BY <2>5, <4>2, <5>1
        <4>4. PICK d \in 1..Len(rows) : d < c /\ x = rows[d].run
          BY <2>8, <4>1, <4>3
        <4>5. x \in runs
          BY <2>4, <3>1, <4>2, <4>3, <4>4 DEF Charges
        <4>. QED BY <3>1, <4>5
      <3>2. \A b, c \in made.bypassed : b = c
        BY <2>4 DEF Charges
      <3>3. ASSUME NEW b \in made.bypassed
            PROVE  /\ b.run \notin runs /\ b.bypass <= Limit
                   /\ \A i, j \in 1..Len(queue) : i < j /\ queue[j] = b.run => queue[i] \in runs
                   /\ b.run \in QueuedRuns =>
                         bypass[b.run] + Cardinality(Overtakers(b.run)') <= b.bypass
        <4>7. PICK h \in 1..Len(rows) : ChargedAt(rows, runs, b, h)
          <5>1. Charges(rows, runs, made.bypassed)
            BY <2>4
          <5>2. b \in made.bypassed
            OBVIOUS
          <5>. QED BY <5>1, <5>2, ChargeIs, Zenon
        <4>. /\ b.run = rows[h].run /\ rows[h].run \notin runs /\ b.bypass <= MaximumHeadBypass
             /\ \A d \in 1..Len(rows) : d < h => rows[d].run \in runs
             /\ b.bypass = rows[h].bypass + Cardinality({c \in Places(rows, runs) : c > h})
          BY <4>7 DEF ChargedAt
        <4>1. ASSUME NEW i \in 1..Len(queue), NEW j \in 1..Len(queue), i < j, queue[j] = b.run
              PROVE  queue[i] \in runs
          <5>1. PICK d \in 1..Len(rows) : d < h /\ queue[i] = rows[d].run
            BY <2>8, <4>1
          <5>. QED BY <5>1
        <4>. PICK later : later = {c \in Places(rows, runs) : c > h}
          OBVIOUS
        <4>. PICK over : over = Overtakers(b.run)'
          OBVIOUS
        <4>2. ASSUME b.run \in QueuedRuns
              PROVE  bypass[b.run] + Cardinality(over) <= b.bypass
          <5>1. bypass[b.run] = rows[h].bypass
            BY <2>6, <4>2 DEF StillAsRead
          <5>. PICK run : run = [c \in later |-> rows[c].run]
            OBVIOUS
          <5>2. \A c \in later : run[c] = rows[c].run
            OBVIOUS
          <5>3. ASSUME NEW s \in over
                PROVE  \E c \in later : run[c] = s
            <6>1. PICK i, j \in 1..Len(queue) : i < j /\ queue[i] = b.run /\ queue[j] = s
              BY <2>9, <5>3
            <6>2. s \in runs
              BY <2>9, <5>3
            <6>3. PICK c \in C : rows[c].run = s
              <7>1. runs = {rows[c].run : c \in C}
                BY <2>4
              <7>. QED BY <6>2, <7>1
            <6>4. PICK d \in 1..Len(rows) : d < c /\ queue[i] = rows[d].run
              <7>1. c \in 1..Len(rows)
                BY <2>5
              <7>. QED BY <2>8, <6>1, <6>3, <7>1
            <6>5. d = h
              BY <6>1, <6>4 DEF LoopInv, ReadInv
            <6>6. c \in later
              BY <2>5, <6>4, <6>5
            <6>. QED BY <5>2, <6>3, <6>6
          <5>4. IsFiniteSet(later)
            BY <2>5, FS_Subset
          <5>5. Covers(run, later, over)
            BY <5>3 DEF Covers
          <5>6. IsFiniteSet(over) /\ Cardinality(over) <= Cardinality(later)
            BY <5>4, <5>5, ImagesAreFewer
          <5>7. Cardinality(over) \in Nat /\ Cardinality(later) \in Nat
            BY <5>4, <5>6, FS_CardinalityType
          <5>8. rows[h].bypass \in Nat
            <6>1. rows[h] \in Row(Ids)
              BY <1>3
            <6>. QED BY <6>1 DEF Row
          <5>9. b.bypass = rows[h].bypass + Cardinality(later)
            OBVIOUS
          <5>. QED BY <5>1, <5>6, <5>7, <5>8, <5>9
        <4>. QED BY <4>1, <4>2 DEF Limit
      <3>4. plan'.bypassed = {} => \A x \in QueuedRuns' \ Chosen' : Overtakers(x)' = {}
        BY <1>2, <1>5, <2>3, <3>1
      <3>. QED BY <1>2, <1>5, <2>3, <3>2, <3>3, <3>4 DEF OvertakingInv
    <2>. QED BY <1>9, <2>2, <2>7, <2>10
  <1>. QED BY <1>3, <1>10, <1>11
LEMMA OwedIs == \A n \in Nat : Limit * (n + 1) \in Nat
PROOF
  <1>1. \A n \in Nat : n + 1 \in Nat
    OBVIOUS
  <1>. QED BY <1>1, LimitIs

LEMMA StillIsOwed ==
    ASSUME NEW limit \in Nat, NEW count \in Nat, NEW more \in Nat, NEW mine \in 0..limit,
           NEW before \in 0..limit, NEW after \in 0..limit,
           NEW old \in Nat, NEW new \in Nat, NEW owed \in Nat,
           Owes(limit, count, before, old, owed), Pays(mine, more, after),
           Moves(limit, mine, before, old, new)
    PROVE  Owes(limit, count + more, after, new, owed)
BY DEF Owes, Pays, Moves

\* What apply_dispatch_plan stores for the rows of its plan, and for the others.
LEMMA AppliedCounters ==
    ASSUME LoopInv, ApplyPlan
    PROVE  /\ bypass' \in [Ids -> 0..Limit]
           /\ \A x \in Chosen : bypass'[x] = 0
           /\ \A b \in plan.bypassed : b.run \in Ids /\ bypass'[b.run] = b.bypass
           /\ \A x \in Ids : x \notin Touched => bypass'[x] = bypass[x]
PROOF
  <1>1. bypass' = [r \in Ids |->
           IF r \in Chosen THEN 0
           ELSE IF \E b \in plan.bypassed : b.run = r
                THEN (CHOOSE b \in plan.bypassed : b.run = r).bypass
                ELSE bypass[r]]
    BY DEF ApplyPlan
  <1>2. /\ bypass \in [Ids -> 0..Limit] /\ Limit \in Nat
        /\ plan.bypassed \in SUBSET [run : Ids, bypass : Nat] /\ Chosen \subseteq Ids
    BY LimitIs, ChosenIsFinite DEF LoopInv, RowsInv, TickInv
  <1>3. \A b, c \in plan.bypassed : b = c
    BY DEF LoopInv, OvertakingInv
  <1>4. ASSUME NEW b \in plan.bypassed
        PROVE  /\ b.run \in Ids /\ b.run \notin Chosen /\ b.bypass \in 0..Limit
               /\ (CHOOSE c \in plan.bypassed : c.run = b.run) = b
    <2>1. b.run \in Ids /\ b.bypass \in Nat
      BY <1>2
    <2>2. b.run \notin Chosen /\ b.bypass <= Limit
      BY DEF LoopInv, OvertakingInv
    <2>3. b.bypass \in 0..Limit
      BY <1>2, <2>1, <2>2
    <2>4. (CHOOSE c \in plan.bypassed : c.run = b.run) = b
      BY <1>3
    <2>. QED BY <2>1, <2>2, <2>3, <2>4
  <1>5. \A x \in Chosen : bypass'[x] = 0
    BY <1>1, <1>2
  <1>6. \A b \in plan.bypassed : b.run \in Ids /\ bypass'[b.run] = b.bypass
    BY <1>1, <1>4
  <1>7. \A x \in Ids : x \notin Touched => bypass'[x] = bypass[x]
    BY <1>1 DEF Touched
  <1>8. \A x \in Ids : bypass'[x] \in 0..Limit
    <2>. TAKE x \in Ids
    <2>1. x \in Chosen \/ x \notin Touched \/ \E b \in plan.bypassed : b.run = x
      BY DEF Touched
    <2>2. 0 \in 0..Limit
      BY <1>2
    <2>. QED BY <1>2, <1>4, <1>5, <1>6, <1>7, <2>1, <2>2
  <1>9. bypass' \in [Ids -> 0..Limit]
    <2>1. bypass' = [r \in Ids |-> bypass'[r]]
      BY <1>1
    <2>. QED BY <1>8, <2>1
  <1>. QED BY <1>5, <1>6, <1>7, <1>9

\* Whoever is overtaken by the plan is overtaken at the expense of the row that the plan
\* leaves at the front.
LEMMA FrontPays ==
    ASSUME LoopInv, ApplyPlan, queue' \in Seq(Ids), Thinned(queue', queue, Chosen),
           NEW k \in 1..Len(queue')
    PROVE  bypass[queue'[1]] + Cardinality(Overtakers(queue'[k])) <= bypass'[queue'[1]]
PROOF
  <1>1. /\ queue \in Seq(Ids) /\ Different(queue) /\ bypass \in [Ids -> 0..Limit]
        /\ Limit \in Nat /\ IsFiniteSet(Chosen) /\ Touched \subseteq QueuedRuns
    BY LimitIs, ChosenIsFinite DEF LoopInv, RowsInv, TickInv, ApplyPlan
  <1>2. Len(queue') \in Nat /\ 1 \in 1..Len(queue')
    <2>1. Len(queue') \in Nat
      OBVIOUS
    <2>. QED BY <2>1
  <1>. PICK front : front = queue'[1]
    OBVIOUS
  <1>. PICK x : x = queue'[k]
    OBVIOUS
  <1>3. \A l \in 1..Len(queue') :
          queue'[l] \notin Chosen /\ \E i \in 1..Len(queue) : queue[i] = queue'[l]
    BY DEF Thinned
  <1>4. /\ front \notin Chosen /\ x \notin Chosen /\ front \in Ids /\ x \in Ids
        /\ front \in QueuedRuns /\ x \in QueuedRuns
    <2>1. front \notin Chosen /\ x \notin Chosen
      BY <1>2, <1>3
    <2>2. PICK c, d \in 1..Len(queue) : front = queue[c] /\ x = queue[d]
      BY <1>2, <1>3
    <2>. QED BY <1>1, <2>1, <2>2 DEF QueuedRuns
  <1>5. bypass[front] \in Nat
    BY <1>1, <1>4
  <1>6. CASE plan.bypassed = {}
    <2>1. Overtakers(x) = {}
      BY <1>4, <1>6 DEF LoopInv, OvertakingInv
    <2>2. Cardinality(Overtakers(x)) = 0
      BY <2>1, FS_EmptySet
    <2>3. bypass'[front] = bypass[front]
      BY <1>4, <1>6, AppliedCounters DEF Touched
    <2>. QED BY <1>5, <2>2, <2>3
  <1>7. ASSUME NEW b \in plan.bypassed
        PROVE  bypass[front] + Cardinality(Overtakers(x)) <= bypass'[front]
    <2>1. b.run \in QueuedRuns /\ b.run \notin Chosen
      BY <1>1 DEF Touched, LoopInv, OvertakingInv
    <2>2. PICK l \in 1..Len(queue') : queue'[l] = b.run
      <3>1. \E i \in 1..Len(queue) : queue[i] = b.run
        BY <2>1 DEF QueuedRuns
      <3>. QED BY <2>1, <3>1 DEF Thinned
    <2>3. \A i, j \in 1..Len(queue) : i < j /\ queue[j] = b.run => queue[i] \in Chosen
      BY DEF LoopInv, OvertakingInv
    <2>4. \A a, c \in 1..Len(queue') :
             a < c => \E i, j \in 1..Len(queue) : i < j /\ queue'[a] = queue[i] /\ queue'[c] = queue[j]
      BY DEF Thinned
    <2>5. ~ (1 < l)
      <3>1. ASSUME 1 < l PROVE FALSE
        <4>1. PICK i, j \in 1..Len(queue) : i < j /\ front = queue[i] /\ b.run = queue[j]
          BY <1>2, <2>2, <2>4, <3>1
        <4>. QED BY <1>4, <2>3, <4>1
      <3>. QED BY <3>1
    <2>6. front = b.run
      <3>1. l = 1
        BY <1>2, <2>5
      <3>. QED BY <2>2, <3>1
    <2>. PICK mine : mine = Overtakers(x)
      OBVIOUS
    <2>. PICK all : all = Overtakers(front)
      OBVIOUS
    <2>7. ASSUME NEW s \in mine
          PROVE  s \in all
      <3>1. PICK i, j \in 1..Len(queue) : i < j /\ queue[i] = x /\ queue[j] = s
        BY DEF Overtakers
      <3>2. s \in Chosen
        BY DEF Overtakers
      <3>3. CASE k = 1
        BY <3>3
      <3>4. CASE k # 1
        <4>1. 1 < k
          BY <1>2, <3>4
        <4>2. PICK c, d \in 1..Len(queue) : c < d /\ front = queue[c] /\ x = queue[d]
          BY <1>2, <2>4, <4>1
        <4>3. d = i
          BY <1>1, <3>1, <4>2 DEF Different
        <4>4. c < j
          <5>1. Len(queue) \in Nat
            BY <1>1
          <5>. QED BY <3>1, <4>2, <4>3, <5>1
        <4>. QED BY <3>1, <3>2, <4>2, <4>4 DEF Overtakers
      <3>. QED BY <3>3, <3>4
    <2>8. IsFiniteSet(all)
      BY <1>1, FS_Subset DEF Overtakers
    <2>9. IsFiniteSet(mine) /\ Cardinality(mine) <= Cardinality(all)
      BY <2>7, <2>8, FS_Subset
    <2>10. Cardinality(mine) \in Nat /\ Cardinality(all) \in Nat
      BY <2>8, <2>9, FS_CardinalityType
    <2>11. bypass[b.run] + Cardinality(Overtakers(b.run)) <= b.bypass
      BY <2>1 DEF LoopInv, OvertakingInv
    <2>12. bypass[front] + Cardinality(all) <= b.bypass
      BY <2>6, <2>11
    <2>13. bypass'[front] = b.bypass /\ b.bypass \in Nat
      <3>1. bypass'[b.run] = b.bypass
        BY AppliedCounters
      <3>2. b.bypass \in Nat
        BY DEF LoopInv, TickInv
      <3>. QED BY <2>6, <3>1, <3>2
    <2>. QED BY <1>5, <2>9, <2>10, <2>12, <2>13
  <1>. QED BY <1>6, <1>7

LEMMA ApplyKeeps ==
    ASSUME LoopInv, ApplyPlan
    PROVE  LoopInv'
PROOF
  <1>1. /\ tick = "planned" /\ tick' = "idle" /\ Touched \subseteq QueuedRuns
        /\ plan' = NoPlan /\ queue' = QueueWithout(Chosen) /\ active' = active \union Chosen
        /\ overtaken' = [r \in Ids |-> IF r \in Chosen THEN 0
                                       ELSE overtaken[r] + Cardinality(Overtakers(r))]
        /\ ahead' = [r \in Ids |-> IF r \in Chosen THEN 0 ELSE ahead[r]]
        /\ need' = need /\ pressure' = pressure /\ rows' = rows /\ faults' = faults
    BY DEF ApplyPlan
  <1>2. /\ queue \in Seq(Ids) /\ Different(queue) /\ need \in [Ids -> Vector]
        /\ bypass \in [Ids -> 0..Limit] /\ OnlyFrontIsBypassed /\ Limit \in Nat
        /\ overtaken \in [Ids -> Nat] /\ ahead \in [Ids -> Nat] /\ faults \in 0..MaxFaults
        /\ active \in SUBSET Ids /\ IsFiniteSet(active) /\ active \intersect QueuedRuns = {}
    BY LimitIs DEF LoopInv, RowsInv, PatienceInv
  <1>3. IsFiniteSet(Chosen) /\ Chosen \subseteq Ids /\ Chosen \subseteq Touched
    BY ChosenIsFinite DEF LoopInv, TickInv, Touched
  <1>4. queue' \in Seq(Ids) /\ Thinned(queue', queue, Chosen)
    BY <1>1, <1>2, QueueIsThinned
  <1>5. QueuedRuns' = QueuedRuns \ Chosen
    <2>1. \A x : (\E k \in 1..Len(queue') : queue'[k] = x)
                   <=> (\E i \in 1..Len(queue) : queue[i] = x) /\ x \notin Chosen
      BY <1>4 DEF Thinned
    <2>2. /\ \A x : x \in QueuedRuns <=> \E i \in 1..Len(queue) : queue[i] = x
          /\ \A x : x \in QueuedRuns' <=> \E k \in 1..Len(queue') : queue'[k] = x
      BY DEF QueuedRuns
    <2>. QED BY <2>1, <2>2
  <1>6. \A x \in QueuedRuns : x \in Ids
    BY <1>2 DEF QueuedRuns
  <1>7. \A k \in 1..Len(queue') :
          queue'[k] \in QueuedRuns' /\ queue'[k] \in Ids /\ queue'[k] \notin Chosen
    BY <1>5, <1>6 DEF QueuedRuns
  <1>8. \A k \in 1..Len(queue') :
          \E i \in 1..Len(queue) : queue'[k] = queue[i] /\ k <= i /\ (queue[1] \in Chosen => k < i)
    BY <1>4 DEF Thinned
  <1>9. /\ bypass' \in [Ids -> 0..Limit] /\ \A x \in Chosen : bypass'[x] = 0
        /\ \A b \in plan.bypassed : b.run \in Ids /\ bypass'[b.run] = b.bypass
        /\ \A x \in Ids : x \notin Touched => bypass'[x] = bypass[x]
    BY AppliedCounters
  <1>10. Len(queue') \in Nat /\ Len(queue) \in Nat
    BY <1>2, <1>4
  <1>11. RowsInv'
    <2>1. Different(queue')
      BY <1>4 DEF Thinned
    <2>2. OnlyFrontIsBypassed'
      <3>. SUFFICES ASSUME NEW k \in 2..Len(queue') PROVE bypass'[queue'[k]] = 0
        BY DEF OnlyFrontIsBypassed
      <3>1. k \in 1..Len(queue') /\ 1 \in 1..Len(queue') /\ 1 < k
        BY <1>10
      <3>2. PICK i \in 1..Len(queue) : queue'[k] = queue[i] /\ k <= i
        BY <1>8, <3>1
      <3>3. i \in 2..Len(queue)
        BY <1>10, <3>2
      <3>4. bypass[queue'[k]] = 0
        BY <1>2, <3>2, <3>3 DEF OnlyFrontIsBypassed
      <3>5. ASSUME NEW b \in plan.bypassed, b.run = queue'[k]
            PROVE  FALSE
        <4>1. PICK c, d \in 1..Len(queue) : c < d /\ queue'[1] = queue[c] /\ queue'[k] = queue[d]
          BY <1>4, <3>1 DEF Thinned
        <4>2. queue[c] \in Chosen
          BY <3>5, <4>1 DEF LoopInv, OvertakingInv
        <4>. QED BY <1>7, <3>1, <4>1, <4>2
      <3>6. queue'[k] \notin Touched
        BY <1>7, <3>1, <3>5 DEF Touched
      <3>. QED BY <1>7, <1>9, <3>1, <3>4, <3>6
    <2>3. \A x \in QueuedRuns' : Positive(need'[x]) /\ Fits(need'[x], Capacity)
      BY <1>1, <1>5 DEF LoopInv, RowsInv
    <2>4. ASSUME NEW x \in Ids \ QueuedRuns'
          PROVE  bypass'[x] = 0 /\ (x \notin active' => need'[x] = Zero)
      <3>1. CASE x \in Chosen
        BY <1>1, <1>9, <3>1
      <3>2. CASE x \notin Chosen
        <4>1. x \notin QueuedRuns /\ x \notin Touched
          BY <1>1, <1>5, <3>2
        <4>2. bypass[x] = 0 /\ (x \notin active => need[x] = Zero)
          BY <4>1 DEF LoopInv, RowsInv
        <4>. QED BY <1>1, <1>9, <4>1, <4>2
      <3>. QED BY <3>1, <3>2
    <2>5. active' \in SUBSET Ids /\ IsFiniteSet(active') /\ active' \intersect QueuedRuns' = {}
      <3>1. IsFiniteSet(active \union Chosen)
        BY <1>2, <1>3, FS_Union
      <3>. QED BY <1>1, <1>2, <1>3, <1>5, <3>1
    <2>6. need' \in [Ids -> Vector]
      BY <1>1, <1>2
    <2>. QED BY <1>4, <1>9, <2>1, <2>2, <2>3, <2>4, <2>5, <2>6 DEF RowsInv
  <1>12. plan'.selected = <<>> /\ plan'.bypassed = {} /\ plan'.ok /\ rows' = <<>>
    BY <1>1 DEF NoPlan, LoopInv, TickInv
  <1>13. TickInv'
    <2>1. plan'.selected \in Seq(Ids) /\ plan'.bypassed \in SUBSET [run : Ids, bypass : Nat]
      BY <1>12
    <2>2. pressure' \in BOOLEAN /\ plan' = NoPlan' /\ tick' = "idle"
      BY <1>1 DEF LoopInv, TickInv, NoPlan
    <2>. QED BY <1>12, <2>1, <2>2 DEF TickInv
  <1>14. ReadInv'
    BY <1>12 DEF ReadInv
  <1>15. (RoomInv /\ OvertakingInv)'
    <2>1. CapacityRespected'
      BY <1>1 DEF CapacityRespected, LoopInv, RoomInv
    <2>. QED BY <1>11, <1>12, <2>1, NoPlanIsSafeNext
  <1>16. PatienceInv'
    <2>1. \A x \in Ids : IsFiniteSet(Overtakers(x)) /\ Cardinality(Overtakers(x)) \in Nat
      <3>. TAKE x \in Ids
      <3>1. Overtakers(x) \in SUBSET Chosen
        BY DEF Overtakers
      <3>. QED BY <1>3, <3>1, FS_Subset, FS_CardinalityType
    <2>2. overtaken' \in [Ids -> Nat] /\ ahead' \in [Ids -> Nat] /\ faults' \in 0..MaxFaults
      <3>1. \A x \in Ids : overtaken[x] + Cardinality(Overtakers(x)) \in Nat
        BY <1>2, <2>1
      <3>2. overtaken' \in [Ids -> Nat]
        BY <1>1, <3>1
      <3>. QED BY <1>1, <1>2, <3>2
    <2>3. ASSUME NEW x \in Ids \ QueuedRuns'
          PROVE  overtaken'[x] = 0
      <3>1. CASE x \in Chosen
        BY <1>1, <3>1
      <3>2. CASE x \notin Chosen
        <4>1. x \notin QueuedRuns
          BY <1>5, <3>2
        <4>2. Overtakers(x) = {}
          BY <4>1 DEF Overtakers, QueuedRuns
        <4>3. Cardinality(Overtakers(x)) = 0
          BY <4>2, FS_EmptySet
        <4>4. overtaken[x] = 0
          BY <4>1 DEF LoopInv, PatienceInv
        <4>. QED BY <1>1, <3>2, <4>3, <4>4
      <3>. QED BY <3>1, <3>2
    <2>4. ASSUME NEW k \in 1..Len(queue')
          PROVE  overtaken'[queue'[k]] + (Limit - bypass'[queue'[1]]) + Limit * (k - 1)
                    <= Limit * (ahead'[queue'[k]] + 1)
      <3>. PICK x : x = queue'[k]
        OBVIOUS
      <3>1. PICK i \in 1..Len(queue) : x = queue[i] /\ k <= i /\ (queue[1] \in Chosen => k < i)
        BY <1>8
      <3>2. /\ 1 \in 1..Len(queue) /\ 1 \in 1..Len(queue') /\ i - 1 \in Nat /\ k - 1 \in Nat
            /\ i \in Nat /\ k \in Nat /\ k - 1 <= i - 1 /\ (queue[1] \in Chosen => k <= i - 1)
        BY <1>10, <3>1
      <3>3. queue[1] \in Ids /\ queue'[1] \in Ids /\ x \in Ids /\ x \notin Chosen
        <4>1. queue[1] \in Ids
          BY <1>2, <3>2
        <4>. QED BY <1>7, <3>2, <4>1
      <3>. PICK count \in Nat : count = overtaken[x]
        BY <1>2, <3>3
      <3>. PICK more \in Nat : more = Cardinality(Overtakers(x))
        BY <2>1, <3>3
      <3>4. overtaken'[x] = count + more /\ ahead'[x] = ahead[x]
        BY <1>1, <3>3
      <3>. PICK mine \in 0..Limit : mine = bypass[queue'[1]]
        BY <1>2, <3>3
      <3>. PICK before \in 0..Limit : before = bypass[queue[1]]
        BY <1>2, <3>3
      <3>. PICK after \in 0..Limit : after = bypass'[queue'[1]]
        BY <1>9, <3>3
      <3>. PICK owed : owed = Limit * (ahead[x] + 1)
        OBVIOUS
      <3>. PICK old \in Nat : old = Limit * (i - 1)
        BY <3>2, LimitIs
      <3>. PICK new \in Nat : new = Limit * (k - 1)
        BY <3>2, LimitIs
      <3>5. owed \in Nat
        <4>1. ahead[x] \in Nat
          BY <1>2, <3>3
        <4>. QED BY <4>1, OwedIs
      <3>6. Owes(Limit, count, before, old, owed)
        BY <3>1 DEF LoopInv, PatienceInv, Owes
      <3>7. Pays(mine, more, after)
        BY <1>4, FrontPays DEF Pays
      <3>8. Moves(Limit, mine, before, old, new)
        <4>1. CASE queue[1] \in Chosen
          <5>1. k <= i - 1 /\ k = (k - 1) + 1
            BY <3>2, <4>1
          <5>2. Limit * k <= Limit * (i - 1)
            BY <3>2, <5>1, LimitIs
          <5>3. Limit * k = Limit * (k - 1) + Limit
            BY <3>2, <5>1, LimitIs
          <5>. QED BY <5>2, <5>3 DEF Moves
        <4>2. CASE queue[1] \notin Chosen
          <5>1. Len(queue') > 0
            BY <1>10, <3>2
          <5>2. queue'[1] = queue[1]
            BY <1>4, <4>2, <5>1 DEF Thinned
          <5>3. new <= old
            BY <3>2, LimitIs
          <5>. QED BY <5>2, <5>3 DEF Moves
        <4>. QED BY <4>1, <4>2
      <3>9. Owes(Limit, count + more, after, new, owed)
        <4>1. Limit \in Nat
          BY LimitIs
        <4>. QED BY <3>5, <3>6, <3>7, <3>8, <4>1, StillIsOwed
      <3>. QED BY <3>4, <3>9 DEF Owes
    <2>. QED BY <2>2, <2>3, <2>4 DEF PatienceInv
  <1>. QED BY <1>11, <1>13, <1>14, <1>15, <1>16 DEF LoopInv

-----------------------------------------------------------------------------
LEMMA NextLoop == LoopInv /\ [Next]_vars => LoopInv'
PROOF
  <1>. SUFFICES ASSUME LoopInv, [Next]_vars PROVE LoopInv'
    OBVIOUS
  <1>0. faults \in 0..MaxFaults /\ MaxFaults \in Nat
    BY DEF LoopInv, PatienceInv
  <1>1. ASSUME NEW r \in Ids, NEW q \in Needs, Submit(r, q) PROVE LoopInv'
    BY <1>1, SubmitKeeps
  <1>2. ASSUME NEW r \in Ids, CancelQueued(r) PROVE LoopInv'
    BY <1>2, CancelKeeps
  <1>3. ASSUME NEW r \in Ids, Finish(r) PROVE LoopInv'
    BY <1>3, FinishKeeps
  <1>4. ASSUME NEW p \in BOOLEAN, ReadQueue(p) PROVE LoopInv'
    BY <1>4, ReadKeeps
  <1>5. CASE MakePlan
    BY <1>5, MakePlanKeeps
  <1>6. CASE ApplyPlan
    BY <1>6, ApplyKeeps
  <1>7. CASE TickFails
    BY <1>0, <1>7, ForgetKeeps DEF TickFails, ForgetReads, ghosts
  <1>8. CASE DaemonDies
    <2>1. faults' \in 0..MaxFaults
      BY <1>0, <1>8 DEF DaemonDies
    <2>. QED BY <1>8, <2>1, ForgetKeeps DEF DaemonDies, ForgetReads
  <1>9. CASE DaemonStarts
    <2>1. rows' = <<>> /\ plan' = NoPlan /\ pressure' \in BOOLEAN
      BY <1>9 DEF DaemonStarts, LoopInv, TickInv
    <2>. QED BY <1>0, <1>9, <2>1, ForgetKeeps DEF DaemonStarts, ghosts
  <1>10. CASE UNCHANGED vars
    <2>1. RowsInv'
      BY <1>10 DEF vars, durable, LoopInv, RowsInv, QueuedRuns, OnlyFrontIsBypassed
    <2>2. TickInv'
      BY <1>10 DEF vars, reads, LoopInv, TickInv, NoPlan
    <2>3. ReadInv'
      BY <1>10 DEF vars, durable, reads, LoopInv, ReadInv, StillAsRead, QueuedRuns
    <2>4. RoomInv'
      BY <1>10 DEF vars, durable, reads, LoopInv, RoomInv, Chosen
    <2>5. OvertakingInv'
      <3>1. /\ QueuedRuns' = QueuedRuns /\ Chosen' = Chosen /\ bypass' = bypass
            /\ queue' = queue /\ plan' = plan /\ \A x : Overtakers(x)' = Overtakers(x)
        BY <1>10 DEF vars, durable, reads, QueuedRuns, Chosen, Overtakers
      <3>. QED BY <3>1 DEF LoopInv, OvertakingInv
    <2>6. PatienceInv'
      BY <1>10 DEF vars, durable, ghosts, LoopInv, PatienceInv, QueuedRuns
    <2>. QED BY <2>1, <2>2, <2>3, <2>4, <2>5, <2>6 DEF LoopInv
  <1>. QED BY <1>1, <1>2, <1>3, <1>4, <1>5, <1>6, <1>7, <1>8, <1>9, <1>10 DEF Next

LEMMA LoopIsSound == LoopInv => DispatchIsSound
PROOF
  <1>. SUFFICES ASSUME LoopInv PROVE DispatchIsSound
    OBVIOUS
  <1>1. TypeOK
    <2>1. Cardinality(QueuedRuns) = Len(queue)
      BY QueueIsCounted DEF LoopInv, RowsInv
    <2>. QED BY <2>1 DEF TypeOK, LoopInv, RowsInv, TickInv, PatienceInv, Limit
  <1>2. BoundedOvertaking
    <2>. SUFFICES ASSUME NEW r \in QueuedRuns
                  PROVE  overtaken[r] <= MaximumHeadBypass * (ahead[r] + 1)
      BY DEF BoundedOvertaking
    <2>1. PICK i \in 1..Len(queue) : r = queue[i]
      BY DEF QueuedRuns
    <2>2. /\ queue \in Seq(Ids) /\ Len(queue) \in Nat /\ bypass \in [Ids -> 0..Limit]
          /\ Limit \in Nat /\ overtaken \in [Ids -> Nat] /\ ahead \in [Ids -> Nat]
      <3>1. queue \in Seq(Ids) /\ bypass \in [Ids -> 0..Limit]
        BY DEF LoopInv, RowsInv
      <3>2. overtaken \in [Ids -> Nat] /\ ahead \in [Ids -> Nat]
        BY DEF LoopInv, PatienceInv
      <3>3. Limit \in Nat
        BY LimitIs
      <3>. QED BY <3>1, <3>2, <3>3
    <2>3. 1 \in 1..Len(queue) /\ i - 1 \in Nat
      BY <2>2
    <2>4. r \in Ids /\ queue[1] \in Ids
      BY <2>1, <2>2, <2>3
    <2>. PICK count \in Nat : count = overtaken[r]
      BY <2>2, <2>4
    <2>. PICK front \in 0..Limit : front = bypass[queue[1]]
      BY <2>2, <2>4
    <2>. PICK owed : owed = Limit * (ahead[r] + 1)
      OBVIOUS
    <2>. PICK before \in Nat : before = Limit * (i - 1)
      BY <2>3, LimitIs
    <2>5. owed \in Nat
      <3>. PICK place \in Nat : place = ahead[r] + 1
        BY <2>2, <2>4
      <3>1. Limit * place \in Nat
        BY LimitIs
      <3>. QED BY <3>1
    <2>6. count + (Limit - front) + before <= owed
      BY <2>1 DEF LoopInv, PatienceInv
    <2>7. \A m, c, o, b \in Nat : \A f \in 0..m : c + (m - f) + b <= o => c <= o
      OBVIOUS
    <2>8. count <= owed
      BY <2>2, <2>5, <2>6, <2>7, Zenon
    <2>. QED BY <2>8 DEF Limit
  <1>. QED BY <1>1, <1>2, RoomIsRespected
       DEF DispatchIsSound, PlannerAccepts, LoopInv, TickInv, RowsInv

(***************************************************************************)
(* Whatever the order of submissions, cancellations, finishing workers,    *)
(* daemon exits and the three catalog calls of a tick: the active runs fit *)
(* the capacity, the planner never refuses what it reads, only the front   *)
(* row carries a bypass count, and a run that was submitted behind p       *)
(* others is overtaken at most MaximumHeadBypass * (p + 1) times.          *)
(***************************************************************************)
THEOREM DispatchSound == Spec => []DispatchIsSound
BY InitLoop, NextLoop, LoopIsSound, PTL DEF Spec
=============================================================================
