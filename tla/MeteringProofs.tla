-------------------------- MODULE MeteringProofs --------------------------
(***************************************************************************)
(* Metering for any calls, tools, prices, tiers and log: its types, and    *)
(* every invariant that is checked of it.                                  *)
(*                                                                         *)
(* The plan.  Sums and powers of ten are recursive functions: what is      *)
(* needed of them is proved once, by induction in the form that a set of   *)
(* numbers which has 0 and the successor of each of its members has them   *)
(* all.  Then a step is described twice: by what it does to the call that  *)
(* takes it (Step, with the invariant Phases), and by what it does to the  *)
(* books (Kind, the six ways a step can touch them).  EveryStep proves     *)
(* that each action of Next is such a step, and each invariant about the   *)
(* books is then proved by Kind, and not action by action.                 *)
(***************************************************************************)
EXTENDS Metering, FiniteSetTheorems, SequenceTheorems, WellFoundedInduction, TLAPS

-----------------------------------------------------------------------------
(* Induction.                                                              *)

\* A set of numbers has a least one.
LEMMA Least ==
  ASSUME NEW T \in SUBSET Nat, T # {}
  PROVE  \E m \in T : \A n \in T : m <= n
<1>1. PICK x \in T : \A y \in T : ~ (<<y, x>> \in OpToRel(<, Nat))
  BY NatLessThanWellFounded, WFMin
<1>2. ASSUME NEW y \in T PROVE ~ (y < x)
  <2>1. <<y, x>> \in OpToRel(<, Nat) <=> y < x
    BY DEF OpToRel
  <2> QED
    BY <1>1, <2>1, Zenon
<1>3. QED
  BY <1>2

\* Induction, for a set of numbers.
LEMMA Induction ==
  ASSUME NEW T \in SUBSET Nat, 0 \in T, \A n \in T : n + 1 \in T
  PROVE  T = Nat
<1>1. SUFFICES ASSUME Nat \ T # {} PROVE FALSE
  OBVIOUS
<1>2. PICK m \in Nat \ T : \A n \in Nat \ T : m <= n
  BY <1>1, Least
<1>3. m # 0 /\ m - 1 \in Nat
  BY <1>2
<1>4. m - 1 \in T
  BY <1>2, <1>3
<1>5. QED
  BY <1>2, <1>4

-----------------------------------------------------------------------------
(* Sums.                                                                   *)

\* A sum over s, from the sums g over smaller sets.
SumStep(f, g, s) ==
  IF s = {} THEN 0
  ELSE f[CHOOSE x \in s : TRUE] + g[s \ {CHOOSE x \in s : TRUE}]

\* The sums over the subsets of S.
Sums(f, S) == CHOOSE g : g = [s \in SUBSET S |-> SumStep(f, g, s)]

\* SumFunctionOnSet is such a sum.
LEMMA SumIsSums ==
  ASSUME NEW f, NEW S
  PROVE  SumFunctionOnSet(f, S) = Sums(f, S)[S]
BY Zenon DEF SumFunctionOnSet, FoldFunctionOnSet, MapThenFoldSet, Sums, SumStep

\* What is known of the smaller set that a step takes.
LEMMA Smaller ==
  ASSUME NEW s, IsFiniteSet(s), s # {}
  PROVE  LET x == CHOOSE x \in s : TRUE
         IN  /\ x \in s
             /\ IsFiniteSet(s \ {x})
             /\ Cardinality(s) \in Nat /\ Cardinality(s \ {x}) \in Nat
             /\ Cardinality(s \ {x}) = Cardinality(s) - 1
<1> DEFINE x == CHOOSE x \in s : TRUE
<1>1. x \in s
  OBVIOUS
<1> HIDE DEF x
<1>2. QED
  BY <1>1, FS_RemoveElement, FS_CardinalityType DEF x

\* There is a function with the sums over all the subsets of a finite set.
LEMMA SumsExist ==
  ASSUME NEW f, NEW S, IsFiniteSet(S)
  PROVE  \E g : g = [s \in SUBSET S |-> SumStep(f, g, s)]
<1> DEFINE Upto(n, g) ==
             /\ g = [s \in SUBSET S |-> g[s]]
             /\ \A s \in SUBSET S : Cardinality(s) <= n => g[s] = SumStep(f, g, s)
           T == {n \in Nat : \E g : Upto(n, g)}
<1>0. \A s \in SUBSET S : IsFiniteSet(s) /\ Cardinality(s) \in Nat
  BY FS_Subset, FS_CardinalityType
<1>1. 0 \in T
  <2> DEFINE g == [s \in SUBSET S |-> 0]
  <2>1. \A s \in SUBSET S : Cardinality(s) <= 0 => s = {}
    BY <1>0, FS_EmptySet
  <2>2. Upto(0, g)
    BY <2>1 DEF SumStep
  <2> QED
    BY <2>2
<1>2. ASSUME NEW n \in T PROVE n + 1 \in T
  <2>1. PICK g : Upto(n, g)
    OBVIOUS
  <2> DEFINE h == [s \in SUBSET S |-> IF Cardinality(s) <= n THEN g[s] ELSE SumStep(f, g, s)]
  <2>2. ASSUME NEW s \in SUBSET S, Cardinality(s) <= n + 1 PROVE h[s] = SumStep(f, h, s)
    <3>1. h[s] = SumStep(f, g, s)
      BY <2>1
    <3>2. CASE s = {}
      BY <3>1, <3>2 DEF SumStep
    <3>3. CASE s # {}
      <4> DEFINE x == CHOOSE x \in s : TRUE
      <4>1. s \ {x} \in SUBSET S /\ Cardinality(s \ {x}) <= n
        BY <1>0, <2>2, <3>3, Smaller
      <4>2. h[s \ {x}] = g[s \ {x}]
        BY <4>1
      <4> QED
        BY <3>1, <3>3, <4>2 DEF SumStep
    <3> QED
      BY <3>2, <3>3
  <2>3. Upto(n + 1, h)
    BY <2>2
  <2> HIDE DEF Upto
  <2> QED
    BY <2>3
<1>3. T = Nat
  <2> HIDE DEF T
  <2>1. T \in SUBSET Nat
    BY DEF T
  <2> QED
    BY <1>1, <1>2, <2>1, Induction
<1>4. PICK g : Upto(Cardinality(S), g)
  BY <1>0, <1>3
<1>5. \A s \in SUBSET S : Cardinality(s) <= Cardinality(S)
  BY FS_Subset
<1>6. \A s \in SUBSET S : g[s] = SumStep(f, g, s)
  BY <1>4, <1>5
<1>7. g = [s \in SUBSET S |-> SumStep(f, g, s)]
  BY <1>4, <1>6
<1> QED
  BY <1>7

\* It is what its definition says.
LEMMA SumsDef ==
  ASSUME NEW f, NEW S, IsFiniteSet(S), NEW s \in SUBSET S
  PROVE  Sums(f, S)[s] = SumStep(f, Sums(f, S), s)
<1>1. Sums(f, S) = [t \in SUBSET S |-> SumStep(f, Sums(f, S), t)]
  BY SumsExist, Zenon DEF Sums
<1>2. QED
  BY <1>1

\* The sums over the subsets of S are the sums over those sets themselves.
LEMMA SumsAgree ==
  ASSUME NEW f, NEW S, IsFiniteSet(S), NEW s \in SUBSET S
  PROVE  Sums(f, S)[s] = SumFunctionOnSet(f, s)
<1> DEFINE T == {n \in Nat : \A t \in SUBSET S : \A u \in SUBSET t :
                               Cardinality(u) <= n => Sums(f, t)[u] = Sums(f, S)[u]}
<1>0. \A t \in SUBSET S : IsFiniteSet(t) /\ Cardinality(t) \in Nat
  BY FS_Subset, FS_CardinalityType
<1>1. 0 \in T
  <2>1. ASSUME NEW t \in SUBSET S, NEW u \in SUBSET t, Cardinality(u) <= 0
        PROVE  Sums(f, t)[u] = Sums(f, S)[u]
    <3>1. u = {}
      BY <1>0, <2>1, FS_EmptySet
    <3>2. Sums(f, t)[u] = 0 /\ Sums(f, S)[u] = 0
      BY <1>0, <3>1, SumsDef DEF SumStep
    <3> QED
      BY <3>2
  <2> QED
    BY <2>1
<1>2. ASSUME NEW n \in T PROVE n + 1 \in T
  <2>1. ASSUME NEW t \in SUBSET S, NEW u \in SUBSET t, Cardinality(u) <= n + 1
        PROVE  Sums(f, t)[u] = Sums(f, S)[u]
    <3>1. /\ Sums(f, t)[u] = SumStep(f, Sums(f, t), u)
          /\ Sums(f, S)[u] = SumStep(f, Sums(f, S), u)
      BY <1>0, SumsDef
    <3>2. CASE u = {}
      BY <3>1, <3>2 DEF SumStep
    <3>3. CASE u # {}
      <4> DEFINE x == CHOOSE x \in u : TRUE
      <4>1. u \ {x} \in SUBSET t /\ Cardinality(u \ {x}) <= n
        BY <1>0, <2>1, <3>3, Smaller
      <4>2. Sums(f, t)[u \ {x}] = Sums(f, S)[u \ {x}]
        BY <4>1
      <4> QED
        BY <3>1, <3>3, <4>2 DEF SumStep
    <3> QED
      BY <3>2, <3>3
  <2> QED
    BY <2>1
<1>3. T = Nat
  <2> HIDE DEF T
  <2>1. T \in SUBSET Nat
    BY DEF T
  <2> QED
    BY <1>1, <1>2, <2>1, Induction
<1>4. Sums(f, s)[s] = Sums(f, S)[s]
  BY <1>0, <1>3
<1> QED
  BY <1>4, SumIsSums

\* A sum of nothing.
LEMMA SumEmpty ==
  ASSUME NEW f
  PROVE  SumFunctionOnSet(f, {}) = 0
BY SumIsSums, SumsDef, FS_EmptySet DEF SumStep

\* A sum, by one of its terms.
LEMMA SumUnfold ==
  ASSUME NEW f, NEW S, IsFiniteSet(S), S # {}
  PROVE  LET x == CHOOSE x \in S : TRUE
         IN  SumFunctionOnSet(f, S) = f[x] + SumFunctionOnSet(f, S \ {x})
<1> DEFINE x == CHOOSE x \in S : TRUE
<1>1. SumFunctionOnSet(f, S) = SumStep(f, Sums(f, S), S)
  BY SumIsSums, SumsDef
<1>2. Sums(f, S)[S \ {x}] = SumFunctionOnSet(f, S \ {x})
  BY SumsAgree
<1> QED
  BY <1>1, <1>2 DEF SumStep

\* A sum of natural numbers is one, and an element more adds its term to it.
LEMMA SumAdd ==
  ASSUME NEW D, IsFiniteSet(D), NEW f, \A d \in D : f[d] \in Nat
  PROVE  \A S \in SUBSET D :
           /\ SumFunctionOnSet(f, S) \in Nat
           /\ \A x \in D \ S : SumFunctionOnSet(f, S \cup {x}) = SumFunctionOnSet(f, S) + f[x]
<1> DEFINE Good(S) ==
             /\ SumFunctionOnSet(f, S) \in Nat
             /\ \A x \in D \ S :
                  SumFunctionOnSet(f, S \cup {x}) = SumFunctionOnSet(f, S) + f[x]
           T == {n \in Nat : \A S \in SUBSET D : Cardinality(S) <= n => Good(S)}
<1>0. \A S \in SUBSET D : IsFiniteSet(S) /\ Cardinality(S) \in Nat
  BY FS_Subset, FS_CardinalityType
<1>1. ASSUME NEW S \in SUBSET D, 
             \A R \in SUBSET D : Cardinality(R) < Cardinality(S) => Good(R)
      PROVE  Good(S)
  <2>1. SumFunctionOnSet(f, S) \in Nat
    <3>1. CASE S = {}
      BY <3>1, SumEmpty
    <3>2. CASE S # {}
      <4> DEFINE x == CHOOSE x \in S : TRUE
      <4>0. SumFunctionOnSet(f, S) = f[x] + SumFunctionOnSet(f, S \ {x})
        BY <1>0, <3>2, SumUnfold
      <4>1. x \in S /\ Cardinality(S \ {x}) < Cardinality(S)
        BY <1>0, <3>2, Smaller
      <4> HIDE DEF x
      <4>2. S \ {x} \in SUBSET D /\ f[x] \in Nat
        BY <4>1
      <4>3. SumFunctionOnSet(f, S \ {x}) \in Nat
        BY <1>1, <4>1, <4>2
      <4> QED
        BY <4>0, <4>2, <4>3
    <3> QED
      BY <3>1, <3>2
  <2>2. ASSUME NEW x \in D \ S
        PROVE  SumFunctionOnSet(f, S \cup {x}) = SumFunctionOnSet(f, S) + f[x]
    <3> DEFINE y == CHOOSE y \in S \cup {x} : TRUE
    <3>1. y \in S \cup {x}
      OBVIOUS
    <3>2. SumFunctionOnSet(f, S \cup {x}) = f[y] + SumFunctionOnSet(f, (S \cup {x}) \ {y})
      BY <1>0, SumUnfold
    <3> HIDE DEF y
    <3>3. CASE y = x
      <4>1. (S \cup {x}) \ {y} = S /\ f[x] \in Nat
        BY <3>3
      <4>2. SumFunctionOnSet(f, S \cup {x}) = f[x] + SumFunctionOnSet(f, S)
        BY <3>2, <3>3, <4>1, Zenon
      <4> QED
        BY <2>1, <4>1, <4>2
    <3>4. CASE y # x
      <4>1. y \in S /\ f[x] \in Nat /\ f[y] \in Nat
        BY <3>1, <3>4
      <4>2. S \ {y} \in SUBSET D /\ Cardinality(S \ {y}) < Cardinality(S)
        BY <1>0, <4>1, FS_RemoveElement
      <4>3. Good(S \ {y})
        BY <1>1, <4>2
      <4>4. (S \cup {x}) \ {y} = (S \ {y}) \cup {x} /\ (S \ {y}) \cup {y} = S
        BY <3>4, <4>1
      <4>5. /\ SumFunctionOnSet(f, (S \ {y}) \cup {x}) = SumFunctionOnSet(f, S \ {y}) + f[x]
            /\ SumFunctionOnSet(f, (S \ {y}) \cup {y}) = SumFunctionOnSet(f, S \ {y}) + f[y]
            /\ SumFunctionOnSet(f, S \ {y}) \in Nat
        BY <4>1, <4>3
      <4> QED
        BY <3>2, <4>1, <4>4, <4>5
    <3> QED
      BY <3>3, <3>4
  <2> QED
    BY <2>1, <2>2
<1> HIDE DEF Good
<1>2. 0 \in T
  BY <1>0, <1>1
<1>3. ASSUME NEW n \in T PROVE n + 1 \in T
  BY <1>0, <1>1
<1>4. T = Nat
  <2> HIDE DEF T
  <2>1. T \in SUBSET Nat
    BY DEF T
  <2> QED
    BY <1>2, <1>3, <2>1, Induction
<1>5. \A S \in SUBSET D : Good(S)
  BY <1>0, <1>4
<1> QED
  BY <1>5 DEF Good

\* A sum depends on the terms it sums alone.
LEMMA SumEqual ==
  ASSUME NEW S, IsFiniteSet(S), NEW f, NEW g, 
         \A x \in S : f[x] = g[x]
  PROVE  SumFunctionOnSet(f, S) = SumFunctionOnSet(g, S)
<1> DEFINE T == {n \in Nat : \A R \in SUBSET S :
                   Cardinality(R) <= n => SumFunctionOnSet(f, R) = SumFunctionOnSet(g, R)}
<1>0. \A R \in SUBSET S : IsFiniteSet(R) /\ Cardinality(R) \in Nat
  BY FS_Subset, FS_CardinalityType
<1>1. 0 \in T
  BY <1>0, SumEmpty, FS_EmptySet
<1>2. ASSUME NEW n \in T PROVE n + 1 \in T
  <2>1. ASSUME NEW R \in SUBSET S, Cardinality(R) <= n + 1, R # {}
        PROVE  SumFunctionOnSet(f, R) = SumFunctionOnSet(g, R)
    <3> DEFINE x == CHOOSE x \in R : TRUE
    <3>0. /\ SumFunctionOnSet(f, R) = f[x] + SumFunctionOnSet(f, R \ {x})
          /\ SumFunctionOnSet(g, R) = g[x] + SumFunctionOnSet(g, R \ {x})
      BY <1>0, <2>1, SumUnfold
    <3>1. x \in R /\ Cardinality(R \ {x}) <= n
      BY <1>0, <2>1, Smaller
    <3> HIDE DEF x
    <3>2. SumFunctionOnSet(f, R \ {x}) = SumFunctionOnSet(g, R \ {x})
      BY <3>1
    <3> QED
      BY <3>0, <3>1, <3>2
  <2> QED
    BY <2>1, SumEmpty
<1>3. T = Nat
  <2> HIDE DEF T
  <2>1. T \in SUBSET Nat
    BY DEF T
  <2> QED
    BY <1>1, <1>2, <2>1, Induction
<1> QED
  BY <1>0, <1>3

-----------------------------------------------------------------------------
(* Powers of ten.                                                          *)

\* h[0..n] are the first powers of ten, and v the last of them.
IsPower(n, v) ==
  \E h : h[0] = 1 /\ (\A k \in Nat : k < n => h[k + 1] = 10 * h[k]) /\ v = h[n]

LEMMA PowerExists ==
  \A n \in Nat : \E v \in Nat : IsPower(n, v)
<1> DEFINE T == {n \in Nat : \E v \in Nat : IsPower(n, v)}
<1>1. 0 \in T
  <2>1. [n \in Nat |-> 1][0] = 1 /\ \A k \in Nat : ~ (k < 0)
    OBVIOUS
  <2>2. IsPower(0, 1)
    BY <2>1 DEF IsPower
  <2> QED
    BY <2>2
<1>2. ASSUME NEW n \in T PROVE n + 1 \in T
  <2>1. PICK v \in Nat : IsPower(n, v)
    OBVIOUS
  <2>2. PICK h : h[0] = 1 /\ (\A k \in Nat : k < n => h[k + 1] = 10 * h[k]) /\ v = h[n]
    BY <2>1 DEF IsPower
  <2> DEFINE g == [k \in Nat |-> IF k <= n THEN h[k] ELSE 10 * v]
  <2>3. g[0] = 1 /\ 10 * v = g[n + 1]
    BY <2>2
  <2>4. ASSUME NEW k \in Nat, k < n + 1 PROVE g[k + 1] = 10 * g[k]
    <3>1. CASE k < n
      BY <2>2, <3>1
    <3>2. CASE k = n
      BY <2>2, <3>2
    <3> QED
      BY <2>4, <3>1, <3>2
  <2>5. IsPower(n + 1, 10 * v)
    <3> HIDE DEF g
    <3> QED
      BY <2>3, <2>4 DEF IsPower
  <2> QED
    BY <2>5
<1>3. T = Nat
  <2> HIDE DEF T
  <2>1. T \in SUBSET Nat
    BY DEF T
  <2> QED
    BY <1>1, <1>2, <2>1, Induction
<1> QED
  BY <1>3

LEMMA PowerUnique ==
  \A n \in Nat : \A v, w : IsPower(n, v) /\ IsPower(n, w) => v = w
<1> DEFINE T == {n \in Nat : \A v, w : IsPower(n, v) /\ IsPower(n, w) => v = w}
<1>1. 0 \in T
  BY DEF IsPower
<1>2. ASSUME NEW n \in T PROVE n + 1 \in T
  <2>1. ASSUME NEW v, NEW w, IsPower(n + 1, v), IsPower(n + 1, w) PROVE v = w
    <3>1. ASSUME NEW u, IsPower(n + 1, u) PROVE \E p : IsPower(n, p) /\ u = 10 * p
      <4>1. PICK h : /\ h[0] = 1
                     /\ \A k \in Nat : k < n + 1 => h[k + 1] = 10 * h[k]
                     /\ u = h[n + 1]
        BY <3>1 DEF IsPower
      <4>2. (\A k \in Nat : k < n => h[k + 1] = 10 * h[k]) /\ u = 10 * h[n]
        BY <4>1
      <4>3. IsPower(n, h[n])
        BY <4>1, <4>2 DEF IsPower
      <4> QED
        BY <4>2, <4>3
    <3> QED
      BY <2>1, <3>1
  <2> QED
    BY <2>1
<1>3. T = Nat
  <2> HIDE DEF T
  <2>1. T \in SUBSET Nat
    BY DEF T
  <2> QED
    BY <1>1, <1>2, <2>1, Induction
<1> QED
  BY <1>3

LEMMA PowerStep ==
  ASSUME NEW n \in Nat, NEW v, IsPower(n, v)
  PROVE  IsPower(n + 1, 10 * v)
<1>1. PICK w \in Nat : IsPower(n + 1, w)
  BY PowerExists
<1>2. PICK h : /\ h[0] = 1
               /\ \A k \in Nat : k < n + 1 => h[k + 1] = 10 * h[k]
               /\ w = h[n + 1]
  BY <1>1 DEF IsPower
<1>3. (\A k \in Nat : k < n => h[k + 1] = 10 * h[k]) /\ w = 10 * h[n]
  BY <1>2
<1>4. IsPower(n, h[n])
  BY <1>2, <1>3 DEF IsPower
<1>5. h[n] = v
  BY <1>4, PowerUnique
<1> QED
  BY <1>1, <1>3, <1>5

LEMMA Pow10Rec == Pow10 = [n \in Nat |-> IF n = 0 THEN 1 ELSE 10 * Pow10[n - 1]]
<1> DEFINE g == [n \in Nat |-> CHOOSE v \in Nat : IsPower(n, v)]
<1>1. \A n \in Nat : g[n] \in Nat /\ IsPower(n, g[n])
  BY PowerExists
<1>2. IsPower(0, 1)
  <2>1. [n \in Nat |-> 1][0] = 1 /\ \A k \in Nat : ~ (k < 0)
    OBVIOUS
  <2> QED
    BY <2>1 DEF IsPower
<1>3. ASSUME NEW n \in Nat PROVE g[n] = IF n = 0 THEN 1 ELSE 10 * g[n - 1]
  <2> HIDE DEF g
  <2>1. CASE n = 0
    BY <1>1, <1>2, <2>1, PowerUnique
  <2>2. CASE n # 0
    <3>1. n - 1 \in Nat /\ (n - 1) + 1 = n
      BY <2>2
    <3>2. IsPower((n - 1) + 1, 10 * g[n - 1])
      BY <1>1, <3>1, PowerStep
    <3>3. IsPower(n, 10 * g[n - 1])
      BY <3>1, <3>2
    <3> QED
      BY <1>1, <2>2, <3>3, PowerUnique
  <2> QED
    BY <2>1, <2>2
<1>4. g = [n \in Nat |-> IF n = 0 THEN 1 ELSE 10 * g[n - 1]]
  <2>1. g = [n \in Nat |-> g[n]]
    OBVIOUS
  <2> HIDE DEF g
  <2>2. [n \in Nat |-> g[n]] = [n \in Nat |-> IF n = 0 THEN 1 ELSE 10 * g[n - 1]]
    BY <1>3
  <2> QED
    BY <2>1, <2>2
<1>5. \E h : h = [n \in Nat |-> IF n = 0 THEN 1 ELSE 10 * h[n - 1]]
  <2> HIDE DEF g
  <2> QED
    BY <1>4
<1> QED
  BY <1>5, Zenon DEF Pow10

LEMMA Pow10Def ==
  /\ Pow10[0] = 1
  /\ \A n \in Nat : Pow10[n] \in Nat \ {0} /\ Pow10[n + 1] = 10 * Pow10[n]
<1>1. \A n \in Nat : Pow10[n] = IF n = 0 THEN 1 ELSE 10 * Pow10[n - 1]
  BY Pow10Rec
<1>2. Pow10[0] = 1 /\ \A n \in Nat : Pow10[n + 1] = 10 * Pow10[n]
  <2>1. ASSUME NEW n \in Nat PROVE Pow10[n + 1] = 10 * Pow10[n]
    <3>1. n + 1 \in Nat /\ n + 1 # 0 /\ (n + 1) - 1 = n
      OBVIOUS
    <3> QED
      BY <1>1, <3>1
  <2> QED
    BY <1>1, <2>1
<1> DEFINE T == {n \in Nat : Pow10[n] \in Nat \ {0}}
<1>3. 0 \in T
  BY <1>2
<1>4. ASSUME NEW n \in T PROVE n + 1 \in T
  BY <1>2
<1>5. T = Nat
  <2> HIDE DEF T
  <2>1. T \in SUBSET Nat
    BY DEF T
  <2> QED
    BY <1>3, <1>4, <2>1, Induction
<1> QED
  BY <1>2, <1>5

LEMMA Pow10Sum ==
  ASSUME NEW a \in Nat, NEW b \in Nat
  PROVE  Pow10[a + b] = Pow10[a] * Pow10[b]
<1> DEFINE T == {n \in Nat : Pow10[a + n] = Pow10[a] * Pow10[n]}
<1>1. 0 \in T
  BY Pow10Def
<1>2. ASSUME NEW n \in T PROVE n + 1 \in T
  <2>1. a + n \in Nat /\ (a + n) + 1 = a + (n + 1)
    OBVIOUS
  <2>2. Pow10[a + (n + 1)] = 10 * Pow10[a + n]
    BY <2>1, Pow10Def
  <2>3. Pow10[n + 1] = 10 * Pow10[n] /\ Pow10[n] \in Nat /\ Pow10[a] \in Nat
    BY Pow10Def
  <2> DEFINE p == Pow10[a]
             q == Pow10[n]
  <2> HIDE DEF p, q
  <2>4. 10 * (p * q) = p * (10 * q)
    BY <2>3 DEF p, q
  <2> QED
    BY <2>2, <2>3, <2>4 DEF p, q
<1>3. T = Nat
  <2> HIDE DEF T
  <2>1. T \in SUBSET Nat
    BY DEF T
  <2> QED
    BY <1>1, <1>2, <2>1, Induction
<1> QED
  BY <1>3

-----------------------------------------------------------------------------
(* Spans.                                                                  *)

\* The names and statuses of spans.
SpanName == {"tool.call", "access-key.redeem", "payment.charge", "session.advance", "handler.run"}
SpanStatus == {"open", "ok", "error", "unset"}

\* r has the spans of s and their names.
SameNames(r, s) == Len(r) = Len(s) /\ \A i \in 1..Len(s) : r[i].name = s[i].name

LEMMA StartSpan ==
  ASSUME NEW s \in Seq(Span), NEW name \in SpanName
  PROVE  /\ Start(s, name) \in Seq(Span)
         /\ Len(Start(s, name)) = Len(s) + 1
         /\ Start(s, name)[Len(s) + 1] = [name |-> name, status |-> "open"]
         /\ \A i \in 1..Len(s) : Start(s, name)[i] = s[i]
<1> DEFINE e == [name |-> name, status |-> "open"]
<1>1. e \in Span
  BY DEF Span, SpanName
<1> HIDE DEF e
<1>2. /\ Append(s, e) \in Seq(Span)
      /\ Len(Append(s, e)) = Len(s) + 1
      /\ Append(s, e)[Len(s) + 1] = e
      /\ \A i \in 1..Len(s) : Append(s, e)[i] = s[i]
  BY <1>1
<1> QED
  BY <1>2 DEF Start, e

\* A span of a sequence gets a status.
LEMMA MarkSpan ==
  ASSUME NEW s \in Seq(Span), NEW k \in 1..Len(s), NEW status \in SpanStatus
  PROVE  LET r == [s EXCEPT ![k].status = status]
         IN  /\ r \in Seq(Span)
             /\ SameNames(r, s)
             /\ \A i \in 1..Len(s) : r[i].status = IF i = k THEN status ELSE s[i].status
<1> DEFINE e == [s[k] EXCEPT !.status = status]
<1>1. s[k] \in Span
  OBVIOUS
<1>2. e \in Span /\ e.name = s[k].name /\ e.status = status
  BY <1>1 DEF Span, SpanStatus
<1>3. [s EXCEPT ![k].status = status] = [s EXCEPT ![k] = e]
  OBVIOUS
<1> HIDE DEF e
<1>4. /\ [s EXCEPT ![k] = e] \in Seq(Span)
      /\ Len([s EXCEPT ![k] = e]) = Len(s)
      /\ \A i \in 1..Len(s) : [s EXCEPT ![k] = e][i] = IF i = k THEN e ELSE s[i]
  BY <1>2, ExceptSeq
<1> QED
  BY <1>2, <1>3, <1>4 DEF SameNames

LEMMA EndSpan ==
  ASSUME NEW s \in Seq(Span), s # <<>>, NEW status \in SpanStatus
  PROVE  /\ Len(s) \in Nat \ {0}
         /\ End(s, status) \in Seq(Span)
         /\ SameNames(End(s, status), s)
         /\ \A i \in 1..Len(s) :
              End(s, status)[i].status = IF i = Len(s) THEN status ELSE s[i].status
<1>1. Len(s) \in Nat \ {0}
  BY EmptySeq
<1> QED
  BY <1>1, MarkSpan DEF End

LEMMA EndRootSpan ==
  ASSUME NEW s \in Seq(Span), s # <<>>, NEW status \in SpanStatus
  PROVE  /\ Len(s) \in Nat \ {0}
         /\ EndRoot(s, status) \in Seq(Span)
         /\ SameNames(EndRoot(s, status), s)
         /\ \A i \in 1..Len(s) :
              EndRoot(s, status)[i].status = IF i = 1 THEN status ELSE s[i].status
<1>1. Len(s) \in Nat \ {0}
  BY EmptySeq
<1> QED
  BY <1>1, MarkSpan DEF EndRoot

LEMMA RootSpan ==
  /\ Root \in Seq(Span) /\ Len(Root) = 1 /\ Root # <<>>
  /\ Root[1] = [name |-> "tool.call", status |-> "open"]
<1>1. <<>> \in Seq(Span) /\ Len(<<>>) = 0 /\ "tool.call" \in SpanName
  BY DEF SpanName
<1>2. /\ Start(<<>>, "tool.call") \in Seq(Span)
      /\ Len(Start(<<>>, "tool.call")) = Len(<<>>) + 1
      /\ Start(<<>>, "tool.call")[Len(<<>>) + 1] = [name |-> "tool.call", status |-> "open"]
  BY <1>1, StartSpan
<1>3. /\ Root \in Seq(Span) /\ Len(Root) = 1
      /\ Root[1] = [name |-> "tool.call", status |-> "open"]
  BY <1>1, <1>2 DEF Root
<1> QED
  BY <1>3, EmptySeq

\* A call enters with its root span and that of its first phase.
LEMMA EnterSpans ==
  ASSUME NEW name \in SpanName
  PROVE  LET r == Start(Root, name)
         IN  /\ r \in Seq(Span) /\ Len(r) = 2 /\ r # <<>>
             /\ r[1].name = "tool.call" /\ r[1].status = "open"
             /\ r[2].name = name /\ r[2].status = "open"
<1>1. /\ Start(Root, name) \in Seq(Span) /\ Len(Start(Root, name)) = 2
      /\ Start(Root, name)[1] = [name |-> "tool.call", status |-> "open"]
      /\ Start(Root, name)[2] = [name |-> name, status |-> "open"]
  <2>1. /\ Start(Root, name) \in Seq(Span) /\ Len(Start(Root, name)) = Len(Root) + 1
        /\ \A i \in 1..Len(Root) : Start(Root, name)[i] = Root[i]
        /\ Start(Root, name)[Len(Root) + 1] = [name |-> name, status |-> "open"]
    BY StartSpan, RootSpan
  <2> HIDE DEF Start
  <2>2. Len(Root) = 1 /\ 1 \in 1..Len(Root)
    BY RootSpan
  <2> QED
    BY <2>1, <2>2, RootSpan
<1> DEFINE r == Start(Root, name)
<1>2. /\ r \in Seq(Span) /\ Len(r) = 2
      /\ r[1] = [name |-> "tool.call", status |-> "open"]
      /\ r[2] = [name |-> name, status |-> "open"]
  BY <1>1
<1> HIDE DEF r
<1>3. /\ r[1].name = "tool.call" /\ r[1].status = "open"
      /\ r[2].name = name /\ r[2].status = "open"
  BY <1>2
<1> QED
  BY <1>2, <1>3, EmptySeq DEF r

\* The last span ends well and another one starts.
LEMMA NextSpan ==
  ASSUME NEW s \in Seq(Span), s # <<>>, NEW name \in SpanName
  PROVE  LET r == Start(End(s, "ok"), name)
         IN  /\ r \in Seq(Span) /\ Len(r) = Len(s) + 1 /\ r # <<>>
             /\ Len(s) \in Nat \ {0}
             /\ r[Len(s) + 1].name = name /\ r[Len(s) + 1].status = "open"
             /\ \A i \in 1..Len(s) :
                  /\ r[i].name = s[i].name
                  /\ r[i].status = IF i = Len(s) THEN "ok" ELSE s[i].status
<1>1. "ok" \in SpanStatus
  BY DEF SpanStatus
<1> DEFINE m == End(s, "ok")
<1>2. /\ Len(s) \in Nat \ {0} /\ m \in Seq(Span) /\ SameNames(m, s)
      /\ \A i \in 1..Len(s) : m[i].status = IF i = Len(s) THEN "ok" ELSE s[i].status
  BY <1>1, EndSpan
<1> HIDE DEF m
<1> DEFINE r == Start(m, name)
<1>3. /\ r \in Seq(Span) /\ Len(r) = Len(m) + 1
      /\ r[Len(m) + 1] = [name |-> name, status |-> "open"]
      /\ \A i \in 1..Len(m) : r[i] = m[i]
  BY <1>2, StartSpan
<1> HIDE DEF r
<1>4. r # <<>>
  BY <1>2, <1>3, EmptySeq DEF SameNames
<1>5. /\ r \in Seq(Span) /\ Len(r) = Len(s) + 1
      /\ r[Len(s) + 1].name = name /\ r[Len(s) + 1].status = "open"
      /\ \A i \in 1..Len(s) :
           /\ r[i].name = s[i].name
           /\ r[i].status = IF i = Len(s) THEN "ok" ELSE s[i].status
  BY <1>2, <1>3 DEF SameNames
<1> QED
  BY <1>2, <1>4, <1>5 DEF r, m

\* The last span and the root end, and with them the call.
LEMMA CloseSpans ==
  ASSUME NEW s \in Seq(Span), s # <<>>, NEW status \in SpanStatus, NEW outcome \in SpanStatus
  PROVE  LET r == EndRoot(End(s, status), outcome)
         IN  /\ r \in Seq(Span) /\ SameNames(r, s) /\ r # <<>>
             /\ Len(s) \in Nat \ {0}
             /\ \A i \in 1..Len(s) :
                  r[i].status = IF i = 1 THEN outcome
                                ELSE IF i = Len(s) THEN status ELSE s[i].status
<1> DEFINE m == End(s, status)
<1>1. /\ Len(s) \in Nat \ {0} /\ m \in Seq(Span) /\ SameNames(m, s)
      /\ \A i \in 1..Len(s) : m[i].status = IF i = Len(s) THEN status ELSE s[i].status
  BY EndSpan
<1> HIDE DEF m
<1>2. m # <<>>
  BY <1>1, EmptySeq DEF SameNames
<1> DEFINE r == EndRoot(m, outcome)
<1>3. /\ r \in Seq(Span) /\ SameNames(r, m)
      /\ \A i \in 1..Len(m) : r[i].status = IF i = 1 THEN outcome ELSE m[i].status
  BY <1>1, <1>2, EndRootSpan
<1> HIDE DEF r
<1>4. r # <<>>
  BY <1>1, <1>3, EmptySeq DEF SameNames
<1>5. /\ r \in Seq(Span) /\ SameNames(r, s) /\ Len(s) \in Nat \ {0}
      /\ \A i \in 1..Len(s) :
           r[i].status = IF i = 1 THEN outcome
                         ELSE IF i = Len(s) THEN status ELSE s[i].status
  BY <1>1, <1>3 DEF SameNames
<1> QED
  BY <1>4, <1>5 DEF r, m

\* What a sequence of spans says of a payment is in their names.
Pays(s) == \E i \in DOMAIN s : s[i].name \in {"payment.charge", "session.advance"}

LEMMA SamePays ==
  ASSUME NEW s \in Seq(Span), NEW r \in Seq(Span), SameNames(r, s)
  PROVE  DOMAIN r = DOMAIN s /\ DOMAIN s = 1..Len(s) /\ (Pays(r) <=> Pays(s))
<1>1. DOMAIN r = 1..Len(r) /\ DOMAIN s = 1..Len(s)
  BY LenProperties
<1> QED
  BY <1>1 DEF SameNames, Pays

-----------------------------------------------------------------------------
(* The invariants.                                                         *)

\* What a tool may charge.
Prices(t) ==
  IF Pricing[t] # "tiered" THEN {Amount[t]} ELSE {Tiers[i].amount : i \in DOMAIN Tiers}

\* The statuses of the spans of a call, by where it is.
SpansAt(p, s) ==
  LET n == Len(s)
      Ends(root, last) == n >= 2 /\ s[1].status \in root /\ s[n].status \in last
  IN  /\ p # "idle" => s # <<>>
      /\ s # <<>> => \A i \in 2..n - 1 : s[i].status = "ok"
      /\ p = "idle" /\ s # <<>> => Ends({"ok"}, {"ok", "unset"})
      /\ p \in {"redeeming", "charging", "handling"} => Ends({"open"}, {"open"})
      /\ p \in {"storing", "restoring"} => Ends({"open"}, {"ok"})
      /\ p = "answered" => Ends({"ok"}, {"ok"})
      /\ p = "challenged" => Ends({"ok"}, {"error"})
      /\ p = "failed" =>
           /\ s[1].status = "error"
           /\ n >= 2 => \/ s[n].status \in {"ok", "error"}
                        \/ s[n].status = "open" /\ s[n].name = "session.advance"

\* What the names of the spans say of the tool.
NamesAt(m, s) ==
  \A i \in 1..Len(s) : /\ s[i].name = "session.advance" => m = "session"
                       /\ s[i].name = "payment.charge" => m \notin {"free", "session"}

\* The tool, price and session action of a call, by where it is.
PaymentAt(p, t, a, x, s) ==
  /\ p = "idle" => t = None
  /\ p # "idle" => t \in Tools /\ NamesAt(Pricing[t], s) /\ (Pays(s) => a \in Prices(t))
  /\ p = "redeeming" => Pricing[t] = "access-key"
  /\ p = "charging" => Pricing[t] # "free" /\ s[Len(s)].name = PaymentSpan(t)
  /\ p \in {"storing", "restoring"} => Pricing[t] = "access-key" /\ Pays(s)
  /\ p \in {"idle", "redeeming", "charging"} => x = None
  /\ x # None => Pays(s) /\ Pricing[t] = "session"
  /\ p = "answered" /\ Pays(s) => Supported(a)

PhaseOf(c) ==
  /\ SpansAt(pc[c], trace[c])
  /\ PaymentAt(pc[c], toolOf[c], amount[c], action[c], trace[c])

Phases == \A c \in Calls : PhaseOf(c)

\* The ring: the slots before the write index are the last entries, those from it on
\* the entries before them, once the buffer has wrapped.
Ring ==
  IF LogSize = 0 THEN logged = <<>> /\ callLogCount = 0
  ELSE /\ callLogCount < LogSize =>
            callLogWriteIndex = callLogCount /\ Len(logged) = callLogCount
       /\ callLogCount = LogSize => Len(logged) >= LogSize
       /\ \A j \in Slots :
            IF j < callLogWriteIndex
            THEN callLog[j] = logged[Len(logged) - callLogWriteIndex + j + 1]
            ELSE callLogCount = LogSize =>
                   callLog[j] = logged[Len(logged) - callLogWriteIndex - LogSize + j + 1]

\* Calls that are answered or inside at a price of the tiers ended by n.
Low(t, n) ==
  {c \in Paid \cup Inside : toolOf[c] = t /\ Charged(c) /\ amount[c] \in EndedBy(n)}

PaidOf(t) == {c \in Paid : toolOf[c] = t}

Overshoot ==
  /\ \A t \in Tools : Cardinality(PaidOf(t)) <= callsByTool[t]
  /\ \A t \in Tools, n \in {Tiers[i].upTo : i \in DOMAIN Tiers} \ {None} :
       Pricing[t] = "tiered" => Cardinality(Low(t, n)) <= n + Max({peak, 1}) - 1

\* Each counter, by the calls it counts.
Free == {c \in Calls : toolOf[c] # None /\ Pricing[toolOf[c]] = "free"}
Redeemed == {c \in Answered : Pricing[toolOf[c]] # "free"} \ Paid
Broken == {c \in Calls : pc[c] = "failed" /\ Charged(c) /\ ~Supported(amount[c])}
Failed == {c \in Calls : pc[c] = "failed"}
Restoring == {c \in Calls : pc[c] = "restoring"}
Did(a) == {c \in Calls : action[c] = a}

CallCounts ==
  /\ stats["paidCalls"] \in Cardinality(Paid)..Cardinality(Paid) + Cardinality(Broken)
  /\ stats["freeCalls"] = Cardinality(Free)
  /\ stats["accessKeyCalls"] = Cardinality(Redeemed)
  /\ stats["sessionCalls"] <= stats["paidCalls"]
  /\ stats["totalCalls"] = stats["paidCalls"] + stats["freeCalls"] + stats["accessKeyCalls"]
  /\ stats["totalCalls"] = SumFunctionOnSet(callsByTool, Tools)

KeyCounts ==
  /\ \A c \in minted : pc[c] \in {"restoring", "answered", "failed"}
  /\ Restoring \subseteq minted
  /\ stats["accessKeysIssued"] \in Cardinality(issued \cup Restoring)..Cardinality(minted)

SessionCounts ==
  /\ IsFiniteSet(open)
  /\ Cardinality(Did("open")) = Cardinality(Did("close")) + Cardinality(open)
  /\ stats["sessionsOpened"] \in Cardinality(Did("open") \cap Answered)
                                 ..Cardinality(Did("open") \cap (Answered \cup Failed))
  /\ stats["sessionsClosed"] \in Cardinality(Did("close") \cap Answered)
                                 ..Cardinality(Did("close") \cap (Answered \cup Failed))

\* What every call would bring.
Worth == [c \in Calls |-> IF Supported(amount[c]) THEN Value(amount[c]) ELSE 0]

Books ==
  /\ \A t \in Tools :
       /\ revenueByTool[t] = ToUsdString(revenueUnitsByTool[t])
       /\ 10 * revenueUnitsByTool[t] = SumFunctionOnSet(Worth, PaidOf(t))
  /\ totalRevenue = ToUsdString(totalRevenueUnits)
  /\ 10 * totalRevenueUnits = SumFunctionOnSet(Worth, Paid)

-----------------------------------------------------------------------------
(* The phases, by what is done to the spans.                               *)

Running == {"redeeming", "charging", "handling"}
Putting == {"storing", "restoring"}

LEMMA EnterAt ==
  ASSUME NEW p \in Running, NEW name \in SpanName
  PROVE  SpansAt(p, Start(Root, name))
<1> DEFINE r == Start(Root, name)
<1>1. /\ Len(r) = 2 /\ r # <<>>
      /\ r[1].status = "open" /\ r[2].status = "open"
  BY EnterSpans
<1> HIDE DEF r
<1>2. SpansAt(p, r)
  BY <1>1 DEF SpansAt, Running
<1> QED
  BY <1>2 DEF r

LEMMA NextAt ==
  ASSUME NEW s \in Seq(Span), NEW p \in Running, SpansAt(p, s), NEW q \in Running,
         NEW name \in SpanName
  PROVE  SpansAt(q, Start(End(s, "ok"), name))
<1>1. s # <<>> /\ Len(s) >= 2 /\ s[1].status = "open" /\ \A i \in 2..Len(s) - 1 : s[i].status = "ok"
  BY DEF SpansAt, Running
<1> DEFINE r == Start(End(s, "ok"), name)
<1>2. /\ Len(r) = Len(s) + 1 /\ r # <<>> /\ Len(s) \in Nat \ {0}
      /\ r[Len(s) + 1].status = "open"
      /\ \A i \in 1..Len(s) : r[i].status = IF i = Len(s) THEN "ok" ELSE s[i].status
  BY <1>1, NextSpan
<1> HIDE DEF r
<1>3. Len(r) >= 2 /\ r[1].status = "open" /\ r[Len(r)].status = "open"
  BY <1>1, <1>2
<1>4. \A i \in 2..Len(r) - 1 : r[i].status = "ok"
  BY <1>1, <1>2
<1>5. SpansAt(q, r)
  BY <1>2, <1>3, <1>4 DEF SpansAt, Running
<1> QED
  BY <1>5 DEF r

\* A running call ends: its last span with a status, its root with the outcome.
LEMMA CloseAt ==
  ASSUME NEW s \in Seq(Span), NEW p \in Running, SpansAt(p, s),
         NEW q, NEW status, NEW outcome,
         \/ q = "failed" /\ status \in {"ok", "error"} /\ outcome = "error"
         \/ q = "answered" /\ status = "ok" /\ outcome = "ok"
         \/ q = "challenged" /\ status = "error" /\ outcome = "ok"
         \/ q = "idle" /\ status \in {"ok", "unset"} /\ outcome = "ok"
  PROVE  SpansAt(q, EndRoot(End(s, status), outcome))
<1>1. s # <<>> /\ Len(s) >= 2 /\ \A i \in 2..Len(s) - 1 : s[i].status = "ok"
  BY DEF SpansAt, Running
<1>2. status \in SpanStatus /\ outcome \in SpanStatus
  BY DEF SpanStatus
<1> DEFINE r == EndRoot(End(s, status), outcome)
<1>3. /\ Len(r) = Len(s) /\ r # <<>> /\ Len(s) \in Nat \ {0}
      /\ \A i \in 1..Len(s) :
           r[i].status = IF i = 1 THEN outcome
                         ELSE IF i = Len(s) THEN status ELSE s[i].status
  BY <1>1, <1>2, CloseSpans DEF SameNames
<1> HIDE DEF r
<1>4. /\ Len(r) >= 2 /\ r[1].status = outcome /\ r[Len(r)].status = status
      /\ \A i \in 2..Len(r) - 1 : r[i].status = "ok"
  BY <1>1, <1>3
<1>5. SpansAt(q, r)
  BY <1>3, <1>4 DEF SpansAt
<1> QED
  BY <1>5 DEF r

\* A call ends with its root alone: in a put, or in a session that did not start.
LEMMA CloseRootAt ==
  ASSUME NEW s \in Seq(Span), NEW p, SpansAt(p, s), NEW q, NEW outcome,
         \/ /\ p \in Putting
            /\ (q = "failed" /\ outcome = "error") \/ (q = "answered" /\ outcome = "ok")
         \/ /\ p = "charging" /\ s[Len(s)].name = "session.advance"
            /\ q = "failed" /\ outcome = "error"
  PROVE  SpansAt(q, EndRoot(s, outcome))
<1>1. s # <<>> /\ Len(s) >= 2 /\ \A i \in 2..Len(s) - 1 : s[i].status = "ok"
  BY DEF SpansAt, Putting
<1>2. outcome \in SpanStatus
  BY DEF SpanStatus
<1> DEFINE r == EndRoot(s, outcome)
<1>3. /\ Len(r) = Len(s) /\ Len(s) \in Nat \ {0} /\ r \in Seq(Span)
      /\ \A i \in 1..Len(s) :
           r[i].name = s[i].name /\ r[i].status = IF i = 1 THEN outcome ELSE s[i].status
  BY <1>1, <1>2, EndRootSpan DEF SameNames
<1> HIDE DEF r
<1>4. r # <<>>
  BY <1>3, EmptySeq
<1>5. /\ Len(r) >= 2 /\ r[1].status = outcome /\ r[Len(r)].status = s[Len(s)].status
      /\ r[Len(r)].name = s[Len(s)].name
      /\ \A i \in 2..Len(r) - 1 : r[i].status = "ok"
  BY <1>1, <1>3
<1>6. s[Len(s)].status = IF p = "charging" THEN "open" ELSE "ok"
  BY DEF SpansAt, Putting
<1>8. CASE p = "charging"
  <2>1. q = "failed" /\ outcome = "error" /\ s[Len(s)].name = "session.advance"
    BY <1>8 DEF Putting
  <2>2. SpansAt(q, r)
    BY <1>4, <1>5, <1>6, <1>8, <2>1 DEF SpansAt
  <2> QED
    BY <2>2 DEF r
<1>9. CASE p # "charging"
  <2>1. \/ q = "failed" /\ outcome = "error"
        \/ q = "answered" /\ outcome = "ok"
    BY <1>9
  <2>2. SpansAt(q, r)
    BY <1>4, <1>5, <1>6, <1>9, <2>1 DEF SpansAt
  <2> QED
    BY <2>2 DEF r
<1> QED
  BY <1>8, <1>9

\* The handler has returned and the key is to be stored.
LEMMA PutAt ==
  ASSUME NEW s \in Seq(Span), SpansAt("handling", s)
  PROVE  SpansAt("storing", End(s, "ok")) /\ End(s, "ok") # <<>>
<1>1. /\ s # <<>> /\ Len(s) >= 2 /\ \A i \in 2..Len(s) - 1 : s[i].status = "ok"
      /\ s[1].status = "open"
  BY DEF SpansAt
<1>2. "ok" \in SpanStatus
  BY DEF SpanStatus
<1> DEFINE r == End(s, "ok")
<1>3. /\ Len(r) = Len(s) /\ Len(s) \in Nat \ {0} /\ r \in Seq(Span)
      /\ \A i \in 1..Len(s) : r[i].status = IF i = Len(s) THEN "ok" ELSE s[i].status
  BY <1>1, <1>2, EndSpan DEF SameNames
<1> HIDE DEF r
<1>4. r # <<>>
  BY <1>3, EmptySeq
<1>5. /\ Len(r) >= 2 /\ r[1].status = "open" /\ r[Len(r)].status = "ok"
      /\ \A i \in 2..Len(r) - 1 : r[i].status = "ok"
  BY <1>1, <1>3
<1>6. SpansAt("storing", r)
  BY <1>4, <1>5 DEF SpansAt
<1> QED
  BY <1>4, <1>6 DEF r

LEMMA SameNamesAt ==
  ASSUME NEW s, NEW r, SameNames(r, s), NEW m, NamesAt(m, s)
  PROVE  NamesAt(m, r)
BY DEF SameNames, NamesAt

\* The names of the spans of a call that moves on to another phase.
LEMMA NextNames ==
  ASSUME NEW s \in Seq(Span), s # <<>>, NEW name \in SpanName, NEW m, NamesAt(m, s),
         name = "session.advance" => m = "session",
         name = "payment.charge" => m \notin {"free", "session"}
  PROVE  LET r == Start(End(s, "ok"), name)
         IN  /\ NamesAt(m, r)
             /\ Pays(r) <=> Pays(s) \/ name \in {"payment.charge", "session.advance"}
             /\ r[Len(r)].name = name
<1> DEFINE r == Start(End(s, "ok"), name)
<1>1. /\ r \in Seq(Span) /\ Len(r) = Len(s) + 1 /\ Len(s) \in Nat \ {0}
      /\ r[Len(s) + 1].name = name
      /\ \A i \in 1..Len(s) : r[i].name = s[i].name
  BY NextSpan
<1> HIDE DEF r
<1>2. DOMAIN r = 1..Len(r) /\ DOMAIN s = 1..Len(s)
  BY <1>1, LenProperties
<1>3. NamesAt(m, r)
  BY <1>1 DEF NamesAt
<1>4. Pays(r) <=> Pays(s) \/ name \in {"payment.charge", "session.advance"}
  <2>1. ASSUME Pays(r) PROVE Pays(s) \/ name \in {"payment.charge", "session.advance"}
    BY <1>1, <1>2, <2>1 DEF Pays
  <2>2. ASSUME Pays(s) PROVE Pays(r)
    <3>1. PICK i \in 1..Len(s) : s[i].name \in {"payment.charge", "session.advance"}
      BY <1>2, <2>2 DEF Pays
    <3>2. i \in DOMAIN r /\ r[i].name = s[i].name
      BY <1>1, <1>2
    <3> QED
      BY <3>1, <3>2 DEF Pays
  <2>3. ASSUME name \in {"payment.charge", "session.advance"} PROVE Pays(r)
    <3>1. Len(s) + 1 \in DOMAIN r
      BY <1>1, <1>2
    <3> QED
      BY <1>1, <2>3, <3>1 DEF Pays
  <2> QED
    BY <2>1, <2>2, <2>3
<1> QED
  BY <1>1, <1>3, <1>4 DEF r

LEMMA EnterNames ==
  ASSUME NEW name \in SpanName, NEW m,
         name = "session.advance" => m = "session",
         name = "payment.charge" => m \notin {"free", "session"}
  PROVE  LET r == Start(Root, name)
         IN  /\ NamesAt(m, r)
             /\ Pays(r) <=> name \in {"payment.charge", "session.advance"}
             /\ r[Len(r)].name = name
<1> DEFINE r == Start(Root, name)
<1>1. r \in Seq(Span) /\ Len(r) = 2 /\ r[1].name = "tool.call" /\ r[2].name = name
  BY EnterSpans
<1> HIDE DEF r
<1>2. DOMAIN r = 1..2
  BY <1>1, LenProperties
<1>3. NamesAt(m, r)
  BY <1>1 DEF NamesAt
<1>4. Pays(r) <=> name \in {"payment.charge", "session.advance"}
  BY <1>1, <1>2 DEF Pays
<1> QED
  BY <1>1, <1>3, <1>4 DEF r

-----------------------------------------------------------------------------
(* The steps, by what they do to a call and to the books.                  *)

CallTypes ==
  /\ pc \in [Calls -> {"idle", "redeeming", "charging", "handling", "storing", "restoring",
                      "answered", "failed", "challenged"}]
  /\ toolOf \in [Calls -> Tools \cup {None}]
  /\ amount \in [Calls -> Decimal]
  /\ action \in [Calls -> Actions \cup {None}]
  /\ trace \in [Calls -> Seq(Span)]

Alone(c) ==
  \A d \in Calls \ {c} : /\ pc'[d] = pc[d] /\ toolOf'[d] = toolOf[d] /\ amount'[d] = amount[d]
                         /\ action'[d] = action[d] /\ trace'[d] = trace[d]

Step(c) == Alone(c) /\ CallTypes' /\ PhaseOf(c)'

\* A call comes in.
Enters(c) ==
  /\ pc[c] = "idle" /\ pc'[c] \in Running /\ toolOf'[c] \in Tools
  /\ peak' = Max({peak, Cardinality(Inside) + 1})
  /\ IF Pricing[toolOf'[c]] = "free"
     THEN /\ stats' = Count({"totalCalls", "freeCalls"})
          /\ callsByTool' = [callsByTool EXCEPT ![toolOf'[c]] = @ + 1]
     ELSE UNCHANGED <<stats, callsByTool>>
  /\ IF pc'[c] = "charging"
     THEN amount'[c] = PriceFor(toolOf'[c], callsByTool[toolOf'[c]])
     ELSE ~ Pays(trace'[c])
  /\ UNCHANGED <<action, revenue, log, open, minted, events>>

\* A call that is inside moves on, or leaves without an outcome.
Moves(c) ==
  /\ c \in Inside
  /\ pc'[c] \in {"idle", "charging", "handling", "storing", "restoring", "challenged"}
  /\ IF pc'[c] = "idle" THEN pc[c] = "charging" /\ toolOf'[c] = None
     ELSE /\ toolOf'[c] = toolOf[c]
          /\ Pricing[toolOf[c]] # "access-key" =>
               (Pays(trace'[c]) <=> Pays(trace[c])) /\ amount'[c] = amount[c]
  /\ \/ /\ pc[c] \notin Putting /\ pc'[c] # "restoring"
        /\ minted' = minted /\ stats' \in {stats, Count({"accessKeysExpired"})}
     \/ /\ pc[c] = "storing" /\ pc'[c] = "restoring"
        /\ minted' = minted \cup {c} /\ stats' = Count({"accessKeysIssued"})
  /\ \/ UNCHANGED <<action, open>>
     \/ /\ pc[c] = "charging" /\ pc'[c] = "handling"
        /\ \E a \in Actions, h \in Channels :
             /\ IF a = "open" THEN h \notin open /\ open' = open \cup {h}
                ELSE /\ h \in open
                     /\ open' = IF a = "close" THEN open \ {h} ELSE open
             /\ action' = [action EXCEPT ![c] = a]
  /\ UNCHANGED <<callsByTool, revenue, log, events, peak>>

\* A call fails, with nothing counted.
Fails(c) ==
  /\ pc[c] \notin {"answered", "failed", "challenged"} /\ pc'[c] = "failed"
  /\ toolOf'[c] # toolOf[c] => pc[c] = "idle" /\ Pricing[toolOf'[c]] = "access-key"
  /\ AppendCall([call |-> c, paid |-> FALSE, error |-> TRUE])
  /\ failures' = failures \cup {c}
  /\ minted' \in {minted, minted \cup {c}} /\ (pc[c] \notin Putting => minted' = minted)
  /\ stats' \in {stats, Count({"accessKeysExpired"})}
  /\ peak' \in {peak, Max({peak, Cardinality(Inside) + 1})}
  /\ UNCHANGED <<amount, action, callsByTool, revenue, open, received, issued>>

\* A call that was not paid for is answered.
AnswersUnpaid(c) ==
  /\ pc[c] = "handling" /\ pc'[c] = "answered"
  /\ ~ Pays(trace[c]) /\ ~ Pays(trace'[c])
  /\ AppendCall([call |-> c, paid |-> FALSE, error |-> FALSE])
  /\ IF Pricing[toolOf[c]] = "free" THEN UNCHANGED <<stats, callsByTool>>
     ELSE /\ stats' = Count({"totalCalls", "accessKeyCalls"})
          /\ callsByTool' = [callsByTool EXCEPT ![toolOf[c]] = @ + 1]
  /\ UNCHANGED <<toolOf, amount, action, revenue, open, minted, events, peak>>

\* The counters of a paid call, and the key it stores last.
Counts(c) ==
  \/ /\ pc[c] = "handling" /\ Pricing[toolOf[c]] # "access-key"
     /\ CountPaid(c, {}) /\ UNCHANGED minted
  \/ /\ pc[c] = "storing" /\ CountPaid(c, {"accessKeysIssued"}) /\ minted' = minted \cup {c}
  \/ /\ pc[c] = "restoring" /\ CountPaid(c, {}) /\ UNCHANGED minted

\* A paid call is answered, with its revenue.
AnswersPaid(c) ==
  /\ pc'[c] = "answered" /\ Supported(amount[c])
  /\ Pays(trace[c]) /\ Pays(trace'[c])
  /\ Counts(c)
  /\ AddRevenue(toolOf[c], Earned(c))
  /\ AppendCall([call |-> c, paid |-> TRUE, error |-> FALSE])
  /\ received' = received \cup {c}
  /\ issued' = IF Pricing[toolOf[c]] = "access-key" THEN issued \cup {c} ELSE issued
  /\ UNCHANGED <<toolOf, amount, action, open, failures, peak>>

\* A paid call fails once it has been counted.
Breaks(c) ==
  /\ pc'[c] = "failed" /\ ~ Supported(amount[c])
  /\ Pays(trace[c]) /\ Pays(trace'[c])
  /\ Counts(c)
  /\ AppendCall([call |-> c, paid |-> FALSE, error |-> TRUE])
  /\ failures' = failures \cup {c}
  /\ UNCHANGED <<toolOf, amount, action, revenue, open, received, issued, peak>>

Kind(c) == Enters(c) \/ Moves(c) \/ Fails(c) \/ AnswersUnpaid(c) \/ AnswersPaid(c) \/ Breaks(c)

Places == {"idle", "redeeming", "charging", "handling", "storing", "restoring",
           "answered", "failed", "challenged"}

LEMMA ChargedPays == \A c : Charged(c) <=> Pays(trace[c])
BY DEF Charged, Pays

\* A step of c, from what it assigns.
LEMMA StepFrom ==
  ASSUME CallTypes, NEW c \in Calls, NEW p \in Places,
         NEW t \in Tools \cup {None}, NEW a \in Decimal, NEW x \in Actions \cup {None},
         NEW s \in Seq(Span),
         pc' = [pc EXCEPT ![c] = p], toolOf' = [toolOf EXCEPT ![c] = t],
         amount' = [amount EXCEPT ![c] = a], action' = [action EXCEPT ![c] = x],
         trace' = [trace EXCEPT ![c] = s],
         SpansAt(p, s), PaymentAt(p, t, a, x, s)
  PROVE  Step(c)
<1>1. pc'[c] = p /\ toolOf'[c] = t /\ amount'[c] = a /\ action'[c] = x /\ trace'[c] = s
  BY DEF CallTypes
<1>2. Alone(c)
  BY DEF Alone, CallTypes
<1>3. CallTypes'
  BY DEF CallTypes, Places
<1>4. PhaseOf(c)'
  BY <1>1 DEF PhaseOf
<1> QED
  BY <1>2, <1>3, <1>4 DEF Step

\* What is left alone.
LEMMA Kept ==
  ASSUME CallTypes, NEW c \in Calls
  PROVE  /\ UNCHANGED toolOf => toolOf' = [toolOf EXCEPT ![c] = toolOf[c]]
         /\ UNCHANGED amount => amount' = [amount EXCEPT ![c] = amount[c]]
         /\ UNCHANGED action => action' = [action EXCEPT ![c] = action[c]]
         /\ pc[c] \in Places
         /\ toolOf[c] \in Tools \cup {None} /\ amount[c] \in Decimal
         /\ action[c] \in Actions \cup {None} /\ trace[c] \in Seq(Span)
BY DEF CallTypes, Places

\* A tool charges one of its prices, and they are decimals.
LEMMA PriceKnown ==
  ASSUME NEW t \in Tools, NEW n \in Nat
  PROVE  PriceFor(t, n) \in Prices(t)
<1> DEFINE fits == {i \in DOMAIN Tiers : Tiers[i].upTo = None \/ n < Tiers[i].upTo}
<1>1. CASE Pricing[t] # "tiered"
  BY <1>1 DEF PriceFor, Prices
<1>2. CASE Pricing[t] = "tiered"
  <2>1. DOMAIN Tiers = 1..Len(Tiers) /\ Len(Tiers) \in Nat \ {0}
    BY MeteringAssumption, LenProperties, EmptySeq DEF MeteringAssumption
  <2>2. CASE fits = {}
    BY <1>2, <2>1, <2>2 DEF PriceFor, Prices
  <2>3. CASE fits # {}
    <3>1. fits \in SUBSET Nat
      BY <2>1
    <3>2. PICK m \in fits : \A k \in fits : m <= k
      <4> HIDE DEF fits
      <4> QED
        BY <2>3, <3>1, Least
    <3>3. Min(fits) \in fits
      BY <3>2 DEF Min
    <3> QED
      BY <1>2, <2>3, <3>3 DEF PriceFor, Prices
  <2> QED
    BY <2>2, <2>3
<1> QED
  BY <1>1, <1>2

LEMMA PricesType ==
  ASSUME NEW t \in Tools
  PROVE  Prices(t) \subseteq Decimal
<1>1. Amount[t] \in Decimal
  BY MeteringAssumption DEF MeteringAssumption
<1>2. \A i \in DOMAIN Tiers : Tiers[i].amount \in Decimal
  <2>1. \A i \in DOMAIN Tiers : Tiers[i] \in PricingTier
    BY MeteringAssumption, LenProperties, ElementOfSeq DEF MeteringAssumption
  <2> QED
    BY <2>1 DEF PricingTier
<1> QED
  BY <1>1, <1>2 DEF Prices

\* The span of a payment tells the model of its tool.
LEMMA PaymentSpanName ==
  ASSUME NEW t, Pricing[t] # "free"
  PROVE  /\ PaymentSpan(t) \in SpanName /\ PaymentSpan(t) \in {"payment.charge", "session.advance"}
         /\ PaymentSpan(t) = "session.advance" <=> Pricing[t] = "session"
BY DEF PaymentSpan, SpanName

\* The names and the places, as members of their sets.
LEMMA Names ==
  /\ "tool.call" \in SpanName /\ "access-key.redeem" \in SpanName /\ "handler.run" \in SpanName
  /\ "payment.charge" \in SpanName
  /\ {"ok", "error", "unset", "open"} \subseteq SpanStatus
BY DEF SpanName, SpanStatus

LEMMA AllPlaces ==
  /\ "idle" \in Places /\ "redeeming" \in Places /\ "charging" \in Places
  /\ "handling" \in Places /\ "storing" \in Places /\ "restoring" \in Places
  /\ "answered" \in Places /\ "failed" \in Places /\ "challenged" \in Places
BY DEF Places

\* The actions by which a call comes in.
LEMMA StepCallFree ==
  ASSUME TypeOK, Phases, NEW c \in Calls, NEW t \in Tools, CallFree(c, t)
  PROVE  Step(c) /\ Enters(c)
<1>1. CallTypes
  BY DEF TypeOK, CallTypes
<1>2. pc[c] = "idle" /\ action[c] = None
  BY DEF CallFree, Enter, Phases, PhaseOf, PaymentAt
<1> DEFINE r == Start(Root, "handler.run")
<1>3. r \in Seq(Span) /\ SpansAt("handling", r)
  BY EnterSpans, EnterAt, Names DEF Running
<1>4. NamesAt(Pricing[t], r) /\ ~ Pays(r)
  BY EnterNames, Names
<1> HIDE DEF r
<1>5. PaymentAt("handling", t, amount[c], action[c], r)
  BY <1>2, <1>4 DEF PaymentAt
<1>6. /\ pc' = [pc EXCEPT ![c] = "handling"] /\ toolOf' = [toolOf EXCEPT ![c] = t]
      /\ trace' = [trace EXCEPT ![c] = r] /\ UNCHANGED amount /\ UNCHANGED action
  BY DEF CallFree, Enter, r
<1>7. /\ amount' = [amount EXCEPT ![c] = amount[c]] /\ amount[c] \in Decimal
      /\ action' = [action EXCEPT ![c] = action[c]] /\ action[c] \in Actions \cup {None}
      /\ t \in Tools \cup {None}
  BY <1>1, <1>6, Kept
<1>8. Step(c)
  BY <1>1, <1>3, <1>5, <1>6, <1>7, StepFrom, AllPlaces, Zenon
<1>9. pc'[c] = "handling" /\ toolOf'[c] = t /\ trace'[c] = r
  BY <1>1, <1>6 DEF CallTypes
<1>10. Enters(c)
  BY <1>2, <1>4, <1>9 DEF CallFree, Enter, Enters, Running
<1> QED
  BY <1>8, <1>10

LEMMA StepCallPaid ==
  ASSUME TypeOK, Phases, NEW c \in Calls, NEW t \in Tools, CallPaid(c, t)
  PROVE  Step(c) /\ Enters(c)
<1>1. CallTypes
  BY DEF TypeOK, CallTypes
<1>2. pc[c] = "idle" /\ action[c] = None /\ Pricing[t] # "free"
  BY DEF CallPaid, Enter, Phases, PhaseOf, PaymentAt
<1> DEFINE r == Start(Root, PaymentSpan(t))
           a == PriceFor(t, callsByTool[t])
<1>3. r \in Seq(Span) /\ SpansAt("charging", r)
  BY <1>2, EnterSpans, EnterAt, PaymentSpanName DEF Running
<1>4. NamesAt(Pricing[t], r) /\ r[Len(r)].name = PaymentSpan(t)
  BY <1>2, EnterNames, PaymentSpanName
<1>5. a \in Prices(t) /\ a \in Decimal
  BY PriceKnown, PricesType DEF TypeOK
<1> HIDE DEF r, a
<1>6. PaymentAt("charging", t, a, action[c], r)
  BY <1>2, <1>4, <1>5 DEF PaymentAt
<1>7. /\ pc' = [pc EXCEPT ![c] = "charging"] /\ toolOf' = [toolOf EXCEPT ![c] = t]
      /\ trace' = [trace EXCEPT ![c] = r] /\ amount' = [amount EXCEPT ![c] = a]
      /\ UNCHANGED action
  BY DEF CallPaid, Enter, r, a
<1>8. /\ action' = [action EXCEPT ![c] = action[c]] /\ action[c] \in Actions \cup {None}
      /\ t \in Tools \cup {None}
  BY <1>1, <1>7, Kept
<1>9. Step(c)
  BY <1>1, <1>3, <1>5, <1>6, <1>7, <1>8, StepFrom, AllPlaces, Zenon
<1>10. pc'[c] = "charging" /\ toolOf'[c] = t /\ amount'[c] = a
  BY <1>1, <1>7 DEF CallTypes
<1>11. Enters(c)
  BY <1>2, <1>10 DEF CallPaid, Enter, Enters, Running, meters, a
<1> QED
  BY <1>9, <1>11

LEMMA StepCallWithKey ==
  ASSUME TypeOK, Phases, NEW c \in Calls, NEW t \in Tools, CallWithKey(c, t)
  PROVE  Step(c) /\ Enters(c)
<1>1. CallTypes
  BY DEF TypeOK, CallTypes
<1>2. pc[c] = "idle" /\ action[c] = None /\ Pricing[t] = "access-key"
  BY DEF CallWithKey, Enter, Phases, PhaseOf, PaymentAt
<1> DEFINE r == Start(Root, "access-key.redeem")
<1>3. r \in Seq(Span) /\ SpansAt("redeeming", r)
  BY EnterSpans, EnterAt, Names DEF Running
<1>4. NamesAt(Pricing[t], r) /\ ~ Pays(r)
  BY EnterNames, Names
<1> HIDE DEF r
<1>5. PaymentAt("redeeming", t, amount[c], action[c], r)
  BY <1>2, <1>4 DEF PaymentAt
<1>6. /\ pc' = [pc EXCEPT ![c] = "redeeming"] /\ toolOf' = [toolOf EXCEPT ![c] = t]
      /\ trace' = [trace EXCEPT ![c] = r] /\ UNCHANGED amount /\ UNCHANGED action
  BY DEF CallWithKey, Enter, r
<1>7. /\ amount' = [amount EXCEPT ![c] = amount[c]] /\ amount[c] \in Decimal
      /\ action' = [action EXCEPT ![c] = action[c]] /\ action[c] \in Actions \cup {None}
      /\ t \in Tools \cup {None}
  BY <1>1, <1>6, Kept
<1>8. Step(c)
  BY <1>1, <1>3, <1>5, <1>6, <1>7, StepFrom, AllPlaces, Zenon
<1>9. pc'[c] = "redeeming" /\ toolOf'[c] = t /\ trace'[c] = r
  BY <1>1, <1>6 DEF CallTypes
<1>10. Enters(c)
  BY <1>2, <1>4, <1>9 DEF CallWithKey, Enter, Enters, Running, meters
<1> QED
  BY <1>8, <1>10

\* A call that fails with its tool, price and action as they were.
LEMMA StepFails ==
  ASSUME TypeOK, Phases, NEW c \in Calls, pc[c] # "idle", pc[c] # "answered",
         NEW spans \in Seq(Span), SameNames(spans, trace[c]),
         SpansAt("failed", EndRoot(spans, "error")),
         Fail(c, spans), UNCHANGED toolOf
  PROVE  /\ Step(c) /\ pc'[c] = "failed"
         /\ Pays(trace'[c]) <=> Pays(trace[c])
<1>1. CallTypes
  BY DEF TypeOK, CallTypes
<1>2. PaymentAt(pc[c], toolOf[c], amount[c], action[c], trace[c]) /\ trace[c] # <<>>
  BY DEF Phases, PhaseOf, SpansAt
<1>3. trace[c] \in Seq(Span) /\ toolOf[c] \in Tools \cup {None}
  BY <1>1, Kept
<1> DEFINE r == EndRoot(spans, "error")
<1>4. r \in Seq(Span) /\ SameNames(r, spans)
  <2>1. spans # <<>>
    BY <1>2, <1>3, EmptySeq DEF SameNames
  <2> QED
    BY <2>1, EndRootSpan, Names
<1>5. SpansAt("failed", r)
  OBVIOUS
<1> HIDE DEF r
<1>6. SameNames(r, trace[c])
  BY <1>4 DEF SameNames
<1>7. (Pays(r) <=> Pays(trace[c]))
  BY <1>3, <1>4, <1>6, SamePays
<1>8. NamesAt(Pricing[toolOf[c]], trace[c]) => NamesAt(Pricing[toolOf[c]], r)
  BY <1>6, SameNamesAt
<1>9. PaymentAt("failed", toolOf[c], amount[c], action[c], r)
  BY <1>2, <1>7, <1>8 DEF PaymentAt
<1>10. /\ pc' = [pc EXCEPT ![c] = "failed"] /\ trace' = [trace EXCEPT ![c] = r]
       /\ UNCHANGED toolOf /\ UNCHANGED amount /\ UNCHANGED action
  BY DEF Fail, r
<1>11. /\ toolOf' = [toolOf EXCEPT ![c] = toolOf[c]]
       /\ amount' = [amount EXCEPT ![c] = amount[c]] /\ amount[c] \in Decimal
       /\ action' = [action EXCEPT ![c] = action[c]] /\ action[c] \in Actions \cup {None}
  BY <1>1, <1>10, Kept
<1>12. Step(c)
  BY <1>1, <1>3, <1>4, <1>5, <1>9, <1>10, <1>11, StepFrom, AllPlaces, Zenon
<1>13. pc'[c] = "failed" /\ trace'[c] = r
  BY <1>1, <1>10 DEF CallTypes
<1> QED
  BY <1>7, <1>12, <1>13

\* A call that is answered with its tool, price and action as they were.
LEMMA StepAnswers ==
  ASSUME TypeOK, Phases, NEW c \in Calls, pc[c] # "idle",
         NEW spans \in Seq(Span), SameNames(spans, trace[c]),
         SpansAt("answered", EndRoot(spans, "ok")),
         Pays(trace[c]) => Supported(amount[c]),
         Answer(c, spans)
  PROVE  /\ Step(c) /\ pc'[c] = "answered"
         /\ Pays(trace'[c]) <=> Pays(trace[c])
<1>1. CallTypes
  BY DEF TypeOK, CallTypes
<1>2. PaymentAt(pc[c], toolOf[c], amount[c], action[c], trace[c]) /\ trace[c] # <<>>
  BY DEF Phases, PhaseOf, SpansAt
<1>3. trace[c] \in Seq(Span) /\ toolOf[c] \in Tools \cup {None}
  BY <1>1, Kept
<1> DEFINE r == EndRoot(spans, "ok")
<1>4. r \in Seq(Span) /\ SameNames(r, spans)
  <2>1. spans # <<>>
    BY <1>2, <1>3, EmptySeq DEF SameNames
  <2> QED
    BY <2>1, EndRootSpan, Names
<1>5. SpansAt("answered", r)
  OBVIOUS
<1> HIDE DEF r
<1>6. SameNames(r, trace[c])
  BY <1>4 DEF SameNames
<1>7. (Pays(r) <=> Pays(trace[c]))
  BY <1>3, <1>4, <1>6, SamePays
<1>8. NamesAt(Pricing[toolOf[c]], trace[c]) => NamesAt(Pricing[toolOf[c]], r)
  BY <1>6, SameNamesAt
<1>9. PaymentAt("answered", toolOf[c], amount[c], action[c], r)
  BY <1>2, <1>7, <1>8 DEF PaymentAt
<1>10. /\ pc' = [pc EXCEPT ![c] = "answered"] /\ trace' = [trace EXCEPT ![c] = r]
       /\ UNCHANGED toolOf /\ UNCHANGED amount /\ UNCHANGED action
  BY DEF Answer, r
<1>11. /\ toolOf' = [toolOf EXCEPT ![c] = toolOf[c]]
       /\ amount' = [amount EXCEPT ![c] = amount[c]] /\ amount[c] \in Decimal
       /\ action' = [action EXCEPT ![c] = action[c]] /\ action[c] \in Actions \cup {None}
  BY <1>1, <1>10, Kept
<1>12. Step(c)
  BY <1>1, <1>3, <1>4, <1>5, <1>9, <1>10, <1>11, StepFrom, AllPlaces, Zenon
<1>13. pc'[c] = "answered" /\ trace'[c] = r
  BY <1>1, <1>10 DEF CallTypes
<1> QED
  BY <1>7, <1>12, <1>13

\* What a call that is running has for spans.
LEMMA RunningSpans ==
  ASSUME TypeOK, Phases, NEW c \in Calls
  PROVE  /\ CallTypes /\ PhaseOf(c)
         /\ trace[c] \in Seq(Span)
         /\ pc[c] # "idle" => trace[c] # <<>>
         /\ \A status \in SpanStatus : trace[c] # <<>> =>
              /\ End(trace[c], status) \in Seq(Span)
              /\ SameNames(End(trace[c], status), trace[c])
<1>1. CallTypes /\ PhaseOf(c)
  BY DEF TypeOK, CallTypes, Phases
<1>2. trace[c] \in Seq(Span)
  BY <1>1, Kept
<1>3. pc[c] # "idle" => trace[c] # <<>>
  BY <1>1 DEF PhaseOf, SpansAt
<1>4. ASSUME NEW status \in SpanStatus, trace[c] # <<>>
      PROVE  End(trace[c], status) \in Seq(Span) /\ SameNames(End(trace[c], status), trace[c])
  BY <1>2, <1>4, EndSpan
<1> QED
  BY <1>1, <1>2, <1>3, <1>4

\* A failure in a running phase: its span ends, or the session span is left open.
LEMMA FailFrom ==
  ASSUME TypeOK, Phases, NEW c \in Calls, UNCHANGED toolOf,
         NEW status \in {"ok", "error"},
         \/ pc[c] \in Running /\ Fail(c, End(trace[c], status))
         \/ pc[c] \in Putting /\ Fail(c, trace[c])
         \/ pc[c] = "charging" /\ Pricing[toolOf[c]] = "session" /\ Fail(c, trace[c])
  PROVE  /\ Step(c) /\ pc'[c] = "failed"
         /\ Pays(trace'[c]) <=> Pays(trace[c])
<1>1. CallTypes /\ PhaseOf(c) /\ trace[c] \in Seq(Span)
  BY RunningSpans
<1>2. SameNames(trace[c], trace[c])
  BY DEF SameNames
<1>3. CASE pc[c] \in Running /\ Fail(c, End(trace[c], status))
  <2>1. pc[c] # "idle" /\ pc[c] # "answered" /\ SpansAt(pc[c], trace[c]) /\ status \in SpanStatus
    BY <1>1, <1>3, Names DEF Running, PhaseOf
  <2>2. End(trace[c], status) \in Seq(Span) /\ SameNames(End(trace[c], status), trace[c])
    BY <2>1, RunningSpans
  <2>3. SpansAt("failed", EndRoot(End(trace[c], status), "error"))
    BY <1>1, <1>3, <2>1, CloseAt
  <2> QED
    BY <1>3, <2>1, <2>2, <2>3, StepFails
<1>4. CASE pc[c] \in Putting /\ Fail(c, trace[c])
  <2>1. pc[c] # "idle" /\ pc[c] # "answered" /\ SpansAt(pc[c], trace[c])
    BY <1>1, <1>4 DEF Putting, PhaseOf
  <2>2. SpansAt("failed", EndRoot(trace[c], "error"))
    BY <1>1, <1>4, <2>1, CloseRootAt
  <2> QED
    BY <1>1, <1>2, <1>4, <2>1, <2>2, StepFails
<1>5. CASE pc[c] = "charging" /\ Pricing[toolOf[c]] = "session" /\ Fail(c, trace[c])
  <2>1. pc[c] # "idle" /\ pc[c] # "answered" /\ SpansAt(pc[c], trace[c])
    BY <1>1, <1>5 DEF PhaseOf
  <2>2. trace[c][Len(trace[c])].name = "session.advance"
    BY <1>1, <1>5 DEF PhaseOf, PaymentAt, PaymentSpan
  <2>3. SpansAt("failed", EndRoot(trace[c], "error"))
    BY <1>1, <1>5, <2>1, <2>2, CloseRootAt
  <2> QED
    BY <1>1, <1>2, <1>5, <2>1, <2>3, StepFails
<1> QED
  BY <1>3, <1>4, <1>5

\* A call that is refused as it comes in.
LEMMA StepCallUnbound ==
  ASSUME TypeOK, Phases, NEW c \in Calls, NEW t \in Tools, CallUnbound(c, t)
  PROVE  Step(c) /\ Fails(c)
<1>1. CallTypes /\ PhaseOf(c)
  BY RunningSpans
<1>2. pc[c] = "idle" /\ action[c] = None /\ Pricing[t] = "access-key"
  BY <1>1 DEF CallUnbound, PhaseOf, PaymentAt
<1> DEFINE r == EndRoot(Root, "error")
<1>3. /\ r \in Seq(Span) /\ Len(r) = 1 /\ r # <<>>
      /\ r[1].name = "tool.call" /\ r[1].status = "error"
  <2>1. /\ r \in Seq(Span) /\ SameNames(r, Root)
        /\ \A i \in 1..Len(Root) : r[i].status = IF i = 1 THEN "error" ELSE Root[i].status
    BY EndRootSpan, RootSpan, Names
  <2>2. Len(Root) = 1 /\ Root[1].name = "tool.call"
    BY RootSpan
  <2> HIDE DEF r
  <2>3. Len(r) = 1 /\ r[1].name = "tool.call" /\ r[1].status = "error"
    BY <2>1, <2>2 DEF SameNames
  <2>4. r # <<>>
    BY <2>3
  <2> QED
    BY <2>1, <2>3, <2>4
<1> HIDE DEF r
<1>4. DOMAIN r = 1..1
  BY <1>3, LenProperties
<1>5. SpansAt("failed", r) /\ NamesAt(Pricing[t], r) /\ ~ Pays(r)
  BY <1>3, <1>4 DEF SpansAt, NamesAt, Pays
<1>6. PaymentAt("failed", t, amount[c], action[c], r)
  BY <1>2, <1>5 DEF PaymentAt
<1>7. /\ pc' = [pc EXCEPT ![c] = "failed"] /\ toolOf' = [toolOf EXCEPT ![c] = t]
      /\ trace' = [trace EXCEPT ![c] = r] /\ UNCHANGED amount /\ UNCHANGED action
  BY DEF CallUnbound, Fail, r
<1>8. /\ amount' = [amount EXCEPT ![c] = amount[c]] /\ amount[c] \in Decimal
      /\ action' = [action EXCEPT ![c] = action[c]] /\ action[c] \in Actions \cup {None}
      /\ t \in Tools \cup {None}
  BY <1>1, <1>7, Kept
<1>9. Step(c)
  BY <1>1, <1>3, <1>5, <1>6, <1>7, <1>8, StepFrom, AllPlaces, Zenon
<1>10. pc'[c] = "failed" /\ toolOf'[c] = t
  BY <1>1, <1>7 DEF CallTypes
<1>11. Fails(c)
  BY <1>2, <1>10 DEF CallUnbound, Fail, Fails, meters, Putting
<1> QED
  BY <1>9, <1>11

\* The actions by which a call that is inside moves on, or ends with a challenge.
LEMMA StepNext ==
  ASSUME TypeOK, Phases, NEW c \in Calls, pc[c] \in {"redeeming", "charging"},
         NEW q \in {"charging", "handling"}, NEW a \in Decimal, NEW x \in Actions \cup {None},
         NEW name \in {"payment.charge", "handler.run"},
         pc' = [pc EXCEPT ![c] = q], UNCHANGED toolOf,
         amount' = [amount EXCEPT ![c] = a], action' = [action EXCEPT ![c] = x],
         trace' = [trace EXCEPT ![c] = Start(End(trace[c], "ok"), name)],
         \/ /\ q = "charging" /\ name = "payment.charge" /\ pc[c] = "redeeming"
            /\ a = Amount[toolOf[c]] /\ x = None
         \/ /\ q = "handling" /\ name = "handler.run" /\ a = amount[c]
            /\ x # None => x = action[c] \/ (Pricing[toolOf[c]] = "session" /\ pc[c] = "charging")
  PROVE  /\ Step(c) /\ pc'[c] = q /\ amount'[c] = a
         /\ Pays(trace'[c]) <=> Pays(trace[c]) \/ q = "charging"
<1>1. CallTypes /\ PhaseOf(c) /\ trace[c] \in Seq(Span) /\ trace[c] # <<>>
  BY RunningSpans
<1>2. /\ SpansAt(pc[c], trace[c]) /\ pc[c] \in Running /\ q \in Running
      /\ PaymentAt(pc[c], toolOf[c], amount[c], action[c], trace[c])
      /\ name \in SpanName
  BY <1>1 DEF PhaseOf, Running, SpanName
<1> DEFINE r == Start(End(trace[c], "ok"), name)
           m == Pricing[toolOf[c]]
<1>3. r \in Seq(Span) /\ SpansAt(q, r)
  BY <1>1, <1>2, NextSpan, NextAt
<1>4. NamesAt(m, trace[c]) /\ toolOf[c] \in Tools
  BY <1>2 DEF PaymentAt
<1>5. name = "payment.charge" => m = "access-key"
  BY <1>2 DEF PaymentAt
<1>6. /\ NamesAt(m, r) /\ r[Len(r)].name = name
      /\ Pays(r) <=> Pays(trace[c]) \/ name = "payment.charge"
  BY <1>1, <1>2, <1>4, <1>5, NextNames
<1>7. pc[c] = "charging" => Pays(trace[c])
  <2>1. SUFFICES ASSUME pc[c] = "charging" PROVE Pays(trace[c])
    OBVIOUS
  <2>2. /\ Len(trace[c]) \in DOMAIN trace[c]
        /\ trace[c][Len(trace[c])].name \in {"payment.charge", "session.advance"}
    <3>1. Len(trace[c]) \in Nat \ {0} /\ DOMAIN trace[c] = 1..Len(trace[c])
      BY <1>1, EmptySeq, LenProperties
    <3>2. m # "free" /\ trace[c][Len(trace[c])].name = PaymentSpan(toolOf[c])
      BY <1>2, <2>1 DEF PaymentAt
    <3> QED
      BY <3>1, <3>2, PaymentSpanName
  <2> QED
    BY <2>2 DEF Pays
<1> HIDE DEF r
<1>8. PaymentAt(q, toolOf[c], a, x, r)
  <2>1. CASE q = "charging"
    <3>1. m = "access-key" /\ name = "payment.charge" /\ x = None /\ a = Amount[toolOf[c]]
      BY <1>2, <2>1 DEF PaymentAt
    <3>2. a \in Prices(toolOf[c]) /\ PaymentSpan(toolOf[c]) = "payment.charge"
      BY <3>1 DEF Prices, PaymentSpan
    <3> QED
      BY <1>4, <1>6, <2>1, <3>1, <3>2 DEF PaymentAt
  <2>2. CASE q = "handling"
    <3>1. Pays(r) <=> Pays(trace[c])
      BY <1>6, <2>2
    <3>2. x # None => Pays(r) /\ m = "session"
      BY <1>2, <1>7, <2>2, <3>1 DEF PaymentAt
    <3>3. Pays(r) => a \in Prices(toolOf[c])
      BY <1>2, <2>2, <3>1 DEF PaymentAt
    <3> QED
      BY <1>4, <1>6, <2>2, <3>2, <3>3 DEF PaymentAt
  <2> QED
    BY <2>1, <2>2
<1>9. trace' = [trace EXCEPT ![c] = r] /\ q \in Places /\ toolOf[c] \in Tools \cup {None}
  BY <1>4, AllPlaces DEF r
<1>10. toolOf' = [toolOf EXCEPT ![c] = toolOf[c]]
  BY <1>1, Kept
<1>11. Step(c)
  BY <1>1, <1>3, <1>8, <1>9, <1>10, StepFrom, Zenon
<1>12. pc'[c] = q /\ amount'[c] = a /\ trace'[c] = r
  BY <1>1, <1>9 DEF CallTypes
<1> QED
  BY <1>6, <1>11, <1>12

LEMMA StepKeyHonoured ==
  ASSUME TypeOK, Phases, NEW c \in Calls, KeyHonoured(c)
  PROVE  Step(c) /\ Moves(c)
<1>1. CallTypes /\ PhaseOf(c)
  BY RunningSpans
<1>2. /\ pc[c] = "redeeming" /\ pc' = [pc EXCEPT ![c] = "handling"] /\ UNCHANGED toolOf
      /\ trace' = [trace EXCEPT ![c] = Start(End(trace[c], "ok"), "handler.run")]
      /\ UNCHANGED amount /\ UNCHANGED action
  BY DEF KeyHonoured
<1>3. /\ amount' = [amount EXCEPT ![c] = amount[c]] /\ amount[c] \in Decimal
      /\ action' = [action EXCEPT ![c] = action[c]] /\ action[c] \in Actions \cup {None}
  BY <1>1, <1>2, Kept
<1>4. Pricing[toolOf[c]] = "access-key"
  BY <1>1, <1>2 DEF PhaseOf, PaymentAt
<1>5. Step(c) /\ pc'[c] = "handling"
  BY <1>2, <1>3, StepNext
<1>6. Moves(c)
  BY <1>2, <1>4, <1>5 DEF KeyHonoured, Moves, Inside, Putting, meters
<1> QED
  BY <1>5, <1>6

LEMMA StepKeyRejected ==
  ASSUME TypeOK, Phases, NEW c \in Calls, KeyRejected(c)
  PROVE  Step(c) /\ (Moves(c) \/ Fails(c))
<1>1. CallTypes /\ PhaseOf(c)
  BY RunningSpans
<1>2. /\ pc[c] = "redeeming" /\ UNCHANGED toolOf
      /\ stats' \in {stats, Count({"accessKeysExpired"})}
  <2>1. Count({}) = stats
    BY DEF Count, TypeOK
  <2> QED
    BY <2>1 DEF KeyRejected
<1>3. Pricing[toolOf[c]] = "access-key" /\ action[c] = None /\ toolOf[c] \in Tools
  BY <1>1, <1>2 DEF PhaseOf, PaymentAt
<1>4. CASE pc' = [pc EXCEPT ![c] = "charging"] /\ ~ Fail(c, End(trace[c], "ok"))
  <2>1. /\ amount' = [amount EXCEPT ![c] = Amount[toolOf[c]]]
        /\ trace' = [trace EXCEPT ![c] = Start(End(trace[c], "ok"), "payment.charge")]
        /\ UNCHANGED action
    BY <1>4 DEF KeyRejected
  <2>2. /\ Amount[toolOf[c]] \in Decimal
        /\ action' = [action EXCEPT ![c] = None]
    <3>1. action' = [action EXCEPT ![c] = action[c]]
      BY <1>1, <2>1, Kept
    <3> QED
      BY <1>3, <3>1, MeteringAssumption DEF MeteringAssumption
  <2>3. Step(c) /\ pc'[c] = "charging"
    BY <1>2, <1>4, <2>1, <2>2, StepNext
  <2>4. Moves(c)
    BY <1>2, <1>3, <1>4, <2>3 DEF KeyRejected, Moves, Inside, Putting
  <2> QED
    BY <2>3, <2>4
<1>5. CASE Fail(c, End(trace[c], "ok"))
  <2>1. Step(c) /\ pc'[c] = "failed"
    BY <1>2, <1>5, FailFrom DEF Running
  <2>2. UNCHANGED <<callsByTool, revenue, minted, peak>>
    <3>1. pc' # [pc EXCEPT ![c] = "charging"]
      BY <1>1, <2>1 DEF CallTypes
    <3> QED
      BY <3>1 DEF KeyRejected
  <2>3. Fails(c)
    BY <1>2, <1>5, <2>1, <2>2 DEF Fail, Fails
  <2> QED
    BY <2>1, <2>3
<1> QED
  BY <1>4, <1>5 DEF KeyRejected

\* The failures that count nothing.
LEMMA StepThrows ==
  ASSUME TypeOK, Phases, NEW c \in Calls,
         \/ RedeemThrows(c) \/ PaymentThrows(c) \/ SessionSetupThrows(c)
         \/ HandlerThrows(c) \/ StoreThrows(c)
  PROVE  Step(c) /\ Fails(c)
<1>1. /\ UNCHANGED <<toolOf, meters, peak>>
      /\ \/ pc[c] \in Running /\ Fail(c, End(trace[c], "error"))
         \/ pc[c] \in Putting /\ Fail(c, trace[c])
         \/ pc[c] = "charging" /\ Pricing[toolOf[c]] = "session" /\ Fail(c, trace[c])
      /\ minted' \in {minted, minted \cup {c}} /\ (pc[c] \notin Putting => minted' = minted)
  BY DEF RedeemThrows, PaymentThrows, SessionSetupThrows, HandlerThrows, StoreThrows,
     Running, Putting
<1>2. Step(c) /\ pc'[c] = "failed"
  BY <1>1, FailFrom
<1>3. Fails(c)
  <2>1. pc[c] \notin {"answered", "failed", "challenged"}
    BY <1>1 DEF Running, Putting
  <2>2. /\ AppendCall([call |-> c, paid |-> FALSE, error |-> TRUE])
        /\ failures' = failures \cup {c}
        /\ UNCHANGED <<amount, action, open, received, issued>>
    BY <1>1 DEF Fail
  <2> QED
    BY <1>1, <1>2, <2>1, <2>2 DEF Fails, meters
<1> QED
  BY <1>2, <1>3

LEMMA StepPaymentRequired ==
  ASSUME TypeOK, Phases, NEW c \in Calls, PaymentRequired(c)
  PROVE  Step(c) /\ Moves(c)
<1>1. CallTypes /\ PhaseOf(c) /\ trace[c] \in Seq(Span) /\ trace[c] # <<>>
  BY RunningSpans DEF PaymentRequired
<1>2. PICK status \in {"ok", "unset"} :
        trace' = [trace EXCEPT ![c] = EndRoot(End(trace[c], status), "ok")]
  BY DEF PaymentRequired
<1>3. /\ pc[c] = "charging" /\ pc' = [pc EXCEPT ![c] = "idle"]
      /\ toolOf' = [toolOf EXCEPT ![c] = None] /\ amount' = [amount EXCEPT ![c] = Zero]
      /\ UNCHANGED action
  BY DEF PaymentRequired
<1> DEFINE r == EndRoot(End(trace[c], status), "ok")
<1>4. r \in Seq(Span) /\ SpansAt("idle", r)
  <2>1. status \in SpanStatus /\ SpansAt("charging", trace[c]) /\ "charging" \in Running
    BY <1>1, <1>3, Names DEF PhaseOf, Running
  <2>2. r \in Seq(Span)
    BY <1>1, <2>1, CloseSpans, Names
  <2>3. SpansAt("idle", r)
    BY <1>1, <2>1, CloseAt
  <2> QED
    BY <2>2, <2>3
<1>5. action[c] = None /\ toolOf[c] \in Tools
  BY <1>1, <1>3 DEF PhaseOf, PaymentAt
<1> HIDE DEF r
<1>6. PaymentAt("idle", None, Zero, action[c], r)
  BY <1>5 DEF PaymentAt
<1>7. /\ action' = [action EXCEPT ![c] = action[c]] /\ action[c] \in Actions \cup {None}
      /\ None \in Tools \cup {None} /\ Zero \in Decimal
      /\ trace' = [trace EXCEPT ![c] = r]
  BY <1>1, <1>2, <1>3, Kept DEF Zero, Decimal, r
<1>8. Step(c)
  BY <1>1, <1>3, <1>4, <1>6, <1>7, StepFrom, AllPlaces, Zenon
<1>9. pc'[c] = "idle" /\ toolOf'[c] = None
  BY <1>1, <1>3 DEF CallTypes
<1>10. Moves(c)
  BY <1>3, <1>9 DEF PaymentRequired, Moves, Inside, Putting, meters
<1> QED
  BY <1>8, <1>10

LEMMA StepPaymentSettles ==
  ASSUME TypeOK, Phases, NEW c \in Calls, PaymentSettles(c)
  PROVE  Step(c) /\ Moves(c)
<1>1. CallTypes /\ PhaseOf(c)
  BY RunningSpans
<1>2. /\ pc[c] = "charging" /\ pc' = [pc EXCEPT ![c] = "handling"] /\ UNCHANGED toolOf
      /\ trace' = [trace EXCEPT ![c] = Start(End(trace[c], "ok"), "handler.run")]
      /\ UNCHANGED amount
      /\ UNCHANGED <<meters, log, minted, events, peak>>
  BY DEF PaymentSettles
<1>3. amount' = [amount EXCEPT ![c] = amount[c]] /\ amount[c] \in Decimal
  BY <1>1, <1>2, Kept
<1>4. CASE Pricing[toolOf[c]] # "session"
  <2>1. UNCHANGED action /\ UNCHANGED open
    BY <1>4 DEF PaymentSettles
  <2>2. action' = [action EXCEPT ![c] = action[c]] /\ action[c] \in Actions \cup {None}
    BY <1>1, <2>1, Kept
  <2>3. /\ Step(c) /\ pc'[c] = "handling" /\ amount'[c] = amount[c]
        /\ Pays(trace'[c]) <=> Pays(trace[c])
    BY <1>2, <1>3, <2>2, StepNext
  <2>4. Moves(c)
    BY <1>2, <2>1, <2>3 DEF Moves, Inside, Putting, meters
  <2> QED
    BY <2>3, <2>4
<1>5. CASE Pricing[toolOf[c]] = "session"
  <2>1. PICK a \in Actions, h \in Channels :
          /\ IF a = "open" THEN h \notin open /\ open' = open \cup {h}
             ELSE /\ h \in open
                  /\ open' = IF a = "close" THEN open \ {h} ELSE open
          /\ action' = [action EXCEPT ![c] = a]
    BY <1>5 DEF PaymentSettles
  <2>2. a \in Actions \cup {None}
    OBVIOUS
  <2>3. /\ Step(c) /\ pc'[c] = "handling" /\ amount'[c] = amount[c]
        /\ Pays(trace'[c]) <=> Pays(trace[c])
    BY <1>2, <1>3, <1>5, <2>1, <2>2, StepNext
  <2>4. Moves(c)
    BY <1>2, <2>1, <2>3 DEF Moves, Inside, Putting, meters
  <2> QED
    BY <2>3, <2>4
<1> QED
  BY <1>4, <1>5

LEMMA StepHandlerChallenges ==
  ASSUME TypeOK, Phases, NEW c \in Calls, HandlerChallenges(c)
  PROVE  Step(c) /\ Moves(c)
<1>1. CallTypes /\ PhaseOf(c) /\ trace[c] \in Seq(Span) /\ trace[c] # <<>>
  BY RunningSpans DEF HandlerChallenges
<1>2. /\ pc[c] = "handling" /\ pc' = [pc EXCEPT ![c] = "challenged"]
      /\ trace' = [trace EXCEPT ![c] = EndRoot(End(trace[c], "error"), "ok")]
      /\ UNCHANGED toolOf /\ UNCHANGED amount /\ UNCHANGED action
  BY DEF HandlerChallenges
<1> DEFINE r == EndRoot(End(trace[c], "error"), "ok")
<1>3. r \in Seq(Span) /\ SpansAt("challenged", r) /\ SameNames(r, trace[c])
  <2>1. SpansAt("handling", trace[c]) /\ "handling" \in Running
    BY <1>1, <1>2 DEF PhaseOf, Running
  <2>2. r \in Seq(Span) /\ SameNames(r, trace[c])
    BY <1>1, CloseSpans, Names
  <2>3. SpansAt("challenged", r)
    BY <1>1, <2>1, CloseAt
  <2> QED
    BY <2>2, <2>3
<1> HIDE DEF r
<1>4. Pays(r) <=> Pays(trace[c])
  BY <1>1, <1>3, SamePays
<1>5. PaymentAt("handling", toolOf[c], amount[c], action[c], trace[c])
  BY <1>1, <1>2 DEF PhaseOf
<1>6. NamesAt(Pricing[toolOf[c]], trace[c]) => NamesAt(Pricing[toolOf[c]], r)
  BY <1>3, SameNamesAt
<1>7. PaymentAt("challenged", toolOf[c], amount[c], action[c], r)
  BY <1>4, <1>5, <1>6 DEF PaymentAt
<1>8. /\ toolOf' = [toolOf EXCEPT ![c] = toolOf[c]] /\ toolOf[c] \in Tools \cup {None}
      /\ amount' = [amount EXCEPT ![c] = amount[c]] /\ amount[c] \in Decimal
      /\ action' = [action EXCEPT ![c] = action[c]] /\ action[c] \in Actions \cup {None}
      /\ trace' = [trace EXCEPT ![c] = r]
  BY <1>1, <1>2, Kept DEF r
<1>9. Step(c)
  BY <1>1, <1>2, <1>3, <1>7, <1>8, StepFrom, AllPlaces, Zenon
<1>10. pc'[c] = "challenged" /\ trace'[c] = r
  BY <1>1, <1>2, <1>8 DEF CallTypes
<1>11. Moves(c)
  BY <1>2, <1>4, <1>10 DEF HandlerChallenges, Moves, Inside, Putting, meters
<1> QED
  BY <1>9, <1>11

\* The end of a paid call.
LEMMA RecordFrom ==
  ASSUME TypeOK, Phases, NEW c \in Calls, NEW more,
         Pays(trace[c]),
         \/ /\ pc[c] = "handling" /\ Pricing[toolOf[c]] # "access-key"
            /\ Record(c, End(trace[c], "ok"), {}) /\ UNCHANGED minted
         \/ /\ pc[c] = "storing"
            /\ Record(c, trace[c], {"accessKeysIssued"}) /\ minted' = minted \cup {c}
         \/ /\ pc[c] = "restoring" /\ Record(c, trace[c], {}) /\ UNCHANGED minted
  PROVE  Step(c) /\ (AnswersPaid(c) \/ Breaks(c))
<1>1. CallTypes /\ PhaseOf(c) /\ trace[c] \in Seq(Span) /\ trace[c] # <<>>
  BY RunningSpans
<1>2. SpansAt(pc[c], trace[c]) /\ Charged(c)
  BY <1>1, ChargedPays DEF PhaseOf
<1>3. Counts(c)
  BY DEF Record, Counts
<1> DEFINE spans == IF pc[c] = "handling" THEN End(trace[c], "ok") ELSE trace[c]
<1>4. /\ spans \in Seq(Span) /\ SameNames(spans, trace[c])
      /\ SpansAt("answered", EndRoot(spans, "ok"))
  <2>1. CASE pc[c] = "handling"
    <3>1. "handling" \in Running
      BY DEF Running
    <3>2. spans = End(trace[c], "ok")
      BY <2>1
    <3>3. End(trace[c], "ok") \in Seq(Span) /\ SameNames(End(trace[c], "ok"), trace[c])
      BY <1>1, RunningSpans, Names
    <3>4. SpansAt("answered", EndRoot(End(trace[c], "ok"), "ok"))
      BY <1>1, <1>2, <2>1, <3>1, CloseAt
    <3> QED
      BY <3>2, <3>3, <3>4
  <2>2. CASE pc[c] \in Putting
    <3>1. spans = trace[c] /\ SameNames(trace[c], trace[c])
      BY <2>2 DEF SameNames, Putting
    <3>2. SpansAt("answered", EndRoot(trace[c], "ok"))
      BY <1>1, <1>2, <2>2, CloseRootAt
    <3> QED
      BY <1>1, <3>1, <3>2
  <2> QED
    BY <2>1, <2>2 DEF Putting
<1>5. \/ /\ Supported(amount[c]) /\ AddRevenue(toolOf[c], Earned(c)) /\ Answer(c, spans)
      \/ /\ ~ Supported(amount[c]) /\ Fail(c, spans) /\ UNCHANGED <<toolOf, revenue, peak>>
  BY DEF Record
<1>6. CASE Supported(amount[c]) /\ AddRevenue(toolOf[c], Earned(c)) /\ Answer(c, spans)
  <2> HIDE DEF spans
  <2>1. /\ Step(c) /\ pc'[c] = "answered" /\ Pays(trace'[c])
    <3>1. pc[c] # "idle"
      OBVIOUS
    <3> QED
      BY <1>4, <1>6, <3>1, StepAnswers
  <2>2. /\ AppendCall([call |-> c, paid |-> TRUE, error |-> FALSE])
        /\ received' = received \cup {c}
        /\ issued' = IF Pricing[toolOf[c]] = "access-key" THEN issued \cup {c} ELSE issued
        /\ UNCHANGED <<toolOf, amount, action, open, failures, peak>>
    <3>1. Charged(c) = TRUE
      BY <1>2
    <3> QED
      BY <1>6, <3>1 DEF Answer
  <2> QED
    BY <1>3, <1>6, <2>1, <2>2 DEF AnswersPaid
<1>7. CASE ~ Supported(amount[c]) /\ Fail(c, spans) /\ UNCHANGED <<toolOf, revenue, peak>>
  <2>1. /\ Step(c) /\ pc'[c] = "failed" /\ Pays(trace'[c])
    <3>1. \/ pc[c] \in Running /\ Fail(c, End(trace[c], "ok"))
          \/ pc[c] \in Putting /\ Fail(c, trace[c])
      BY <1>7 DEF Running, Putting
    <3>2. UNCHANGED toolOf
      BY <1>7
    <3> QED
      BY <3>1, <3>2, FailFrom
  <2>2. /\ AppendCall([call |-> c, paid |-> FALSE, error |-> TRUE])
        /\ failures' = failures \cup {c}
        /\ UNCHANGED <<amount, action, open, received, issued>>
    BY <1>7 DEF Fail
  <2> QED
    BY <1>3, <1>7, <2>1, <2>2 DEF Breaks
<1> QED
  BY <1>5, <1>6, <1>7

\* The actions that end in the books.
LEMMA StepHandlerReturns ==
  ASSUME TypeOK, Phases, NEW c \in Calls, HandlerReturns(c)
  PROVE  Step(c) /\ (AnswersUnpaid(c) \/ AnswersPaid(c) \/ Breaks(c) \/ Moves(c))
<1>1. CallTypes /\ PhaseOf(c) /\ trace[c] \in Seq(Span) /\ trace[c] # <<>> /\ pc[c] = "handling"
  BY RunningSpans DEF HandlerReturns
<1>2. SpansAt("handling", trace[c])
  BY <1>1 DEF PhaseOf
<1> DEFINE spans == End(trace[c], "ok")
<1>3. spans \in Seq(Span) /\ SameNames(spans, trace[c])
  BY <1>1, RunningSpans, Names
<1>4. CASE ~ Charged(c)
  <2>1. /\ Answer(c, spans)
        /\ IF Pricing[toolOf[c]] = "free" THEN UNCHANGED <<stats, callsByTool>>
           ELSE /\ stats' = Count({"totalCalls", "accessKeyCalls"})
                /\ callsByTool' = [callsByTool EXCEPT ![toolOf[c]] = @ + 1]
        /\ UNCHANGED <<revenue, minted>>
    BY <1>4 DEF HandlerReturns
  <2>2. ~ Pays(trace[c])
    BY <1>4, ChargedPays
  <2>3. SpansAt("answered", EndRoot(spans, "ok"))
    BY <1>1, <1>2, CloseAt DEF Running
  <2> HIDE DEF spans
  <2>4. Step(c) /\ pc'[c] = "answered" /\ ~ Pays(trace'[c])
    <3>1. pc[c] # "idle"
      BY <1>1
    <3> QED
      BY <1>3, <2>1, <2>2, <2>3, <3>1, StepAnswers
  <2>5. /\ AppendCall([call |-> c, paid |-> FALSE, error |-> FALSE])
        /\ UNCHANGED <<toolOf, amount, action, open, events, peak>>
    <3>1. Charged(c) = FALSE
      BY <1>4
    <3> QED
      BY <2>1, <3>1 DEF Answer, events
  <2>6. AnswersUnpaid(c)
    BY <1>1, <2>1, <2>2, <2>4, <2>5 DEF AnswersUnpaid
  <2> QED
    BY <2>4, <2>6
<1>5. CASE Charged(c) /\ Pricing[toolOf[c]] # "access-key"
  <2>1. Record(c, spans, {}) /\ UNCHANGED minted /\ Pays(trace[c])
    BY <1>5, ChargedPays DEF HandlerReturns
  <2> QED
    BY <1>1, <1>5, <2>1, RecordFrom
<1>6. CASE Charged(c) /\ Pricing[toolOf[c]] = "access-key"
  <2>1. /\ pc' = [pc EXCEPT ![c] = "storing"] /\ trace' = [trace EXCEPT ![c] = spans]
        /\ UNCHANGED toolOf /\ UNCHANGED amount /\ UNCHANGED action
        /\ UNCHANGED <<meters, log, open, minted, events, peak>>
    BY <1>6 DEF HandlerReturns
  <2>2. SpansAt("storing", spans)
    BY <1>1, <1>2, PutAt
  <2> HIDE DEF spans
  <2>3. Pays(trace[c]) /\ Pays(spans)
    BY <1>1, <1>3, <1>6, ChargedPays, SamePays
  <2>4. PaymentAt("handling", toolOf[c], amount[c], action[c], trace[c])
    BY <1>1 DEF PhaseOf
  <2>5. NamesAt(Pricing[toolOf[c]], trace[c]) => NamesAt(Pricing[toolOf[c]], spans)
    BY <1>3, SameNamesAt
  <2>6. PaymentAt("storing", toolOf[c], amount[c], action[c], spans)
    BY <1>6, <2>3, <2>4, <2>5 DEF PaymentAt
  <2>7. /\ toolOf' = [toolOf EXCEPT ![c] = toolOf[c]] /\ toolOf[c] \in Tools \cup {None}
        /\ amount' = [amount EXCEPT ![c] = amount[c]] /\ amount[c] \in Decimal
        /\ action' = [action EXCEPT ![c] = action[c]] /\ action[c] \in Actions \cup {None}
    BY <1>1, <2>1, Kept
  <2>8. Step(c)
    BY <1>1, <1>3, <2>1, <2>2, <2>6, <2>7, StepFrom, AllPlaces, Zenon
  <2>9. pc'[c] = "storing"
    BY <1>1, <2>1 DEF CallTypes
  <2>10. Moves(c)
    BY <1>1, <1>6, <2>1, <2>9 DEF Moves, Inside, Putting, meters
  <2> QED
    BY <2>8, <2>10
<1> QED
  BY <1>4, <1>5, <1>6

LEMMA StepKeyStored ==
  ASSUME TypeOK, Phases, NEW c \in Calls, KeyStored(c)
  PROVE  Step(c) /\ (AnswersPaid(c) \/ Breaks(c) \/ Moves(c))
<1>1. CallTypes /\ PhaseOf(c) /\ trace[c] \in Seq(Span) /\ pc[c] \in Putting
  BY RunningSpans DEF KeyStored, Putting
<1>2. Pays(trace[c]) /\ Pricing[toolOf[c]] = "access-key"
  BY <1>1 DEF PhaseOf, PaymentAt, Putting
<1>3. CASE pc[c] = "storing" /\ Capped
  <2>1. /\ pc' = [pc EXCEPT ![c] = "restoring"] /\ stats' = Count({"accessKeysIssued"})
        /\ minted' = minted \cup {c}
        /\ UNCHANGED toolOf /\ UNCHANGED amount /\ UNCHANGED action /\ UNCHANGED trace
        /\ UNCHANGED <<callsByTool, revenue, log, open, events, peak>>
    BY <1>3 DEF KeyStored
  <2>2. SpansAt("restoring", trace[c])
    BY <1>1, <1>3 DEF PhaseOf, SpansAt
  <2>3. PaymentAt("restoring", toolOf[c], amount[c], action[c], trace[c])
    BY <1>1, <1>3 DEF PhaseOf, PaymentAt
  <2>4. /\ toolOf' = [toolOf EXCEPT ![c] = toolOf[c]] /\ toolOf[c] \in Tools \cup {None}
        /\ amount' = [amount EXCEPT ![c] = amount[c]] /\ amount[c] \in Decimal
        /\ action' = [action EXCEPT ![c] = action[c]] /\ action[c] \in Actions \cup {None}
    BY <1>1, <2>1, Kept
  <2>5. trace' = [trace EXCEPT ![c] = trace[c]]
    BY <1>1, <2>1 DEF CallTypes
  <2>6. Step(c)
    BY <1>1, <2>1, <2>2, <2>3, <2>4, <2>5, StepFrom, AllPlaces, Zenon
  <2>7. pc'[c] = "restoring"
    BY <1>1, <2>1 DEF CallTypes
  <2>8. Moves(c)
    BY <1>2, <1>3, <2>1, <2>7 DEF Moves, Inside
  <2> QED
    BY <2>6, <2>8
<1>4. CASE ~ (pc[c] = "storing" /\ Capped)
  <2>1. \/ /\ pc[c] = "storing"
           /\ Record(c, trace[c], {"accessKeysIssued"}) /\ minted' = minted \cup {c}
        \/ /\ pc[c] = "restoring" /\ Record(c, trace[c], {}) /\ UNCHANGED minted
    BY <1>4 DEF KeyStored
  <2> QED
    BY <1>2, <2>1, RecordFrom
<1> QED
  BY <1>3, <1>4

\* Every step is a call's, of one of these kinds.
LEMMA EveryStep ==
  ASSUME TypeOK, Phases, Next
  PROVE  \E c \in Calls : Step(c) /\ Kind(c)
<1>1. PICK c \in Calls :
        \/ \E t \in Tools : CallFree(c, t) \/ CallPaid(c, t)
                        \/ CallWithKey(c, t) \/ CallUnbound(c, t)
        \/ KeyHonoured(c) \/ KeyRejected(c) \/ RedeemThrows(c)
        \/ PaymentRequired(c) \/ PaymentThrows(c) \/ SessionSetupThrows(c) \/ PaymentSettles(c)
        \/ HandlerReturns(c) \/ HandlerThrows(c) \/ HandlerChallenges(c)
        \/ KeyStored(c) \/ StoreThrows(c)
  BY DEF Next
<1>2. CASE \E t \in Tools : CallFree(c, t) \/ CallPaid(c, t) \/ CallWithKey(c, t)
  BY <1>2, StepCallFree, StepCallPaid, StepCallWithKey DEF Kind
<1>3. CASE \E t \in Tools : CallUnbound(c, t)
  BY <1>3, StepCallUnbound DEF Kind
<1>4. CASE KeyHonoured(c) \/ KeyRejected(c) \/ PaymentRequired(c) \/ PaymentSettles(c)
           \/ HandlerChallenges(c)
  BY <1>4, StepKeyHonoured, StepKeyRejected, StepPaymentRequired, StepPaymentSettles,
     StepHandlerChallenges DEF Kind
<1>5. CASE RedeemThrows(c) \/ PaymentThrows(c) \/ SessionSetupThrows(c) \/ HandlerThrows(c)
           \/ StoreThrows(c)
  BY <1>5, StepThrows DEF Kind
<1>6. CASE HandlerReturns(c) \/ KeyStored(c)
  BY <1>6, StepHandlerReturns, StepKeyStored DEF Kind
<1> QED
  BY <1>1, <1>2, <1>3, <1>4, <1>5, <1>6

\* A step of one call leaves the phases of the others as they are.
LEMMA PhasesKept ==
  ASSUME Phases, NEW c \in Calls, Step(c)
  PROVE  Phases'
<1>1. ASSUME NEW d \in Calls, d # c PROVE PhaseOf(d)'
  <2>1. /\ pc'[d] = pc[d] /\ toolOf'[d] = toolOf[d] /\ amount'[d] = amount[d]
        /\ action'[d] = action[d] /\ trace'[d] = trace[d]
    BY <1>1 DEF Step, Alone
  <2>2. PhaseOf(d)
    BY DEF Phases
  <2> QED
    BY <2>1, <2>2 DEF PhaseOf
<1>2. PhaseOf(c)'
  BY DEF Step
<1> QED
  BY <1>1, <1>2 DEF Phases

-----------------------------------------------------------------------------
(* Types.                                                                  *)

\* Max and Min, which are CHOSEN.
LEMMA MaxOfTwo ==
  ASSUME NEW a \in Nat, NEW b \in Nat
  PROVE  /\ Max({a, b}) \in {a, b} /\ Max({a, b}) \in Nat
         /\ Max({a, b}) >= a /\ Max({a, b}) >= b
<1>1. \E m \in {a, b} : \A k \in {a, b} : m >= k
  <2>1. CASE a >= b
    BY <2>1
  <2>2. CASE b >= a
    BY <2>2
  <2> QED
    BY <2>1, <2>2
<1>2. Max({a, b}) \in {a, b} /\ \A k \in {a, b} : Max({a, b}) >= k
  BY <1>1 DEF Max
<1> QED
  BY <1>2

LEMMA MinOfTwo ==
  ASSUME NEW a \in Int, NEW b \in Int
  PROVE  Min({a, b}) = IF a <= b THEN a ELSE b
<1>1. \E m \in {a, b} : \A k \in {a, b} : m <= k
  <2>1. CASE a <= b
    BY <2>1
  <2>2. CASE b <= a
    BY <2>2
  <2> QED
    BY <2>1, <2>2
<1>2. Min({a, b}) \in {a, b} /\ \A k \in {a, b} : Min({a, b}) <= k
  BY <1>1 DEF Min
<1> QED
  BY <1>2

\* An index that goes round.
LEMMA WrapNext ==
  ASSUME NEW n \in Nat \ {0}, NEW i \in 0..n - 1
  PROVE  (i + 1) % n = IF i + 1 = n THEN 0 ELSE i + 1
OBVIOUS

LEMMA WrapBack ==
  ASSUME NEW n \in Nat \ {0}, NEW i \in 0..n - 1, NEW k \in 1..n
  PROVE  (i - k + n) % n = IF k <= i THEN i - k ELSE i - k + n
<1>1. CASE k <= i
  <2>1. i - k + n = n + (i - k) /\ i - k \in 0..n - 1
    BY <1>1
  <2> QED
    BY <1>1, <2>1
<1>2. CASE k > i
  <2>1. i - k + n \in 0..n - 1
    BY <1>2
  <2> QED
    BY <1>2, <2>1
<1> QED
  BY <1>1, <1>2

\* The parts of TypeOK.
LogTypes ==
  /\ callLog \in [Slots -> Entry \cup {None}]
  /\ callLogWriteIndex \in Slots \cup {0}
  /\ callLogCount \in 0..LogSize
  /\ logged \in Seq(Entry)

BookTypes ==
  /\ stats \in [Counters -> Nat]
  /\ callsByTool \in [Tools -> Nat]
  /\ revenueUnitsByTool \in [Tools -> Nat]
  /\ totalRevenueUnits \in Nat
  /\ revenueByTool \in [Tools -> Decimal]
  /\ totalRevenue \in Decimal

SetTypes ==
  /\ open \subseteq Channels
  /\ minted \cup received \cup issued \cup failures \subseteq Calls
  /\ peak \in Nat

LEMMA TypeParts == TypeOK <=> CallTypes /\ LogTypes /\ BookTypes /\ SetTypes
BY DEF TypeOK, CallTypes, LogTypes, BookTypes, SetTypes

\* What is appended to the log has its type, and so have the indices.
LEMMA AppendTypes ==
  ASSUME LogTypes, NEW e \in Entry, AppendCall(e)
  PROVE  LogTypes'
<1>1. CASE LogSize = 0
  BY <1>1 DEF AppendCall, LogTypes, log
<1>2. CASE LogSize # 0
  <2>1. LogSize \in Nat \ {0} /\ Slots = 0..LogSize - 1 /\ callLogWriteIndex \in Slots
    BY <1>2, MeteringAssumption DEF MeteringAssumption, Slots, LogTypes
  <2>2. /\ callLog' = [callLog EXCEPT ![callLogWriteIndex] = e]
        /\ callLogWriteIndex' = (callLogWriteIndex + 1) % LogSize
        /\ callLogCount' = IF callLogCount < LogSize THEN callLogCount + 1 ELSE callLogCount
        /\ logged' = Append(logged, e)
    BY <1>2 DEF AppendCall
  <2>3. callLogWriteIndex' \in Slots
    BY <2>1, <2>2, WrapNext
  <2>4. callLogCount' \in 0..LogSize
    BY <2>1, <2>2 DEF LogTypes
  <2>5. logged' \in Seq(Entry)
    BY <2>2 DEF LogTypes
  <2>6. callLog' \in [Slots -> Entry \cup {None}]
    BY <2>2 DEF LogTypes
  <2> QED
    BY <2>3, <2>4, <2>5, <2>6 DEF LogTypes
<1> QED
  BY <1>1, <1>2

\* A step keeps the types of the log, the books and the sets.
LEMMA LogTypesKept ==
  ASSUME TypeOK, NEW c \in Calls, Kind(c)
  PROVE  LogTypes'
<1>1. LogTypes
  BY TypeParts
<1>2. CASE UNCHANGED log
  BY <1>1, <1>2 DEF LogTypes, log
<1>3. ASSUME NEW paid \in BOOLEAN, NEW error \in BOOLEAN,
             AppendCall([call |-> c, paid |-> paid, error |-> error])
      PROVE  LogTypes'
  <2>1. [call |-> c, paid |-> paid, error |-> error] \in Entry
    BY DEF Entry
  <2> QED
    BY <1>1, <1>3, <2>1, AppendTypes
<1> QED
  BY <1>2, <1>3 DEF Kind, Enters, Moves, Fails, AnswersUnpaid, AnswersPaid, Breaks

\* The tool of a call that is not idle.
LEMMA ToolKnown ==
  ASSUME Phases, NEW c \in Calls, pc[c] # "idle"
  PROVE  toolOf[c] \in Tools
BY DEF Phases, PhaseOf, PaymentAt

LEMMA CountTypes ==
  ASSUME BookTypes
  PROVE  /\ \A S : Count(S) \in [Counters -> Nat]
         /\ \A t \in Tools : [callsByTool EXCEPT ![t] = @ + 1] \in [Tools -> Nat]
BY DEF BookTypes, Count

LEMMA EarnedType ==
  ASSUME TypeOK, NEW c \in Calls, Supported(amount[c])
  PROVE  Earned(c) \in Nat
<1>1. amount[c].digits \in Nat /\ amount[c].scale \in Nat
  BY DEF TypeOK, Decimal
<1>2. Decimals - amount[c].scale \in Nat
  BY <1>1, MeteringAssumption DEF MeteringAssumption, Supported
<1>3. Pow10[Decimals - amount[c].scale] \in Nat
  BY <1>2, Pow10Def
<1> DEFINE p == Pow10[Decimals - amount[c].scale]
           d == amount[c].digits
<1> HIDE DEF p, d
<1>4. d * p \in Nat
  BY <1>1, <1>3 DEF p, d
<1> QED
  BY <1>4 DEF Earned, ToBaseUnits, p, d

LEMMA ToUsdStringType ==
  ASSUME NEW u \in Nat
  PROVE  ToUsdString(u) \in Decimal
BY MeteringAssumption DEF MeteringAssumption, ToUsdString, Decimal, Zero

LEMMA BookTypesKept ==
  ASSUME TypeOK, Phases, NEW c \in Calls, Kind(c)
  PROVE  BookTypes'
<1>1. BookTypes
  BY TypeParts
<1>2. pc[c] # "idle" => toolOf[c] \in Tools
  BY ToolKnown
<1>3. CASE UNCHANGED <<callsByTool, revenue>> /\ stats' \in {stats, Count({"accessKeysExpired"}), Count({"accessKeysIssued"})}
  BY <1>1, <1>3, CountTypes DEF BookTypes, revenue
<1>4. CASE Enters(c)
  <2>1. UNCHANGED revenue /\ toolOf'[c] \in Tools
    BY <1>4 DEF Enters
  <2>2. stats' \in [Counters -> Nat] /\ callsByTool' \in [Tools -> Nat]
    BY <1>1, <1>4, CountTypes DEF Enters, BookTypes
  <2> QED
    BY <1>1, <2>1, <2>2 DEF BookTypes, revenue
<1>5. CASE AnswersUnpaid(c)
  <2>1. UNCHANGED revenue /\ toolOf[c] \in Tools
    BY <1>2, <1>5 DEF AnswersUnpaid
  <2>2. stats' \in [Counters -> Nat] /\ callsByTool' \in [Tools -> Nat]
    BY <1>1, <1>5, <2>1, CountTypes DEF AnswersUnpaid, BookTypes
  <2> QED
    BY <1>1, <2>1, <2>2 DEF BookTypes, revenue
<1>6. ASSUME Counts(c)
      PROVE  stats' \in [Counters -> Nat] /\ callsByTool' \in [Tools -> Nat]
  <2>1. toolOf[c] \in Tools
    BY <1>2, <1>6 DEF Counts
  <2> QED
    BY <1>1, <1>6, <2>1, CountTypes DEF Counts, CountPaid
<1>7. CASE Breaks(c)
  <2>1. Counts(c) /\ UNCHANGED revenue
    BY <1>7 DEF Breaks
  <2> QED
    BY <1>1, <1>6, <2>1 DEF BookTypes, revenue
<1>8. CASE AnswersPaid(c)
  <2>1. Counts(c) /\ AddRevenue(toolOf[c], Earned(c)) /\ toolOf[c] \in Tools /\ Earned(c) \in Nat
    BY <1>2, <1>8, EarnedType DEF AnswersPaid, Counts
  <2> DEFINE t == toolOf[c]
             u == Earned(c)
  <2> HIDE DEF t, u
  <2>2. /\ revenueUnitsByTool[t] + u \in Nat /\ totalRevenueUnits + u \in Nat
        /\ ToUsdString(revenueUnitsByTool[t] + u) \in Decimal
        /\ ToUsdString(totalRevenueUnits + u) \in Decimal
    BY <1>1, <2>1, ToUsdStringType DEF BookTypes, t, u
  <2>3. /\ revenueUnitsByTool' \in [Tools -> Nat] /\ totalRevenueUnits' \in Nat
        /\ revenueByTool' \in [Tools -> Decimal] /\ totalRevenue' \in Decimal
    BY <1>1, <2>1, <2>2 DEF AddRevenue, BookTypes, t, u
  <2> QED
    BY <1>6, <2>1, <2>3 DEF BookTypes
<1> QED
  BY <1>3, <1>4, <1>5, <1>7, <1>8 DEF Kind, Moves, Fails

\* Sets of calls are finite.
LEMMA InsideFinite ==
  /\ IsFiniteSet(Calls)
  /\ \A S \in SUBSET Calls : IsFiniteSet(S) /\ Cardinality(S) \in Nat
  /\ Inside \in SUBSET Calls
BY MeteringAssumption, FS_Subset, FS_CardinalityType DEF MeteringAssumption, Inside

LEMMA SetTypesKept ==
  ASSUME TypeOK, NEW c \in Calls, Kind(c)
  PROVE  SetTypes'
<1>1. SetTypes
  BY TypeParts
<1>2. open' \subseteq Channels
  BY <1>1 DEF SetTypes, Kind, Enters, Moves, Fails, AnswersUnpaid, AnswersPaid, Breaks
<1>3. minted' \subseteq Calls
  BY <1>1 DEF SetTypes, Kind, Enters, Moves, Fails, AnswersUnpaid, AnswersPaid, Breaks, Counts
<1>4. received' \cup issued' \cup failures' \subseteq Calls
  BY <1>1 DEF SetTypes, Kind, Enters, Moves, Fails, AnswersUnpaid, AnswersPaid, Breaks, events
<1>5. peak' \in Nat
  <2>1. Cardinality(Inside) + 1 \in Nat /\ peak \in Nat
    BY <1>1, InsideFinite DEF SetTypes
  <2>2. Max({peak, Cardinality(Inside) + 1}) \in Nat
    BY <2>1, MaxOfTwo
  <2>3. peak' \in {peak, Max({peak, Cardinality(Inside) + 1})}
    BY DEF Kind, Enters, Moves, Fails, AnswersUnpaid, AnswersPaid, Breaks
  <2> QED
    BY <2>1, <2>2, <2>3
<1> QED
  BY <1>2, <1>3, <1>4, <1>5 DEF SetTypes

\* Types and phases are one invariant: what a call may do depends on both.
Inv == TypeOK /\ Phases

\* The invariant holds at first, is kept, and holds always.
LEMMA InvInit == Init => Inv
<1> SUFFICES ASSUME Init PROVE Inv
  OBVIOUS
<1>1. Zero \in Decimal /\ <<>> \in Seq(Span) /\ <<>> \in Seq(Entry)
  BY EmptySeq DEF Zero, Decimal
<1>2. CallTypes
  BY <1>1 DEF Init, CallTypes
<1>3. LogTypes
  BY <1>1, MeteringAssumption DEF Init, LogTypes, MeteringAssumption
<1>4. BookTypes /\ SetTypes
  BY <1>1 DEF Init, BookTypes, SetTypes
<1>5. ASSUME NEW c \in Calls PROVE PhaseOf(c)
  <2>1. /\ pc[c] = "idle" /\ toolOf[c] = None /\ amount[c] = Zero /\ action[c] = None
        /\ trace[c] = <<>>
    BY DEF Init
  <2>2. SpansAt("idle", <<>>)
    BY DEF SpansAt
  <2>3. PaymentAt("idle", None, Zero, None, <<>>)
    BY DEF PaymentAt
  <2> QED
    BY <2>1, <2>2, <2>3 DEF PhaseOf
<1> QED
  BY <1>2, <1>3, <1>4, <1>5, TypeParts DEF Inv, Phases

LEMMA InvStep ==
  ASSUME Inv, [Next]_vars
  PROVE  Inv' /\ (UNCHANGED vars \/ \E c \in Calls : Step(c) /\ Kind(c))
<1>1. CASE UNCHANGED vars
  BY <1>1 DEF Inv, vars, meters, revenue, log, events, TypeOK, Phases, PhaseOf, Slots
<1>2. CASE Next
  <2>1. PICK c \in Calls : Step(c) /\ Kind(c)
    BY <1>2, EveryStep DEF Inv
  <2>2. CallTypes' /\ LogTypes' /\ BookTypes' /\ SetTypes'
    BY <2>1, LogTypesKept, BookTypesKept, SetTypesKept DEF Inv, Step
  <2>3. Phases'
    BY <2>1, PhasesKept DEF Inv
  <2>4. TypeOK'
    BY <2>2 DEF TypeOK, CallTypes, LogTypes, BookTypes, SetTypes
  <2> QED
    BY <2>1, <2>3, <2>4 DEF Inv
<1> QED
  BY <1>1, <1>2

LEMMA InvAlways == Spec => []Inv
<1>1. Inv /\ [Next]_vars => Inv'
  BY InvStep
<1> QED
  BY <1>1, InvInit, PTL DEF Spec

\* Every variable has its type: no counter, sum, index or span is ever anything else,
\* whatever the prices, and the decimals shown are decimals.
THEOREM TypeCorrect == Spec => []TypeOK
<1>1. Inv => TypeOK
  BY DEF Inv
<1>2. Spec => []Inv
  BY InvAlways
<1> QED
  BY <1>1, <1>2, PTL

-----------------------------------------------------------------------------
(* The call log.                                                           *)

\* Min and Max, as getRecentCalls uses them.
LEMMA MinOfThree ==
  ASSUME NEW a \in Int, NEW b \in Int, NEW d \in Int
  PROVE  Min({a, b, d}) = IF a <= b /\ a <= d THEN a ELSE IF b <= d THEN b ELSE d
<1> DEFINE m == IF a <= b /\ a <= d THEN a ELSE IF b <= d THEN b ELSE d
<1>1. m \in {a, b, d} /\ \A k \in {a, b, d} : m <= k
  OBVIOUS
<1> HIDE DEF m
<1>2. Min({a, b, d}) \in {a, b, d} /\ \A k \in {a, b, d} : Min({a, b, d}) <= k
  BY <1>1 DEF Min
<1>3. m \in Int /\ Min({a, b, d}) \in Int /\ m <= Min({a, b, d}) /\ Min({a, b, d}) <= m
  BY <1>1, <1>2
<1> QED
  BY <1>3 DEF m

LEMMA MaxWithZero ==
  ASSUME NEW a \in Int
  PROVE  Max({0, a}) = IF a >= 0 THEN a ELSE 0
<1>1. \E m \in {0, a} : \A k \in {0, a} : m >= k
  <2>1. CASE a >= 0
    BY <2>1
  <2>2. CASE a < 0
    BY <2>2
  <2> QED
    BY <2>1, <2>2
<1>2. Max({0, a}) \in {0, a} /\ \A k \in {0, a} : Max({0, a}) >= k
  BY <1>1 DEF Max
<1> QED
  BY <1>2

\* An entry more goes into the slot that is next.
LEMMA RingAppend ==
  ASSUME LogTypes, Ring, NEW e \in Entry, AppendCall(e)
  PROVE  Ring'
<1>1. CASE LogSize = 0
  BY <1>1 DEF AppendCall, Ring, log
<1>2. CASE LogSize # 0
  <2>1. /\ LogSize \in Nat \ {0} /\ Slots = 0..LogSize - 1 /\ callLogWriteIndex \in Slots
        /\ callLogCount \in 0..LogSize /\ callLog \in [Slots -> Entry \cup {None}]
        /\ logged \in Seq(Entry) /\ Len(logged) \in Nat
    BY <1>2, MeteringAssumption DEF MeteringAssumption, Slots, LogTypes
  <2>2. /\ callLog' = [callLog EXCEPT ![callLogWriteIndex] = e]
        /\ callLogWriteIndex' = (callLogWriteIndex + 1) % LogSize
        /\ callLogCount' = IF callLogCount < LogSize THEN callLogCount + 1 ELSE callLogCount
        /\ logged' = Append(logged, e)
    BY <1>2 DEF AppendCall
  <2> DEFINE w == callLogWriteIndex
             n == Len(logged)
  <2>3. callLogWriteIndex' = IF w + 1 = LogSize THEN 0 ELSE w + 1
    BY <2>1, <2>2, WrapNext
  <2>4. /\ Len(logged') = n + 1 /\ logged'[n + 1] = e
        /\ \A i \in 1..n : logged'[i] = logged[i]
    BY <2>1, <2>2
  <2>5. /\ callLogCount < LogSize => w = callLogCount /\ n = callLogCount
        /\ callLogCount = LogSize => n >= LogSize
        /\ \A j \in Slots : j < w => callLog[j] = logged[n - w + j + 1]
        /\ \A j \in Slots : ~ (j < w) /\ callLogCount = LogSize =>
             callLog[j] = logged[n - w - LogSize + j + 1]
    BY <1>2 DEF Ring
  <2> HIDE DEF w, n
  <2>6. w \in 0..LogSize - 1 /\ n \in Nat /\ n >= w
    BY <2>1, <2>5 DEF w, n
  <2>7. /\ callLogCount' < LogSize =>
             callLogWriteIndex' = callLogCount' /\ Len(logged') = callLogCount'
        /\ callLogCount' = LogSize => Len(logged') >= LogSize
    BY <2>1, <2>2, <2>3, <2>4, <2>5, <2>6
  <2>8. ASSUME NEW j \in Slots
        PROVE  IF j < callLogWriteIndex'
               THEN callLog'[j] = logged'[Len(logged') - callLogWriteIndex' + j + 1]
               ELSE callLogCount' = LogSize =>
                      callLog'[j] = logged'[Len(logged') - callLogWriteIndex' - LogSize + j + 1]
    <3>1. j \in 0..LogSize - 1
      BY <2>1
    <3>2. callLog'[j] = IF j = w THEN e ELSE callLog[j]
      BY <2>1, <2>2 DEF w
    <3>3. CASE w + 1 = LogSize
      <4>1. callLogWriteIndex' = 0 /\ ~ (j < 0)
        BY <2>3, <3>1, <3>3
      <4>2. callLog'[j] = logged'[n + 1 - 0 - LogSize + j + 1]
        <5>1. CASE j = w
          <6>1. n + 1 - 0 - LogSize + j + 1 = n + 1
            BY <2>1, <2>6, <3>3, <5>1
          <6> QED
            BY <2>4, <3>2, <5>1, <6>1
        <5>2. CASE j # w
          <6>1. j < w
            BY <2>6, <3>1, <3>3, <5>2
          <6>2. n + 1 - 0 - LogSize + j + 1 = n - w + j + 1 /\ n - w + j + 1 \in 1..n
            BY <2>1, <2>6, <3>1, <3>3, <6>1
          <6> QED
            BY <2>4, <2>5, <3>2, <5>2, <6>1, <6>2
        <5> QED
          BY <5>1, <5>2
      <4> QED
        BY <2>1, <2>4, <2>6, <3>1, <4>1, <4>2
    <3>4. CASE w + 1 # LogSize
      <4>1. callLogWriteIndex' = w + 1
        BY <2>3, <3>4
      <4>2. CASE j < w + 1
        <5>1. callLog'[j] = logged'[n + 1 - (w + 1) + j + 1]
          <6>1. CASE j = w
            <7>1. n + 1 - (w + 1) + j + 1 = n + 1
              BY <2>6, <6>1
            <7> QED
              BY <2>4, <3>2, <6>1, <7>1
          <6>2. CASE j # w
            <7>1. j < w
              BY <2>6, <3>1, <4>2, <6>2
            <7>2. n + 1 - (w + 1) + j + 1 = n - w + j + 1 /\ n - w + j + 1 \in 1..n
              BY <2>6, <3>1, <7>1
            <7> QED
              BY <2>4, <2>5, <3>2, <6>2, <7>1, <7>2
          <6> QED
            BY <6>1, <6>2
        <5> QED
          BY <2>1, <2>4, <2>6, <3>1, <4>1, <4>2, <5>1
      <4>3. CASE ~ (j < w + 1)
        <5>1. ASSUME callLogCount' = LogSize
              PROVE  callLog'[j] = logged'[n + 1 - (w + 1) - LogSize + j + 1]
          <6>1. callLogCount = LogSize /\ n >= LogSize
            BY <2>1, <2>2, <2>5, <2>6, <3>4, <5>1
          <6>2. j # w /\ ~ (j < w)
            BY <2>6, <3>1, <4>3
          <6>3. /\ n + 1 - (w + 1) - LogSize + j + 1 = n - w - LogSize + j + 1
                /\ n - w - LogSize + j + 1 \in 1..n
            BY <2>1, <2>6, <3>1, <6>1, <6>2
          <6> QED
            BY <2>4, <2>5, <3>2, <6>1, <6>2, <6>3
        <5> QED
          BY <2>1, <2>4, <2>6, <3>1, <4>1, <4>3, <5>1
      <4> QED
        BY <4>2, <4>3
    <3> QED
      BY <3>3, <3>4
  <2> QED
    BY <1>2, <2>7, <2>8 DEF Ring, Slots
<1> QED
  BY <1>1, <1>2

\* A step keeps the ring as it is, or appends one entry to it.
LEMMA RingStep ==
  ASSUME Inv, Ring, [Next]_vars
  PROVE  Ring'
<1>1. CASE UNCHANGED vars
  BY <1>1 DEF vars, log, Ring, Slots
<1>2. CASE \E c \in Calls : Step(c) /\ Kind(c)
  <2>1. PICK c \in Calls : Kind(c)
    BY <1>2
  <2>2. CASE UNCHANGED log
    BY <2>2 DEF log, Ring, Slots
  <2>3. ASSUME NEW paid \in BOOLEAN, NEW error \in BOOLEAN,
               AppendCall([call |-> c, paid |-> paid, error |-> error])
        PROVE  Ring'
    <3>1. [call |-> c, paid |-> paid, error |-> error] \in Entry /\ LogTypes
      BY TypeParts DEF Entry, Inv
    <3> QED
      BY <2>3, <3>1, RingAppend
  <2> QED
    BY <2>1, <2>2, <2>3 DEF Kind, Enters, Moves, Fails, AnswersUnpaid, AnswersPaid, Breaks
<1> QED
  BY <1>1, <1>2, InvStep

LEMMA RingAlways == Spec => []Ring
<1>1. Init => Ring
  BY MeteringAssumption, EmptySeq DEF Init, Ring, Slots, MeteringAssumption
<1>2. Inv /\ Ring /\ [Next]_vars => Ring'
  BY RingStep
<1> QED
  BY <1>1, <1>2, InvAlways, PTL DEF Spec

\* Read backwards from the write index, the ring gives its last entries.
LEMMA RingRead ==
  ASSUME LogTypes, Ring
  PROVE  RecentCallsAreLatest
<1>1. SUFFICES ASSUME NEW limit \in -1..LogSize + 1
               PROVE  RecentCalls(limit) =
                        [i \in 1..Max({0, Min({limit, LogSize, Len(logged)})})
                           |-> logged[Len(logged) - i + 1]]
  BY DEF RecentCallsAreLatest
<1>2. /\ LogSize \in Nat /\ limit \in Int /\ Len(logged) \in Nat
      /\ callLogCount \in 0..LogSize
  BY MeteringAssumption DEF MeteringAssumption, LogTypes
<1> DEFINE n == Max({0, Min({limit, callLogCount})})
<1>3. Min({limit, LogSize, Len(logged)}) = Min({limit, callLogCount})
  <2>1. callLogCount = IF LogSize <= Len(logged) THEN LogSize ELSE Len(logged)
    BY <1>2, EmptySeq DEF Ring
  <2>2. /\ Min({limit, callLogCount}) = IF limit <= callLogCount THEN limit ELSE callLogCount
        /\ Min({limit, LogSize, Len(logged)}) =
             IF limit <= LogSize /\ limit <= Len(logged) THEN limit
             ELSE IF LogSize <= Len(logged) THEN LogSize ELSE Len(logged)
    BY <1>2, MinOfTwo, MinOfThree
  <2> QED
    BY <1>2, <2>1, <2>2
<1>4. n \in 0..callLogCount
  <2>1. Min({limit, callLogCount}) = IF limit <= callLogCount THEN limit ELSE callLogCount
    BY <1>2, MinOfTwo
  <2>2. Min({limit, callLogCount}) \in Int /\ Min({limit, callLogCount}) <= callLogCount
    BY <1>2, <2>1
  <2> DEFINE x == Min({limit, callLogCount})
  <2> HIDE DEF x
  <2>3. Max({0, x}) = IF x >= 0 THEN x ELSE 0
    BY <2>2, MaxWithZero DEF x
  <2>4. Max({0, x}) \in 0..callLogCount
    BY <1>2, <2>2, <2>3 DEF x
  <2> QED
    BY <2>4 DEF x
<1> HIDE DEF n
<1>5. ASSUME NEW i \in 1..n
      PROVE  callLog[(callLogWriteIndex - i + LogSize) % LogSize] = logged[Len(logged) - i + 1]
  <2>1. /\ LogSize \in Nat \ {0} /\ Slots = 0..LogSize - 1
        /\ callLogWriteIndex \in 0..LogSize - 1 /\ i \in 1..LogSize /\ i <= callLogCount
    BY <1>2, <1>4 DEF Slots, LogTypes
  <2> DEFINE w == callLogWriteIndex
  <2>2. (w - i + LogSize) % LogSize = IF i <= w THEN w - i ELSE w - i + LogSize
    BY <2>1, WrapBack
  <2>3. CASE i <= w
    <3>1. w - i \in Slots /\ w - i < w
      BY <2>1, <2>3
    <3>2. callLog[w - i] = logged[Len(logged) - w + (w - i) + 1]
      BY <2>1, <3>1 DEF Ring
    <3>3. Len(logged) - w + (w - i) + 1 = Len(logged) - i + 1
      BY <1>2, <2>1
    <3> QED
      BY <2>2, <2>3, <3>2, <3>3
  <2>4. CASE i > w
    <3>1. callLogCount = LogSize
      BY <1>2, <2>1, <2>4 DEF Ring
    <3>2. w - i + LogSize \in Slots /\ ~ (w - i + LogSize < w)
      BY <2>1, <2>4
    <3>3. callLog[w - i + LogSize] = logged[Len(logged) - w - LogSize + (w - i + LogSize) + 1]
      BY <2>1, <3>1, <3>2 DEF Ring
    <3>4. Len(logged) - w - LogSize + (w - i + LogSize) + 1 = Len(logged) - i + 1
      BY <1>2, <2>1
    <3>5. ~ (i <= w)
      BY <2>1, <2>4
    <3> QED
      BY <2>2, <3>3, <3>4, <3>5
  <2> QED
    BY <2>1, <2>3, <2>4
<1>6. RecentCalls(limit) = [i \in 1..n |-> callLog[(callLogWriteIndex - i + LogSize) % LogSize]]
  BY DEF RecentCalls, n
<1>7. Max({0, Min({limit, LogSize, Len(logged)})}) = n
  BY <1>3 DEF n
<1> QED
  BY <1>5, <1>6, <1>7

\* The ring buffer (appendCall, getRecentCalls) gives the entries that were appended
\* last, newest first, for every capacity, however often it has wrapped and for every
\* limit that is asked for.
THEOREM RecentCallsCorrect == Spec => []RecentCallsAreLatest
<1>1. Inv /\ Ring => RecentCallsAreLatest
  BY RingRead, TypeParts DEF Inv
<1> QED
  BY <1>1, InvAlways, RingAlways, PTL

-----------------------------------------------------------------------------
(* The outcome of a call.                                                  *)

\* Paid calls, by their spans.
LEMMA PaidPays ==
  \A d : d \in Paid <=> d \in Calls /\ pc[d] = "answered" /\ Pays(trace[d])
BY ChargedPays DEF Paid, Answered

\* A step changes the standing of its own call alone.
LEMMA Members ==
  ASSUME NEW c \in Calls, Step(c)
  PROVE  /\ \A d \in Calls \ {c} :
              /\ d \in Paid' <=> d \in Paid
              /\ d \in Answered' <=> d \in Answered
              /\ d \in Inside' <=> d \in Inside
              /\ Charged(d)' <=> Charged(d)
         /\ c \in Paid' <=> pc'[c] = "answered" /\ Pays(trace'[c])
         /\ Charged(c)' <=> Pays(trace'[c])
         /\ Paid' \subseteq Calls
<1>1. \A d \in Calls \ {c} : pc'[d] = pc[d] /\ trace'[d] = trace[d]
  BY DEF Step, Alone
<1>2. \A d \in Calls : Charged(d)' <=> Pays(trace'[d])
  BY DEF Charged, Pays
<1>3. \A d : d \in Paid' <=> d \in Calls /\ pc'[d] = "answered" /\ Pays(trace'[d])
  BY <1>2 DEF Paid, Answered
<1> QED
  BY <1>1, <1>2, <1>3, PaidPays, ChargedPays DEF Answered, Inside

\* The entry of a call, if it has one, and if there is a log.
Logged ==
  \A c \in Calls :
    LET entries == {i \in 1..Len(logged) : logged[i].call = c}
    IN  IF pc[c] \in {"answered", "failed"} /\ LogSize > 0
        THEN \E i \in 1..Len(logged) :
               /\ entries = {i}
               /\ logged[i].error = (pc[c] = "failed")
               /\ logged[i].paid = (c \in Paid)
        ELSE entries = {}

Announced ==
  /\ received = Paid
  /\ issued = {c \in Paid : Pricing[toolOf[c]] = "access-key"}
  /\ failures = {c \in Calls : pc[c] = "failed"}

\* A step that ends no call leaves the log as it is.
LEMMA LoggedKept ==
  ASSUME Logged, NEW c \in Calls, Step(c), UNCHANGED log,
         pc[c] \notin {"answered", "failed"}, pc'[c] \notin {"answered", "failed"}
  PROVE  Logged'
<1>1. logged' = logged
  BY DEF log
<1>2. \A d \in Calls \ {c} : pc'[d] = pc[d] /\ (d \in Paid' <=> d \in Paid)
  BY Members DEF Step, Alone
<1>3. ASSUME NEW d \in Calls \ {c}
      PROVE  (d \in Paid') = (d \in Paid)
  BY <1>2
<1> QED
  BY <1>1, <1>2, <1>3 DEF Logged

\* A step that ends its call appends its entry.
LEMMA LoggedAppend ==
  ASSUME Inv, Ring, Logged, NEW c \in Calls, Step(c), NEW paid \in BOOLEAN, NEW error \in BOOLEAN,
         pc[c] \notin {"answered", "failed"}, pc'[c] \in {"answered", "failed"},
         error = (pc'[c] = "failed"), paid = (c \in Paid'),
         AppendCall([call |-> c, paid |-> paid, error |-> error])
  PROVE  Logged'
<1> DEFINE e == [call |-> c, paid |-> paid, error |-> error]
           n == Len(logged)
<1>1. \A d \in Calls \ {c} : pc'[d] = pc[d] /\ (d \in Paid' <=> d \in Paid)
  BY Members DEF Step, Alone
<1>2. LogSize \in Nat /\ logged \in Seq(Entry) /\ n \in Nat
  BY MeteringAssumption, TypeParts DEF Inv, LogTypes, MeteringAssumption
<1>3. CASE LogSize = 0
  <2>1. logged = <<>> /\ logged' = logged
    BY <1>3 DEF Ring, AppendCall, log
  <2>2. ASSUME NEW d \in Calls PROVE {i \in 1..Len(logged') : logged'[i].call = d} = {}
    BY <2>1
  <2> QED
    BY <1>3, <2>2 DEF Logged
<1>4. CASE LogSize > 0
  <2>1. logged' = Append(logged, e)
    BY <1>4 DEF AppendCall
  <2>2. e \in Entry /\ e.call = c /\ e.paid = paid /\ e.error = error
    BY DEF Entry
  <2> HIDE DEF e
  <2>3. /\ Len(logged') = n + 1 /\ logged'[n + 1] = e
        /\ \A i \in 1..n : logged'[i] = logged[i]
    BY <1>2, <2>1, <2>2
  <2> HIDE DEF n
  <2>4. ASSUME NEW d \in Calls \ {c}
        PROVE  IF pc'[d] \in {"answered", "failed"} /\ LogSize > 0
               THEN \E i \in 1..Len(logged') :
                      /\ {k \in 1..Len(logged') : logged'[k].call = d} = {i}
                      /\ logged'[i].error = (pc'[d] = "failed")
                      /\ logged'[i].paid = (d \in Paid')
               ELSE {i \in 1..Len(logged') : logged'[i].call = d} = {}
    <3>1. {k \in 1..Len(logged') : logged'[k].call = d} = {k \in 1..n : logged[k].call = d}
      BY <1>2, <2>2, <2>3 DEF n
    <3>2. CASE pc[d] \in {"answered", "failed"}
      <4>1. PICK i \in 1..n : /\ {k \in 1..n : logged[k].call = d} = {i}
                              /\ logged[i].error = (pc[d] = "failed")
                              /\ logged[i].paid = (d \in Paid)
        BY <1>4, <3>2 DEF Logged, n
      <4>2. i \in 1..Len(logged') /\ logged'[i] = logged[i]
        BY <1>2, <2>3 DEF n
      <4>3. (d \in Paid') = (d \in Paid)
        BY <1>1
      <4>4. pc'[d] \in {"answered", "failed"} /\ LogSize > 0
        BY <1>1, <1>4, <3>2
      <4>5. {k \in 1..Len(logged') : logged'[k].call = d} = {i}
        BY <3>1, <4>1
      <4>6. logged'[i].error = (pc'[d] = "failed")
        BY <1>1, <4>1, <4>2
      <4>7. logged'[i].paid = (d \in Paid')
        BY <4>1, <4>2, <4>3
      <4> QED
        BY <4>2, <4>4, <4>5, <4>6, <4>7
    <3>3. CASE pc[d] \notin {"answered", "failed"}
      BY <1>1, <3>1, <3>3 DEF Logged, n
    <3> QED
      BY <3>2, <3>3
  <2>5. \E i \in 1..Len(logged') :
          /\ {k \in 1..Len(logged') : logged'[k].call = c} = {i}
          /\ logged'[i].error = (pc'[c] = "failed")
          /\ logged'[i].paid = (c \in Paid')
    <3>1. {k \in 1..n : logged[k].call = c} = {}
      BY DEF Logged, n
    <3>2. \A k \in 1..n + 1 : logged'[k].call = c <=> k = n + 1
      BY <1>2, <2>2, <2>3, <3>1 DEF n
    <3>3. n + 1 \in 1..Len(logged')
      BY <1>2, <2>3 DEF n
    <3>4. {k \in 1..Len(logged') : logged'[k].call = c} = {n + 1}
      BY <2>3, <3>2, <3>3
    <3>5. logged'[n + 1].error = (pc'[c] = "failed") /\ logged'[n + 1].paid = (c \in Paid')
      BY <2>2, <2>3
    <3> QED
      BY <3>3, <3>4, <3>5
  <2> QED
    BY <1>4, <2>4, <2>5 DEF Logged
<1> QED
  BY <1>2, <1>3, <1>4

\* A step keeps entries and events in agreement with the calls.
LEMMA OutcomeStep ==
  ASSUME Inv, Ring, Logged, Announced, NEW c \in Calls, Step(c), Kind(c)
  PROVE  Logged' /\ Announced'
<1>1. \A d \in Calls \ {c} :
        pc'[d] = pc[d] /\ toolOf'[d] = toolOf[d] /\ (d \in Paid' <=> d \in Paid)
  BY Members DEF Step, Alone
<1>2. /\ c \in Paid' <=> pc'[c] = "answered" /\ Pays(trace'[c])
      /\ Paid' \subseteq Calls /\ Paid \subseteq Calls
  BY Members, PaidPays
<1>3. CASE Enters(c) \/ Moves(c)
  <2>1. /\ pc[c] \notin {"answered", "failed"} /\ pc'[c] \notin {"answered", "failed"}
        /\ UNCHANGED log /\ UNCHANGED events
    BY <1>3 DEF Enters, Moves, Running, Inside
  <2>2. Logged'
    BY <2>1, LoggedKept
  <2>3. Announced'
    <3>1. c \notin Paid /\ c \notin Paid'
      BY <1>2, <2>1, PaidPays
    <3>2. Paid' = Paid
      BY <1>1, <1>2, <3>1
    <3> QED
      BY <1>1, <1>2, <2>1, <3>1, <3>2 DEF Announced, events
  <2> QED
    BY <2>2, <2>3
<1>4. CASE Fails(c) \/ Breaks(c)
  <2>1. /\ pc[c] \notin {"answered", "failed"} /\ pc'[c] = "failed"
        /\ AppendCall([call |-> c, paid |-> FALSE, error |-> TRUE])
        /\ failures' = failures \cup {c} /\ UNCHANGED <<received, issued>>
    BY <1>4 DEF Fails, Breaks, Counts
  <2>2. c \notin Paid /\ c \notin Paid'
    BY <1>2, <2>1, PaidPays
  <2>3. Logged'
    <3>1. FALSE = (c \in Paid') /\ TRUE = (pc'[c] = "failed")
      BY <2>1, <2>2
    <3> QED
      BY <2>1, <3>1, LoggedAppend
  <2>4. Announced'
    <3>1. Paid' = Paid
      BY <1>1, <1>2, <2>2
    <3> QED
      BY <1>1, <1>2, <2>1, <2>2, <3>1 DEF Announced
  <2> QED
    BY <2>3, <2>4
<1>5. CASE AnswersUnpaid(c)
  <2>1. /\ pc[c] = "handling" /\ pc'[c] = "answered" /\ ~ Pays(trace'[c])
        /\ AppendCall([call |-> c, paid |-> FALSE, error |-> FALSE])
        /\ UNCHANGED events
    BY <1>5 DEF AnswersUnpaid
  <2>2. c \notin Paid /\ c \notin Paid'
    BY <1>2, <2>1, PaidPays
  <2>3. Logged'
    <3>1. FALSE = (c \in Paid') /\ FALSE = (pc'[c] = "failed")
      BY <2>1, <2>2
    <3> QED
      BY <2>1, <3>1, LoggedAppend
  <2>4. Announced'
    <3>1. Paid' = Paid
      BY <1>1, <1>2, <2>2
    <3> QED
      BY <1>1, <1>2, <2>1, <2>2, <3>1 DEF Announced, events
  <2> QED
    BY <2>3, <2>4
<1>6. CASE AnswersPaid(c)
  <2>1. /\ pc[c] \notin {"answered", "failed"} /\ pc'[c] = "answered" /\ Pays(trace'[c])
        /\ AppendCall([call |-> c, paid |-> TRUE, error |-> FALSE])
        /\ received' = received \cup {c}
        /\ issued' = IF Pricing[toolOf[c]] = "access-key" THEN issued \cup {c} ELSE issued
        /\ UNCHANGED <<toolOf, failures>>
    BY <1>6 DEF AnswersPaid, Counts
  <2>2. c \notin Paid /\ c \in Paid'
    BY <1>2, <2>1, PaidPays
  <2>3. Logged'
    <3>1. TRUE = (c \in Paid') /\ FALSE = (pc'[c] = "failed")
      BY <2>1, <2>2
    <3> QED
      BY <2>1, <3>1, LoggedAppend
  <2>4. Announced'
    <3>1. Paid' = Paid \cup {c}
      BY <1>1, <1>2, <2>2
    <3> QED
      BY <1>1, <1>2, <2>1, <2>2, <3>1 DEF Announced
  <2> QED
    BY <2>3, <2>4
<1> QED
  BY <1>3, <1>4, <1>5, <1>6 DEF Kind

\* Entries and events agree with the calls always.
LEMMA LoggedAlways == Spec => [](Logged /\ Announced)
<1>1. Init => Logged /\ Announced
  <2> SUFFICES ASSUME Init PROVE Logged /\ Announced
    OBVIOUS
  <2>1. Paid = {} /\ logged = <<>> /\ \A c \in Calls : pc[c] = "idle"
    BY DEF Init, Paid, Answered
  <2>2. Logged
    BY <2>1 DEF Logged
  <2>3. Announced
    BY <2>1 DEF Announced, Init
  <2> QED
    BY <2>2, <2>3
<1>2. Inv /\ Ring /\ Logged /\ Announced /\ [Next]_vars => Logged' /\ Announced'
  <2> SUFFICES ASSUME Inv, Ring, Logged, Announced, [Next]_vars PROVE Logged' /\ Announced'
    OBVIOUS
  <2>1. CASE UNCHANGED vars
    BY <2>1 DEF vars, log, events, Logged, Announced, Paid, Answered, Charged
  <2> QED
    BY <2>1, InvStep, OutcomeStep
<1> QED
  BY <1>1, <1>2, InvAlways, RingAlways, PTL DEF Spec

\* A call that was answered or has failed has one entry in the log and one outcome
\* among the events, and they agree on it; a call that has not has none.
THEOREM OneOutcomeCorrect == Spec => []OneOutcomePerCall
<1>1. Inv /\ Logged /\ Announced => OneOutcomePerCall
  <2> SUFFICES ASSUME Inv, Logged, Announced PROVE OneOutcomePerCall
    OBVIOUS
  <2>1. DOMAIN logged = 1..Len(logged)
    BY TypeParts, LenProperties DEF Inv, LogTypes
  <2> QED
    BY <2>1 DEF OneOutcomePerCall, Logged, Announced
<1> QED
  BY <1>1, LoggedAlways, InvAlways, PTL

-----------------------------------------------------------------------------
(* The spans of a call.                                                    *)

LEMMA SpansTell ==
  ASSUME Inv
  PROVE  SpansTellOutcome
<1> SUFFICES ASSUME NEW c \in Calls
             PROVE  LET spans == trace[c]
                        With(status) == {i \in DOMAIN spans : spans[i].status = status}
                        last == {Len(spans)} \cap DOMAIN spans
                    IN  IF c \in Inside
                        THEN /\ With("open") = IF pc[c] \in {"storing", "restoring"} THEN {1} ELSE {1} \cup last
                             /\ With("error") = {}
                        ELSE /\ With("open") \subseteq {i \in last : spans[i].name = "session.advance"}
                             /\ 1 \in With("error") <=> pc[c] = "failed"
                             /\ spans # <<>> /\ pc[c] # "failed" => 1 \in With("ok")
                             /\ With("error") \ {1} \subseteq last
                             /\ With("error") # {} => pc[c] \in {"failed", "challenged"}
  BY DEF SpansTellOutcome
<1> DEFINE s == trace[c]
           n == Len(s)
<1>1. s \in Seq(Span) /\ n \in Nat /\ DOMAIN s = 1..n /\ (s # <<>> => n # 0) /\ (s = <<>> => n = 0)
  BY LenProperties, EmptySeq DEF Inv, TypeOK
<1>2. SpansAt(pc[c], s) /\ pc[c] \in Places
  BY DEF Inv, Phases, PhaseOf, TypeOK, Places
<1> HIDE DEF s, n
<1> DEFINE With(status) == {i \in 1..n : s[i].status = status}
           last == {n} \cap 1..n
<1>3. s # <<>> => \A i \in 1..n : i = 1 \/ i = n \/ s[i].status = "ok"
  <2> SUFFICES ASSUME s # <<>>, NEW i \in 1..n, i # 1, i # n PROVE s[i].status = "ok"
    OBVIOUS
  <2>1. i \in 2..n - 1
    BY <1>1
  <2> QED
    BY <1>2, <2>1 DEF SpansAt, n
<1>4. CASE c \in Inside
  <2>1. pc[c] \in {"redeeming", "charging", "handling", "storing", "restoring"} /\ s # <<>>
    BY <1>2, <1>4 DEF Inside, SpansAt
  <2>2. /\ n >= 2 /\ s[1].status = "open"
        /\ s[n].status = IF pc[c] \in {"storing", "restoring"} THEN "ok" ELSE "open"
    BY <1>2, <2>1 DEF SpansAt, n
  <2>3. 1 \in 1..n /\ n \in 1..n /\ 1 # n
    BY <1>1, <2>2
  <2>4. With("open") = IF pc[c] \in {"storing", "restoring"} THEN {1} ELSE {1} \cup last
    BY <1>3, <2>1, <2>2, <2>3
  <2>5. With("error") = {}
    BY <1>3, <2>1, <2>2, <2>3
  <2> QED
    BY <1>1, <1>4, <2>4, <2>5 DEF s, n
<1>5. CASE c \notin Inside /\ s = <<>>
  <2>1. n = 0 /\ pc[c] = "idle"
    BY <1>1, <1>2, <1>5 DEF SpansAt, n
  <2> QED
    BY <1>1, <1>5, <2>1 DEF s, n
<1>6. CASE c \notin Inside /\ s # <<>>
  <2>1. pc[c] \in {"idle", "answered", "challenged", "failed"}
    BY <1>2, <1>6 DEF Inside, Places
  <2>2. CASE pc[c] # "failed"
    <3>1. /\ n >= 2 /\ s[1].status = "ok" /\ s[n].status \in {"ok", "unset", "error"}
          /\ s[n].status = "error" => pc[c] = "challenged"
      BY <1>2, <1>6, <2>1, <2>2 DEF SpansAt, n
    <3>2. With("open") = {} /\ 1 \in With("ok") /\ 1 \notin With("error")
      BY <1>1, <1>3, <1>6, <3>1
    <3>3. With("error") \subseteq last /\ (With("error") # {} => pc[c] = "challenged")
      BY <1>1, <1>3, <1>6, <3>1
    <3> QED
      BY <1>1, <1>6, <2>2, <3>2, <3>3 DEF s, n
  <2>3. CASE pc[c] = "failed"
    <3>1. /\ s[1].status = "error"
          /\ n >= 2 => \/ s[n].status \in {"ok", "error"}
                       \/ s[n].status = "open" /\ s[n].name = "session.advance"
      BY <1>2, <2>3 DEF SpansAt, n
    <3>2. 1 \in With("error")
      BY <1>1, <1>6, <3>1
    <3>3. With("open") \subseteq {i \in last : s[i].name = "session.advance"}
      BY <1>1, <1>3, <1>6, <3>1
    <3>4. With("error") \ {1} \subseteq last
      BY <1>1, <1>3, <1>6
    <3> QED
      BY <1>1, <1>6, <2>3, <3>2, <3>3, <3>4 DEF s, n
  <2> QED
    BY <2>2, <2>3
<1> QED
  BY <1>4, <1>5, <1>6

\* The spans of a call tell where it is and how it ended: nothing but the root and the
\* phase it is in is open, and an error is in its last phase.
THEOREM SpansCorrect == Spec => []SpansTellOutcome
<1>1. Inv => SpansTellOutcome
  BY SpansTell
<1> QED
  BY <1>1, InvAlways, PTL

-----------------------------------------------------------------------------
(* Tiers.                                                                  *)

\* The price of a tier that ends at n is read at fewer than n calls alone.
LEMMA EndedPrice ==
  ASSUME NEW t \in Tools, Pricing[t] = "tiered", NEW k \in Nat, NEW n \in Nat,
         PriceFor(t, k) \in EndedBy(n)
  PROVE  k < n
<1> DEFINE fits == {i \in DOMAIN Tiers : Tiers[i].upTo = None \/ k < Tiers[i].upTo}
           ended == {j \in DOMAIN Tiers :
                       j # Len(Tiers) /\ Tiers[j].upTo # None /\ Tiers[j].upTo <= n}
<1> SUFFICES ASSUME ~ (k < n) PROVE FALSE
  OBVIOUS
<1>1. DOMAIN Tiers = 1..Len(Tiers) /\ Len(Tiers) \in Nat \ {0}
  BY MeteringAssumption, LenProperties, EmptySeq DEF MeteringAssumption
<1>2. \A i \in DOMAIN Tiers : Tiers[i].upTo \in Nat \cup {None}
  <2>1. \A i \in DOMAIN Tiers : Tiers[i] \in PricingTier
    BY MeteringAssumption, LenProperties, ElementOfSeq DEF MeteringAssumption
  <2> QED
    BY <2>1 DEF PricingTier
<1>3. \E i \in DOMAIN Tiers \ ended : PriceFor(t, k) = Tiers[i].amount
  <2>1. CASE fits = {}
    BY <1>1, <2>1 DEF PriceFor
  <2>2. CASE fits # {}
    <3>1. fits \in SUBSET Nat
      BY <1>1
    <3>2. PICK m \in fits : \A j \in fits : m <= j
      <4> HIDE DEF fits
      <4> QED
        BY <2>2, <3>1, Least
    <3>3. Min(fits) \in fits
      BY <3>2 DEF Min
    <3>4. Min(fits) \in DOMAIN Tiers \ ended
      <4> DEFINE i == Min(fits)
      <4>1. i \in DOMAIN Tiers /\ (Tiers[i].upTo = None \/ k < Tiers[i].upTo)
        BY <3>3
      <4> HIDE DEF i, fits
      <4> QED
        BY <1>2, <4>1 DEF i
    <3>5. PriceFor(t, k) = Tiers[Min(fits)].amount
      BY <2>2 DEF PriceFor
    <3> QED
      BY <3>4, <3>5
  <2> QED
    BY <2>1, <2>2
<1> QED
  BY <1>3 DEF EndedBy

\* The bound with the peak.
Allowed(n, p) == n + Max({p, 1}) - 1

\* The bound grows with the peak.
LEMMA AllowedGrows ==
  ASSUME NEW n \in Nat, NEW p \in Nat, NEW q \in Nat, p <= q
  PROVE  /\ Allowed(n, p) \in Nat /\ Allowed(n, q) \in Nat /\ Allowed(n, p) <= Allowed(n, q)
         /\ n + q - 1 <= Allowed(n, q)
BY MaxOfTwo DEF Allowed

\* The peak never falls.
LEMMA PeakType == Inv => peak \in Nat
BY DEF Inv, TypeOK

LEMMA PeakGrows ==
  ASSUME Inv, NEW c \in Calls, Kind(c)
  PROVE  peak \in Nat /\ peak' \in Nat /\ peak <= peak'
<1>1. peak \in Nat /\ Cardinality(Inside) + 1 \in Nat
  <2>1. Cardinality(Inside) \in Nat
    BY InsideFinite
  <2> QED
    BY <2>1, PeakType
<1>2. peak' \in {peak, Max({peak, Cardinality(Inside) + 1})}
  <2>1. CASE Enters(c)
    BY <2>1 DEF Enters
  <2>2. CASE Fails(c)
    BY <2>2 DEF Fails
  <2>3. CASE Moves(c) \/ AnswersUnpaid(c) \/ AnswersPaid(c) \/ Breaks(c)
    <3>1. peak' = peak
      BY <2>3, Zenon DEF Moves, AnswersUnpaid, AnswersPaid, Breaks
    <3> QED
      BY <3>1
  <2> QED
    BY <2>1, <2>2, <2>3 DEF Kind
<1> QED
  BY <1>1, <1>2, MaxOfTwo

\* Paid calls of a tool are counted.
LEMMA PaidCounted ==
  ASSUME Inv, NEW c \in Calls, Step(c), Kind(c), NEW t \in Tools,
         Cardinality(PaidOf(t)) <= callsByTool[t]
  PROVE  Cardinality(PaidOf(t)') <= callsByTool'[t]
<1>1. \A d \in Calls \ {c} : toolOf'[d] = toolOf[d] /\ (d \in Paid' <=> d \in Paid)
  BY Members DEF Step, Alone
<1>2. Paid' \subseteq Calls /\ Paid \subseteq Calls
      /\ (c \in Paid' <=> pc'[c] = "answered" /\ Pays(trace'[c]))
  BY Members, PaidPays
<1>3. PaidOf(t) \in SUBSET Calls /\ PaidOf(t)' \in SUBSET Calls
  BY <1>2 DEF PaidOf
<1>4. callsByTool \in [Tools -> Nat] /\ callsByTool[t] \in Nat /\ IsFiniteSet(PaidOf(t))
      /\ Cardinality(PaidOf(t)) \in Nat /\ Cardinality(PaidOf(t)') \in Nat
  BY <1>3, InsideFinite DEF Inv, TypeOK
<1>5. CASE AnswersPaid(c)
  <2>1. /\ toolOf' = toolOf /\ toolOf[c] \in Tools
        /\ callsByTool' = [callsByTool EXCEPT ![toolOf[c]] = @ + 1]
    BY <1>5, ToolKnown DEF AnswersPaid, Counts, CountPaid, Inv
  <2>2. CASE toolOf[c] = t
    <3>1. PaidOf(t)' \subseteq PaidOf(t) \cup {c}
      BY <1>1, <1>2, <2>1 DEF PaidOf
    <3>2. IsFiniteSet(PaidOf(t) \cup {c}) /\ Cardinality(PaidOf(t) \cup {c}) <= Cardinality(PaidOf(t)) + 1
      <4>1. CASE c \in PaidOf(t)
        BY <1>4, <4>1, FS_AddElement
      <4>2. CASE c \notin PaidOf(t)
        BY <1>4, <4>2, FS_AddElement
      <4> QED
        BY <4>1, <4>2
    <3>3. Cardinality(PaidOf(t)') <= Cardinality(PaidOf(t) \cup {c})
      <4>1. PaidOf(t)' \in SUBSET (PaidOf(t) \cup {c})
        BY <3>1
      <4> QED
        BY <3>2, <4>1, FS_Subset
    <3>4. callsByTool'[t] = callsByTool[t] + 1
      BY <1>4, <2>1, <2>2
    <3>5. Cardinality(PaidOf(t) \cup {c}) \in Nat
      BY <3>2, FS_CardinalityType
    <3> QED
      BY <1>4, <3>2, <3>3, <3>4, <3>5
  <2>3. CASE toolOf[c] # t
    <3>1. PaidOf(t)' \subseteq PaidOf(t)
      BY <1>1, <1>2, <2>1, <2>3 DEF PaidOf
    <3>2. callsByTool'[t] = callsByTool[t]
      BY <1>4, <2>1, <2>3
    <3>3. Cardinality(PaidOf(t)') <= Cardinality(PaidOf(t))
      BY <1>4, <3>1, FS_Subset
    <3> QED
      BY <1>4, <3>2, <3>3
  <2> QED
    BY <2>2, <2>3
<1>6. CASE ~ AnswersPaid(c)
  <2>1. c \notin Paid'
    <3>1. CASE Enters(c) \/ Moves(c) \/ Fails(c) \/ Breaks(c)
      <4>1. pc'[c] # "answered"
        BY <3>1 DEF Enters, Running, Moves, Fails, Breaks
      <4> QED
        BY <1>2, <4>1
    <3>2. CASE AnswersUnpaid(c)
      BY <1>2, <3>2 DEF AnswersUnpaid
    <3> QED
      BY <1>6, <3>1, <3>2 DEF Kind
  <2>2. PaidOf(t)' \subseteq PaidOf(t)
    BY <1>1, <1>2, <2>1 DEF PaidOf
  <2>3. \/ callsByTool' = callsByTool
        \/ \E s : callsByTool' = [callsByTool EXCEPT ![s] = @ + 1]
    BY <1>6 DEF Kind, Enters, Moves, Fails, AnswersUnpaid, Breaks, Counts, CountPaid
  <2>4. callsByTool'[t] >= callsByTool[t] /\ callsByTool'[t] \in Nat
    BY <1>4, <2>3
  <2>5. Cardinality(PaidOf(t)') <= Cardinality(PaidOf(t))
    BY <1>4, <2>2, FS_Subset
  <2> QED
    BY <1>4, <2>4, <2>5
<1> QED
  BY <1>5, <1>6

\* What it is to be a call at a low price.
LEMMA LowPays ==
  /\ \A t, n, d : d \in Low(t, n) <=>
       /\ d \in Paid \cup Inside /\ toolOf[d] = t /\ Pays(trace[d]) /\ amount[d] \in EndedBy(n)
  /\ \A t, n, d : d \in Low(t, n)' <=>
       /\ d \in Paid' \cup Inside' /\ toolOf'[d] = t /\ Pays(trace'[d])
       /\ amount'[d] \in EndedBy(n)
<1>1. \A d : Charged(d)' <=> Pays(trace'[d])
  BY DEF Charged, Pays
<1> QED
  BY <1>1, ChargedPays DEF Low, EndedBy

\* Only a call that comes in adds to the calls at a low price.
LEMMA LowGrows ==
  ASSUME Inv, NEW c \in Calls, Step(c), Kind(c), NEW t \in Tools, Pricing[t] = "tiered", NEW n,
         c \in Low(t, n)', c \notin Low(t, n)
  PROVE  /\ Enters(c) /\ toolOf'[c] = t
         /\ amount'[c] = PriceFor(t, callsByTool[t]) /\ amount'[c] \in EndedBy(n)
<1>1. c \in Paid' \cup Inside' /\ toolOf'[c] = t /\ Pays(trace'[c]) /\ amount'[c] \in EndedBy(n)
  BY LowPays
<1>2. /\ c \in Inside' <=> pc'[c] \in {"redeeming", "charging", "handling", "storing", "restoring"}
      /\ c \in Inside <=> pc[c] \in {"redeeming", "charging", "handling", "storing", "restoring"}
      /\ c \in Paid' => pc'[c] = "answered"
  BY Members DEF Inside
<1>3. CASE Enters(c)
  BY <1>1, <1>3 DEF Enters
<1>4. CASE Moves(c)
  <2>1. pc'[c] \in {"charging", "handling", "storing", "restoring"} /\ c \in Inside
    BY <1>1, <1>2, <1>4 DEF Moves
  <2>2. toolOf[c] = t /\ (Pays(trace'[c]) <=> Pays(trace[c])) /\ amount'[c] = amount[c]
    BY <1>1, <1>4, <2>1 DEF Moves
  <2>3. c \in Low(t, n)
    BY <1>1, <2>1, <2>2, LowPays
  <2> QED
    BY <2>3
<1>5. CASE Fails(c) \/ Breaks(c)
  BY <1>1, <1>2, <1>5 DEF Fails, Breaks
<1>6. CASE AnswersUnpaid(c)
  BY <1>1, <1>6 DEF AnswersUnpaid
<1>7. CASE AnswersPaid(c)
  <2>1. c \in Inside /\ toolOf[c] = t /\ Pays(trace[c]) /\ amount[c] \in EndedBy(n)
    BY <1>1, <1>2, <1>7 DEF AnswersPaid, Counts
  <2> QED
    BY <2>1, LowPays
<1> QED
  BY <1>3, <1>4, <1>5, <1>6, <1>7 DEF Kind

\* The calls at a low price are those counted before it was read, and those inside.
LEMMA LowBounded ==
  ASSUME Inv, NEW c \in Calls, Step(c), Kind(c), NEW t \in Tools, Pricing[t] = "tiered",
         NEW n \in Nat,
         Cardinality(PaidOf(t)) <= callsByTool[t], Cardinality(Low(t, n)) <= Allowed(n, peak)
  PROVE  Cardinality(Low(t, n)') <= Allowed(n, peak')
<1>1. /\ \A d \in Calls \ {c} : /\ pc'[d] = pc[d] /\ toolOf'[d] = toolOf[d]
                                /\ amount'[d] = amount[d] /\ trace'[d] = trace[d]
                                /\ (d \in Paid' <=> d \in Paid) /\ (d \in Inside' <=> d \in Inside)
      /\ Paid' \subseteq Calls /\ Paid \subseteq Calls
      /\ Inside' \subseteq Calls /\ Inside \subseteq Calls
  BY Members, PaidPays DEF Step, Alone, Inside
<1>2. Low(t, n) \in SUBSET Calls /\ Low(t, n)' \in SUBSET Calls
  BY <1>1, LowPays
<1>3. \A d \in Calls \ {c} : d \in Low(t, n)' <=> d \in Low(t, n)
  BY <1>1, LowPays
<1>4. peak \in Nat /\ peak' \in Nat /\ peak <= peak'
  BY PeakGrows
<1>5. /\ Allowed(n, peak) \in Nat /\ Allowed(n, peak') \in Nat
      /\ Allowed(n, peak) <= Allowed(n, peak') /\ n + peak' - 1 <= Allowed(n, peak')
  BY <1>4, AllowedGrows
<1>6. CASE c \notin Low(t, n)' \/ c \in Low(t, n)
  <2>1. Low(t, n)' \subseteq Low(t, n)
    BY <1>2, <1>3, <1>6
  <2>2. IsFiniteSet(Low(t, n)) /\ Cardinality(Low(t, n)) \in Nat /\ Cardinality(Low(t, n)') \in Nat
    BY <1>2, InsideFinite
  <2>3. Cardinality(Low(t, n)') <= Cardinality(Low(t, n))
    BY <2>1, <2>2, FS_Subset
  <2> QED
    BY <1>5, <2>2, <2>3
<1>7. CASE c \in Low(t, n)' /\ c \notin Low(t, n)
  <2>1. /\ Enters(c) /\ toolOf'[c] = t
        /\ amount'[c] = PriceFor(t, callsByTool[t]) /\ amount'[c] \in EndedBy(n)
    BY <1>7, LowGrows
  <2>2. callsByTool[t] \in Nat
    BY DEF Inv, TypeOK
  <2>3. callsByTool[t] < n
    BY <2>1, <2>2, EndedPrice
  <2>4. c \notin Inside
    BY <2>1 DEF Enters, Inside
  <2>5. Low(t, n)' \subseteq PaidOf(t) \cup (Inside \cup {c})
    <3> SUFFICES ASSUME NEW d \in Low(t, n)', d # c PROVE d \in PaidOf(t) \cup Inside
      OBVIOUS
    <3>1. d \in Low(t, n)
      BY <1>2, <1>3
    <3> QED
      BY <3>1, LowPays DEF PaidOf
  <2>6. /\ IsFiniteSet(PaidOf(t)) /\ IsFiniteSet(Inside) /\ Cardinality(PaidOf(t)) \in Nat
        /\ Cardinality(Inside) \in Nat /\ Cardinality(Low(t, n)') \in Nat
    <3>1. PaidOf(t) \in SUBSET Calls
      BY <1>1 DEF PaidOf
    <3> QED
      BY <1>2, <3>1, InsideFinite
  <2>7. /\ IsFiniteSet(Inside \cup {c}) /\ Cardinality(Inside \cup {c}) = Cardinality(Inside) + 1
    BY <2>4, <2>6, FS_AddElement
  <2>8. /\ IsFiniteSet(PaidOf(t) \cup (Inside \cup {c}))
        /\ Cardinality(PaidOf(t) \cup (Inside \cup {c})) \in Nat
        /\ Cardinality(PaidOf(t) \cup (Inside \cup {c}))
             <= Cardinality(PaidOf(t)) + Cardinality(Inside) + 1
    <3> DEFINE A == PaidOf(t)
               B == Inside \cup {c}
    <3>1. Cardinality(A \cap B) \in Nat
      BY <2>6, FS_Intersection, FS_CardinalityType
    <3>2. IsFiniteSet(A \cup B) /\ Cardinality(A \cup B) = Cardinality(A) + Cardinality(B) - Cardinality(A \cap B)
      BY <2>6, <2>7, FS_Union
    <3>3. Cardinality(A \cup B) \in Nat
      BY <3>2, FS_CardinalityType
    <3> HIDE DEF A
    <3> QED
      BY <2>6, <2>7, <3>1, <3>2, <3>3 DEF A
  <2>9. Cardinality(Low(t, n)') <= Cardinality(PaidOf(t) \cup (Inside \cup {c}))
    BY <2>5, <2>8, FS_Subset
  <2>10. Cardinality(Inside) + 1 <= peak'
    BY <1>4, <2>1, <2>6, MaxOfTwo DEF Enters
  <2> QED
    BY <1>4, <1>5, <2>2, <2>3, <2>6, <2>8, <2>9, <2>10
<1> QED
  BY <1>6, <1>7

\* However calls interleave between the price that is read (priceFor) and the call that
\* is counted, the prices of a tier go to no more calls than its upTo and one for each
\* call that was inside beside another.
THEOREM OvershootCorrect == Spec => []TierOvershootBounded
<1>1. Inv /\ Init => Overshoot
  <2> SUFFICES ASSUME Init, Inv PROVE Overshoot
    OBVIOUS
  <2>1. Paid = {} /\ Inside = {}
    BY DEF Init, Paid, Answered, Inside
  <2>2. \A t \in Tools : PaidOf(t) = {} /\ callsByTool[t] = 0 /\ \A n : Low(t, n) = {}
    BY <2>1 DEF Init, PaidOf, Low
  <2>3. peak \in Nat
    BY DEF Init
  <2>4. \A n \in Nat : Allowed(n, peak) \in Nat
    BY <2>3, AllowedGrows
  <2>5. \A i \in DOMAIN Tiers : Tiers[i].upTo # None => Tiers[i].upTo \in Nat
    <3>1. \A i \in DOMAIN Tiers : Tiers[i] \in PricingTier
      BY MeteringAssumption, LenProperties, ElementOfSeq DEF MeteringAssumption
    <3> QED
      BY <3>1 DEF PricingTier
  <2>6. ASSUME NEW t \in Tools PROVE Cardinality(PaidOf(t)) <= callsByTool[t]
    <3>1. Cardinality(PaidOf(t)) = 0
      BY <2>2, FS_EmptySet
    <3> QED
      BY <2>2, <3>1
  <2>7. ASSUME NEW t \in Tools, NEW n \in {Tiers[i].upTo : i \in DOMAIN Tiers} \ {None}
        PROVE  Cardinality(Low(t, n)) <= Allowed(n, peak)
    <3>1. n \in Nat /\ Cardinality(Low(t, n)) = 0
      BY <2>2, <2>5, FS_EmptySet
    <3>2. Allowed(n, peak) \in Nat
      BY <2>4, <3>1
    <3> HIDE DEF Allowed
    <3> QED
      BY <3>1, <3>2
  <2> QED
    BY <2>6, <2>7 DEF Overshoot, Allowed
<1>2. Inv /\ Overshoot /\ [Next]_vars => Overshoot'
  <2> SUFFICES ASSUME Inv, Overshoot, [Next]_vars PROVE Overshoot'
    OBVIOUS
  <2>1. CASE UNCHANGED vars
    <3>1. /\ UNCHANGED <<pc, toolOf, amount, trace, callsByTool, peak>>
      BY <2>1 DEF vars, meters
    <3>2. \A t \in Tools : PaidOf(t)' = PaidOf(t) /\ \A n : Low(t, n)' = Low(t, n)
      BY <3>1 DEF PaidOf, Low, Paid, Answered, Charged, Inside, EndedBy
    <3>3. \A t \in Tools : Cardinality(PaidOf(t)') = Cardinality(PaidOf(t))
                           /\ \A n : Cardinality(Low(t, n)') = Cardinality(Low(t, n))
      BY <3>2
    <3> QED
      BY <3>1, <3>3 DEF Overshoot
  <2>2. ASSUME NEW c \in Calls, Step(c), Kind(c) PROVE Overshoot'
    <3>1. ASSUME NEW t \in Tools PROVE Cardinality(PaidOf(t)') <= callsByTool'[t]
      BY <2>2, PaidCounted DEF Overshoot
    <3>2. ASSUME NEW t \in Tools, NEW n \in {Tiers[i].upTo : i \in DOMAIN Tiers} \ {None},
                 Pricing[t] = "tiered"
          PROVE  Cardinality(Low(t, n)') <= Allowed(n, peak')
      <4>1. n \in Nat
        <5>1. \A i \in DOMAIN Tiers : Tiers[i] \in PricingTier
          BY MeteringAssumption, LenProperties, ElementOfSeq DEF MeteringAssumption
        <5> QED
          BY <3>2, <5>1 DEF PricingTier
      <4>2. Cardinality(PaidOf(t)) <= callsByTool[t] /\ Cardinality(Low(t, n)) <= Allowed(n, peak)
        BY <3>2 DEF Overshoot, Allowed
      <4> QED
        BY <2>2, <3>2, <4>1, <4>2, LowBounded
    <3> QED
      BY <3>1, <3>2 DEF Overshoot, Allowed
  <2> QED
    BY <2>1, <2>2, InvStep
<1>3. Inv /\ Overshoot => TierOvershootBounded
  <2> SUFFICES ASSUME Inv, Overshoot, NEW t \in Tools, NEW i \in DOMAIN Tiers,
                      Pricing[t] = "tiered", Tiers[i].upTo # None
               PROVE  Cardinality({c \in Paid : toolOf[c] = t /\ amount[c] \in EndedBy(Tiers[i].upTo)})
                        <= Tiers[i].upTo + Max({peak, 1}) - 1
    BY DEF TierOvershootBounded
  <2> DEFINE n == Tiers[i].upTo
             S == {c \in Paid : toolOf[c] = t /\ amount[c] \in EndedBy(n)}
  <2>1. n \in {Tiers[j].upTo : j \in DOMAIN Tiers} \ {None} /\ n \in Nat
    <3>1. \A j \in DOMAIN Tiers : Tiers[j] \in PricingTier
      BY MeteringAssumption, LenProperties, ElementOfSeq DEF MeteringAssumption
    <3> QED
      BY <3>1 DEF PricingTier
  <2>2. Cardinality(Low(t, n)) <= Allowed(n, peak)
    BY <2>1 DEF Overshoot, Allowed
  <2> HIDE DEF n
  <2>3. S \subseteq Low(t, n) /\ Low(t, n) \subseteq Calls
    <3>1. ASSUME NEW d \in S PROVE d \in Low(t, n)
      <4>1. d \in Paid /\ toolOf[d] = t /\ amount[d] \in EndedBy(n)
        OBVIOUS
      <4> QED
        BY <4>1, PaidPays, LowPays
    <3>2. Low(t, n) \subseteq Calls
      BY PaidPays, LowPays, InsideFinite
    <3> QED
      BY <3>1, <3>2
  <2>4. IsFiniteSet(Low(t, n)) /\ Cardinality(Low(t, n)) \in Nat /\ Cardinality(S) \in Nat
    BY <2>3, InsideFinite
  <2>5. Cardinality(S) <= Cardinality(Low(t, n))
    BY <2>3, <2>4, FS_Subset
  <2>6. Allowed(n, peak) \in Nat
    BY <2>1, AllowedGrows, PeakType
  <2>7. Cardinality(S) <= Allowed(n, peak)
    BY <2>2, <2>4, <2>5, <2>6
  <2> QED
    BY <2>7 DEF n, Allowed
<1> QED
  BY <1>1, <1>2, <1>3, InvInit, InvAlways, PTL DEF Spec

-----------------------------------------------------------------------------
(* Revenue.                                                                *)

\* The value of an amount, in tenths of a base unit.
LEMMA ValueOfUnits ==
  ASSUME NEW d \in Decimal, Supported(d)
  PROVE  /\ ToBaseUnits(d) \in Nat
         /\ Value(d) = 10 * ToBaseUnits(d)
<1> DEFINE k == Decimals - d.scale
<1>1. k \in Nat /\ Decimals + 1 - d.scale = k + 1 /\ d.digits \in Nat
  BY MeteringAssumption DEF MeteringAssumption, Decimal, Supported
<1>2. ToBaseUnits(d) = d.digits * Pow10[k]
  BY DEF ToBaseUnits
<1>3. Value(d) = d.digits * Pow10[k + 1]
  BY <1>1 DEF Value
<1> HIDE DEF k
<1>4. Pow10[k] \in Nat /\ Pow10[k + 1] = 10 * Pow10[k]
  BY <1>1, Pow10Def
<1> DEFINE p == Pow10[k]
           n == d.digits
<1>5. p \in Nat /\ n \in Nat /\ ToBaseUnits(d) = n * p /\ Value(d) = n * (10 * p)
  BY <1>1, <1>2, <1>3, <1>4
<1> HIDE DEF p, n
<1>6. n * p \in Nat /\ n * (10 * p) = 10 * (n * p)
  BY <1>5
<1> QED
  BY <1>5, <1>6

\* The decimals shown are read back as they were.
LEMMA ReadBack ==
  ASSUME NEW u \in Nat
  PROVE  MicroUsd(ToUsdString(u)) = u
<1>1. CASE u = 0
  BY <1>1 DEF MicroUsd, ToUsdString
<1>2. CASE u # 0
  <2> DEFINE d == [digits |-> u, scale |-> Decimals]
  <2>1. ToUsdString(u) = d
    BY <1>2 DEF ToUsdString
  <2>2. d # Zero
    <3>1. d.digits # Zero.digits
      BY <1>2 DEF Zero
    <3> QED
      BY <3>1
  <2>3. ToBaseUnits(d) = u * Pow10[0]
    BY MeteringAssumption DEF ToBaseUnits, MeteringAssumption
  <2>4. ToBaseUnits(d) = u
    BY <2>3, Pow10Def
  <2> HIDE DEF d
  <2> QED
    BY <2>1, <2>2, <2>4 DEF MicroUsd
<1> QED
  BY <1>1, <1>2

\* What a call is worth is a number.
LEMMA WorthType ==
  ASSUME Inv
  PROVE  \A c \in Calls : Worth[c] \in Nat
<1> SUFFICES ASSUME NEW c \in Calls PROVE Worth[c] \in Nat
  OBVIOUS
<1>1. amount[c] \in Decimal
  BY DEF Inv, TypeOK
<1>2. CASE Supported(amount[c])
  <2>1. Value(amount[c]) \in Nat
    BY <1>1, <1>2, ValueOfUnits
  <2> QED
    BY <1>2, <2>1 DEF Worth
<1>3. CASE ~ Supported(amount[c])
  BY <1>3 DEF Worth
<1> QED
  BY <1>2, <1>3

\* A sum over the paid calls changes when a call is paid, by what it is worth.
LEMMA WorthKept ==
  ASSUME Inv, NEW c \in Calls, Step(c), NEW S \in SUBSET Calls, c \notin S
  PROVE  SumFunctionOnSet(Worth', S) = SumFunctionOnSet(Worth, S)
<1>1. IsFiniteSet(S)
  BY InsideFinite
<1>2. \A d \in S : Worth'[d] = Worth[d]
  BY DEF Step, Alone, Worth, Supported, Value
<1> DEFINE f == Worth
           g == Worth'
<1>3. \A d \in S : g[d] = f[d]
  BY <1>2
<1> HIDE DEF f, g
<1>4. SumFunctionOnSet(g, S) = SumFunctionOnSet(f, S)
  BY <1>1, <1>3, SumEqual
<1> QED
  BY <1>4 DEF f, g

\* A call that is paid adds what it is worth to the sums it is in.
LEMMA WorthMore ==
  ASSUME Inv, NEW c \in Calls, AnswersPaid(c), NEW S \in SUBSET Calls, c \notin S
  PROVE  /\ SumFunctionOnSet(Worth, S) \in Nat
         /\ SumFunctionOnSet(Worth', S \cup {c}) = SumFunctionOnSet(Worth, S) + 10 * Earned(c)
         /\ Earned(c) \in Nat
<1>1. Worth' = Worth
  BY DEF AnswersPaid, Worth, Supported, Value
<1>2. Supported(amount[c]) /\ amount[c] \in Decimal
  BY DEF AnswersPaid, Inv, TypeOK
<1>3. Worth[c] = 10 * Earned(c) /\ Earned(c) \in Nat
  BY <1>2, ValueOfUnits DEF Worth, Earned
<1>4. /\ SumFunctionOnSet(Worth, S) \in Nat
      /\ SumFunctionOnSet(Worth, S \cup {c}) = SumFunctionOnSet(Worth, S) + Worth[c]
  <2> DEFINE f == Worth
  <2>1. IsFiniteSet(Calls) /\ \A d \in Calls : f[d] \in Nat
    BY WorthType, InsideFinite
  <2> HIDE DEF f
  <2>2. /\ SumFunctionOnSet(f, S) \in Nat
        /\ SumFunctionOnSet(f, S \cup {c}) = SumFunctionOnSet(f, S) + f[c]
    BY <2>1, SumAdd
  <2> QED
    BY <2>2 DEF f
<1> QED
  BY <1>1, <1>3, <1>4

\* A step keeps the books in agreement with the paid calls.
LEMMA BooksStep ==
  ASSUME Inv, Books, NEW c \in Calls, Step(c), Kind(c)
  PROVE  Books'
<1>1. /\ \A d \in Calls \ {c} : toolOf'[d] = toolOf[d] /\ (d \in Paid' <=> d \in Paid)
      /\ Paid' \subseteq Calls /\ Paid \subseteq Calls
      /\ (c \in Paid' <=> pc'[c] = "answered" /\ Pays(trace'[c]))
  BY Members, PaidPays DEF Step, Alone
<1>2. c \notin Paid
  <2>1. pc[c] # "answered"
    BY DEF Kind, Enters, Moves, Inside, Fails, AnswersUnpaid, AnswersPaid, Breaks, Counts
  <2> QED
    BY <2>1, PaidPays
<1>3. \A t : PaidOf(t) \in SUBSET Calls /\ c \notin PaidOf(t)
  BY <1>1, <1>2 DEF PaidOf
<1>4. CASE AnswersPaid(c)
  <2>1. toolOf' = toolOf /\ toolOf[c] \in Tools /\ AddRevenue(toolOf[c], Earned(c)) /\ c \in Paid'
    BY <1>1, <1>4, ToolKnown DEF AnswersPaid, Counts, Inv
  <2>2. /\ Paid' = Paid \cup {c}
        /\ \A t : PaidOf(t)' = IF t = toolOf[c] THEN PaidOf(t) \cup {c} ELSE PaidOf(t)
    BY <1>1, <1>2, <2>1 DEF PaidOf
  <2>3. revenueUnitsByTool \in [Tools -> Nat] /\ totalRevenueUnits \in Nat
        /\ revenueByTool \in [Tools -> Decimal]
    BY DEF Inv, TypeOK
  <2>4. Earned(c) \in Nat
    BY <1>2, <1>1, <1>4, WorthMore
  <2>5. ASSUME NEW t \in Tools
        PROVE  /\ revenueByTool'[t] = ToUsdString(revenueUnitsByTool'[t])
               /\ 10 * revenueUnitsByTool'[t] = SumFunctionOnSet(Worth', PaidOf(t)')
    <3>1. CASE t = toolOf[c]
      <4>1. revenueUnitsByTool'[t] = revenueUnitsByTool[t] + Earned(c)
            /\ revenueByTool'[t] = ToUsdString(revenueUnitsByTool[t] + Earned(c))
        BY <2>1, <2>3, <3>1 DEF AddRevenue
      <4>2. SumFunctionOnSet(Worth', PaidOf(t)') = SumFunctionOnSet(Worth, PaidOf(t)) + 10 * Earned(c)
        BY <1>3, <1>4, <2>2, <3>1, WorthMore
      <4>3. 10 * revenueUnitsByTool[t] = SumFunctionOnSet(Worth, PaidOf(t))
        BY DEF Books
      <4>4. 10 * revenueUnitsByTool'[t] = 10 * revenueUnitsByTool[t] + 10 * Earned(c)
        BY <2>3, <2>4, <4>1
      <4> QED
        BY <4>1, <4>2, <4>3, <4>4
    <3>2. CASE t # toolOf[c]
      <4>1. revenueUnitsByTool'[t] = revenueUnitsByTool[t] /\ revenueByTool'[t] = revenueByTool[t]
        BY <2>1, <2>3, <3>2 DEF AddRevenue
      <4>2. SumFunctionOnSet(Worth', PaidOf(t)') = SumFunctionOnSet(Worth, PaidOf(t))
        BY <1>3, <2>2, <3>2, WorthKept
      <4> QED
        BY <4>1, <4>2 DEF Books
    <3> QED
      BY <3>1, <3>2
  <2>6. totalRevenue' = ToUsdString(totalRevenueUnits')
    BY <2>1 DEF AddRevenue
  <2>7. 10 * totalRevenueUnits' = SumFunctionOnSet(Worth', Paid')
    <3>1. SumFunctionOnSet(Worth', Paid') = SumFunctionOnSet(Worth, Paid) + 10 * Earned(c)
      BY <1>1, <1>2, <1>4, <2>2, WorthMore
    <3>2. 10 * totalRevenueUnits = SumFunctionOnSet(Worth, Paid)
      BY DEF Books
    <3>3. 10 * totalRevenueUnits' = 10 * totalRevenueUnits + 10 * Earned(c)
      BY <2>1, <2>3, <2>4 DEF AddRevenue
    <3> QED
      BY <3>1, <3>2, <3>3
  <2> QED
    BY <2>5, <2>6, <2>7 DEF Books, ToUsdString
<1>5. CASE ~ AnswersPaid(c)
  <2>1. c \notin Paid'
    <3>1. CASE Enters(c) \/ Moves(c) \/ Fails(c) \/ Breaks(c)
      <4>1. pc'[c] # "answered"
        BY <3>1 DEF Enters, Running, Moves, Fails, Breaks
      <4> QED
        BY <1>1, <4>1
    <3>2. CASE AnswersUnpaid(c)
      BY <1>1, <3>2 DEF AnswersUnpaid
    <3> QED
      BY <1>5, <3>1, <3>2 DEF Kind
  <2>2. UNCHANGED revenue
    BY <1>5, Zenon DEF Kind, Enters, Moves, Fails, AnswersUnpaid, Breaks
  <2>3. Paid' = Paid /\ \A t : PaidOf(t)' = PaidOf(t)
    BY <1>1, <1>2, <2>1 DEF PaidOf
  <2>4. /\ SumFunctionOnSet(Worth', Paid') = SumFunctionOnSet(Worth, Paid)
        /\ \A t : SumFunctionOnSet(Worth', PaidOf(t)') = SumFunctionOnSet(Worth, PaidOf(t))
    BY <1>1, <1>2, <1>3, <2>3, WorthKept
  <2>5. /\ revenueUnitsByTool' = revenueUnitsByTool /\ totalRevenueUnits' = totalRevenueUnits
        /\ revenueByTool' = revenueByTool /\ totalRevenue' = totalRevenue
    BY <2>2 DEF revenue
  <2> QED
    BY <2>4, <2>5 DEF Books, ToUsdString
<1> QED
  BY <1>4, <1>5

\* The revenue that is scraped is what the calls that were answered were charged, for
\* every tool and in all, to the last decimal (recordPaidCall, revenueToMicroUsd).
THEOREM RevenueCorrect == Spec => []RevenueExact
<1>1. Init => Books
  <2> SUFFICES ASSUME Init PROVE Books
    OBVIOUS
  <2>1. Paid = {} /\ \A t : PaidOf(t) = {}
    BY DEF Init, Paid, Answered, PaidOf
  <2>2. SumFunctionOnSet(Worth, Paid) = 0 /\ \A t : SumFunctionOnSet(Worth, PaidOf(t)) = 0
    BY <2>1, SumEmpty
  <2>3. \A t \in Tools : revenueByTool[t] = Zero /\ revenueUnitsByTool[t] = 0
    BY DEF Init
  <2>4. totalRevenue = Zero /\ totalRevenueUnits = 0
    BY DEF Init
  <2> QED
    BY <2>2, <2>3, <2>4 DEF Books, ToUsdString
<1>2. Inv /\ Books /\ [Next]_vars => Books'
  <2> SUFFICES ASSUME Inv, Books, [Next]_vars PROVE Books'
    OBVIOUS
  <2>1. CASE UNCHANGED vars
    <3>1. /\ revenueUnitsByTool' = revenueUnitsByTool /\ totalRevenueUnits' = totalRevenueUnits
          /\ revenueByTool' = revenueByTool /\ totalRevenue' = totalRevenue
          /\ UNCHANGED <<pc, toolOf, amount, trace>>
      BY <2>1 DEF vars, meters, revenue
    <3>2. Worth' = Worth /\ Paid' = Paid /\ \A t : PaidOf(t)' = PaidOf(t)
      BY <3>1 DEF Worth, Supported, Value, Paid, PaidOf, Answered, Charged
    <3> QED
      BY <3>1, <3>2 DEF Books, ToUsdString
  <2> QED
    BY <2>1, InvStep, BooksStep
<1>3. Inv /\ Books => RevenueExact
  <2> SUFFICES ASSUME Inv, Books PROVE RevenueExact
    OBVIOUS
  <2>1. \A c \in Paid : Charges[c] = Worth[c]
    <3> SUFFICES ASSUME NEW c \in Paid PROVE Charges[c] = Worth[c]
      OBVIOUS
    <3>1. c \in Calls /\ pc[c] = "answered" /\ Pays(trace[c])
      BY PaidPays
    <3>2. Supported(amount[c])
      BY <3>1 DEF Inv, Phases, PhaseOf, PaymentAt
    <3> QED
      BY <3>1, <3>2 DEF Charges, Worth
  <2>2. ASSUME NEW S \in SUBSET Paid
        PROVE  SumFunctionOnSet(Charges, S) = SumFunctionOnSet(Worth, S)
    <3> DEFINE f == Charges
               g == Worth
    <3>1. IsFiniteSet(S) /\ \A c \in S : f[c] = g[c]
      BY <2>1, PaidPays, InsideFinite
    <3> HIDE DEF f, g
    <3>2. SumFunctionOnSet(f, S) = SumFunctionOnSet(g, S)
      BY <3>1, SumEqual
    <3> QED
      BY <3>2 DEF f, g
  <2>3. revenueUnitsByTool \in [Tools -> Nat] /\ totalRevenueUnits \in Nat
    BY DEF Inv, TypeOK
  <2>4. Scrape.revenue = totalRevenueUnits
    BY <2>3, ReadBack DEF Scrape, Books
  <2>5. ASSUME NEW t \in Tools
        PROVE  10 * Scrape.revenueOf[t] = SumFunctionOnSet(Charges, {c \in Paid : toolOf[c] = t})
    <3>1. Scrape.revenueOf[t] = MicroUsd(revenueByTool[t])
      BY DEF Scrape
    <3>2. Scrape.revenueOf[t] = revenueUnitsByTool[t]
      BY <2>3, <3>1, ReadBack DEF Books
    <3>3. SumFunctionOnSet(Charges, PaidOf(t)) = SumFunctionOnSet(Worth, PaidOf(t))
      BY <2>2 DEF PaidOf
    <3> QED
      BY <3>2, <3>3 DEF Books, PaidOf
  <2>6. 10 * Scrape.revenue = SumFunctionOnSet(Charges, Paid)
    BY <2>2, <2>4 DEF Books
  <2> QED
    BY <2>5, <2>6 DEF RevenueExact
<1> QED
  BY <1>1, <1>2, <1>3, InvAlways, PTL DEF Spec

-----------------------------------------------------------------------------
(* Counters.                                                               *)

\* Two sets of calls that differ by one call at most.
LEMMA OneDiffers ==
  ASSUME NEW S \in SUBSET Calls, NEW T \in SUBSET Calls, NEW c \in Calls,
         \A d \in Calls \ {c} : d \in T <=> d \in S
  PROVE  /\ Cardinality(S) \in Nat /\ Cardinality(T) \in Nat
         /\ Cardinality(T) + (IF c \in S THEN 1 ELSE 0) = Cardinality(S) + (IF c \in T THEN 1 ELSE 0)
<1>1. IsFiniteSet(S) /\ IsFiniteSet(T) /\ Cardinality(S) \in Nat /\ Cardinality(T) \in Nat
  BY InsideFinite
<1>2. CASE c \in S <=> c \in T
  <2>1. S = T
    BY <1>2
  <2> QED
    BY <1>1, <1>2, <2>1
<1>3. CASE c \in S /\ c \notin T
  <2>1. S = T \cup {c}
    BY <1>3
  <2>2. Cardinality(S) = Cardinality(T) + 1
    BY <1>1, <1>3, <2>1, FS_AddElement
  <2> QED
    BY <1>1, <1>3, <2>2
<1>4. CASE c \notin S /\ c \in T
  <2>1. T = S \cup {c}
    BY <1>4
  <2>2. Cardinality(T) = Cardinality(S) + 1
    BY <1>1, <1>4, <2>1, FS_AddElement
  <2> QED
    BY <1>1, <1>4, <2>2
<1> QED
  BY <1>2, <1>3, <1>4

\* A sum in which one term rises by one.
LEMMA SumMore ==
  ASSUME NEW S, IsFiniteSet(S), NEW f \in [S -> Nat], NEW x \in S
  PROVE  /\ SumFunctionOnSet(f, S) \in Nat
         /\ SumFunctionOnSet([f EXCEPT ![x] = @ + 1], S) = SumFunctionOnSet(f, S) + 1
<1> DEFINE g == [f EXCEPT ![x] = @ + 1]
           R == S \ {x}
<1>1. g \in [S -> Nat] /\ g[x] = f[x] + 1 /\ \A y \in R : g[y] = f[y]
  OBVIOUS
<1>2. R \in SUBSET S /\ x \in S \ R /\ R \cup {x} = S /\ IsFiniteSet(R)
  BY FS_Subset
<1> HIDE DEF g, R
<1>3. /\ SumFunctionOnSet(f, R) \in Nat
      /\ SumFunctionOnSet(f, S) = SumFunctionOnSet(f, R) + f[x]
      /\ SumFunctionOnSet(f, S) \in Nat
  BY <1>2, SumAdd
<1>4. SumFunctionOnSet(g, S) = SumFunctionOnSet(g, R) + g[x]
  BY <1>1, <1>2, SumAdd
<1>5. SumFunctionOnSet(g, R) = SumFunctionOnSet(f, R)
  BY <1>1, <1>2, SumEqual
<1>6. SumFunctionOnSet(g, S) = SumFunctionOnSet(f, S) + 1
  BY <1>1, <1>3, <1>4, <1>5
<1> QED
  BY <1>3, <1>6 DEF g

\* The counters are numbers.
LEMMA StatsType ==
  ASSUME Inv
  PROVE  /\ stats["totalCalls"] \in Nat /\ stats["paidCalls"] \in Nat /\ stats["freeCalls"] \in Nat
         /\ stats["accessKeyCalls"] \in Nat /\ stats["sessionCalls"] \in Nat
         /\ stats["accessKeysIssued"] \in Nat
         /\ stats["sessionsOpened"] \in Nat /\ stats["sessionsClosed"] \in Nat
         /\ IsFiniteSet(Tools) /\ callsByTool \in [Tools -> Nat]
         /\ SumFunctionOnSet(callsByTool, Tools) \in Nat
<1>1. stats \in [Counters -> Nat] /\ callsByTool \in [Tools -> Nat] /\ IsFiniteSet(Tools)
  BY MeteringAssumption DEF Inv, TypeOK, MeteringAssumption
<1>2. SumFunctionOnSet(callsByTool, Tools) \in Nat
  BY <1>1, SumAdd
<1> QED
  BY <1>1, <1>2 DEF Counters

\* The counters of calls, by how much they rise.
Rise(total, paid, free, redeemed, session) ==
  /\ stats'["totalCalls"] = stats["totalCalls"] + total
  /\ stats'["paidCalls"] = stats["paidCalls"] + paid
  /\ stats'["freeCalls"] = stats["freeCalls"] + free
  /\ stats'["accessKeyCalls"] = stats["accessKeyCalls"] + redeemed
  /\ stats'["sessionCalls"] = stats["sessionCalls"] + session
  /\ SumFunctionOnSet(callsByTool', Tools) = SumFunctionOnSet(callsByTool, Tools) + total

\* What a step does to the counters of calls.
LEMMA NothingRises ==
  ASSUME Inv, stats' \in {stats, Count({"accessKeysExpired"}), Count({"accessKeysIssued"})},
         UNCHANGED callsByTool
  PROVE  Rise(0, 0, 0, 0, 0)
BY StatsType DEF Count, Counters, Rise

LEMMA PaidRises ==
  ASSUME Inv, NEW c \in Calls, toolOf[c] \in Tools, Counts(c)
  PROVE  \E s \in {0, 1} : Rise(1, 1, 0, 0, s)
<1>1. PICK more \in {{}, {"accessKeysIssued"}} : CountPaid(c, more)
  BY DEF Counts
<1>2. callsByTool' = [callsByTool EXCEPT ![toolOf[c]] = @ + 1]
  BY <1>1 DEF CountPaid
<1>3. SumFunctionOnSet(callsByTool', Tools) = SumFunctionOnSet(callsByTool, Tools) + 1
  BY <1>2, StatsType, SumMore
<1>4. /\ stats'["totalCalls"] = stats["totalCalls"] + 1
      /\ stats'["paidCalls"] = stats["paidCalls"] + 1
      /\ stats'["freeCalls"] = stats["freeCalls"]
      /\ stats'["accessKeyCalls"] = stats["accessKeyCalls"]
      /\ \/ stats'["sessionCalls"] = stats["sessionCalls"] + 1
         \/ stats'["sessionCalls"] = stats["sessionCalls"]
  BY <1>1 DEF CountPaid, Count, Counters
<1>5. Rise(1, 1, 0, 0, 1) \/ Rise(1, 1, 0, 0, 0)
  BY <1>3, <1>4, StatsType DEF Rise
<1> QED
  BY <1>5

\* The sets of calls that are counted are sets of calls, and a step changes them by
\* its own call alone.
LEMMA CountedMembers ==
  ASSUME Inv, NEW c \in Calls, Step(c)
  PROVE  /\ Paid \in SUBSET Calls /\ Paid' \in SUBSET Calls
         /\ Free \in SUBSET Calls /\ Free' \in SUBSET Calls
         /\ Redeemed \in SUBSET Calls /\ Redeemed' \in SUBSET Calls
         /\ Broken \in SUBSET Calls /\ Broken' \in SUBSET Calls
         /\ \A d \in Calls \ {c} : /\ d \in Paid' <=> d \in Paid
                                   /\ d \in Free' <=> d \in Free
                                   /\ d \in Redeemed' <=> d \in Redeemed
                                   /\ d \in Broken' <=> d \in Broken
<1>1. \A d \in Calls \ {c} : pc'[d] = pc[d] /\ toolOf'[d] = toolOf[d] /\ amount'[d] = amount[d]
  BY DEF Step, Alone
<1>2. /\ Paid' \subseteq Calls /\ Paid \subseteq Calls
      /\ \A d \in Calls \ {c} : /\ d \in Paid' <=> d \in Paid
                                /\ d \in Answered' <=> d \in Answered
                                /\ Charged(d)' <=> Charged(d)
  BY Members, PaidPays
<1>3. \A d \in Calls \ {c} : d \in Free' <=> d \in Free
  BY <1>1 DEF Free
<1>4. \A d \in Calls \ {c} : d \in Redeemed' <=> d \in Redeemed
  BY <1>1, <1>2 DEF Redeemed
<1>5. \A d \in Calls \ {c} : d \in Broken' <=> d \in Broken
  BY <1>1, <1>2 DEF Broken, Supported
<1>6. /\ Free \subseteq Calls /\ Free' \subseteq Calls
      /\ Redeemed \subseteq Calls /\ Redeemed' \subseteq Calls
      /\ Broken \subseteq Calls /\ Broken' \subseteq Calls
  BY DEF Free, Redeemed, Broken, Answered
<1> QED
  BY <1>2, <1>3, <1>4, <1>5, <1>6

\* The counters rise as the sets grow.
LEMMA CallCountsFrom ==
  ASSUME Inv, CallCounts, NEW c \in Calls, Step(c),
         c \notin Paid, c \notin Redeemed, c \notin Broken,
         NEW p \in {0, 1}, NEW f \in {0, 1}, NEW r \in {0, 1}, NEW s \in {0, 1}, s <= p,
         Rise(p + f + r, p, f, r, s),
         c \in Paid' => p = 1, p = 1 => c \in Paid' \/ c \in Broken',
         c \in Free => c \in Free', c \in Free' /\ c \notin Free <=> f = 1,
         c \in Redeemed' <=> r = 1
  PROVE  CallCounts'
<1> DEFINE one(b) == IF b THEN 1 ELSE 0
<1>1. /\ Cardinality(Paid) \in Nat /\ Cardinality(Paid') \in Nat
      /\ Cardinality(Paid') = Cardinality(Paid) + one(c \in Paid')
  BY CountedMembers, OneDiffers
<1>2. /\ Cardinality(Free) \in Nat /\ Cardinality(Free') \in Nat
      /\ Cardinality(Free') = Cardinality(Free) + f
  BY CountedMembers, OneDiffers
<1>3. /\ Cardinality(Redeemed) \in Nat /\ Cardinality(Redeemed') \in Nat
      /\ Cardinality(Redeemed') = Cardinality(Redeemed) + r
  BY CountedMembers, OneDiffers
<1>4. /\ Cardinality(Broken) \in Nat /\ Cardinality(Broken') \in Nat
      /\ Cardinality(Broken') = Cardinality(Broken) + one(c \in Broken')
  BY CountedMembers, OneDiffers
<1>5. one(c \in Paid') <= p /\ p <= one(c \in Paid') + one(c \in Broken')
  OBVIOUS
<1>6. one(c \in Paid') \in {0, 1} /\ one(c \in Broken') \in {0, 1}
  OBVIOUS
<1> HIDE DEF one
<1>7. stats'["paidCalls"] \in Cardinality(Paid')..Cardinality(Paid') + Cardinality(Broken')
  BY <1>1, <1>4, <1>5, <1>6, StatsType DEF CallCounts, Rise
<1>8. stats'["freeCalls"] = Cardinality(Free') /\ stats'["accessKeyCalls"] = Cardinality(Redeemed')
  BY <1>2, <1>3 DEF CallCounts, Rise
<1>9. /\ stats'["sessionCalls"] <= stats'["paidCalls"]
      /\ stats'["totalCalls"] = stats'["paidCalls"] + stats'["freeCalls"] + stats'["accessKeyCalls"]
      /\ stats'["totalCalls"] = SumFunctionOnSet(callsByTool', Tools)
  BY StatsType DEF CallCounts, Rise
<1> QED
  BY <1>7, <1>8, <1>9 DEF CallCounts

\* Every step keeps the counters of calls in agreement with the calls.
LEMMA CallCountsStep ==
  ASSUME Inv, CallCounts, NEW c \in Calls, Step(c), Kind(c)
  PROVE  CallCounts'
<1>1. pc[c] \notin {"answered", "failed"}
  BY DEF Kind, Enters, Moves, Inside, Fails, AnswersUnpaid, AnswersPaid, Breaks, Counts
<1>2. c \notin Paid /\ c \notin Redeemed /\ c \notin Broken
  BY <1>1, PaidPays DEF Redeemed, Answered, Broken
<1>3. /\ c \in Paid' <=> pc'[c] = "answered" /\ Pays(trace'[c])
      /\ c \in Redeemed' <=> /\ pc'[c] = "answered" /\ ~ Pays(trace'[c])
                             /\ Pricing[toolOf'[c]] # "free"
      /\ c \in Broken' <=> pc'[c] = "failed" /\ Pays(trace'[c]) /\ ~ Supported(amount'[c])
      /\ c \in Free' <=> toolOf'[c] # None /\ Pricing[toolOf'[c]] = "free"
      /\ c \in Free <=> toolOf[c] # None /\ Pricing[toolOf[c]] = "free"
  BY Members DEF Redeemed, Answered, Broken, Free, Supported
<1>4. /\ pc[c] = "idle" => toolOf[c] = None
      /\ pc[c] = "charging" => Pricing[toolOf[c]] # "free"
      /\ pc[c] # "idle" => toolOf[c] \in Tools
      /\ \A t \in Tools : t # None
  BY MeteringAssumption DEF Inv, Phases, PhaseOf, PaymentAt, MeteringAssumption
<1>5. CASE Enters(c)
  <2>1. /\ pc[c] = "idle" /\ pc'[c] \notin {"answered", "failed"} /\ toolOf'[c] \in Tools
    BY <1>5 DEF Enters, Running
  <2>2. CASE Pricing[toolOf'[c]] = "free"
    <3>1. /\ stats' = Count({"totalCalls", "freeCalls"})
          /\ callsByTool' = [callsByTool EXCEPT ![toolOf'[c]] = @ + 1]
      BY <1>5, <2>2 DEF Enters
    <3>2. SumFunctionOnSet(callsByTool', Tools) = SumFunctionOnSet(callsByTool, Tools) + 1
      BY <2>1, <3>1, StatsType, SumMore
    <3>3. Rise(0 + 1 + 0, 0, 1, 0, 0)
      BY <3>1, <3>2, StatsType DEF Rise, Count, Counters
    <3> QED
      BY <1>2, <1>3, <1>4, <2>1, <2>2, <3>3, CallCountsFrom
  <2>3. CASE Pricing[toolOf'[c]] # "free"
    <3>1. Rise(0 + 0 + 0, 0, 0, 0, 0)
      BY <1>5, <2>3, NothingRises DEF Enters
    <3> QED
      BY <1>2, <1>3, <1>4, <2>1, <2>3, <3>1, CallCountsFrom
  <2> QED
    BY <2>2, <2>3
<1>6. CASE Moves(c)
  <2>1. Rise(0 + 0 + 0, 0, 0, 0, 0)
    BY <1>6, NothingRises DEF Moves
  <2>2. pc'[c] \notin {"answered", "failed"}
    BY <1>6 DEF Moves
  <2>3. c \in Free' <=> c \in Free
    BY <1>3, <1>4, <1>6 DEF Moves
  <2> QED
    BY <1>2, <1>3, <2>1, <2>2, <2>3, CallCountsFrom
<1>7. CASE Fails(c)
  <2>1. Rise(0 + 0 + 0, 0, 0, 0, 0)
    BY <1>7, NothingRises DEF Fails
  <2>2. pc'[c] = "failed"
    BY <1>7 DEF Fails
  <2>3. c \in Free' <=> c \in Free
    BY <1>3, <1>4, <1>7 DEF Fails
  <2> QED
    BY <1>2, <1>3, <2>1, <2>2, <2>3, CallCountsFrom
<1>8. CASE AnswersUnpaid(c)
  <2>1. pc[c] = "handling" /\ pc'[c] = "answered" /\ ~ Pays(trace'[c]) /\ toolOf' = toolOf
    BY <1>8 DEF AnswersUnpaid
  <2>2. CASE Pricing[toolOf[c]] = "free"
    <3>1. Rise(0 + 0 + 0, 0, 0, 0, 0)
      BY <1>8, <2>2, NothingRises DEF AnswersUnpaid
    <3> QED
      BY <1>2, <1>3, <2>1, <2>2, <3>1, CallCountsFrom
  <2>3. CASE Pricing[toolOf[c]] # "free"
    <3>1. /\ stats' = Count({"totalCalls", "accessKeyCalls"})
          /\ callsByTool' = [callsByTool EXCEPT ![toolOf[c]] = @ + 1]
      BY <1>8, <2>3 DEF AnswersUnpaid
    <3>2. SumFunctionOnSet(callsByTool', Tools) = SumFunctionOnSet(callsByTool, Tools) + 1
      BY <1>4, <2>1, <3>1, StatsType, SumMore
    <3>3. Rise(0 + 0 + 1, 0, 0, 1, 0)
      BY <3>1, <3>2, StatsType DEF Rise, Count, Counters
    <3> QED
      BY <1>2, <1>3, <2>1, <2>3, <3>3, CallCountsFrom
  <2> QED
    BY <2>2, <2>3
<1>9. CASE AnswersPaid(c) \/ Breaks(c)
  <2>1. /\ Counts(c) /\ toolOf' = toolOf /\ amount' = amount /\ Pays(trace'[c])
        /\ \/ pc'[c] = "answered"
           \/ pc'[c] = "failed" /\ ~ Supported(amount[c])
    BY <1>9 DEF AnswersPaid, Breaks
  <2>2. pc[c] # "idle"
    BY <2>1 DEF Counts
  <2>3. PICK s \in {0, 1} : Rise(1, 1, 0, 0, s)
    BY <1>4, <2>1, <2>2, PaidRises
  <2>4. Rise(1 + 0 + 0, 1, 0, 0, s)
    BY <2>3
  <2>5. c \in Paid' \/ c \in Broken'
    BY <1>3, <2>1
  <2>6. c \notin Redeemed' /\ (c \in Free' <=> c \in Free)
    BY <1>3, <2>1
  <2> QED
    BY <1>2, <2>4, <2>5, <2>6, CallCountsFrom
<1> QED
  BY <1>5, <1>6, <1>7, <1>8, <1>9 DEF Kind

-----------------------------------------------------------------------------
(* Keys and sessions.                                                      *)

\* How a counter rises with what a step counts.
LEMMA PaidCounts ==
  ASSUME Inv, NEW c \in Calls, Counts(c)
  PROVE  /\ stats'["accessKeysIssued"] =
              stats["accessKeysIssued"] + (IF pc[c] = "storing" THEN 1 ELSE 0)
         /\ stats'["sessionsOpened"] =
              stats["sessionsOpened"] + (IF action[c] = "open" THEN 1 ELSE 0)
         /\ stats'["sessionsClosed"] =
              stats["sessionsClosed"] + (IF action[c] = "close" THEN 1 ELSE 0)
<1>1. PICK more : /\ more = IF pc[c] = "storing" THEN {"accessKeysIssued"} ELSE {}
                  /\ CountPaid(c, more)
  BY DEF Counts
<1>2. \A k \in {"accessKeysIssued", "sessionsOpened", "sessionsClosed"} :
        stats'[k] = IF \/ k \in more
                       \/ k = "sessionsOpened" /\ action[c] = "open"
                       \/ k = "sessionsClosed" /\ action[c] = "close"
                    THEN stats[k] + 1 ELSE stats[k]
  BY <1>1 DEF CountPaid, Count, Counters
<1> QED
  BY <1>1, <1>2, StatsType

\* A step that records no paid call counts nothing but a key that was put.
LEMMA OthersCount ==
  ASSUME Inv, NEW c \in Calls, Kind(c), ~ AnswersPaid(c), ~ Breaks(c)
  PROVE  /\ stats'["accessKeysIssued"] =
              stats["accessKeysIssued"]
              + (IF pc[c] = "storing" /\ pc'[c] = "restoring" THEN 1 ELSE 0)
         /\ stats'["sessionsOpened"] = stats["sessionsOpened"]
         /\ stats'["sessionsClosed"] = stats["sessionsClosed"]
<1>1. CASE Enters(c)
  <2>1. stats' \in {stats, Count({"totalCalls", "freeCalls"})} /\ pc[c] = "idle"
    BY <1>1 DEF Enters
  <2> QED
    BY <2>1, StatsType DEF Count, Counters
<1>2. CASE Moves(c)
  <2>1. \/ /\ pc[c] \notin Putting /\ stats' \in {stats, Count({"accessKeysExpired"})}
        \/ pc[c] = "storing" /\ pc'[c] = "restoring" /\ stats' = Count({"accessKeysIssued"})
    BY <1>2 DEF Moves
  <2> QED
    BY <2>1, StatsType DEF Count, Counters, Putting
<1>3. CASE Fails(c)
  <2>1. stats' \in {stats, Count({"accessKeysExpired"})} /\ pc'[c] = "failed"
    BY <1>3 DEF Fails
  <2> QED
    BY <2>1, StatsType DEF Count, Counters
<1>4. CASE AnswersUnpaid(c)
  <2>1. stats' \in {stats, Count({"totalCalls", "accessKeyCalls"})} /\ pc[c] = "handling"
    BY <1>4 DEF AnswersUnpaid
  <2> QED
    BY <2>1, StatsType DEF Count, Counters
<1> QED
  BY <1>1, <1>2, <1>3, <1>4 DEF Kind

\* Calls whose key was announced, or is put once more.
Held == issued \cup Restoring

\* The keys that are counted lie between those announced and those in the store.
LEMMA KeyCountsStep ==
  ASSUME Inv, Announced, KeyCounts, NEW c \in Calls, Step(c), Kind(c)
  PROVE  KeyCounts'
<1>1. /\ \A d \in Calls \ {c} : pc'[d] = pc[d] /\ (d \in Restoring' <=> d \in Restoring)
      /\ Restoring \subseteq Calls /\ Restoring' \subseteq Calls
      /\ c \in Restoring <=> pc[c] = "restoring"
      /\ c \in Restoring' <=> pc'[c] = "restoring"
  BY DEF Step, Alone, Restoring
<1>2. pc[c] \notin {"answered", "failed"} /\ c \notin issued
  <2>1. pc[c] \notin {"answered", "failed"}
    BY DEF Kind, Enters, Moves, Inside, Fails, AnswersUnpaid, AnswersPaid, Breaks, Counts
  <2> QED
    BY <2>1, PaidPays DEF Announced
<1>3. /\ minted \in SUBSET Calls /\ minted' \in SUBSET Calls
      /\ issued \in SUBSET Calls /\ issued' \in SUBSET Calls
  BY InvStep, SetTypesKept DEF Inv, TypeOK, SetTypes
<1>4. /\ minted' \in {minted, minted \cup {c}}
      /\ issued' \in {issued, issued \cup {c}}
  <2>1. CASE Enters(c)
    BY <2>1 DEF Enters, events
  <2>2. CASE Moves(c)
    BY <2>2 DEF Moves, events
  <2>3. CASE Fails(c)
    BY <2>3 DEF Fails
  <2>4. CASE AnswersUnpaid(c)
    BY <2>4 DEF AnswersUnpaid, events
  <2>5. CASE AnswersPaid(c)
    BY <2>5 DEF AnswersPaid, Counts
  <2>6. CASE Breaks(c)
    BY <2>6 DEF Breaks, Counts
  <2> QED
    BY <2>1, <2>2, <2>3, <2>4, <2>5, <2>6 DEF Kind
<1>5. /\ Cardinality(minted) \in Nat /\ Cardinality(minted') \in Nat
      /\ Cardinality(minted') + (IF c \in minted THEN 1 ELSE 0)
           = Cardinality(minted) + (IF c \in minted' THEN 1 ELSE 0)
  BY <1>3, <1>4, OneDiffers
<1>6. /\ Cardinality(Held) \in Nat /\ Cardinality(Held') \in Nat
      /\ Cardinality(Held') + (IF c \in Held THEN 1 ELSE 0)
           = Cardinality(Held) + (IF c \in Held' THEN 1 ELSE 0)
  <2>1. Held \in SUBSET Calls /\ Held' \in SUBSET Calls
    BY <1>1, <1>3 DEF Held
  <2>2. \A d \in Calls \ {c} : d \in Held' <=> d \in Held
    BY <1>1, <1>4 DEF Held
  <2> QED
    BY <2>1, <2>2, OneDiffers
<1>7. /\ c \in minted => pc[c] = "restoring"
      /\ pc[c] = "restoring" => c \in minted
      /\ c \in Held <=> pc[c] = "restoring"
      /\ c \in Held' <=> c \in issued' \/ pc'[c] = "restoring"
  BY <1>1, <1>2 DEF KeyCounts, Held
<1>8. stats["accessKeysIssued"] \in Nat /\ stats["accessKeysIssued"] \in Cardinality(Held)..Cardinality(minted)
  BY StatsType DEF KeyCounts, Held
<1> DEFINE n == stats["accessKeysIssued"]
           m == stats'["accessKeysIssued"]
<1>9. /\ c \in minted' => pc'[c] \in {"restoring", "answered", "failed"}
      /\ pc'[c] = "restoring" => c \in minted'
      /\ m \in Cardinality(Held')..Cardinality(minted')
  <2>1. CASE Enters(c)
    <3>1. pc[c] = "idle" /\ pc'[c] # "restoring" /\ minted' = minted /\ issued' = issued
      BY <2>1 DEF Enters, Running, events
    <3>2. m = n
      <4>1. stats' \in {stats, Count({"totalCalls", "freeCalls"})}
        BY <2>1 DEF Enters
      <4> QED
        BY <1>8, <4>1 DEF Count, Counters
    <3> QED
      BY <1>2, <1>5, <1>6, <1>7, <1>8, <3>1, <3>2
  <2>2. CASE Moves(c)
    <3>1. ~ AnswersPaid(c) /\ ~ Breaks(c) /\ issued' = issued
      BY <2>2 DEF Moves, AnswersPaid, Breaks, events
    <3>2. m = n + (IF pc[c] = "storing" /\ pc'[c] = "restoring" THEN 1 ELSE 0)
      BY <3>1, OthersCount
    <3>3. CASE pc[c] \notin Putting /\ pc'[c] # "restoring" /\ minted' = minted
      <4>1. pc[c] # "restoring" /\ m = n
        BY <1>8, <3>2, <3>3 DEF Putting
      <4> QED
        BY <1>2, <1>5, <1>6, <1>7, <1>8, <3>1, <3>3, <4>1
    <3>4. CASE pc[c] = "storing" /\ pc'[c] = "restoring" /\ minted' = minted \cup {c}
      <4>1. m = n + 1 /\ c \in minted' /\ c \notin minted /\ c \in Held' /\ c \notin Held
        BY <1>7, <3>2, <3>4
      <4> QED
        BY <1>5, <1>6, <1>8, <3>4, <4>1
    <3> QED
      BY <2>2, <3>3, <3>4 DEF Moves
  <2>3. CASE Fails(c)
    <3>1. pc'[c] = "failed" /\ issued' = issued
      BY <2>3 DEF Fails
    <3>2. m = n
      <4>1. stats' \in {stats, Count({"accessKeysExpired"})}
        BY <2>3 DEF Fails
      <4> QED
        BY <1>8, <4>1 DEF Count, Counters
    <3>3. minted \subseteq minted'
      BY <2>3 DEF Fails
    <3> QED
      BY <1>2, <1>5, <1>6, <1>7, <1>8, <3>1, <3>2, <3>3
  <2>4. CASE AnswersUnpaid(c)
    <3>1. pc[c] = "handling" /\ pc'[c] = "answered" /\ minted' = minted /\ issued' = issued
      BY <2>4 DEF AnswersUnpaid, events
    <3>2. m = n
      <4>1. stats' \in {stats, Count({"totalCalls", "accessKeyCalls"})}
        BY <2>4 DEF AnswersUnpaid
      <4> QED
        BY <1>8, <4>1 DEF Count, Counters
    <3> QED
      BY <1>2, <1>5, <1>6, <1>7, <1>8, <3>1, <3>2
  <2>5. CASE AnswersPaid(c) \/ Breaks(c)
    <3>1. Counts(c) /\ pc'[c] \in {"answered", "failed"}
      BY <2>5 DEF AnswersPaid, Breaks
    <3>2. m = n + (IF pc[c] = "storing" THEN 1 ELSE 0)
      BY <3>1, PaidCounts
    <3>3. c \in issued' => pc[c] \in {"storing", "restoring"}
      <4>1. CASE AnswersPaid(c)
        BY <1>2, <4>1 DEF AnswersPaid, Counts
      <4>2. CASE Breaks(c)
        BY <1>2, <4>2 DEF Breaks
      <4> QED
        BY <2>5, <4>1, <4>2
    <3>4. CASE pc[c] = "handling" /\ minted' = minted
      BY <1>5, <1>6, <1>7, <1>8, <3>1, <3>2, <3>3, <3>4
    <3>5. CASE pc[c] = "storing" /\ minted' = minted \cup {c}
      BY <1>5, <1>6, <1>7, <1>8, <3>1, <3>2, <3>5
    <3>6. CASE pc[c] = "restoring" /\ minted' = minted
      BY <1>5, <1>6, <1>7, <1>8, <3>1, <3>2, <3>6
    <3> QED
      BY <3>1, <3>4, <3>5, <3>6 DEF Counts
  <2> QED
    BY <2>1, <2>2, <2>3, <2>4, <2>5 DEF Kind
<1>10. \A d \in minted' : pc'[d] \in {"restoring", "answered", "failed"}
  BY <1>1, <1>3, <1>4, <1>9 DEF KeyCounts
<1>11. Restoring' \subseteq minted'
  BY <1>1, <1>4, <1>9 DEF KeyCounts
<1> QED
  BY <1>9, <1>10, <1>11 DEF KeyCounts, Held

\* The calls that did a to a channel, and have been answered, or have ended.
DidAnswered(a) == Did(a) \cap Answered
DidEnded(a) == Did(a) \cap (Answered \cup Failed)

\* A step changes what was done to channels by its own call alone.
LEMMA DidMembers ==
  ASSUME Inv, NEW c \in Calls, Step(c), NEW a
  PROVE  /\ Did(a) \in SUBSET Calls /\ Did(a)' \in SUBSET Calls
         /\ DidAnswered(a) \in SUBSET Calls /\ DidAnswered(a)' \in SUBSET Calls
         /\ DidEnded(a) \in SUBSET Calls /\ DidEnded(a)' \in SUBSET Calls
         /\ \A d \in Calls \ {c} : /\ d \in Did(a)' <=> d \in Did(a)
                                   /\ d \in DidAnswered(a)' <=> d \in DidAnswered(a)
                                   /\ d \in DidEnded(a)' <=> d \in DidEnded(a)
         /\ c \in Did(a) <=> action[c] = a
         /\ c \in Did(a)' <=> action'[c] = a
         /\ c \in DidAnswered(a)' <=> action'[c] = a /\ pc'[c] = "answered"
         /\ c \in DidEnded(a)' <=> action'[c] = a /\ pc'[c] \in {"answered", "failed"}
         /\ c \in DidAnswered(a) => pc[c] = "answered"
         /\ c \in DidEnded(a) => pc[c] \in {"answered", "failed"}
BY DEF Step, Alone, Did, DidAnswered, DidEnded, Answered, Failed

\* The bounds of a counter rise as it does.
LEMMA SessionBounds ==
  ASSUME Inv, NEW c \in Calls, Step(c), NEW a, NEW n \in Nat, NEW m \in Nat,
         n \in Cardinality(DidAnswered(a))..Cardinality(DidEnded(a)),
         pc[c] \notin {"answered", "failed"},
         \/ m = n /\ ~ (action'[c] = a /\ pc'[c] = "answered")
         \/ m = n + 1 /\ action'[c] = a /\ pc'[c] \in {"answered", "failed"}
  PROVE  m \in Cardinality(DidAnswered(a)')..Cardinality(DidEnded(a)')
<1>1. /\ Cardinality(DidAnswered(a)) \in Nat /\ Cardinality(DidAnswered(a)') \in Nat
      /\ Cardinality(DidAnswered(a)')
           = Cardinality(DidAnswered(a)) + (IF c \in DidAnswered(a)' THEN 1 ELSE 0)
  <2>1. c \notin DidAnswered(a)
    BY DidMembers
  <2> QED
    BY <2>1, DidMembers, OneDiffers
<1>2. /\ Cardinality(DidEnded(a)) \in Nat /\ Cardinality(DidEnded(a)') \in Nat
      /\ Cardinality(DidEnded(a)')
           = Cardinality(DidEnded(a)) + (IF c \in DidEnded(a)' THEN 1 ELSE 0)
  <2>1. c \notin DidEnded(a)
    BY DidMembers
  <2> QED
    BY <2>1, DidMembers, OneDiffers
<1>3. /\ c \in DidAnswered(a)' <=> action'[c] = a /\ pc'[c] = "answered"
      /\ c \in DidEnded(a)' <=> action'[c] = a /\ pc'[c] \in {"answered", "failed"}
  BY DidMembers
<1>4. CASE m = n /\ ~ (action'[c] = a /\ pc'[c] = "answered")
  BY <1>1, <1>2, <1>3, <1>4
<1>5. CASE m = n + 1 /\ action'[c] = a /\ pc'[c] \in {"answered", "failed"}
  BY <1>1, <1>2, <1>3, <1>5
<1> QED
  BY <1>4, <1>5

\* Every channel that was opened is open, or was closed.
Balance ==
  /\ IsFiniteSet(open)
  /\ Cardinality(Did("open")) = Cardinality(Did("close")) + Cardinality(open)

\* A step that opens or closes a channel is one call's.
LEMMA BalanceStep ==
  ASSUME Inv, Balance, NEW c \in Calls, Step(c), Kind(c)
  PROVE  Balance'
<1>1. \A a : /\ Cardinality(Did(a)) \in Nat /\ Cardinality(Did(a)') \in Nat
             /\ Cardinality(Did(a)') + (IF action[c] = a THEN 1 ELSE 0)
                  = Cardinality(Did(a)) + (IF action'[c] = a THEN 1 ELSE 0)
  <2> SUFFICES ASSUME NEW a
               PROVE  /\ Cardinality(Did(a)) \in Nat /\ Cardinality(Did(a)') \in Nat
                      /\ Cardinality(Did(a)') + (IF action[c] = a THEN 1 ELSE 0)
                           = Cardinality(Did(a)) + (IF action'[c] = a THEN 1 ELSE 0)
    OBVIOUS
  <2>1. /\ Did(a) \in SUBSET Calls /\ Did(a)' \in SUBSET Calls
        /\ \A d \in Calls \ {c} : d \in Did(a)' <=> d \in Did(a)
        /\ c \in Did(a) <=> action[c] = a
        /\ c \in Did(a)' <=> action'[c] = a
    BY DidMembers
  <2>2. /\ Cardinality(Did(a)) \in Nat /\ Cardinality(Did(a)') \in Nat
        /\ Cardinality(Did(a)') + (IF c \in Did(a) THEN 1 ELSE 0)
             = Cardinality(Did(a)) + (IF c \in Did(a)' THEN 1 ELSE 0)
    BY <2>1, OneDiffers
  <2> QED
    BY <2>1, <2>2
<1>2. IsFiniteSet(open) /\ Cardinality(open) \in Nat
      /\ Cardinality(Did("open")) = Cardinality(Did("close")) + Cardinality(open)
  BY FS_CardinalityType DEF Balance
<1>3. CASE UNCHANGED <<action, open>>
  <2>1. Did("open")' = Did("open") /\ Did("close")' = Did("close")
    BY <1>3 DEF Did
  <2> QED
    BY <1>2, <1>3, <2>1 DEF Balance
<1>4. CASE ~ UNCHANGED <<action, open>>
  <2>1. Moves(c)
    BY <1>4, Zenon DEF Kind, Enters, Fails, AnswersUnpaid, AnswersPaid, Breaks
  <2>2. pc[c] = "charging"
    BY <1>4, <2>1 DEF Moves
  <2>3. PICK a \in Actions, h \in Channels :
             /\ IF a = "open" THEN h \notin open /\ open' = open \cup {h}
                ELSE /\ h \in open
                     /\ open' = IF a = "close" THEN open \ {h} ELSE open
             /\ action' = [action EXCEPT ![c] = a]
    BY <1>4, <2>1 DEF Moves
  <2>4. action[c] = None
    BY <2>2 DEF Inv, Phases, PhaseOf, PaymentAt
  <2>5. action'[c] = a
    BY <2>3 DEF Inv, TypeOK
  <2>6. IsFiniteSet(open')
        /\ Cardinality(open') = IF a = "open" THEN Cardinality(open) + 1
                                ELSE IF a = "close" THEN Cardinality(open) - 1
                                ELSE Cardinality(open)
    <3>1. CASE a = "open"
      BY <1>2, <2>3, <3>1, FS_AddElement
    <3>2. CASE a = "close"
      BY <1>2, <2>3, <3>2, FS_RemoveElement
    <3>3. CASE a \notin {"open", "close"}
      BY <1>2, <2>3, <3>3
    <3> QED
      BY <3>1, <3>2, <3>3
  <2>7. action[c] \notin {"open", "close"}
    BY <2>4, MeteringAssumption DEF MeteringAssumption, Actions
  <2>8. /\ Cardinality(Did("open")') = Cardinality(Did("open")) + (IF a = "open" THEN 1 ELSE 0)
        /\ Cardinality(Did("close")') = Cardinality(Did("close")) + (IF a = "close" THEN 1 ELSE 0)
    BY <1>1, <2>5, <2>7
  <2>9. Cardinality(Did("open")') = Cardinality(Did("close")') + Cardinality(open')
    BY <1>1, <1>2, <2>6, <2>8
  <2> QED
    BY <2>6, <2>9 DEF Balance
<1> QED
  BY <1>3, <1>4

\* A sum of nothing.
LEMMA NothingCounted ==
  ASSUME NEW f \in [Tools -> {0}]
  PROVE  SumFunctionOnSet(f, Tools) = 0
<1> DEFINE T == {n \in Nat : \A S \in SUBSET Tools :
                                Cardinality(S) = n => SumFunctionOnSet(f, S) = 0}
<1>0. IsFiniteSet(Tools) /\ \A S \in SUBSET Tools : IsFiniteSet(S) /\ Cardinality(S) \in Nat
  BY MeteringAssumption, FS_Subset, FS_CardinalityType DEF MeteringAssumption
<1>9. \A S \in SUBSET Tools : \A x \in Tools \ S :
        SumFunctionOnSet(f, S \cup {x}) = SumFunctionOnSet(f, S) + f[x]
  <2>1. \A d \in Tools : f[d] \in Nat
    OBVIOUS
  <2>2. IsFiniteSet(Tools)
    BY <1>0
  <2>3. \A S \in SUBSET Tools :
          /\ SumFunctionOnSet(f, S) \in Nat
          /\ \A x \in Tools \ S : SumFunctionOnSet(f, S \cup {x}) = SumFunctionOnSet(f, S) + f[x]
    BY <2>1, <2>2, SumAdd, Zenon
  <2> QED
    BY <2>3
<1>1. 0 \in T
  BY <1>0, SumEmpty, FS_EmptySet
<1>2. ASSUME NEW n \in T PROVE n + 1 \in T
  <2>1. ASSUME NEW S \in SUBSET Tools, Cardinality(S) = n + 1
        PROVE  SumFunctionOnSet(f, S) = 0
    <3>1. S # {}
      BY <2>1, FS_EmptySet
    <3>2. PICK x \in S : TRUE
      BY <3>1
    <3>3. S \ {x} \in SUBSET Tools /\ Cardinality(S \ {x}) = n
      <4>1. IsFiniteSet(S) /\ n \in Nat
        BY <1>0
      <4>2. Cardinality(S \ {x}) = Cardinality(S) - 1
        BY <4>1, FS_RemoveElement
      <4> QED
        BY <2>1, <4>1, <4>2
    <3>4. SumFunctionOnSet(f, S \ {x}) = 0
      BY <3>3
    <3>5. (S \ {x}) \cup {x} = S /\ x \in Tools \ (S \ {x}) /\ f[x] = 0
      OBVIOUS
    <3>6. SumFunctionOnSet(f, (S \ {x}) \cup {x}) = SumFunctionOnSet(f, S \ {x}) + f[x]
      BY <1>9, <3>3, <3>5, Zenon
    <3> QED
      BY <3>4, <3>5, <3>6
  <2> QED
    BY <2>1
<1>3. T = Nat
  <2> HIDE DEF T
  <2>1. T \in SUBSET Nat
    BY DEF T
  <2> QED
    BY <1>1, <1>2, <2>1, Induction
<1> QED
  BY <1>0, <1>3

\* The channels counted lie between those of calls that were answered and those of
\* calls that have ended.
LEMMA SessionCountsStep ==
  ASSUME Inv, SessionCounts, NEW c \in Calls, Step(c), Kind(c)
  PROVE  SessionCounts'
<1>1. pc[c] \notin {"answered", "failed"}
  BY DEF Kind, Enters, Moves, Inside, Fails, AnswersUnpaid, AnswersPaid, Breaks, Counts
<1>2. /\ stats["sessionsOpened"] \in Cardinality(DidAnswered("open"))..Cardinality(DidEnded("open"))
      /\ stats["sessionsClosed"] \in Cardinality(DidAnswered("close"))..Cardinality(DidEnded("close"))
      /\ stats["sessionsOpened"] \in Nat /\ stats["sessionsClosed"] \in Nat
  BY StatsType DEF SessionCounts, DidAnswered, DidEnded
<1>3. Balance'
  BY BalanceStep DEF SessionCounts, Balance
<1>4. /\ stats'["sessionsOpened"] \in Cardinality(DidAnswered("open")')..Cardinality(DidEnded("open")')
      /\ stats'["sessionsClosed"] \in Cardinality(DidAnswered("close")')..Cardinality(DidEnded("close")')
  <2>1. CASE AnswersPaid(c) \/ Breaks(c)
    <3>1. Counts(c) /\ pc'[c] \in {"answered", "failed"} /\ action' = action
      BY <2>1 DEF AnswersPaid, Breaks
    <3>2. /\ stats'["sessionsOpened"] =
              stats["sessionsOpened"] + (IF action[c] = "open" THEN 1 ELSE 0)
          /\ stats'["sessionsClosed"] =
              stats["sessionsClosed"] + (IF action[c] = "close" THEN 1 ELSE 0)
      BY <3>1, PaidCounts
    <3>3. stats'["sessionsOpened"] \in Cardinality(DidAnswered("open")')..Cardinality(DidEnded("open")')
      <4>1. CASE action[c] = "open"
        BY <1>1, <1>2, <3>1, <3>2, <4>1, SessionBounds
      <4>2. CASE action[c] # "open"
        BY <1>1, <1>2, <3>1, <3>2, <4>2, SessionBounds
      <4> QED
        BY <4>1, <4>2
    <3>4. stats'["sessionsClosed"] \in Cardinality(DidAnswered("close")')..Cardinality(DidEnded("close")')
      <4>1. CASE action[c] = "close"
        BY <1>1, <1>2, <3>1, <3>2, <4>1, SessionBounds
      <4>2. CASE action[c] # "close"
        BY <1>1, <1>2, <3>1, <3>2, <4>2, SessionBounds
      <4> QED
        BY <4>1, <4>2
    <3> QED
      BY <3>3, <3>4
  <2>2. CASE ~ AnswersPaid(c) /\ ~ Breaks(c)
    <3>1. /\ stats'["sessionsOpened"] = stats["sessionsOpened"]
          /\ stats'["sessionsClosed"] = stats["sessionsClosed"]
      BY <2>2, OthersCount
    <3>2. ~ (action'[c] \in {"open", "close"} /\ pc'[c] = "answered")
      <4> SUFFICES ASSUME pc'[c] = "answered" PROVE action'[c] \notin {"open", "close"}
        OBVIOUS
      <4>1. AnswersUnpaid(c)
        BY <2>2 DEF Kind, Enters, Running, Moves, Fails
      <4>2. ~ Pays(trace[c]) /\ action' = action
        BY <4>1 DEF AnswersUnpaid
      <4>3. action[c] = None
        BY <4>2 DEF Inv, Phases, PhaseOf, PaymentAt
      <4> QED
        BY <4>2, <4>3, MeteringAssumption DEF MeteringAssumption, Actions
    <3>3. stats'["sessionsOpened"] \in Cardinality(DidAnswered("open")')..Cardinality(DidEnded("open")')
      BY <1>1, <1>2, <3>1, <3>2, SessionBounds
    <3>4. stats'["sessionsClosed"] \in Cardinality(DidAnswered("close")')..Cardinality(DidEnded("close")')
      BY <1>1, <1>2, <3>1, <3>2, SessionBounds
    <3> QED
      BY <3>3, <3>4
  <2> QED
    BY <2>1, <2>2
<1> QED
  BY <1>3, <1>4 DEF SessionCounts, Balance, DidAnswered, DidEnded

\* The counters follow from the invariant.
LEMMA CountersAgree ==
  ASSUME Inv, Announced, CallCounts, KeyCounts, SessionCounts
  PROVE  CallsAddUp
<1>1. /\ Scrape.mode.paid = stats["paidCalls"] /\ Scrape.mode.free = stats["freeCalls"]
      /\ Scrape.mode.session = stats["sessionCalls"]
      /\ Scrape.mode.access_key = stats["accessKeyCalls"]
      /\ Scrape.mode.total = stats["totalCalls"] /\ Scrape.calls = callsByTool
      /\ Scrape.issued = stats["accessKeysIssued"]
      /\ Scrape.opened = stats["sessionsOpened"] /\ Scrape.closed = stats["sessionsClosed"]
  BY DEF Scrape
<1>2. Scrape.issued \in Cardinality(issued)..Cardinality(minted)
  <2>1. issued \subseteq Held /\ Held \in SUBSET Calls
    BY DEF Held, Restoring, Inv, TypeOK
  <2>2. /\ IsFiniteSet(Held) /\ Cardinality(Held) \in Nat
        /\ Cardinality(issued) \in Nat /\ Cardinality(issued) <= Cardinality(Held)
    BY <2>1, InsideFinite, FS_Subset
  <2>3. stats["accessKeysIssued"] \in Cardinality(Held)..Cardinality(minted)
    BY DEF KeyCounts, Held
  <2> QED
    BY <1>1, <2>2, <2>3, StatsType
<1>3. ASSUME \A c \in Calls : action[c] # None => pc[c] = "answered"
      PROVE  Scrape.opened = Scrape.closed + Cardinality(open)
  <2>1. None \notin {"open", "close"}
    BY MeteringAssumption DEF MeteringAssumption, Actions
  <2>2. \A a \in {"open", "close"} :
          Did(a) \cap Answered = Did(a) /\ Did(a) \cap (Answered \cup Failed) = Did(a)
    BY <1>3, <2>1 DEF Did, Answered, Failed
  <2>3. /\ stats["sessionsOpened"] \in Cardinality(Did("open"))..Cardinality(Did("open"))
        /\ stats["sessionsClosed"] \in Cardinality(Did("close"))..Cardinality(Did("close"))
    BY <2>2 DEF SessionCounts
  <2>4. Cardinality(Did("open")) \in Nat /\ Cardinality(Did("close")) \in Nat
    BY InsideFinite DEF Did
  <2>5. stats["sessionsOpened"] = Cardinality(Did("open"))
        /\ stats["sessionsClosed"] = Cardinality(Did("close"))
    BY <2>3, <2>4, StatsType
  <2> QED
    BY <1>1, <2>5 DEF SessionCounts
<1> QED
  BY <1>1, <1>2, <1>3 DEF CallsAddUp, CallCounts, Free, Redeemed, Broken

\* The counters that are scraped agree with each other and with the calls, whatever fails
\* between what they count and the end of the call (recordPaidCall, runSession,
\* runAccessKey).
THEOREM CountersCorrect == Spec => []CallsAddUp
<1> DEFINE Counted == CallCounts /\ KeyCounts /\ SessionCounts
<1>1. Init => Counted
  <2> SUFFICES ASSUME Init PROVE Counted
    OBVIOUS
  <2>1. /\ \A c \in Calls : pc[c] = "idle" /\ toolOf[c] = None /\ action[c] = None
        /\ stats = [s \in Counters |-> 0] /\ callsByTool = [t \in Tools |-> 0]
        /\ open = {} /\ minted = {} /\ issued = {}
    BY DEF Init
  <2>2. Paid = {} /\ Answered = {} /\ Free = {} /\ Redeemed = {} /\ Broken = {}
        /\ Restoring = {} /\ Failed = {}
    BY <2>1 DEF Paid, Answered, Free, Redeemed, Broken, Restoring, Failed
  <2>3. Cardinality({}) = 0 /\ IsFiniteSet({})
    BY FS_EmptySet
  <2>4. /\ stats["totalCalls"] = 0 /\ stats["paidCalls"] = 0 /\ stats["freeCalls"] = 0
        /\ stats["accessKeyCalls"] = 0 /\ stats["sessionCalls"] = 0
        /\ stats["accessKeysIssued"] = 0
        /\ stats["sessionsOpened"] = 0 /\ stats["sessionsClosed"] = 0
    BY <2>1 DEF Counters
  <2>5. SumFunctionOnSet(callsByTool, Tools) = 0
    BY <2>1, NothingCounted
  <2>6. CallCounts
    BY <2>2, <2>3, <2>4, <2>5 DEF CallCounts
  <2>7. KeyCounts
    BY <2>1, <2>2, <2>3, <2>4 DEF KeyCounts
  <2>8. Did("open") = {} /\ Did("close") = {}
    BY <2>1, MeteringAssumption DEF Did, MeteringAssumption, Actions
  <2>9. SessionCounts
    <3>1. \A S : {} \cap S = {}
      OBVIOUS
    <3>2. 0 \in 0..0 /\ 0 = 0 + 0
      OBVIOUS
    <3> QED
      BY <2>1, <2>3, <2>4, <2>8, <3>1, <3>2, Zenon DEF SessionCounts
  <2> QED
    BY <2>6, <2>7, <2>9
<1>2. Inv /\ Announced /\ Counted /\ [Next]_vars => Counted'
  <2> SUFFICES ASSUME Inv, Announced, Counted, [Next]_vars PROVE Counted'
    OBVIOUS
  <2>1. CASE UNCHANGED vars
    <3>1. UNCHANGED <<pc, toolOf, amount, action, trace, stats, callsByTool, open, minted, issued>>
      BY <2>1 DEF vars, meters, events
    <3>2. /\ Paid' = Paid /\ Answered' = Answered /\ Free' = Free /\ Redeemed' = Redeemed
          /\ Broken' = Broken /\ Restoring' = Restoring /\ Failed' = Failed
          /\ \A a : Did(a)' = Did(a)
      BY <3>1 DEF Paid, Answered, Charged, Free, Redeemed, Broken, Supported, Restoring, Failed, Did
    <3>3. CallCounts'
      BY <3>1, <3>2 DEF CallCounts
    <3>4. KeyCounts'
      BY <3>1, <3>2 DEF KeyCounts
    <3>5. SessionCounts'
      BY <3>1, <3>2 DEF SessionCounts
    <3> QED
      BY <3>3, <3>4, <3>5
  <2> QED
    BY <2>1, InvStep, CallCountsStep, KeyCountsStep, SessionCountsStep
<1>3. Inv /\ Announced /\ Counted => CallsAddUp
  BY CountersAgree
<1>4. Spec => []Announced
  BY LoggedAlways, PTL
<1> QED
  BY <1>1, <1>2, <1>3, <1>4, InvAlways, PTL DEF Spec

-----------------------------------------------------------------------------
(* Offers.                                                                 *)

\* A quotient, by what bounds it.
LEMMA QuotientAbove ==
  ASSUME NEW x \in Nat, NEW b \in Nat \ {0}, NEW u \in Nat, x < b * (u + 1)
  PROVE  x \div b <= u
<1> DEFINE q == x \div b
           r == x % b
<1>1. q \in Nat /\ r \in Nat /\ r < b /\ x = b * q + r
  OBVIOUS
<1> HIDE DEF q, r
<1> SUFFICES ASSUME q > u PROVE FALSE
  BY <1>1 DEF q
<1>2. PICK k \in Nat : q = (u + 1) + k
  <2>1. q - (u + 1) \in Nat /\ q = (u + 1) + (q - (u + 1))
    BY <1>1
  <2> QED
    BY <2>1
<1>3. b * q = b * (u + 1) + b * k /\ b * k \in Nat /\ b * (u + 1) \in Nat
  BY <1>2
<1> QED
  BY <1>1, <1>3

\* A quotient, by what bounds it from above.
LEMMA QuotientBelow ==
  ASSUME NEW x \in Nat, NEW b \in Nat \ {0}, NEW u \in Nat, b * u <= x
  PROVE  u <= x \div b
<1> DEFINE q == x \div b
           r == x % b
<1>1. q \in Nat /\ r \in Nat /\ r < b /\ x = b * q + r
  OBVIOUS
<1> HIDE DEF q, r
<1> SUFFICES ASSUME q < u PROVE FALSE
  BY <1>1 DEF q
<1>2. PICK k \in Nat : u = (q + 1) + k
  <2>1. u - (q + 1) \in Nat /\ u = (q + 1) + (u - (q + 1))
    BY <1>1
  <2> QED
    BY <2>1
<1>3. b * u = b * q + b + b * k /\ b * k \in Nat /\ b * q \in Nat
  BY <1>1, <1>2
<1> QED
  BY <1>1, <1>3

\* The order of products.
LEMMA Monotone ==
  ASSUME NEW a \in Nat, NEW b \in Nat, NEW k \in Nat, a <= b
  PROVE  a * k <= b * k
<1>1. b = a + (b - a) /\ b - a \in Nat
  OBVIOUS
<1>2. b * k = a * k + (b - a) * k /\ (b - a) * k \in Nat /\ a * k \in Nat
  BY <1>1
<1> QED
  BY <1>2

LEMMA Cancel ==
  ASSUME NEW a \in Nat, NEW b \in Nat, NEW k \in Nat \ {0}, a * k <= b * k
  PROVE  a <= b
<1> SUFFICES ASSUME b < a PROVE FALSE
  OBVIOUS
<1>1. (b + 1) * k <= a * k
  BY Monotone
<1>2. (b + 1) * k = b * k + k /\ b * k \in Nat /\ a * k \in Nat
  OBVIOUS
<1> QED
  BY <1>1, <1>2

\* The products that compare two decimals can be chained.
LEMMA Chain ==
  ASSUME NEW x \in Nat, NEW y \in Nat, NEW z \in Nat,
         NEW p \in Nat \ {0}, NEW q \in Nat \ {0}, NEW r \in Nat \ {0},
         x * q <= y * p, y * r <= z * q
  PROVE  x * r <= z * p
<1>1. x * q \in Nat /\ y * p \in Nat /\ y * r \in Nat /\ z * q \in Nat /\ x * r \in Nat /\ z * p \in Nat
  OBVIOUS
<1>2. (x * q) * r <= (y * p) * r
  BY <1>1, Monotone
<1>3. (y * r) * p <= (z * q) * p
  BY <1>1, Monotone
<1>4. (x * q) * r = (x * r) * q /\ (y * p) * r = (y * r) * p /\ (z * q) * p = (z * p) * q
  OBVIOUS
<1>5. (x * r) * q \in Nat /\ (y * r) * p \in Nat /\ (z * p) * q \in Nat
  BY <1>1
<1>6. (x * r) * q <= (z * p) * q
  BY <1>2, <1>3, <1>4, <1>5
<1> QED
  BY <1>1, <1>6, Cancel

\* Decimals, as they are compared.
LEMMA PowersOf ==
  ASSUME NEW d \in Decimal
  PROVE  /\ d.digits \in Nat /\ d.scale \in Nat /\ Pow10[d.scale] \in Nat \ {0}
         /\ Pow10[Decimals] \in Nat \ {0}
         /\ Supported(d) => /\ Decimals - d.scale \in Nat
                            /\ Pow10[Decimals - d.scale] \in Nat \ {0}
                            /\ Pow10[Decimals] = Pow10[d.scale] * Pow10[Decimals - d.scale]
<1>1. d.digits \in Nat /\ d.scale \in Nat /\ Decimals \in Nat
  BY MeteringAssumption DEF Decimal, MeteringAssumption
<1>2. ASSUME Supported(d)
      PROVE  /\ Decimals - d.scale \in Nat
             /\ Pow10[Decimals - d.scale] \in Nat \ {0}
             /\ Pow10[Decimals] = Pow10[d.scale] * Pow10[Decimals - d.scale]
  <2> DEFINE k == Decimals - d.scale
  <2>1. k \in Nat /\ d.scale + k = Decimals
    BY <1>1, <1>2 DEF Supported
  <2> HIDE DEF k
  <2>2. Pow10[d.scale + k] = Pow10[d.scale] * Pow10[k] /\ Pow10[k] \in Nat \ {0}
    BY <1>1, <2>1, Pow10Sum, Pow10Def
  <2> QED
    BY <2>1, <2>2 DEF k
<1> QED
  BY <1>1, <1>2, Pow10Def

\* What a decimal that is no dearer than a supported one is rounded to.
LEMMA RoundsBelow ==
  ASSUME NEW c \in Decimal, NEW e \in Decimal, Supported(e), ~ Cheaper(e, c)
  PROVE  UsdToBaseUnits(c) <= ToBaseUnits(e)
<1> DEFINE x == c.digits
           y == e.digits
           p == Pow10[c.scale]
           q == Pow10[e.scale]
           k == Pow10[Decimals - e.scale]
           n == Pow10[Decimals]
           u == y * k
<1>1. /\ x \in Nat /\ y \in Nat /\ p \in Nat \ {0} /\ q \in Nat \ {0} /\ k \in Nat \ {0}
      /\ n = q * k /\ n \in Nat \ {0}
  BY PowersOf
<1>2. x * q <= y * p
  <2>1. ~ (y * p < x * q)
    BY DEF Cheaper
  <2> HIDE DEF x, y, p, q
  <2>2. y * p \in Nat /\ x * q \in Nat
    BY <1>1
  <2> QED
    BY <2>1, <2>2
<1>3. UsdToBaseUnits(c) = (2 * x * n + p) \div (2 * p) /\ ToBaseUnits(e) = u
  BY DEF UsdToBaseUnits, ToBaseUnits
<1> HIDE DEF x, y, p, q, k, n
<1>4. u \in Nat /\ x * n \in Nat
  BY <1>1
<1>5. x * n <= u * p
  <2>1. (x * q) * k <= (y * p) * k
    <3>1. x * q \in Nat /\ y * p \in Nat
      BY <1>1
    <3> QED
      BY <1>1, <1>2, <3>1, Monotone
  <2>2. (x * q) * k = x * n /\ (y * p) * k = u * p
    BY <1>1
  <2> QED
    BY <2>1, <2>2
<1>6. 2 * x * n + p < (2 * p) * (u + 1) /\ 2 * x * n + p \in Nat /\ 2 * p \in Nat \ {0}
  <2>1. (2 * p) * (u + 1) = 2 * (u * p) + 2 * p /\ u * p \in Nat /\ 2 * x * n = 2 * (x * n)
    BY <1>1, <1>4
  <2> QED
    BY <1>1, <1>4, <1>5, <2>1
<1> HIDE DEF u
<1>7. (2 * x * n + p) \div (2 * p) <= u
  BY <1>4, <1>6, QuotientAbove
<1> QED
  BY <1>3, <1>7

\* A supported decimal is not rounded.
LEMMA RoundsExactly ==
  ASSUME NEW d \in Decimal, Supported(d)
  PROVE  UsdToBaseUnits(d) = ToBaseUnits(d) /\ ToBaseUnits(d) \in Nat
<1> DEFINE x == d.digits
           p == Pow10[d.scale]
           k == Pow10[Decimals - d.scale]
           n == Pow10[Decimals]
           u == x * k
<1>1. x \in Nat /\ p \in Nat \ {0} /\ k \in Nat \ {0} /\ n = p * k /\ n \in Nat \ {0}
  BY PowersOf
<1>2. UsdToBaseUnits(d) = (2 * x * n + p) \div (2 * p) /\ ToBaseUnits(d) = u
  BY DEF UsdToBaseUnits, ToBaseUnits
<1>3. UsdToBaseUnits(d) <= ToBaseUnits(d)
  <2>1. ~ Cheaper(d, d)
    <3>1. ~ (x * p < x * p)
      BY <1>1
    <3> QED
      BY <3>1 DEF Cheaper
  <2> QED
    BY <2>1, RoundsBelow
<1> HIDE DEF x, p, k, n
<1>4. u \in Nat /\ x * n \in Nat /\ x * n = u * p
  BY <1>1
<1>5. (2 * p) * u <= 2 * x * n + p /\ 2 * x * n + p \in Nat /\ 2 * p \in Nat \ {0}
  <2>1. (2 * p) * u = 2 * (u * p) /\ 2 * x * n = 2 * (x * n)
    BY <1>1, <1>4
  <2> QED
    BY <1>1, <1>4, <2>1
<1> HIDE DEF u
<1>6. u <= (2 * x * n + p) \div (2 * p)
  BY <1>4, <1>5, QuotientBelow
<1>7. (2 * x * n + p) \div (2 * p) \in Nat
  BY <1>5
<1> QED
  BY <1>2, <1>3, <1>4, <1>6, <1>7

\* One of the tiers is the cheapest.
LEMMA CheapestIs ==
  /\ Cheapest \in Decimal
  /\ \A j \in DOMAIN Tiers : ~ Cheaper(Tiers[j].amount, Cheapest)
<1> DEFINE A(i) == Tiers[i].amount
           Bottom(n, i) == i \in 1..n /\ \A j \in 1..n : ~ Cheaper(A(j), A(i))
           T == {n \in Nat : n # 0 /\ n <= Len(Tiers) => \E i \in 1..n : Bottom(n, i)}
<1>1. DOMAIN Tiers = 1..Len(Tiers) /\ Len(Tiers) \in Nat \ {0}
  BY MeteringAssumption, LenProperties, EmptySeq DEF MeteringAssumption
<1>2. \A i \in 1..Len(Tiers) : A(i) \in Decimal
  <2>1. \A i \in 1..Len(Tiers) : Tiers[i] \in PricingTier
    BY <1>1, MeteringAssumption, ElementOfSeq DEF MeteringAssumption
  <2> QED
    BY <2>1 DEF PricingTier
<1>3. \A d \in Decimal, e \in Decimal, f \in Decimal :
        ~ Cheaper(e, d) /\ ~ Cheaper(f, e) => ~ Cheaper(f, d)
  <2> SUFFICES ASSUME NEW d \in Decimal, NEW e \in Decimal, NEW f \in Decimal,
                      ~ Cheaper(e, d), ~ Cheaper(f, e)
               PROVE  ~ Cheaper(f, d)
    OBVIOUS
  <2> DEFINE x == d.digits
             y == e.digits
             z == f.digits
             p == Pow10[d.scale]
             q == Pow10[e.scale]
             r == Pow10[f.scale]
  <2>1. /\ x \in Nat /\ y \in Nat /\ z \in Nat
        /\ p \in Nat \ {0} /\ q \in Nat \ {0} /\ r \in Nat \ {0}
    BY PowersOf
  <2>2. ~ (y * p < x * q) /\ ~ (z * q < y * r)
    BY DEF Cheaper
  <2>3. Cheaper(f, d) <=> z * p < x * r
    BY DEF Cheaper
  <2> HIDE DEF x, y, z, p, q, r
  <2>4. /\ x * q \in Nat /\ y * p \in Nat /\ y * r \in Nat /\ z * q \in Nat
        /\ x * r \in Nat /\ z * p \in Nat
    BY <2>1
  <2>5. x * q <= y * p /\ y * r <= z * q
    BY <2>2, <2>4
  <2>6. x * r <= z * p
    BY <2>1, <2>5, Chain
  <2> QED
    BY <2>3, <2>4, <2>6
<1>4. \A d \in Decimal, e \in Decimal : ~ Cheaper(d, e) \/ ~ Cheaper(e, d)
  <2> SUFFICES ASSUME NEW d \in Decimal, NEW e \in Decimal
               PROVE  ~ Cheaper(d, e) \/ ~ Cheaper(e, d)
    OBVIOUS
  <2> DEFINE a == d.digits * Pow10[e.scale]
             b == e.digits * Pow10[d.scale]
  <2>1. a \in Nat /\ b \in Nat
    BY PowersOf
  <2>2. /\ Cheaper(d, e) <=> a < b
        /\ Cheaper(e, d) <=> b < a
    BY DEF Cheaper
  <2> HIDE DEF a, b
  <2> QED
    BY <2>1, <2>2
<1>5. T = Nat
  <2>1. 0 \in T
    OBVIOUS
  <2>2. ASSUME NEW n \in T PROVE n + 1 \in T
    <3> SUFFICES ASSUME n + 1 <= Len(Tiers) PROVE \E i \in 1..n + 1 : Bottom(n + 1, i)
      OBVIOUS
    <3>1. n \in Nat /\ A(n + 1) \in Decimal /\ \A i \in 1..n : A(i) \in Decimal
      BY <1>1, <1>2
    <3>2. ~ Cheaper(A(n + 1), A(n + 1))
      BY <1>4, <3>1
    <3>3. CASE n = 0
      <4>1. Bottom(n + 1, 1)
        BY <3>2, <3>3
      <4> QED
        BY <3>1, <4>1
    <3>4. CASE n # 0
      <4>1. PICK i \in 1..n : Bottom(n, i)
        BY <1>1, <3>1, <3>4
      <4>2. CASE ~ Cheaper(A(n + 1), A(i))
        <5>1. Bottom(n + 1, i)
          BY <3>1, <4>1, <4>2
        <5> QED
          BY <3>1, <5>1
      <4>3. CASE Cheaper(A(n + 1), A(i))
        <5>1. ~ Cheaper(A(i), A(n + 1))
          BY <1>4, <3>1, <4>3
        <5>2. ASSUME NEW j \in 1..n PROVE ~ Cheaper(A(j), A(n + 1))
          <6>1. ~ Cheaper(A(j), A(i))
            BY <4>1
          <6> QED
            BY <1>3, <3>1, <5>1, <6>1
        <5>3. Bottom(n + 1, n + 1)
          BY <3>1, <3>2, <5>2
        <5> QED
          BY <3>1, <5>3
      <4> QED
        BY <4>2, <4>3
    <3> QED
      BY <3>3, <3>4
  <2> HIDE DEF T
  <2>3. T \in SUBSET Nat
    BY DEF T
  <2> QED
    BY <2>1, <2>2, <2>3, Induction
<1> DEFINE least == {i \in DOMAIN Tiers :
                       \A j \in DOMAIN Tiers : ~Cheaper(Tiers[j].amount, Tiers[i].amount)}
<1>6. PICK i \in 1..Len(Tiers) : Bottom(Len(Tiers), i)
  BY <1>1, <1>5
<1>7. least # {} /\ least \in SUBSET Nat
  BY <1>1, <1>6
<1>8. PICK m \in least : \A j \in least : m <= j
  <2> HIDE DEF least
  <2> QED
    BY <1>7, Least
<1>9. Min(least) \in least
  BY <1>8 DEF Min
<1>10. Cheapest = Tiers[Min(least)].amount
  BY DEF Cheapest
<1> QED
  BY <1>1, <1>2, <1>9, <1>10

\* What is said of a call of t.
LEMMA PaymentsTell ==
  ASSUME Inv, NEW c \in Calls, toolOf[c] \in Tools
  PROVE  LET t == toolOf[c]
         IN  /\ pc[c] # "idle"
             /\ Charged(c) => Pricing[t] # "free" /\ amount[c] \in Prices(t)
             /\ Charged(c) => (Pricing[t] = "session" <=>
                                 \E i \in DOMAIN trace[c] : trace[c][i].name = "session.advance")
             /\ c \in Paid => Supported(amount[c])
<1> DEFINE t == toolOf[c]
           s == trace[c]
<1>1. t # None
  BY MeteringAssumption DEF MeteringAssumption
<1>2. PaymentAt(pc[c], t, amount[c], action[c], s) /\ s \in Seq(Span)
  BY DEF Inv, Phases, PhaseOf, TypeOK
<1>3. pc[c] # "idle"
  BY <1>1, <1>2 DEF PaymentAt
<1>4. NamesAt(Pricing[t], s) /\ (Pays(s) => amount[c] \in Prices(t))
  BY <1>2, <1>3 DEF PaymentAt
<1>5. DOMAIN s = 1..Len(s)
  BY <1>2, LenProperties
<1>6. \A i \in DOMAIN s : /\ s[i].name = "session.advance" => Pricing[t] = "session"
                          /\ s[i].name = "payment.charge" => Pricing[t] \notin {"free", "session"}
  BY <1>4, <1>5 DEF NamesAt
<1>7. ASSUME Charged(c)
      PROVE  /\ Pricing[t] # "free" /\ amount[c] \in Prices(t)
             /\ Pricing[t] = "session" <=> \E i \in DOMAIN s : s[i].name = "session.advance"
  <2>1. Pays(s)
    BY <1>7, ChargedPays
  <2>2. PICK i \in DOMAIN s : s[i].name \in {"payment.charge", "session.advance"}
    BY <2>1 DEF Pays
  <2>3. Pricing[t] # "free"
    BY <1>6, <2>2
  <2>4. Pricing[t] = "session" <=> \E j \in DOMAIN s : s[j].name = "session.advance"
    BY <1>6, <2>2
  <2> QED
    BY <1>4, <2>1, <2>3, <2>4
<1>8. c \in Paid => Supported(amount[c])
  BY <1>2, PaidPays DEF PaymentAt
<1> QED
  BY <1>3, <1>7, <1>8

\* An offer is no more than any supported price of its tool, and the price itself if
\* there is but one.
LEMMA OfferBounds ==
  ASSUME NEW t \in Tools, Accept[t] = {}, NEW o \in Offers(t),
         NEW d \in Prices(t), Supported(d)
  PROVE  /\ o.intent = "session" <=> Pricing[t] = "session"
         /\ ToBaseUnits(d) \in Nat /\ ToBaseUnits(d) >= o.amount
         /\ Pricing[t] # "tiered" => ToBaseUnits(d) = o.amount
<1>1. d \in Decimal
  BY PricesType
<1>2. UsdToBaseUnits(d) = ToBaseUnits(d) /\ ToBaseUnits(d) \in Nat
  BY <1>1, RoundsExactly
<1>3. CASE Pricing[t] = "tiered"
  <2>1. o.amount = UsdToBaseUnits(Cheapest) /\ o.intent = "charge"
    BY <1>3 DEF Offers
  <2>2. PICK j \in DOMAIN Tiers : d = Tiers[j].amount
    BY <1>3 DEF Prices
  <2>3. Cheapest \in Decimal /\ ~ Cheaper(d, Cheapest)
    BY <2>2, CheapestIs
  <2>4. UsdToBaseUnits(Cheapest) <= ToBaseUnits(d)
    BY <1>1, <2>3, RoundsBelow
  <2>5. UsdToBaseUnits(Cheapest) \in Int
    <3> DEFINE m == Cheapest
    <3>1. m.digits \in Nat /\ Pow10[Decimals] \in Nat /\ Pow10[m.scale] \in Nat \ {0}
      BY <2>3, PowersOf
    <3> HIDE DEF m
    <3>2. UsdToBaseUnits(m) \in Int
      BY <3>1 DEF UsdToBaseUnits
    <3> QED
      BY <3>2 DEF m
  <2> QED
    BY <1>2, <1>3, <2>1, <2>4, <2>5
<1>4. CASE Pricing[t] # "tiered"
  <2>1. /\ o.amount = UsdToBaseUnits(Amount[t])
        /\ o.intent = IF Pricing[t] = "session" THEN "session" ELSE "charge"
    BY <1>4 DEF Offers
  <2>2. d = Amount[t]
    BY <1>4 DEF Prices
  <2> QED
    BY <1>2, <1>4, <2>1, <2>2
<1> QED
  BY <1>3, <1>4

\* What the discovery document offers is what is charged: the price itself, or for a
\* tiered tool no more than any of its tiers, after both are rounded to base units
\* (buildOffers, pickMinimumTierAmount, usdToBaseUnits).
THEOREM OffersCorrect == Spec => []OffersHonest
<1>1. Inv => OffersHonest
  <2> SUFFICES ASSUME Inv, NEW t \in Tools
               PROVE  LET doc == OpenApi[t]
                          calls == {c \in Calls : toolOf[c] = t}
                      IN  /\ 402 \notin doc.responses => \A c \in calls : ~Charged(c)
                          /\ Accept[t] = {} => \A o \in doc.offers :
                               /\ Supported(ListedPrice(t)) => ToBaseUnits(ListedPrice(t)) >= o.amount
                               /\ \A c \in Paid \cap calls :
                                    /\ IF Pricing[t] = "tiered" THEN Earned(c) >= o.amount
                                       ELSE Earned(c) = o.amount
                                    /\ o.intent = "session" <=>
                                         \E i \in DOMAIN trace[c] : trace[c][i].name = "session.advance"
    BY DEF OffersHonest
  <2>1. /\ OpenApi[t].responses = IF Pricing[t] = "free" THEN {200} ELSE {200, 402}
        /\ OpenApi[t].offers = IF Pricing[t] = "free" THEN {} ELSE Offers(t)
    BY DEF OpenApi
  <2>2. ASSUME 402 \notin OpenApi[t].responses, NEW c \in Calls, toolOf[c] = t
        PROVE  ~ Charged(c)
    BY <2>1, <2>2, PaymentsTell
  <2>3. ASSUME Accept[t] = {}, NEW o \in OpenApi[t].offers, Supported(ListedPrice(t))
        PROVE  ToBaseUnits(ListedPrice(t)) >= o.amount
    <3>1. callsByTool[t] \in Nat /\ o \in Offers(t)
      BY <2>1 DEF Inv, TypeOK
    <3>2. ListedPrice(t) \in Prices(t)
      BY <3>1, PriceKnown DEF ListedPrice
    <3> QED
      BY <2>3, <3>1, <3>2, OfferBounds
  <2>4. ASSUME Accept[t] = {}, NEW o \in OpenApi[t].offers, NEW c \in Paid, toolOf[c] = t
        PROVE  /\ IF Pricing[t] = "tiered" THEN Earned(c) >= o.amount
                  ELSE Earned(c) = o.amount
               /\ o.intent = "session" <=>
                    \E i \in DOMAIN trace[c] : trace[c][i].name = "session.advance"
    <3>1. c \in Calls /\ Charged(c) /\ o \in Offers(t)
      BY <2>1, PaidPays DEF Paid
    <3>2. /\ amount[c] \in Prices(t) /\ Supported(amount[c])
          /\ Pricing[t] = "session" <=>
               \E i \in DOMAIN trace[c] : trace[c][i].name = "session.advance"
      BY <2>4, <3>1, PaymentsTell
    <3>3. /\ o.intent = "session" <=> Pricing[t] = "session"
          /\ ToBaseUnits(amount[c]) >= o.amount
          /\ Pricing[t] # "tiered" => ToBaseUnits(amount[c]) = o.amount
      BY <2>4, <3>1, <3>2, OfferBounds
    <3> QED
      BY <3>2, <3>3 DEF Earned
  <2> QED
    BY <2>2, <2>3, <2>4
<1> QED
  BY <1>1, InvAlways, PTL
=============================================================================
