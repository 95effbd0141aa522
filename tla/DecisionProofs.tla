---------------------------- MODULE DecisionProofs ----------------------------
(***************************************************************************)
(* What the algorithms behind the decisions about a job compute, for all   *)
(* inputs: the scores of the families are shares of one, a job with a      *)
(* blocker never scores enough to be recommended, the fusion of            *)
(* requirements keeps what the rules found, and what tailoring decides and *)
(* what a review queues is valid, for every registry that satisfies the    *)
(* assumptions of ProjectTailoring.                                        *)
(*                                                                         *)
(* The scores and the requirements are folds over sequences and sets, so   *)
(* the module begins with an induction over the subsets of a finite set,   *)
(* from the well-foundedness of the order of the numbers.                  *)
(***************************************************************************)
EXTENDS FitScoring, Requirements, ProjectTailoring,
        FiniteSetTheorems, WellFoundedInduction, TLAPS

-----------------------------------------------------------------------------
\* Folds.  A community module folds by a recursive function on the subsets of what
\* it folds over.  That there is such a function, and what it computes, follows by
\* an induction on sets of numbers.

LEMMA LeastOf ==
  ASSUME NEW T \in SUBSET Nat, T /= {}
  PROVE  \E m \in T : \A n \in T : m <= n
<1>1. PICK m \in T : \A n \in T : ~(<<n, m>> \in OpToRel(<, Nat))
  BY NatLessThanWellFounded, WFMin, Zenon
<1>2. \A n \in T : ~(n < m)
  BY <1>1 DEF OpToRel
<1> QED BY <1>2

LEMMA Induction ==
  ASSUME NEW S, 0 \in S, \A n \in Nat : n \in S => n + 1 \in S
  PROVE  Nat \subseteq S
<1> SUFFICES ASSUME Nat \ S /= {} PROVE FALSE
  OBVIOUS
<1>1. PICK m \in Nat \ S : \A n \in Nat \ S : m <= n
  BY LeastOf
<1>2. m - 1 \in Nat /\ m - 1 \in S
  BY <1>1
<1> QED BY <1>2

\* The set s without the element that is folded in last.
Less(s, last) == s \ {last[s]}

LEMMA LessIsSmaller ==
  ASSUME NEW s, IsFiniteSet(s), NEW last, s /= {}, last[s] \in s
  PROVE  /\ Cardinality(s) \in Nat /\ Cardinality(s) > 0
         /\ IsFiniteSet(Less(s, last))
         /\ Cardinality(Less(s, last)) = Cardinality(s) - 1
<1>1. Cardinality(s) \in Nat /\ Cardinality(s) /= 0
  BY FS_CardinalityType, FS_EmptySet
<1>2. /\ IsFiniteSet(s \ {last[s]})
      /\ Cardinality(s \ {last[s]}) = Cardinality(s) - 1
  BY FS_RemoveElement
<1> QED BY <1>1, <1>2 DEF Less

\* What is folded over each of the subsets of S.
Folds(g, S, last, base, Step) ==
  \A s \in SUBSET S :
    g[s] = IF s = {} THEN base ELSE Step[<<last[s], g[Less(s, last)]>>]

\* For every step on T there is the function that folds by it.
LEMMA FoldExists ==
  ASSUME NEW S, IsFiniteSet(S), NEW last, \A s \in SUBSET S : s /= {} => last[s] \in s,
         NEW T, NEW base \in T, NEW Step, \A x \in S, t \in T : Step[<<x, t>>] \in T
  PROVE  \E g \in [SUBSET S -> T] : Folds(g, S, last, base, Step)
<1> DEFINE Up(g, k) ==
             \A s \in SUBSET S : Cardinality(s) <= k =>
               g[s] = IF s = {} THEN base ELSE Step[<<last[s], g[Less(s, last)]>>]
           K == {k \in Nat : \E g \in [SUBSET S -> T] : Up(g, k)}
<1>0. \A s \in SUBSET S : /\ IsFiniteSet(s) /\ Cardinality(s) \in Nat
                          /\ Cardinality(s) = 0 => s = {}
                          /\ s /= {} => /\ Less(s, last) \in SUBSET S
                                        /\ Cardinality(Less(s, last)) = Cardinality(s) - 1
  BY LessIsSmaller, FS_Subset, FS_CardinalityType, FS_EmptySet DEF Less
<1>1. 0 \in K
  <2> DEFINE g == [s \in SUBSET S |-> base]
  <2>1. g \in [SUBSET S -> T]
    OBVIOUS
  <2>2. Up(g, 0)
    BY <1>0
  <2> QED BY <2>1, <2>2
<1>2. ASSUME NEW k \in Nat, k \in K PROVE k + 1 \in K
  <2>1. PICK g \in [SUBSET S -> T] : Up(g, k)
    BY <1>2
  <2> DEFINE h == [s \in SUBSET S |->
                     IF s = {} THEN base ELSE Step[<<last[s], g[Less(s, last)]>>]]
  <2>2. h \in [SUBSET S -> T]
    BY <1>0
  <2>3. \A s \in SUBSET S : Cardinality(s) <= k => h[s] = g[s]
    BY <2>1
  <2>4. Up(h, k + 1)
    <3> SUFFICES ASSUME NEW s \in SUBSET S, Cardinality(s) <= k + 1, s /= {}
                 PROVE  h[s] = Step[<<last[s], h[Less(s, last)]>>]
      OBVIOUS
    <3>1. Less(s, last) \in SUBSET S /\ Cardinality(Less(s, last)) <= k
      BY <1>0
    <3>2. h[Less(s, last)] = g[Less(s, last)]
      BY <2>3, <3>1
    <3> QED BY <3>2
  <2> HIDE DEF h, Up
  <2> QED BY <2>2, <2>4
<1>3. Cardinality(S) \in K
  <2> HIDE DEF K
  <2> QED BY <1>0, <1>1, <1>2, Induction
<1>4. PICK g \in [SUBSET S -> T] : Up(g, Cardinality(S))
  BY <1>3
<1>5. \A s \in SUBSET S : Cardinality(s) <= Cardinality(S)
  BY FS_Subset
<1> QED BY <1>4, <1>5 DEF Folds

\* A fold stays in a set that no step leaves.
LEMMA FoldStays ==
  ASSUME NEW S, IsFiniteSet(S), NEW last, \A s \in SUBSET S : s /= {} => last[s] \in s,
         NEW T, NEW g, g[{}] \in T,
         \A s \in SUBSET S : s /= {} /\ g[Less(s, last)] \in T => g[s] \in T
  PROVE  \A s \in SUBSET S : g[s] \in T
<1> DEFINE K == {k \in Nat : \A s \in SUBSET S : Cardinality(s) = k => g[s] \in T}
<1>0. \A s \in SUBSET S : /\ IsFiniteSet(s) /\ Cardinality(s) \in Nat
                          /\ Cardinality(s) = 0 => s = {}
                          /\ s /= {} => /\ Less(s, last) \in SUBSET S
                                        /\ Cardinality(Less(s, last)) = Cardinality(s) - 1
  BY LessIsSmaller, FS_Subset, FS_CardinalityType, FS_EmptySet DEF Less
<1>1. 0 \in K
  BY <1>0
<1>2. ASSUME NEW k \in Nat, k \in K PROVE k + 1 \in K
  <2> SUFFICES ASSUME NEW s \in SUBSET S, Cardinality(s) = k + 1 PROVE g[s] \in T
    OBVIOUS
  <2>1. s /= {}
    BY FS_EmptySet
  <2>2. g[Less(s, last)] \in T
    BY <1>0, <1>2, <2>1
  <2> QED BY <2>1, <2>2
<1>3. Nat \subseteq K
  <2> HIDE DEF K
  <2> QED BY <1>1, <1>2, Induction
<1> QED BY <1>0, <1>3

-----------------------------------------------------------------------------
\* Sums over finite sets of indices.

One(s) == CHOOSE x \in s : TRUE

SumsUp(g, f, S) ==
  \A s \in SUBSET S : g[s] = IF s = {} THEN 0 ELSE f[One(s)] + g[s \ {One(s)}]

\* The sum is what such a function computes.
LEMMA SumIsFold ==
  ASSUME NEW f, NEW S, IsFiniteSet(S), \A x \in S : f[x] \in Int
  PROVE  \E g \in [SUBSET S -> Int] : SumsUp(g, f, S) /\ SumFunctionOnSet(f, S) = g[S]
<1> DEFINE last == [s \in SUBSET S |-> One(s)]
           Step == [p \in S \X Int |-> f[p[1]] + p[2]]
           Body(g) == [s \in SUBSET S |->
                         IF s = {} THEN 0 ELSE LET x == One(s) IN f[x] + g[s \ {x}]]
           sums == CHOOSE g : g = Body(g)
<1>1. /\ \A s \in SUBSET S : s /= {} => last[s] \in s
      /\ \A s \in SUBSET S : last[s] = One(s) /\ Less(s, last) = s \ {One(s)}
  BY DEF One, Less
<1>2. \A x \in S, t \in Int : Step[<<x, t>>] \in Int /\ Step[<<x, t>>] = f[x] + t
  OBVIOUS
<1>3. PICK g \in [SUBSET S -> Int] : \A s \in SUBSET S :
        g[s] = IF s = {} THEN 0 ELSE Step[<<last[s], g[Less(s, last)]>>]
  <2> DEFINE T == Int
             base == 0
  <2>1. base \in T /\ \A x \in S, t \in T : Step[<<x, t>>] \in T
    BY <1>2
  <2>2. \A s \in SUBSET S : s /= {} => last[s] \in s
    BY <1>1
  <2> HIDE DEF last, Step, T, base
  <2>3. \E g \in [SUBSET S -> T] : Folds(g, S, last, base, Step)
    BY <2>1, <2>2, FoldExists
  <2> QED BY <2>3 DEF T, base, Folds
<1>4. g = Body(g)
  <2>1. \A s \in SUBSET S : s /= {} => g[s] = f[One(s)] + g[s \ {One(s)}]
    <3> SUFFICES ASSUME NEW s \in SUBSET S, s /= {}
                 PROVE  g[s] = f[One(s)] + g[s \ {One(s)}]
      OBVIOUS
    <3>1. One(s) \in S /\ g[s \ {One(s)}] \in Int
      BY <1>1
    <3> QED BY <1>1, <1>2, <1>3, <3>1
  <2> QED BY <1>3, <2>1
<1>5. sums = Body(sums)
  <2> HIDE DEF Body
  <2> QED BY <1>4
<1>6. SumsUp(sums, f, S)
  <2> HIDE DEF sums
  <2> QED BY <1>5 DEF SumsUp
<1>7. \A s \in SUBSET S : sums[s] \in Int
  <2> HIDE DEF sums
  <2>1. sums[{}] \in Int
    <3>1. {} \in SUBSET S
      OBVIOUS
    <3>2. sums[{}] = 0
      BY <1>6, <3>1 DEF SumsUp
    <3> QED BY <3>2
  <2>2. \A s \in SUBSET S : s /= {} /\ sums[Less(s, last)] \in Int => sums[s] \in Int
    <3> SUFFICES ASSUME NEW s \in SUBSET S, s /= {}, sums[s \ {One(s)}] \in Int
                 PROVE  sums[s] \in Int
      BY <1>1
    <3>1. One(s) \in S
      BY <1>1
    <3>2. sums[s] = f[One(s)] + sums[s \ {One(s)}]
      BY <1>6 DEF SumsUp
    <3> QED BY <3>1, <3>2
  <2> HIDE DEF last
  <2> QED BY <1>1, <2>1, <2>2, FoldStays
<1>8. sums \in [SUBSET S -> Int]
  <2> HIDE DEF sums
  <2> QED BY <1>5, <1>7
<1>9. SumFunctionOnSet(f, S) = sums[S]
  BY DEF SumFunctionOnSet, FoldFunctionOnSet, MapThenFoldSet, One
<1> QED BY <1>6, <1>8, <1>9

\* Two of them agree on the sets that they share.
LEMMA SumsAgree ==
  ASSUME NEW f, NEW S, IsFiniteSet(S), NEW T \in SUBSET S,
         NEW g, SumsUp(g, f, S), NEW h, SumsUp(h, f, T)
  PROVE  g[T] = h[T]
<1> DEFINE last == [s \in SUBSET T |-> One(s)]
           same == [s \in SUBSET T |-> g[s] = h[s]]
<1>1. \A s \in SUBSET T : /\ s /= {} => last[s] \in s
                          /\ Less(s, last) = s \ {One(s)}
  BY DEF One, Less
<1>2. same[{}] \in {TRUE}
  BY DEF SumsUp
<1>3. \A s \in SUBSET T : s /= {} /\ same[Less(s, last)] \in {TRUE} => same[s] \in {TRUE}
  <2> SUFFICES ASSUME NEW s \in SUBSET T, s /= {}, same[s \ {One(s)}] \in {TRUE}
               PROVE  same[s] \in {TRUE}
    BY <1>1
  <2>1. s \ {One(s)} \in SUBSET T /\ s \in SUBSET S
    OBVIOUS
  <2>2. g[s \ {One(s)}] = h[s \ {One(s)}]
    BY <2>1
  <2>3. g[s] = h[s]
    BY <2>1, <2>2 DEF SumsUp
  <2> QED BY <2>3
<1>4. \A s \in SUBSET T : same[s] \in {TRUE}
  <2> DEFINE U == {TRUE}
  <2>1. IsFiniteSet(T)
    BY FS_Subset
  <2>2. /\ same[{}] \in U
        /\ \A s \in SUBSET T : s /= {} /\ same[Less(s, last)] \in U => same[s] \in U
    BY <1>2, <1>3
  <2>3. \A s \in SUBSET T : s /= {} => last[s] \in s
    BY <1>1
  <2> HIDE DEF last, same, U
  <2>4. \A s \in SUBSET T : same[s] \in U
    BY <2>1, <2>2, <2>3, FoldStays
  <2> QED BY <2>4 DEF U
<1> QED BY <1>4

\* The sum of no terms, and of one more, whichever is taken out.
LEMMA SumEmpty == ASSUME NEW f PROVE SumFunctionOnSet(f, {}) = 0
BY SumIsFold, FS_EmptySet DEF SumsUp

LEMMA SumOne ==
  ASSUME NEW f, NEW S, IsFiniteSet(S), S /= {}, \A x \in S : f[x] \in Int
  PROVE  SumFunctionOnSet(f, S) = f[One(S)] + SumFunctionOnSet(f, S \ {One(S)})
<1> DEFINE T == S \ {One(S)}
<1>1. PICK g \in [SUBSET S -> Int] : SumsUp(g, f, S) /\ SumFunctionOnSet(f, S) = g[S]
  BY SumIsFold
<1>2. IsFiniteSet(T)
  BY FS_Subset
<1>3. PICK h \in [SUBSET T -> Int] : SumsUp(h, f, T) /\ SumFunctionOnSet(f, T) = h[T]
  BY SumIsFold, <1>2
<1>4. g[T] = h[T]
  BY <1>1, <1>3, SumsAgree
<1> QED BY <1>1, <1>3, <1>4 DEF SumsUp

LEMMA SumType ==
  ASSUME NEW f, NEW S, IsFiniteSet(S), \A x \in S : f[x] \in Int
  PROVE  SumFunctionOnSet(f, S) \in Int
<1>1. PICK g \in [SUBSET S -> Int] : SumFunctionOnSet(f, S) = g[S]
  BY SumIsFold
<1> QED BY <1>1

\* Sets of one size.
OfSize(S, k) == {T \in SUBSET S : Cardinality(T) = k}

LEMMA Sizes ==
  ASSUME NEW S, IsFiniteSet(S)
  PROVE  /\ \A T \in SUBSET S : IsFiniteSet(T) /\ Cardinality(T) \in Nat
         /\ S \in OfSize(S, Cardinality(S))
         /\ OfSize(S, 0) = {{}}
         /\ \A k \in Nat : \A T \in OfSize(S, k + 1) :
              T /= {} /\ \A x \in T : T \ {x} \in OfSize(S, k)
<1>1. \A T \in SUBSET S : IsFiniteSet(T) /\ Cardinality(T) \in Nat
  BY FS_Subset, FS_CardinalityType
<1>2. OfSize(S, 0) = {{}}
  BY <1>1, FS_EmptySet DEF OfSize
<1>3. ASSUME NEW k \in Nat, NEW T \in OfSize(S, k + 1)
      PROVE  T /= {} /\ \A x \in T : T \ {x} \in OfSize(S, k)
  <2>1. T \in SUBSET S /\ IsFiniteSet(T) /\ Cardinality(T) = k + 1
    BY <1>1 DEF OfSize
  <2>2. T /= {}
    BY <2>1, FS_EmptySet
  <2>3. ASSUME NEW x \in T PROVE Cardinality(T \ {x}) = k
    <3>1. Cardinality(T \ {x}) = Cardinality(T) - 1
      BY <2>1, FS_RemoveElement
    <3> QED BY <2>1, <3>1
  <2> QED BY <2>1, <2>2, <2>3 DEF OfSize
<1> QED BY <1>1, <1>2, <1>3 DEF OfSize

\* Any term can be taken out of a sum, not only the first that CHOOSE takes.
LEMMA SumAny ==
  ASSUME NEW f, NEW S, IsFiniteSet(S), \A x \in S : f[x] \in Int, NEW x \in S
  PROVE  SumFunctionOnSet(f, S) = f[x] + SumFunctionOnSet(f, S \ {x})
<1> DEFINE Sum(T) == SumFunctionOnSet(f, T)
           K == {k \in Nat : \A T \in OfSize(S, k) : \A y \in T :
                               Sum(T) = f[y] + Sum(T \ {y})}
<1>0. \A T \in SUBSET S : IsFiniteSet(T) /\ Sum(T) \in Int
  BY Sizes, SumType
<1>1. 0 \in K
  BY Sizes
<1>2. ASSUME NEW k \in Nat, k \in K PROVE k + 1 \in K
  <2> SUFFICES ASSUME NEW T \in OfSize(S, k + 1), NEW y \in T
               PROVE  Sum(T) = f[y] + Sum(T \ {y})
    OBVIOUS
  <2> DEFINE first == One(T)
  <2>1. T \in SUBSET S /\ T /= {} /\ first \in T
    BY Sizes DEF OfSize, One
  <2>2. Sum(T) = f[first] + Sum(T \ {first})
    BY <1>0, <2>1, SumOne
  <2>3. CASE y = first
    BY <2>2, <2>3
  <2>4. CASE y /= first
    <3>1. T \ {first} \in OfSize(S, k) /\ T \ {y} \in OfSize(S, k)
      BY <2>1, Sizes
    <3>2. y \in T \ {first} /\ first \in T \ {y}
      BY <2>1, <2>4
    <3>3. (T \ {first}) \ {y} = (T \ {y}) \ {first}
      OBVIOUS
    <3>4. Sum(T \ {first}) = f[y] + Sum((T \ {first}) \ {y})
      BY <1>2, <3>1, <3>2
    <3>5. Sum(T \ {y}) = f[first] + Sum((T \ {first}) \ {y})
      BY <1>2, <3>1, <3>2, <3>3
    <3>6. /\ Sum((T \ {first}) \ {y}) \in Int
          /\ f[first] \in Int /\ f[y] \in Int
      BY <1>0, <2>1
    <3> HIDE DEF Sum, first
    <3> QED BY <2>2, <3>4, <3>5, <3>6
  <2> QED BY <2>3, <2>4
<1>3. Nat \subseteq K
  <2> HIDE DEF K
  <2> QED BY <1>1, <1>2, Induction
<1> QED BY <1>3, Sizes

\* A sum of points is at most a hundred for each.
LEMMA SumOfPoints ==
  ASSUME NEW f, NEW S, IsFiniteSet(S), \A x \in S : f[x] \in 0..100
  PROVE  SumFunctionOnSet(f, S) \in 0..(100 * Cardinality(S))
<1> DEFINE Sum(T) == SumFunctionOnSet(f, T)
           K == {k \in Nat : \A T \in OfSize(S, k) : Sum(T) \in 0..(100 * k)}
<1>1. 0 \in K
  <2>1. Sum({}) = 0
    BY SumEmpty
  <2>2. \A T \in OfSize(S, 0) : Sum(T) = 0
    BY <2>1, Sizes
  <2> HIDE DEF Sum
  <2> QED BY <2>2
<1>2. ASSUME NEW k \in Nat, k \in K PROVE k + 1 \in K
  <2> SUFFICES ASSUME NEW T \in OfSize(S, k + 1)
               PROVE  Sum(T) \in 0..(100 * (k + 1))
    OBVIOUS
  <2>1. PICK x \in T : x \in S /\ T \ {x} \in OfSize(S, k)
    BY Sizes DEF OfSize
  <2>2. Sum(T) = f[x] + Sum(T \ {x})
    BY <2>1, Sizes, SumAny DEF OfSize
  <2>3. Sum(T \ {x}) \in 0..(100 * k)
    BY <1>2, <2>1
  <2> HIDE DEF Sum
  <2> QED BY <2>1, <2>2, <2>3
<1>3. Nat \subseteq K
  <2> HIDE DEF K
  <2> QED BY <1>1, <1>2, Induction
<1> QED BY <1>3, Sizes

-----------------------------------------------------------------------------
\* Rounded quotients.

\* A rounded quotient is within the bounds of the quotient.
LEMMA QuotientIs ==
  ASSUME NEW n \in Int, NEW d \in Nat \ {0}
  PROVE  /\ Quotient(n, d) \in Int
         /\ 2 * (d * Quotient(n, d)) <= 2 * n + d
         /\ 2 * n + d < 2 * (d * Quotient(n, d)) + 2 * d
<1> DEFINE a == 2 * n + d
           b == 2 * d
           q == a \div b
<1>1. a \in Int /\ b \in Nat /\ b > 0
  OBVIOUS
<1>2. q \in Int /\ b * q <= a /\ a < b * q + b
  <2> HIDE DEF a, b
  <2> QED BY <1>1
<1>3. b * q = 2 * (d * q)
  <2> HIDE DEF q
  <2> QED BY <1>2
<1> QED BY <1>2, <1>3 DEF Quotient

LEMMA QuotientBounds ==
  ASSUME NEW n \in Int, NEW d \in Nat \ {0}, NEW low \in Int, NEW high \in Int,
         low * d <= n, n <= high * d
  PROVE  Quotient(n, d) \in low..high
<1> DEFINE q == Quotient(n, d)
<1>1. q \in Int /\ 2 * (d * q) <= 2 * n + d /\ 2 * n + d < 2 * (d * q) + 2 * d
  BY QuotientIs
<1> HIDE DEF q
<1>2. ASSUME q >= high + 1 PROVE FALSE
  <2>1. d * q >= d * (high + 1)
    BY <1>1, <1>2
  <2>2. d * (high + 1) = high * d + d
    OBVIOUS
  <2> QED BY <1>1, <2>1, <2>2
<1>3. ASSUME q <= low - 1 PROVE FALSE
  <2>1. d * q <= d * (low - 1)
    BY <1>1, <1>3
  <2>2. d * (low - 1) = low * d - d
    OBVIOUS
  <2> QED BY <1>1, <2>1, <2>2
<1>4. q \in low..high
  BY <1>1, <1>2, <1>3
<1> QED BY <1>4 DEF q

-----------------------------------------------------------------------------
\* The classification.

\* The total of four values, whatever the order of the fold.
LEMMA TotalIs ==
  ASSUME NEW values, DOMAIN values = Families, \A f \in Families : values[f] \in Int
  PROVE  Total(values) = values["digital_ic"] + values["verification"]
                           + values["software"] + values["ml"]
<1> DEFINE Sum(T) == SumFunctionOnSet(values, T)
<1>1. /\ IsFiniteSet(Families)
      /\ \A T \in SUBSET Families : IsFiniteSet(T)
  <2>1. IsFiniteSet({"digital_ic"}) /\ IsFiniteSet({"verification"})
        /\ IsFiniteSet({"software"}) /\ IsFiniteSet({"ml"})
    BY FS_Singleton
  <2>2. IsFiniteSet({"digital_ic"} \cup {"verification"} \cup {"software"} \cup {"ml"})
    BY <2>1, FS_Union
  <2>3. Families = {"digital_ic"} \cup {"verification"} \cup {"software"} \cup {"ml"}
    BY DEF Families
  <2>4. IsFiniteSet(Families)
    BY <2>2, <2>3
  <2> QED BY <2>4, FS_Subset
<1>2. ASSUME NEW T \in SUBSET Families, NEW f \in T
      PROVE  Sum(T) = values[f] + Sum(T \ {f})
  <2>1. IsFiniteSet(T) /\ \A x \in T : values[x] \in Int
    BY <1>1
  <2> QED BY <2>1, SumAny
<1>3. Sum({}) = 0
  BY SumEmpty
<1>4. Total(values) = Sum(Families)
  BY DEF Total, SumFunction
<1> HIDE DEF Sum
<1>5. /\ Families \ {"digital_ic"} = {"verification", "software", "ml"}
      /\ {"verification", "software", "ml"} \ {"verification"} = {"software", "ml"}
      /\ {"software", "ml"} \ {"software"} = {"ml"}
      /\ {"ml"} \ {"ml"} = {}
  BY DEF Families
<1>6. /\ Sum(Families) = values["digital_ic"] + Sum({"verification", "software", "ml"})
      /\ Sum({"verification", "software", "ml"})
           = values["verification"] + Sum({"software", "ml"})
      /\ Sum({"software", "ml"}) = values["software"] + Sum({"ml"})
      /\ Sum({"ml"}) = values["ml"] + Sum({})
  <2>1. /\ "digital_ic" \in Families /\ Families \in SUBSET Families
        /\ {"verification", "software", "ml"} \in SUBSET Families
        /\ {"software", "ml"} \in SUBSET Families /\ {"ml"} \in SUBSET Families
    BY DEF Families
  <2> QED BY <1>2, <1>5, <2>1
<1>7. /\ values["digital_ic"] \in Int /\ values["verification"] \in Int
      /\ values["software"] \in Int /\ values["ml"] \in Int
  BY DEF Families
<1> QED BY <1>3, <1>4, <1>6, <1>7

\* The first of the best of four is one of the best.
LEMMA FirstBestIs ==
  ASSUME NEW order, DOMAIN order = 1..4, NEW scores, \A i \in 1..4 : scores[order[i]] \in Int
  PROVE  \E i \in 1..4 : /\ FirstBest(order, scores) = order[i]
                         /\ \A j \in 1..4 : scores[order[j]] <= scores[order[i]]
<1> DEFINE T == {i \in 1..4 : \A j \in 1..4 : scores[order[j]] <= scores[order[i]]}
           First(i) == /\ \A j \in DOMAIN order : scores[order[j]] <= scores[order[i]]
                       /\ \A j \in 1..(i - 1) : scores[order[j]] < scores[order[i]]
<1>1. T /= {}
  <2>1. /\ scores[order[1]] \in Int /\ scores[order[2]] \in Int
        /\ scores[order[3]] \in Int /\ scores[order[4]] \in Int
    OBVIOUS
  <2>2. ASSUME NEW i \in 1..4,
               /\ scores[order[1]] <= scores[order[i]] /\ scores[order[2]] <= scores[order[i]]
               /\ scores[order[3]] <= scores[order[i]] /\ scores[order[4]] <= scores[order[i]]
        PROVE  i \in T
    BY <2>2
  <2>3. 1 \in T \/ 2 \in T \/ 3 \in T \/ 4 \in T
    <3> HIDE DEF T
    <3> QED BY <2>1, <2>2
  <2> QED BY <2>3
<1>2. PICK m \in T : \A n \in T : m <= n
  <2>1. T \in SUBSET Nat
    OBVIOUS
  <2> HIDE DEF T
  <2> QED BY <1>1, <2>1, LeastOf
<1>3. \A j \in 1..(m - 1) : scores[order[j]] < scores[order[m]]
  <2> SUFFICES ASSUME NEW j \in 1..(m - 1), scores[order[j]] >= scores[order[m]]
               PROVE  FALSE
    OBVIOUS
  <2>1. j \in 1..4 /\ j < m
    BY <1>2
  <2>2. j \in T
    BY <1>2, <2>1
  <2> QED BY <1>2, <2>1, <2>2
<1>4. m \in DOMAIN order /\ First(m)
  BY <1>2, <1>3
<1>5. \E i \in DOMAIN order : First(i) /\ FirstBest(order, scores) = order[i]
  <2> DEFINE best == CHOOSE i \in DOMAIN order : First(i)
  <2>1. best \in DOMAIN order /\ First(best)
    BY <1>4
  <2>2. FirstBest(order, scores) = order[best]
    BY DEF FirstBest
  <2> QED BY <2>1, <2>2
<1> QED BY <1>5

LEMMA BestIs ==
  ASSUME NEW scores, \A f \in Families : scores[f] \in Int,
         NEW order \in {FamilyIds, Alphabetical}
  PROVE  /\ FirstBest(order, scores) \in Families
         /\ \A f \in Families : scores[f] <= scores[FirstBest(order, scores)]
<1>1. /\ DOMAIN order = 1..4 /\ \A i \in 1..4 : order[i] \in Families
      /\ \A f \in Families : \E i \in 1..4 : order[i] = f
  BY DEF FamilyIds, Alphabetical, Families
<1>2. PICK i \in 1..4 : /\ FirstBest(order, scores) = order[i]
                        /\ \A j \in 1..4 : scores[order[j]] <= scores[order[i]]
  BY <1>1, FirstBestIs
<1> QED BY <1>1, <1>2

\* Four shares of a whole.
Shared(scores) == scores \in [Families -> 0..Unit] /\ Total(scores) = Unit

\* The rounded shares of d, at d in all, add up to the whole but for two steps at most,
\* each of the four by half a step.
LEMMA DriftIs ==
  ASSUME NEW a \in Nat, NEW b \in Nat, NEW c \in Nat, NEW e \in Nat,
         NEW d \in Nat \ {0}, d = a + b + c + e
  PROVE  LET q(n) == Quotient(n * Unit, d)
             sum  == q(a) + q(b) + q(c) + q(e)
         IN /\ q(a) \in 0..Unit /\ q(b) \in 0..Unit /\ q(c) \in 0..Unit /\ q(e) \in 0..Unit
            /\ sum <= Unit + 2 /\ sum >= Unit - 2
<1> DEFINE q(n) == Quotient(n * Unit, d)
           sum  == q(a) + q(b) + q(c) + q(e)
<1>0. Unit \in Nat /\ Unit > 0
  BY UnitAssumption
<1>1. ASSUME NEW n \in Nat, n <= d
      PROVE  /\ q(n) \in 0..Unit
             /\ 2 * (d * q(n)) <= 2 * (n * Unit) + d
             /\ 2 * (n * Unit) + d < 2 * (d * q(n)) + 2 * d
  <2>1. n * Unit \in Int /\ 0 * d <= n * Unit
    BY <1>0
  <2>2. n * Unit <= Unit * d
    BY <1>0, <1>1
  <2>3. q(n) \in 0..Unit
    BY <1>0, <2>1, <2>2, QuotientBounds
  <2> QED BY <2>1, <2>3, QuotientIs
<1>2. a <= d /\ b <= d /\ c <= d /\ e <= d
  OBVIOUS
<1>3. /\ q(a) \in 0..Unit /\ q(b) \in 0..Unit /\ q(c) \in 0..Unit /\ q(e) \in 0..Unit
  BY <1>1, <1>2
<1>4. /\ 2 * (d * q(a)) <= 2 * (a * Unit) + d /\ 2 * (a * Unit) + d < 2 * (d * q(a)) + 2 * d
      /\ 2 * (d * q(b)) <= 2 * (b * Unit) + d /\ 2 * (b * Unit) + d < 2 * (d * q(b)) + 2 * d
      /\ 2 * (d * q(c)) <= 2 * (c * Unit) + d /\ 2 * (c * Unit) + d < 2 * (d * q(c)) + 2 * d
      /\ 2 * (d * q(e)) <= 2 * (e * Unit) + d /\ 2 * (e * Unit) + d < 2 * (d * q(e)) + 2 * d
  BY <1>1, <1>2
<1> HIDE DEF q
<1>5. d * sum = d * q(a) + d * q(b) + d * q(c) + d * q(e)
  BY <1>3
<1>6. d * Unit = a * Unit + b * Unit + c * Unit + e * Unit
  BY <1>0
<1>7. 2 * (d * sum) <= 2 * (d * Unit) + 4 * d /\ 2 * (d * Unit) < 2 * (d * sum) + 4 * d
  <2> DEFINE x == d * q(a)
             y == d * q(b)
             z == d * q(c)
             w == d * q(e)
             k == a * Unit
             l == b * Unit
             m == c * Unit
             n == e * Unit
  <2>1. /\ x \in Int /\ y \in Int /\ z \in Int /\ w \in Int
        /\ k \in Int /\ l \in Int /\ m \in Int /\ n \in Int
    BY <1>0, <1>3
  <2>2. /\ 2 * x <= 2 * k + d /\ 2 * k + d < 2 * x + 2 * d
        /\ 2 * y <= 2 * l + d /\ 2 * l + d < 2 * y + 2 * d
        /\ 2 * z <= 2 * m + d /\ 2 * m + d < 2 * z + 2 * d
        /\ 2 * w <= 2 * n + d /\ 2 * n + d < 2 * w + 2 * d
    BY <1>4
  <2>3. d * sum = x + y + z + w /\ d * Unit = k + l + m + n
    BY <1>5, <1>6
  <2> HIDE DEF x, y, z, w, k, l, m, n, sum
  <2> QED BY <2>1, <2>2, <2>3
<1>8. sum \in Int
  BY <1>3
<1> HIDE DEF sum
<1>9. ASSUME sum >= Unit + 3 PROVE FALSE
  <2>1. d * sum >= d * (Unit + 3)
    BY <1>0, <1>8, <1>9
  <2>2. d * (Unit + 3) = d * Unit + 3 * d
    BY <1>0
  <2> QED BY <1>0, <1>7, <1>8, <2>1, <2>2
<1>10. ASSUME sum <= Unit - 3 PROVE FALSE
  <2>1. d * sum <= d * (Unit - 3)
    BY <1>0, <1>8, <1>10
  <2>2. d * (Unit - 3) = d * Unit - 3 * d
    BY <1>0
  <2> QED BY <1>0, <1>7, <1>8, <2>1, <2>2
<1> QED BY <1>0, <1>3, <1>8, <1>9, <1>10 DEF q, sum

\* normalize: the best has enough to give up the drift.
LEMMA NormalizedIs ==
  ASSUME NEW values \in [Families -> Nat]
  PROVE  Shared(Normalize(values))
<1> DEFINE d      == Total(values)
           shares == [f \in Families |-> Quotient(values[f] * Unit, d)]
           best   == FirstBest(FamilyIds, shares)
           drift  == Unit - Total(shares)
           final  == [shares EXCEPT ![best] = @ + drift]
<1>0. /\ Unit \in Nat /\ Unit >= 100
      /\ Percent(25) \in 0..Unit /\ 4 * Percent(25) = Unit
  <2>1. Unit = 100 * (Unit \div 100) /\ Unit \div 100 \in Nat /\ Unit \div 100 > 0
    BY UnitAssumption
  <2> QED BY <2>1 DEF Percent
<1>1. d = values["digital_ic"] + values["verification"] + values["software"] + values["ml"]
  BY TotalIs
<1>2. /\ values["digital_ic"] \in Nat /\ values["verification"] \in Nat
      /\ values["software"] \in Nat /\ values["ml"] \in Nat /\ d \in Nat
  <2>1. /\ values["digital_ic"] \in Nat /\ values["verification"] \in Nat
        /\ values["software"] \in Nat /\ values["ml"] \in Nat
    BY DEF Families
  <2> HIDE DEF d
  <2> QED BY <1>1, <2>1
<1>3. CASE d = 0
  <2> DEFINE quarters == [f \in Families |-> Percent(25)]
  <2>1. Normalize(values) = quarters
    BY <1>3 DEF Normalize
  <2>2. Total(quarters) = quarters["digital_ic"] + quarters["verification"]
                            + quarters["software"] + quarters["ml"]
    <3>1. DOMAIN quarters = Families /\ \A f \in Families : quarters[f] \in Int
      BY <1>0
    <3> HIDE DEF quarters
    <3> QED BY <3>1, TotalIs
  <2>3. Total(quarters) = Unit
    BY <1>0, <2>2 DEF Families
  <2>4. quarters \in [Families -> 0..Unit]
    BY <1>0
  <2> HIDE DEF quarters
  <2> QED BY <2>1, <2>3, <2>4 DEF Shared
<1>4. CASE d /= 0
  <2>1. Normalize(values) = final
    BY <1>4 DEF Normalize
  <2>2. /\ shares["digital_ic"] \in 0..Unit /\ shares["verification"] \in 0..Unit
        /\ shares["software"] \in 0..Unit /\ shares["ml"] \in 0..Unit
        /\ shares["digital_ic"] + shares["verification"] + shares["software"]
             + shares["ml"] <= Unit + 2
        /\ shares["digital_ic"] + shares["verification"] + shares["software"]
             + shares["ml"] >= Unit - 2
    <3> DEFINE q(n) == Quotient(n * Unit, d)
    <3>1. /\ shares["digital_ic"] = q(values["digital_ic"])
          /\ shares["verification"] = q(values["verification"])
          /\ shares["software"] = q(values["software"]) /\ shares["ml"] = q(values["ml"])
      BY DEF Families
    <3> HIDE DEF shares, d
    <3>2. LET sum == q(values["digital_ic"]) + q(values["verification"])
                       + q(values["software"]) + q(values["ml"])
          IN /\ q(values["digital_ic"]) \in 0..Unit /\ q(values["verification"]) \in 0..Unit
             /\ q(values["software"]) \in 0..Unit /\ q(values["ml"]) \in 0..Unit
             /\ sum <= Unit + 2 /\ sum >= Unit - 2
      <4>1. d \in Nat \ {0}
        BY <1>2, <1>4
      <4> QED BY <1>1, <1>2, <4>1, DriftIs
    <3> HIDE DEF q
    <3> QED BY <3>1, <3>2
  <2>3. DOMAIN shares = Families /\ \A f \in Families : shares[f] \in 0..Unit
    <3> HIDE DEF d
    <3>1. DOMAIN shares = Families
      OBVIOUS
    <3> HIDE DEF shares
    <3> QED BY <2>2, <3>1 DEF Families
  <2>4. shares = [f \in Families |-> shares[f]]
    OBVIOUS
  <2> HIDE DEF d, shares
  <2>5. Total(shares) = shares["digital_ic"] + shares["verification"]
                          + shares["software"] + shares["ml"]
    BY <1>0, <2>3, TotalIs
  <2>6. drift \in -2..2
    BY <1>0, <2>2, <2>5
  <2>7. best \in Families /\ \A f \in Families : shares[f] <= shares[best]
    BY <1>0, <2>3, BestIs
  <2> HIDE DEF best, drift
  <2>8. shares[best] >= 2
    <3>1. /\ shares["digital_ic"] <= shares[best] /\ shares["verification"] <= shares[best]
          /\ shares["software"] <= shares[best] /\ shares["ml"] <= shares[best]
      BY <2>7 DEF Families
    <3> QED BY <1>0, <2>2, <2>3, <2>7, <3>1
  <2>9. /\ final[best] = shares[best] + drift
        /\ \A f \in Families \ {best} : final[f] = shares[f]
        /\ DOMAIN final = Families /\ final = [f \in Families |-> final[f]]
    BY <2>3, <2>4, <2>7
  <2> HIDE DEF final
  <2>10. final["digital_ic"] + final["verification"] + final["software"] + final["ml"]
           = shares["digital_ic"] + shares["verification"] + shares["software"]
               + shares["ml"] + drift
    BY <1>0, <2>2, <2>6, <2>7, <2>9 DEF Families
  <2>11. \A f \in Families : final[f] \in Nat
    BY <1>0, <2>3, <2>6, <2>7, <2>8, <2>9
  <2>12. Total(final) = final["digital_ic"] + final["verification"]
                          + final["software"] + final["ml"]
    BY <2>9, <2>11, TotalIs
  <2>13. Total(final) = Unit
    BY <1>0, <2>2, <2>5, <2>6, <2>10, <2>12 DEF drift
  <2>14. \A f \in Families : final[f] <= Unit
    <3>1. /\ final["digital_ic"] \in Nat /\ final["verification"] \in Nat
          /\ final["software"] \in Nat /\ final["ml"] \in Nat
      BY <2>11 DEF Families
    <3> QED BY <1>0, <2>12, <2>13, <3>1 DEF Families
  <2> QED BY <1>0, <2>1, <2>9, <2>11, <2>13, <2>14 DEF Shared
<1> QED BY <1>3, <1>4

LEMMA CombinedIs ==
  ASSUME NEW signals, NEW answer \in [Families -> Int],
         \A f \in Families : signals[f].weight \in Int /\ signals[f].against \in Int
  PROVE  Shared(Combined(signals, answer))
<1> DEFINE raw   == [f \in Families |-> RawScore(signals[f])]
           rules == Normalize(raw)
           model == Normalize(answer)
           both  == [f \in Families |-> 6 * rules[f] + 4 * model[f]]
<1>0. 0..Unit \subseteq Nat
  BY UnitAssumption
<1>1. \A values \in [Families -> 0..Unit] : Shared(Normalize(values))
  BY <1>0, NormalizedIs
<1>2. raw \in [Families -> Nat]
  BY DEF RawScore, Most
<1> HIDE DEF raw
<1>3. Shared(rules)
  BY <1>2, NormalizedIs
<1> HIDE DEF rules
<1>4. Shared(Normalize(rules))
  BY <1>1, <1>3 DEF Shared
<1>5. CASE \E f \in Families : answer[f] < 0
  <2>1. Semantic(answer) = Unavailable
    BY <1>5 DEF Semantic
  <2> QED BY <1>4, <2>1 DEF Combined, Deterministic, rules, raw
<1>6. CASE \A f \in Families : answer[f] >= 0
  <2>1. answer \in [Families -> Nat]
    BY <1>6
  <2>2. Shared(model) /\ Semantic(answer) = model
    BY <1>6, <2>1, NormalizedIs DEF Semantic
  <2> HIDE DEF model
  <2>3. \A f \in Families : rules[f] \in Nat /\ model[f] \in Nat
    BY <1>0, <1>3, <2>2 DEF Shared
  <2>4. both \in [Families -> Nat]
    BY <2>3
  <2>5. Shared(Normalize(both))
    BY <2>4, NormalizedIs
  <2> QED BY <1>4, <2>2, <2>5 DEF Combined, Deterministic, rules, raw
<1> QED BY <1>5, <1>6

\* classify_job_family: whatever is found in a posting and whatever a provider answers,
\* the four scores are shares of one, in spite of rounding three times and correcting
\* the drift, and the job is given to a family that has the most of them.  So a family
\* with the share that a clear match takes is 0.30 ahead of any other: the margin of
\* 0.25 that the configuration asks for besides never decides.
THEOREM ScoresAreShares ==
  ASSUME NEW signals, NEW answer \in [Families -> Int],
         \A f \in Families : signals[f].weight \in Int /\ signals[f].against \in Int
  PROVE  LET class == Classify(signals, answer)
             most  == class.scores[class.family]
         IN /\ class.scores \in [Families -> 0..Unit] /\ Total(class.scores) = Unit
            /\ class.family \in Families
            /\ \A f \in Families : class.scores[f] <= most
            /\ most >= Percent(65) =>
                 \A f \in Families \ {class.family} : class.scores[f] + Percent(30) <= most
<1> DEFINE scores == Combined(signals, answer)
           best   == FirstBest(Alphabetical, scores)
<1>1. Shared(scores)
  BY CombinedIs
<1>2. Classify(signals, answer).scores = scores /\ Classify(signals, answer).family = best
  BY DEF Classify, Ranked
<1> HIDE DEF scores
<1>3. Unit \in Nat /\ \A f \in Families : scores[f] \in 0..Unit
  BY <1>1, UnitAssumption DEF Shared
<1>4. best \in Families /\ \A f \in Families : scores[f] <= scores[best]
  BY <1>3, BestIs
<1> HIDE DEF best
<1>5. ASSUME scores[best] >= Percent(65), NEW f \in Families, f /= best
      PROVE  scores[f] + Percent(30) <= scores[best]
  <2>1. scores["digital_ic"] + scores["verification"] + scores["software"] + scores["ml"]
          = Unit
    <3>1. DOMAIN scores = Families /\ \A g \in Families : scores[g] \in Int
      BY <1>1, <1>3 DEF Shared
    <3> QED BY <1>1, <3>1, TotalIs DEF Shared
  <2>2. /\ scores["digital_ic"] \in Nat /\ scores["verification"] \in Nat
        /\ scores["software"] \in Nat /\ scores["ml"] \in Nat
    BY <1>3 DEF Families
  <2>3. scores[f] + scores[best] <= Unit
    BY <1>3, <1>4, <1>5, <2>1, <2>2 DEF Families
  <2>4. /\ Percent(65) \in Nat /\ Percent(30) = 2 * Percent(65) - Unit
    <3>1. Unit = 100 * (Unit \div 100) /\ Unit \div 100 \in Nat
      BY UnitAssumption
    <3> QED BY <3>1 DEF Percent
  <2> QED BY <1>3, <1>4, <1>5, <2>3, <2>4
<1> QED BY <1>1, <1>2, <1>4, <1>5 DEF Shared

-----------------------------------------------------------------------------
\* The fit score.
LEMMA ClampBounds == \A n \in Int : Clamp(n) \in 0..100 /\ (n >= 0 => Clamp(n) <= n)
BY DEF Clamp, Most, Least

\* A mean of points is one, and one of a hundred with its weight.
LEMMA MeanOfPoints ==
  ASSUME NEW seq, NEW places, IsFiniteSet(places), \A i \in places : seq[i] \in 0..100,
         NEW weight \in Nat
  PROVE  MeanOf(weight, seq, places) \in 0..(100 * weight)
<1> DEFINE sum == SumFunctionOnSet(seq, places)
           d == Most(1, Cardinality(places))
<1>1. Cardinality(places) \in Nat
  BY FS_CardinalityType
<1>2. sum \in 0..(100 * Cardinality(places))
  BY SumOfPoints
<1>3. d \in Nat \ {0} /\ Cardinality(places) <= d
  BY <1>1 DEF Most
<1>4. sum \in Int /\ 0 <= sum /\ sum <= 100 * d
  <2> HIDE DEF sum, d
  <2> QED BY <1>1, <1>2, <1>3
<1>5. weight * sum \in Int /\ 0 * d <= weight * sum /\ weight * sum <= (100 * weight) * d
  <2> HIDE DEF sum, d
  <2>1. weight * sum >= 0
    BY <1>4
  <2>2. weight * sum <= weight * (100 * d)
    BY <1>3, <1>4
  <2>3. weight * (100 * d) = (100 * weight) * d
    BY <1>3
  <2> QED BY <1>3, <1>4, <2>1, <2>2, <2>3
<1>6. Quotient(weight * sum, d) \in 0..(100 * weight)
  <2> HIDE DEF sum, d
  <2>1. 100 * weight \in Int /\ 0 \in Int
    OBVIOUS
  <2> QED BY <1>3, <1>5, <2>1, QuotientBounds
<1> QED BY <1>6 DEF MeanOf

LEMMA BlockScoreBounds ==
  ASSUME NEW job, IsJob(job), NEW block \in BlockFacts
  PROVE  BlockScore(block, job) \in 0..100
<1> DEFINE coverage == Quotient(100 * block.matched, Most(1, job.terms))
<1>1. Most(1, job.terms) \in Nat \ {0}
  BY DEF IsJob, Most
<1>2. 100 * block.matched \in Int
  BY DEF BlockFacts
<1>3. coverage \in Int
  BY <1>1, <1>2, QuotientIs
<1>4. Least(100, 35 + coverage) \in Int
  BY <1>3 DEF Least
<1> DEFINE n == 22 * Least(100, 35 + coverage) + 18 * coverage
               + 16 * (IF block.matched > 0 THEN 75 ELSE 35)
               + 14 * (IF block.domain THEN 90 ELSE 55)
               + 10 * block.evidence
               + 8 * (IF job.senior THEN 55 ELSE 75)
               + 6 * block.recency + 6 * block.impressive
               - 10 * (IF block.matched > 0 THEN 10 ELSE 30)
<1>5. n \in Int
  <2> HIDE DEF coverage
  <2>1. /\ block.evidence \in Int /\ block.recency \in Int /\ block.impressive \in Int
    BY DEF BlockFacts
  <2> QED BY <1>3, <1>4, <2>1
<1>6. Points(n) \in Int
  <2> HIDE DEF n
  <2> QED BY <1>5, QuotientIs DEF Points
<1>7. Clamp(Points(n)) \in 0..100
  <2> HIDE DEF n
  <2> QED BY <1>6, ClampBounds
<1> QED BY <1>7 DEF BlockScore

\* Each block of a job has its score, and there are finitely many.
LEMMA BlocksAreScored ==
  ASSUME NEW job, IsJob(job)
  PROVE  /\ IsFiniteSet(DOMAIN job.blocks)
         /\ \A i \in DOMAIN job.blocks : /\ job.blocks[i] \in BlockFacts
                                         /\ BlockScores(job)[i] \in 0..100
         /\ DOMAIN BlockScores(job) = DOMAIN job.blocks
         /\ IsFiniteSet(TopThree(BlockScores(job)))
         /\ TopThree(BlockScores(job)) \subseteq DOMAIN job.blocks
<1>1. DOMAIN job.blocks = 1..Len(job.blocks) /\ Len(job.blocks) \in Nat
  BY DEF IsJob
<1>2. IsFiniteSet(DOMAIN job.blocks)
  BY <1>1, FS_Interval
<1>3. \A i \in DOMAIN job.blocks : job.blocks[i] \in BlockFacts
  BY <1>1 DEF IsJob
<1>4. \A i \in DOMAIN job.blocks : BlockScores(job)[i] \in 0..100
  BY <1>3, BlockScoreBounds DEF BlockScores
<1>5. DOMAIN BlockScores(job) = DOMAIN job.blocks
  BY DEF BlockScores
<1>6. TopThree(BlockScores(job)) \subseteq DOMAIN job.blocks
  BY <1>5 DEF TopThree
<1> QED BY <1>2, <1>3, <1>4, <1>5, <1>6, FS_Subset

\* The rules alone: with a blocker the best that a job can have is 61.
LEMMA OverallScoreBounds ==
  ASSUME NEW job, IsJob(job), NEW confidence \in {"high", "medium", "low"}
  PROVE  /\ OverallScore(job, confidence) \in 0..100
         /\ job.blocked => OverallScore(job, confidence) <= 61
<1> DEFINE top == MeanOf(20, BlockScores(job), TopThree(BlockScores(job)))
           proof == [i \in DOMAIN job.blocks |-> job.blocks[i].evidence]
           mean == Mean(proof)
           n == 25 * RoleFit[confidence]
               + 25 * (IF job.musts THEN 100 ELSE 70)
               + top
               + 10 * Least(100, 35 + 10 * job.skills)
               + 10 * (IF job.domain THEN 85 ELSE 60)
               + 10 * mean
               - (IF job.blocked THEN 3500 ELSE 0)
<1>1. top \in 0..2000
  <2>1. \A i \in TopThree(BlockScores(job)) : BlockScores(job)[i] \in 0..100
    BY BlocksAreScored
  <2>2. MeanOf(20, BlockScores(job), TopThree(BlockScores(job))) \in 0..(100 * 20)
    BY <2>1, BlocksAreScored, MeanOfPoints
  <2> QED BY <2>2
<1>2. mean \in 0..100
  <2>1. \A i \in DOMAIN proof : proof[i] \in 0..100
    BY BlocksAreScored DEF BlockFacts
  <2>2. IsFiniteSet(DOMAIN proof)
    BY BlocksAreScored
  <2>3. MeanOf(1, proof, DOMAIN proof) \in 0..(100 * 1)
    BY <2>1, <2>2, MeanOfPoints
  <2> QED BY <2>3 DEF Mean
<1>3. RoleFit[confidence] \in 60..90
  BY DEF RoleFit
<1>4. Least(100, 35 + 10 * job.skills) \in 0..100
  <2>1. job.skills \in Nat
    BY DEF IsJob
  <2> QED BY <2>1 DEF Least
<1>5. n \in Int /\ (job.blocked => n <= 6100)
  <2> DEFINE fit == RoleFit[confidence]
             known == Least(100, 35 + 10 * job.skills)
             must == IF job.musts THEN 100 ELSE 70
             near == IF job.domain THEN 85 ELSE 60
             malus == IF job.blocked THEN 3500 ELSE 0
  <2>1. /\ must \in {70, 100} /\ near \in {60, 85} /\ malus \in {0, 3500}
        /\ job.blocked => malus = 3500
    OBVIOUS
  <2>2. fit \in 60..90 /\ known \in 0..100
    BY <1>3, <1>4
  <2>3. n = 25 * fit + 25 * must + top + 10 * known + 10 * near + 10 * mean - malus
    OBVIOUS
  <2> HIDE DEF top, mean, fit, known, must, near, malus, n
  <2> QED BY <1>1, <1>2, <2>1, <2>2, <2>3
<1>6. Points(n) \in Int /\ (n <= 6100 => Points(n) <= 61)
  <2> HIDE DEF n
  <2> QED BY <1>5 DEF Points, Quotient
<1>7. Clamp(Points(n)) \in 0..100 /\ (job.blocked => Clamp(Points(n)) <= 61)
  <2> HIDE DEF n
  <2> QED BY <1>5, <1>6, ClampBounds DEF Clamp, Most, Least
<1>8. OverallScore(job, confidence) = Clamp(Points(n))
  BY DEF OverallScore
<1> HIDE DEF n
<1> QED BY <1>7, <1>8

\* A valid assessment turns the score of each block into another one.
LEMMA HybridBlocksArePoints ==
  ASSUME NEW job, IsJob(job), NEW answer, IsAnswer(answer), ValidAssessment(answer, job),
         NEW i \in DOMAIN job.blocks
  PROVE  HybridBlock(BlockScores(job)[i], answer.blocks[i]) \in 0..100
<1> DEFINE score == BlockScores(job)[i]
           match == answer.blocks[i].match
           risk  == answer.blocks[i].risk
           n == 55 * score + 35 * (25 * match) - 100 * Quotient(10 * risk, 4)
<1>1. score \in Int
  BY BlocksAreScored
<1>2. match \in Int /\ risk \in Int
  <2>1. i \in DOMAIN answer.blocks
    BY DEF IsJob, IsAnswer, ValidAssessment
  <2>2. answer.blocks[i] \in Verdicts
    BY <2>1 DEF IsAnswer
  <2> QED BY <2>2 DEF Verdicts
<1>3. Quotient(10 * risk, 4) \in Int
  <2> HIDE DEF risk
  <2>1. 10 * risk \in Int /\ 4 \in Nat \ {0}
    BY <1>2
  <2> QED BY <2>1, QuotientIs
<1>4. n \in Int
  <2> HIDE DEF score, match, risk
  <2> QED BY <1>1, <1>2, <1>3
<1> HIDE DEF n
<1>5. Points(n) \in Int
  BY <1>4, QuotientIs DEF Points
<1>6. Clamp(Points(n)) \in 0..100
  BY <1>5, ClampBounds
<1> QED BY <1>6 DEF HybridBlock, n

LEMMA HybridScoreBounds ==
  ASSUME NEW score \in 0..100, NEW seq, IsFiniteSet(DOMAIN seq),
         \A i \in DOMAIN seq : seq[i] \in 0..100
  PROVE  HybridScore(score, seq) \in 0..100 /\ (score <= 61 => HybridScore(score, seq) <= 71)
<1> DEFINE mean == MeanOf(25, seq, DOMAIN seq)
           n == 75 * score + mean
<1>1. mean \in 0..2500
  <2>1. MeanOf(25, seq, DOMAIN seq) \in 0..(100 * 25)
    BY MeanOfPoints
  <2> QED BY <2>1
<1>2. n \in Int /\ (score <= 61 => n <= 7075)
  <2> HIDE DEF mean
  <2> QED BY <1>1
<1>3. Points(n) \in Int /\ (n <= 7075 => Points(n) <= 71)
  <2> HIDE DEF n
  <2> QED BY <1>2 DEF Points, Quotient
<1>4. Clamp(Points(n)) \in 0..100 /\ (score <= 61 => Clamp(Points(n)) <= 71)
  <2> HIDE DEF n
  <2> QED BY <1>2, <1>3 DEF Clamp, Most, Least
<1> HIDE DEF n
<1>5. HybridScore(score, seq) = Clamp(Points(n))
  BY DEF HybridScore, n
<1> QED BY <1>4, <1>5

\* score_hybrid_job: whatever a model says, the score is within its bounds, and with a
\* blocker it stays below 72 and the recommendation below Apply.
THEOREM BlockersHold ==
  ASSUME NEW job, IsJob(job), NEW class, NEW client, IsAnswer(client.answer)
  PROVE  LET outcome == ScoreJob(job, class, client) IN
         /\ outcome.score \in 0..100
         /\ job.blocked => /\ outcome.score <= 71
                           /\ outcome.recommendation \notin {"Apply", "Strong apply"}
<1> DEFINE chosen == Selection(class)
           rules  == OverallScore(job, chosen.confidence)
           status == SemanticStatus(client, job)
           blocks == [i \in DOMAIN job.blocks |->
                        HybridBlock(BlockScores(job)[i], client.answer.blocks[i])]
           score  == IF status = "live_success" THEN HybridScore(rules, blocks) ELSE rules
<1>1. chosen.confidence \in {"high", "medium", "low"}
  BY DEF Selection
<1>2. rules \in 0..100 /\ (job.blocked => rules <= 61)
  <2> HIDE DEF chosen
  <2> QED BY <1>1, OverallScoreBounds DEF rules
<1>3. status = "live_success" => ValidAssessment(client.answer, job)
  <2>1. Assess(client) \in {"disabled", "not_configured", "answer", "timed_out",
                            "response_invalid", "request_failed"}
    BY Zenon DEF Assess
  <2> QED BY <2>1 DEF SemanticStatus
<1>4. score \in 0..100 /\ (job.blocked => score <= 71)
  <2>1. CASE status = "live_success"
    <3>1. \A i \in DOMAIN blocks : blocks[i] \in 0..100
      BY <1>3, <2>1, HybridBlocksArePoints
    <3>2. IsFiniteSet(DOMAIN blocks)
      BY BlocksAreScored
    <3> HIDE DEF rules, blocks, status
    <3>3. /\ HybridScore(rules, blocks) \in 0..100
          /\ rules <= 61 => HybridScore(rules, blocks) <= 71
      BY <1>2, <3>1, <3>2, HybridScoreBounds
    <3> QED BY <1>2, <2>1, <3>3
  <2>2. CASE status /= "live_success"
    <3> HIDE DEF rules, blocks, status
    <3> QED BY <1>2, <2>2
  <2> QED BY <2>1, <2>2
<1>5. ScoreJob(job, class, client).score = score
  BY DEF ScoreJob
<1>6. ScoreJob(job, class, client).recommendation = Recommendation(score, job.blocked)
  BY DEF ScoreJob
<1>7. job.blocked => Recommendation(score, job.blocked) \notin {"Apply", "Strong apply"}
  <2> HIDE DEF score
  <2> QED BY <1>4 DEF Recommendation
<1> HIDE DEF score
<1> QED BY <1>4, <1>5, <1>6, <1>7
-----------------------------------------------------------------------------
\* Requirements.

\* A set of places has a last one.
LEMMA LastOf ==
  ASSUME NEW n \in Nat, NEW s \in SUBSET (1..n), s /= {}
  PROVE  Max(s) \in s
<1> DEFINE T == {n - i : i \in s}
<1>1. T \in SUBSET Nat /\ T /= {}
  <2>1. \A i \in s : i \in 1..n /\ n - i \in Nat
    OBVIOUS
  <2> QED BY <2>1
<1>2. PICK m \in T : \A k \in T : m <= k
  BY <1>1, LeastOf
<1>3. PICK i \in s : m = n - i
  BY <1>2
<1>4. ASSUME NEW j \in s PROVE i >= j
  <2>1. n - j \in T
    OBVIOUS
  <2>2. n - i <= n - j
    BY <1>2, <1>3, <2>1
  <2>3. i \in 1..n /\ j \in 1..n
    OBVIOUS
  <2> QED BY <2>2, <2>3
<1> QED BY <1>3, <1>4 DEF Max

Places(n) == 1..n
LastPlace(n) == [s \in SUBSET Places(n) |-> Max(s)]

LEMMA PlacesHaveALast ==
  ASSUME NEW n \in Nat
  PROVE  /\ IsFiniteSet(Places(n))
         /\ \A s \in SUBSET Places(n) :
              /\ s /= {} => LastPlace(n)[s] \in s
              /\ LastPlace(n)[s] = Max(s)
              /\ Less(s, LastPlace(n)) = s \ {Max(s)}
<1>1. IsFiniteSet(Places(n))
  BY FS_Interval DEF Places
<1>2. ASSUME NEW s \in SUBSET Places(n)
      PROVE  LastPlace(n)[s] = Max(s) /\ (s /= {} => Max(s) \in s)
  BY LastOf DEF LastPlace, Places
<1> QED BY <1>1, <1>2 DEF Less

\* What is folded over each set of places.
FoldsPlaces(g, n, base, Step) ==
  \A s \in SUBSET Places(n) :
    g[s] = IF s = {} THEN base ELSE Step[<<Max(s), g[s \ {Max(s)}]>>]

\* For a step on T from each place of a sequence there is the function that folds by it.
LEMMA FoldOverPlaces ==
  ASSUME NEW n \in Nat, NEW T, NEW base \in T,
         NEW Step, \A i \in Places(n), t \in T : Step[<<i, t>>] \in T
  PROVE  \E g \in [SUBSET Places(n) -> T] : FoldsPlaces(g, n, base, Step)
<1>1. PICK g \in [SUBSET Places(n) -> T] : Folds(g, Places(n), LastPlace(n), base, Step)
  BY PlacesHaveALast, FoldExists
<1>2. ASSUME NEW s \in SUBSET Places(n)
      PROVE  g[s] = IF s = {} THEN base ELSE Step[<<Max(s), g[s \ {Max(s)}]>>]
  <2>1. LastPlace(n)[s] = Max(s) /\ Less(s, LastPlace(n)) = s \ {Max(s)}
    BY PlacesHaveALast
  <2>2. g[s] = IF s = {} THEN base
               ELSE Step[<<LastPlace(n)[s], g[Less(s, LastPlace(n))]>>]
    BY <1>1 DEF Folds
  <2> QED BY <2>1, <2>2
<1> QED BY <1>2 DEF FoldsPlaces

\* One between two parts of a list.
LEMMA BetweenIs ==
  ASSUME NEW R, NEW front \in Seq(R), NEW back \in Seq(R), NEW r \in R
  PROVE  LET new == front \o <<r>> \o back
             n   == Len(front)
         IN /\ new \in Seq(R) /\ Len(new) = n + 1 + Len(back)
            /\ \A i \in 1..n : new[i] = front[i]
            /\ new[n + 1] = r
            /\ \A i \in 1..Len(back) : new[n + 1 + i] = back[i]
<1> DEFINE first == front \o <<r>>
           n == Len(front)
<1>1. /\ first \in Seq(R) /\ Len(first) = n + 1 /\ n \in Nat
      /\ \A i \in 1..n : first[i] = front[i]
      /\ first[n + 1] = r
  OBVIOUS
<1> HIDE DEF first
<1>2. /\ first \o back \in Seq(R) /\ Len(first \o back) = n + 1 + Len(back)
      /\ \A i \in 1..(n + 1) : (first \o back)[i] = first[i]
      /\ \A i \in 1..Len(back) : (first \o back)[n + 1 + i] = back[i]
  BY <1>1
<1> QED BY <1>1, <1>2 DEF first

\* One more in a list: it is found at one place, and what was there is kept.
LEMMA InsertedIs ==
  ASSUME NEW R, NEW list \in Seq(R), NEW r \in R
  PROVE  Inserted(list, r) \in Seq(R) /\ ToSet(Inserted(list, r)) = ToSet(list) \cup {r}
<1> DEFINE C == {i \in DOMAIN list : ~MoreImportant(r, list[i])}
           n == Cardinality(C)
           front == SubSeq(list, 1, n)
           back == SubSeq(list, n + 1, Len(list))
<1>1. n \in 0..Len(list)
  <2>1. DOMAIN list = 1..Len(list) /\ Len(list) \in Nat
    OBVIOUS
  <2>2. IsFiniteSet(1..Len(list)) /\ Cardinality(1..Len(list)) = Len(list)
    BY <2>1, FS_Interval
  <2>3. C \subseteq 1..Len(list)
    BY <2>1
  <2> HIDE DEF C
  <2>4. IsFiniteSet(C) /\ n \in Nat /\ n <= Len(list)
    BY <2>2, <2>3, FS_Subset, FS_CardinalityType
  <2> QED BY <2>1, <2>4
<1>2. Inserted(list, r) = front \o <<r>> \o back
  <2> HIDE DEF C
  <2>1. (1 + n) - 1 = n /\ 1 + n = n + 1
    BY <1>1
  <2> QED BY <2>1 DEF Inserted, InsertAt, C
<1> HIDE DEF C, n
<1>3. /\ front \in Seq(R) /\ Len(front) = n /\ \A i \in 1..n : front[i] = list[i]
      /\ back \in Seq(R) /\ Len(back) = Len(list) - n
      /\ \A i \in 1..(Len(list) - n) : back[i] = list[n + i]
  BY <1>1
<1> DEFINE new == front \o <<r>> \o back
<1> HIDE DEF front, back
<1>4. /\ new \in Seq(R) /\ Len(new) = Len(list) + 1
      /\ \A i \in 1..n : new[i] = list[i]
      /\ new[n + 1] = r
      /\ \A i \in (n + 1)..Len(list) : new[i + 1] = list[i]
  <2>1. /\ new \in Seq(R) /\ Len(new) = n + 1 + Len(back)
        /\ \A i \in 1..n : new[i] = front[i]
        /\ new[n + 1] = r
        /\ \A i \in 1..Len(back) : new[n + 1 + i] = back[i]
    BY <1>3, BetweenIs
  <2>2. ASSUME NEW i \in (n + 1)..Len(list) PROVE new[i + 1] = list[i]
    <3>1. i - n \in 1..Len(back) /\ n + 1 + (i - n) = i + 1 /\ n + (i - n) = i
      BY <1>1, <1>3
    <3> HIDE DEF new
    <3>2. new[i + 1] = back[i - n]
      BY <2>1, <3>1
    <3>3. i - n \in 1..(Len(list) - n)
      BY <1>1
    <3>4. back[i - n] = list[i]
      BY <1>3, <3>1, <3>3
    <3> QED BY <3>2, <3>4
  <2> HIDE DEF new
  <2> QED BY <1>1, <1>3, <2>1, <2>2
<1>5. ASSUME NEW i \in 1..(Len(list) + 1) PROVE new[i] \in ToSet(list) \cup {r}
  <2>1. CASE i \in 1..n
    BY <1>1, <1>4, <2>1 DEF ToSet
  <2>2. CASE i = n + 1
    BY <1>4, <2>2
  <2>3. CASE i - 1 \in (n + 1)..Len(list)
    <3>1. new[i] = list[i - 1] /\ i - 1 \in DOMAIN list
      <4> HIDE DEF new
      <4> QED BY <1>1, <1>4, <2>3
    <3> QED BY <3>1 DEF ToSet
  <2>4. i \in 1..n \/ i = n + 1 \/ i - 1 \in (n + 1)..Len(list)
    BY <1>1
  <2> QED BY <2>1, <2>2, <2>3, <2>4
<1>6. ASSUME NEW i \in 1..Len(list) PROVE list[i] \in ToSet(new)
  <2> HIDE DEF new
  <2>1. DOMAIN new = 1..(Len(list) + 1)
    BY <1>4
  <2>2. CASE i \in 1..n
    BY <1>1, <1>4, <2>1, <2>2 DEF ToSet
  <2>3. CASE i \in (n + 1)..Len(list)
    BY <1>1, <1>4, <2>1, <2>3 DEF ToSet
  <2> QED BY <1>1, <2>2, <2>3
<1>7. r \in ToSet(new)
  <2> HIDE DEF new
  <2> QED BY <1>1, <1>4 DEF ToSet
<1>8. DOMAIN new = 1..(Len(list) + 1) /\ DOMAIN list = 1..Len(list)
  <2> HIDE DEF new
  <2> QED BY <1>4
<1>9. ToSet(new) = ToSet(list) \cup {r}
  <2> HIDE DEF new
  <2> QED BY <1>5, <1>6, <1>7, <1>8 DEF ToSet
<1> QED BY <1>2, <1>4, <1>9 DEF new

\* sorted() of what is found: a list of the same things.
LEMMA SortedIs ==
  ASSUME NEW R, NEW list \in Seq(R)
  PROVE  Sorted(list) \in Seq(R) /\ ToSet(Sorted(list)) = ToSet(list)
<1> DEFINE n == Len(list)
           S == Places(n)
           last == LastPlace(n)
           T == Seq(R)
           base == <<>>
           Step == [p \in S \X T |-> Inserted(p[2], list[p[1]])]
           Body(g) == [s \in SUBSET S |->
                         IF s = {} THEN base
                         ELSE LET i == Max(s) IN Inserted(g[s \ {i}], list[i])]
           f == CHOOSE g : g = Body(g)
<1>1. n \in Nat /\ DOMAIN list = S /\ \A i \in S : list[i] \in R
  BY DEF Places
<1>2. \A i \in S, t \in T : Step[<<i, t>>] = Inserted(t, list[i]) /\ Step[<<i, t>>] \in T
  <2> HIDE DEF n
  <2> QED BY <1>1, InsertedIs
<1>3. /\ IsFiniteSet(S)
      /\ \A s \in SUBSET S : /\ s /= {} => last[s] \in s
                             /\ last[s] = Max(s)
                             /\ Less(s, last) = s \ {Max(s)}
  <2> HIDE DEF n
  <2> QED BY <1>1, PlacesHaveALast
<1>4. f = Body(f)
  <2>0. PICK g \in [SUBSET S -> T] : FoldsPlaces(g, n, base, Step)
    <3>1. base \in T /\ n \in Nat
      OBVIOUS
    <3>2. \A i \in Places(n), t \in T : Step[<<i, t>>] \in T
      <4> HIDE DEF Step, T
      <4> QED BY <1>2
    <3> HIDE DEF n, T, base, Step
    <3> QED BY <3>1, <3>2, FoldOverPlaces
  <2>1. \A s \in SUBSET S :
          g[s] = IF s = {} THEN base ELSE Step[<<Max(s), g[s \ {Max(s)}]>>]
    <3> HIDE DEF n, T, base, Step
    <3> QED BY <2>0 DEF FoldsPlaces
  <2>2. \A s \in SUBSET S : s /= {} => Max(s) \in S /\ g[s \ {Max(s)}] \in T
    <3> HIDE DEF last, T
    <3> QED BY <1>3, <2>1
  <2>3. \A s \in SUBSET S : s /= {} => g[s] = Inserted(g[s \ {Max(s)}], list[Max(s)])
    <3> HIDE DEF Step, T
    <3> QED BY <1>2, <2>1, <2>2
  <2>4. g = Body(g)
    <3> HIDE DEF Step, T, base
    <3> QED BY <2>1, <2>3
  <2> HIDE DEF Body
  <2> QED BY <2>4
<1>5. \A s \in SUBSET S :
        f[s] = IF s = {} THEN base ELSE Inserted(f[s \ {Max(s)}], list[Max(s)])
  <2> HIDE DEF f
  <2> QED BY <1>4
<1>6. Sorted(list) = f[S]
  BY <1>1 DEF Sorted, FoldLeft, MapThenFoldSet
<1> DEFINE Good(s) == f[s] \in T /\ ToSet(f[s]) = {list[i] : i \in s}
           good == [s \in SUBSET S |-> Good(s)]
           U == {TRUE}
<1>7. good[{}] \in U
  <2>1. f[{}] = <<>>
    <3> HIDE DEF f
    <3> QED BY <1>5
  <2>2. Good({})
    <3> HIDE DEF f
    <3> QED BY <2>1 DEF ToSet
  <2> HIDE DEF f
  <2> QED BY <2>2
<1>8. \A s \in SUBSET S : s /= {} /\ good[Less(s, last)] \in U => good[s] \in U
  <2> SUFFICES ASSUME NEW s \in SUBSET S, s /= {}, good[Less(s, last)] \in U
               PROVE  Good(s)
    OBVIOUS
  <2>1. Max(s) \in s /\ s \ {Max(s)} \in SUBSET S /\ Good(s \ {Max(s)})
    <3> HIDE DEF last, f
    <3> QED BY <1>3
  <2>2. f[s] = Inserted(f[s \ {Max(s)}], list[Max(s)])
    <3> HIDE DEF f
    <3> QED BY <1>5
  <2>3. list[Max(s)] \in R
    BY <1>1, <2>1
  <2>4. f[s] \in T /\ ToSet(f[s]) = ToSet(f[s \ {Max(s)}]) \cup {list[Max(s)]}
    <3>1. f[s \ {Max(s)}] \in Seq(R)
      BY <2>1
    <3>2. /\ Inserted(f[s \ {Max(s)}], list[Max(s)]) \in Seq(R)
          /\ ToSet(Inserted(f[s \ {Max(s)}], list[Max(s)]))
               = ToSet(f[s \ {Max(s)}]) \cup {list[Max(s)]}
      <4>1. \A x \in Seq(R), y \in R :
              Inserted(x, y) \in Seq(R) /\ ToSet(Inserted(x, y)) = ToSet(x) \cup {y}
        BY InsertedIs
      <4> HIDE DEF f, Good, good
      <4> QED BY <2>3, <3>1, <4>1
    <3> HIDE DEF f
    <3> QED BY <2>2, <3>2
  <2>5. {list[i] : i \in s} = {list[i] : i \in s \ {Max(s)}} \cup {list[Max(s)]}
    BY <2>1
  <2> HIDE DEF f
  <2> QED BY <2>1, <2>4, <2>5
<1>9. \A s \in SUBSET S : good[s] \in U
  <2> HIDE DEF good, U, last, S
  <2> QED BY <1>3, <1>7, <1>8, FoldStays
<1>10. Good(S)
  <2> HIDE DEF Good
  <2> QED BY <1>9
<1>11. ToSet(list) = {list[i] : i \in S}
  BY <1>1 DEF ToSet
<1> HIDE DEF f, S
<1> QED BY <1>6, <1>10, <1>11
\* A fold over places stays in a set that no step leaves.
LEMMA StaysOverPlaces ==
  ASSUME NEW n \in Nat, NEW T, NEW f, f[{}] \in T,
         \A s \in SUBSET Places(n) : s /= {} /\ f[s \ {Max(s)}] \in T => f[s] \in T
  PROVE  f[Places(n)] \in T
<1>1. \A s \in SUBSET Places(n) :
        s /= {} /\ f[Less(s, LastPlace(n))] \in T => f[s] \in T
  BY PlacesHaveALast
<1>2. \A s \in SUBSET Places(n) : s /= {} => LastPlace(n)[s] \in s
  BY PlacesHaveALast
<1>3. \A s \in SUBSET Places(n) : f[s] \in T
  BY <1>1, <1>2, PlacesHaveALast, FoldStays
<1> QED BY <1>3

Shares == 0..1000

\* What the rules find, and what is accepted of a model's items.
Found ==
  [id : {"req"} \X Nat, key : DOMAIN Alias \cup {"generic"}, section : DOMAIN SectionWeight,
   quotes : SUBSET STRING, sources : SUBSET {"deterministic", "semantic"},
   semanticOnly : {FALSE}, caps : SUBSET ApprovedCapabilities,
   importance : Int, specificity : Int, differentiation : Int]

Offered ==
  [id : {"sem"} \X Nat, key : {"semantic"}, section : {"semantic"}, quotes : SUBSET STRING,
   quote : STRING, sources : SUBSET {"deterministic", "semantic"}, semanticOnly : BOOLEAN,
   caps : SUBSET ApprovedCapabilities, importance : Shares, specificity : Shares,
   differentiation : Int]

LEMMA AliasIs ==
  ASSUME NEW key \in DOMAIN Alias
  PROVE  /\ Alias[key].caps \subseteq ApprovedCapabilities
         /\ Alias[key].specificity \in Int /\ Alias[key].differentiation \in Int
<1>1. Alias[key].caps \subseteq ApprovedCapabilities
  BY DEF ApprovedCapabilities
<1>2. Alias[key].specificity \in Int /\ Alias[key].differentiation \in Int
  BY DEF Alias, Means
<1> QED BY <1>1, <1>2

LEMMA RoundIs == \A n \in Int, d \in Nat \ {0} : Round(n, d) \in Int
BY DEF Round

LEMMA RequiredIs ==
  ASSUME NEW m \in MentionShape, NEW k \in Nat
  PROVE  Required(m, k) \in Found
<1> DEFINE weight == SectionWeight[m.section]
           generic == m.key = "generic"
           caps == IF generic THEN {"general_collaboration"} ELSE Alias[m.key].caps
           importance == IF generic THEN Round(weight * 18, 10) ELSE Importance(m)
           specificity == IF generic THEN 180 ELSE 10 * Alias[m.key].specificity
           differentiation == IF generic THEN 120 ELSE 10 * Alias[m.key].differentiation
<1>1. /\ m.key \in DOMAIN Alias \cup {"generic"} /\ m.section \in DOMAIN SectionWeight
      /\ m.quote \in STRING
  BY DEF MentionShape
<1>2. weight \in Int
  BY <1>1 DEF SectionWeight
<1>3. /\ ~generic => Alias[m.key].caps \subseteq ApprovedCapabilities
      /\ ~generic => Alias[m.key].specificity \in Int
      /\ ~generic => Alias[m.key].differentiation \in Int
  BY <1>1, AliasIs
<1>4. caps \in SUBSET ApprovedCapabilities
  BY <1>3 DEF ApprovedCapabilities
<1>5. ~generic => Importance(m) \in Int
  <2> SUFFICES ASSUME ~generic PROVE Importance(m) \in Int
    OBVIOUS
  <2> DEFINE a == Alias[m.key]
             explicit == IF m.explicit THEN 100 ELSE 86
             product == a.specificity * a.differentiation
             p == weight * explicit * product
             n == IF m.preferred THEN p ELSE p + (8 * p) \div 100
  <2>1. product \in Int
    <3> HIDE DEF weight
    <3> QED BY <1>3
  <2>2. p \in Int
    <3> HIDE DEF product, weight
    <3>1. weight * explicit \in Int
      BY <1>2
    <3> HIDE DEF explicit
    <3> QED BY <2>1, <3>1
  <2>3. n \in Int
    <3> HIDE DEF p
    <3> QED BY <2>2
  <2>4. Round(n, 100000) \in Int
    <3> HIDE DEF n
    <3> QED BY <2>3, RoundIs
  <2>5. Importance(m) = AtMost(1000, Round(n, 100000))
    BY DEF Importance
  <2> HIDE DEF n
  <2> QED BY <2>4, <2>5 DEF AtMost
<1>6. importance \in Int
  <2> HIDE DEF weight
  <2>1. weight * 18 \in Int /\ 10 \in Nat \ {0}
    BY <1>2
  <2> QED BY <1>5, <2>1, RoundIs
<1>7. specificity \in Int /\ differentiation \in Int
  BY <1>3
<1>8. Required(m, k) =
        [id |-> <<"req", k>>, key |-> m.key, section |-> m.section,
         quotes |-> {m.quote}, sources |-> {"deterministic"}, semanticOnly |-> FALSE,
         caps |-> caps, importance |-> importance,
         specificity |-> specificity, differentiation |-> differentiation]
  BY DEF Required
<1> HIDE DEF caps, importance, specificity, differentiation
<1> QED BY <1>1, <1>4, <1>6, <1>7, <1>8 DEF Found

\* What one mention adds or replaces.
Notes == [found : Seq(Found), next : Nat]

LEMMA NotedIs ==
  ASSUME NEW notes \in Notes, NEW m \in MentionShape
  PROVE  Noted(notes, m) \in Notes
<1> DEFINE new == Required(m, notes.next)
           same == {i \in DOMAIN notes.found : notes.found[i].key = m.key
                                               /\ notes.found[i].section = m.section}
           list == [i \in DOMAIN notes.found |->
                      IF i \in same /\ m.key /= "generic"
                           /\ new.importance > notes.found[i].importance
                      THEN new ELSE notes.found[i]]
<1>1. notes.found \in Seq(Found) /\ notes.next \in Nat
  BY DEF Notes
<1>2. new \in Found
  BY <1>1, RequiredIs
<1> HIDE DEF new, same
<1>3. CASE same = {}
  <2>1. Noted(notes, m) = [found |-> Append(notes.found, new),
                           next |-> IF m.key = "generic" THEN notes.next ELSE notes.next + 1]
    BY <1>3 DEF Noted, new, same
  <2>2. Append(notes.found, new) \in Seq(Found)
    BY <1>1, <1>2
  <2> QED BY <1>1, <2>1, <2>2 DEF Notes
<1>4. CASE same /= {}
  <2>1. Noted(notes, m) = [notes EXCEPT !.found = list]
    BY <1>4 DEF Noted, new, same
  <2>2. /\ DOMAIN notes.found = 1..Len(notes.found) /\ Len(notes.found) \in Nat
        /\ \A i \in 1..Len(notes.found) : notes.found[i] \in Found
    BY <1>1
  <2>3. list \in [1..Len(notes.found) -> Found]
    BY <1>2, <2>2
  <2>4. list \in Seq(Found)
    <3> HIDE DEF list
    <3> QED BY <2>2, <2>3
  <2> HIDE DEF list
  <2> QED BY <2>1, <2>4 DEF Notes
<1> QED BY <1>3, <1>4

LEMMA RulesFindIs ==
  ASSUME NEW mentions \in Seq(MentionShape)
  PROVE  RulesFind(mentions) \in Seq(Found)
<1> DEFINE n == Len(mentions)
           S == Places(n)
           T == Notes
           base == [found |-> <<>>, next |-> 1]
           Step == [p \in S \X T |-> Noted(p[2], mentions[p[1]])]
           Body(g) == [s \in SUBSET S |->
                         IF s = {} THEN base
                         ELSE LET i == Max(s) IN Noted(g[s \ {i}], mentions[i])]
           f == CHOOSE g : g = Body(g)
<1>1. n \in Nat /\ DOMAIN mentions = S /\ \A i \in S : mentions[i] \in MentionShape
  BY DEF Places
<1>2. base \in T
  BY DEF Notes
<1>3. \A i \in S, t \in T : Step[<<i, t>>] = Noted(t, mentions[i]) /\ Step[<<i, t>>] \in T
  <2> HIDE DEF n
  <2> QED BY <1>1, NotedIs
<1>4. \A s \in SUBSET S : s /= {} => Max(s) \in s
  <2> HIDE DEF n
  <2> QED BY <1>1, PlacesHaveALast
<1>5. f = Body(f)
  <2>1. PICK g \in [SUBSET S -> T] : FoldsPlaces(g, n, base, Step)
    <3>1. \A i \in Places(n), t \in T : Step[<<i, t>>] \in T
      <4> HIDE DEF Step, T
      <4> QED BY <1>3
    <3> HIDE DEF n, T, base, Step
    <3> QED BY <1>1, <1>2, <3>1, FoldOverPlaces
  <2>2. \A s \in SUBSET S :
          g[s] = IF s = {} THEN base ELSE Step[<<Max(s), g[s \ {Max(s)}]>>]
    <3> HIDE DEF n, T, base, Step
    <3> QED BY <2>1 DEF FoldsPlaces
  <2>3. \A s \in SUBSET S : s /= {} => Max(s) \in S /\ g[s \ {Max(s)}] \in T
    <3> HIDE DEF T
    <3> QED BY <1>4, <2>1
  <2>4. \A s \in SUBSET S : s /= {} => g[s] = Noted(g[s \ {Max(s)}], mentions[Max(s)])
    <3> HIDE DEF Step, T
    <3> QED BY <1>3, <2>2, <2>3
  <2>5. g = Body(g)
    <3> HIDE DEF Step, T, base
    <3> QED BY <2>1, <2>2, <2>4
  <2> HIDE DEF Body
  <2> QED BY <2>5
<1>6. \A s \in SUBSET S :
        f[s] = IF s = {} THEN base ELSE Noted(f[s \ {Max(s)}], mentions[Max(s)])
  <2> HIDE DEF f
  <2> QED BY <1>5
<1>7. f[S] \in T
  <2>1. f[{}] \in T
    <3> HIDE DEF f, T, base
    <3> QED BY <1>2, <1>6
  <2>2. \A s \in SUBSET S : s /= {} /\ f[s \ {Max(s)}] \in T => f[s] \in T
    <3>1. \A s \in SUBSET S : s /= {} => mentions[Max(s)] \in MentionShape
      <4> HIDE DEF n
      <4> QED BY <1>1, <1>4
    <3> HIDE DEF f, base
    <3> QED BY <1>6, <3>1, NotedIs
  <2> HIDE DEF f, T, n
  <2> QED BY <1>1, <2>1, <2>2, StaysOverPlaces
<1>8. FoldLeft(Noted, base, mentions) = f[S]
  BY <1>1 DEF FoldLeft, MapThenFoldSet
<1>9. FoldLeft(Noted, base, mentions).found \in Seq(Found)
  <2> HIDE DEF f
  <2> QED BY <1>7, <1>8 DEF Notes
<1> QED BY <1>9, SortedIs DEF RulesFind
\* What is accepted of a model's items: each states a share of importance, and only
\* capabilities that are known.
Kept(kept, items, i) ==
  IF Rejection(items[i]) /= "none" THEN kept
  ELSE Append(kept,
         [id |-> <<"sem", i>>, key |-> "semantic", section |-> "semantic",
          quotes |-> {}, quote |-> items[i].quote, sources |-> {"semantic"},
          semanticOnly |-> TRUE, caps |-> items[i].caps,
          importance |-> items[i].importance, specificity |-> items[i].specificity,
          differentiation |-> Round(items[i].specificity * 75, 100)])

LEMMA SharesAreIntegers == \A n \in Shares : n \in Int /\ n * 75 \in Int
BY DEF Shares

LEMMA KeptIs ==
  ASSUME NEW items \in Seq(ItemShape), NEW i \in Places(Len(items)), NEW kept \in Seq(Offered)
  PROVE  Kept(kept, items, i) \in Seq(Offered)
<1> DEFINE item == items[i]
           new == [id |-> <<"sem", i>>, key |-> "semantic", section |-> "semantic",
                   quotes |-> {}, quote |-> item.quote, sources |-> {"semantic"},
                   semanticOnly |-> TRUE, caps |-> item.caps,
                   importance |-> item.importance, specificity |-> item.specificity,
                   differentiation |-> Round(item.specificity * 75, 100)]
<1>1. item \in ItemShape /\ i \in Nat
  BY DEF Places
<1>2. ASSUME Rejection(item) = "none"
      PROVE  /\ item.caps \subseteq ApprovedCapabilities
             /\ item.importance \in Shares /\ item.specificity \in Shares
  <2> HIDE DEF item
  <2> QED BY <1>2 DEF Rejection, Fraction, Shares
<1>3. ASSUME Rejection(item) = "none" PROVE new \in Offered
  <2>1. item.quote \in STRING
    BY <1>1 DEF ItemShape
  <2>2. Round(item.specificity * 75, 100) \in Int
    <3> HIDE DEF item
    <3>1. item.specificity * 75 \in Int /\ 100 \in Nat \ {0}
      BY <1>2, <1>3, SharesAreIntegers
    <3> QED BY <3>1, RoundIs
  <2> HIDE DEF item
  <2> QED BY <1>1, <1>2, <1>3, <2>1, <2>2 DEF Offered
<1>4. Kept(kept, items, i) = IF Rejection(item) /= "none" THEN kept ELSE Append(kept, new)
  BY DEF Kept
<1> HIDE DEF new, item
<1> QED BY <1>3, <1>4

LEMMA AcceptedIs ==
  ASSUME NEW items \in Seq(ItemShape)
  PROVE  Accepted(items) \in Seq(Offered)
<1> DEFINE n == Len(items)
           S == Places(n)
           T == Seq(Offered)
           base == <<>>
           Step == [p \in S \X T |-> Kept(p[2], items, p[1])]
           seq == [i \in DOMAIN items |-> i]
           Body(g) == [s \in SUBSET S |->
                         IF s = {} THEN base
                         ELSE LET i == Max(s) IN Kept(g[s \ {i}], items, seq[i])]
           f == CHOOSE g : g = Body(g)
<1>1. n \in Nat /\ DOMAIN items = S /\ \A i \in S : seq[i] = i
  BY DEF Places
<1>2. base \in T
  OBVIOUS
<1>3. \A i \in S, t \in T : Step[<<i, t>>] = Kept(t, items, i) /\ Step[<<i, t>>] \in T
  <2> HIDE DEF n
  <2> QED BY <1>1, KeptIs DEF n
<1>4. \A s \in SUBSET S : s /= {} => Max(s) \in s
  <2> HIDE DEF n
  <2> QED BY <1>1, PlacesHaveALast
<1>5. f = Body(f)
  <2>1. PICK g \in [SUBSET S -> T] : FoldsPlaces(g, n, base, Step)
    <3>1. \A i \in Places(n), t \in T : Step[<<i, t>>] \in T
      <4> HIDE DEF Step, T
      <4> QED BY <1>3
    <3> HIDE DEF n, T, base, Step
    <3> QED BY <1>1, <1>2, <3>1, FoldOverPlaces
  <2>2. \A s \in SUBSET S :
          g[s] = IF s = {} THEN base ELSE Step[<<Max(s), g[s \ {Max(s)}]>>]
    <3> HIDE DEF n, T, base, Step
    <3> QED BY <2>1 DEF FoldsPlaces
  <2>3. \A s \in SUBSET S : s /= {} => Max(s) \in S /\ g[s \ {Max(s)}] \in T
    <3> HIDE DEF T
    <3> QED BY <1>4, <2>1
  <2>4. \A s \in SUBSET S : s /= {} => g[s] = Kept(g[s \ {Max(s)}], items, seq[Max(s)])
    <3> HIDE DEF Step, T, seq
    <3> QED BY <1>1, <1>3, <2>2, <2>3
  <2>5. g = Body(g)
    <3> HIDE DEF Step, T, base, seq
    <3> QED BY <2>1, <2>2, <2>4
  <2> HIDE DEF Body
  <2> QED BY <2>5
<1>6. \A s \in SUBSET S :
        f[s] = IF s = {} THEN base ELSE Kept(f[s \ {Max(s)}], items, seq[Max(s)])
  <2> HIDE DEF f, seq
  <2> QED BY <1>5
<1>7. f[S] \in T
  <2>1. f[{}] \in T
    <3> HIDE DEF f, T, base
    <3> QED BY <1>2, <1>6
  <2>2. \A s \in SUBSET S : s /= {} /\ f[s \ {Max(s)}] \in T => f[s] \in T
    <3>1. \A s \in SUBSET S : s /= {} => Max(s) \in S /\ seq[Max(s)] = Max(s)
      <4> HIDE DEF n, seq
      <4> QED BY <1>1, <1>4
    <3> HIDE DEF f, base, seq
    <3> QED BY <1>6, <3>1, KeptIs
  <2> HIDE DEF f, T, n
  <2> QED BY <1>1, <2>1, <2>2, StaysOverPlaces
<1>8. Accepted(items) = f[S]
  BY <1>1 DEF Accepted, FoldLeft, MapThenFoldSet, Kept
<1> HIDE DEF f, S
<1> QED BY <1>7, <1>8

\* What an item of the model supports keeps what the rules know of it.
LEMMA SupportedIs ==
  ASSUME NEW R, R \in {Found, Offered}, NEW r \in R, NEW q \in STRING
  PROVE  LET new == Supported(r, q)
         IN /\ new \in R /\ ~new.semanticOnly
            /\ new.id = r.id /\ new.caps = r.caps /\ new.importance = r.importance
<1>1. CASE R = Found
  BY <1>1 DEF Found, Supported
<1>2. CASE R = Offered
  BY <1>2 DEF Offered, Supported
<1> QED BY <1>1, <1>2

\* The list that the rules' requirements, and strong items, are merged into.
Strong(r) == r.importance >= 620

MergedOf(rules) ==
  {fused \in Seq(Found \cup Offered) :
     /\ \A i \in DOMAIN rules :
          /\ i \in DOMAIN fused
          /\ fused[i].id = rules[i].id /\ fused[i].caps = rules[i].caps
          /\ fused[i].importance = rules[i].importance /\ ~fused[i].semanticOnly
     /\ \A i \in DOMAIN fused : fused[i] \in Found \/ Strong(fused[i])}

LEMMA MergedIs ==
  ASSUME NEW rules \in Seq(Found), NEW fused \in MergedOf(rules), NEW sem \in Offered
  PROVE  Merged(fused, sem) \in MergedOf(rules)
<1> DEFINE R == Found \cup Offered
<1>1. /\ fused \in Seq(R) /\ DOMAIN fused = 1..Len(fused) /\ Len(fused) \in Nat
      /\ DOMAIN rules = 1..Len(rules) /\ Len(rules) \in Nat
      /\ \A i \in DOMAIN fused : fused[i] \in R /\ (fused[i] \in Found \/ Strong(fused[i]))
      /\ \A i \in DOMAIN rules :
           /\ i \in DOMAIN fused
           /\ fused[i].id = rules[i].id /\ fused[i].caps = rules[i].caps
           /\ fused[i].importance = rules[i].importance /\ ~fused[i].semanticOnly
  BY DEF MergedOf
<1>2. sem.importance \in Int /\ sem.quote \in STRING
  <2>1. sem.importance \in Shares /\ sem.quote \in STRING
    BY DEF Offered
  <2> QED BY <2>1, SharesAreIntegers
<1>3. CASE sem.importance < 620 \/ sem.specificity < 600
  BY <1>3 DEF Merged
<1>4. CASE ~(sem.importance < 620 \/ sem.specificity < 600) /\ Matches(fused, sem) = {}
  <2> DEFINE new == Append(fused, sem)
  <2>1. Merged(fused, sem) = new
    BY <1>4 DEF Merged
  <2>2. /\ new \in Seq(R) /\ DOMAIN new = 1..(Len(fused) + 1)
        /\ new[Len(fused) + 1] = sem
        /\ \A i \in DOMAIN fused : new[i] = fused[i]
    <3> HIDE DEF R
    <3>1. sem \in R
      BY DEF R
    <3> QED BY <1>1, <3>1
  <2>3. Strong(sem)
    BY <1>2, <1>4 DEF Strong
  <2> HIDE DEF new, R
  <2>4. \A i \in DOMAIN new : new[i] \in Found \/ Strong(new[i])
    <3> SUFFICES ASSUME NEW i \in 1..(Len(fused) + 1)
                 PROVE  new[i] \in Found \/ Strong(new[i])
      BY <2>2
    <3>1. CASE i \in DOMAIN fused
      BY <1>1, <2>2, <3>1
    <3>2. CASE i = Len(fused) + 1
      BY <2>2, <2>3, <3>2
    <3> QED BY <1>1, <3>1, <3>2
  <2>5. \A i \in DOMAIN rules : i \in DOMAIN new /\ new[i] = fused[i]
    BY <1>1, <2>2
  <2> QED BY <1>1, <2>1, <2>2, <2>4, <2>5 DEF MergedOf, R
<1>5. CASE ~(sem.importance < 620 \/ sem.specificity < 600) /\ Matches(fused, sem) /= {}
  <2> DEFINE first == CHOOSE i \in Matches(fused, sem) : \A j \in Matches(fused, sem) : i <= j
             old == fused[first]
             r == Supported(old, sem.quote)
             new == [fused EXCEPT ![first] = r]
  <2>1. Matches(fused, sem) \in SUBSET Nat /\ Matches(fused, sem) \subseteq DOMAIN fused
    BY <1>1 DEF Matches
  <2>2. first \in DOMAIN fused
    <3>1. \E i \in Matches(fused, sem) : \A j \in Matches(fused, sem) : i <= j
      BY <1>5, <2>1, LeastOf
    <3> QED BY <2>1, <3>1
  <2>3. Merged(fused, sem) = new
    BY <1>5, Zenon DEF Merged
  <2> HIDE DEF first
  <2>4. old \in R /\ (old \in Found \/ Strong(old))
    BY <1>1, <2>2
  <2>5. /\ old \in Found => r \in Found
        /\ r \in R /\ ~r.semanticOnly
        /\ r.id = old.id /\ r.caps = old.caps /\ r.importance = old.importance
    <3> HIDE DEF old
    <3> QED BY <1>2, <2>4, SupportedIs
  <2> HIDE DEF r
  <2>6. /\ new \in Seq(R) /\ DOMAIN new = DOMAIN fused /\ new[first] = r
        /\ \A i \in DOMAIN fused : i /= first => new[i] = fused[i]
    <3> HIDE DEF R
    <3> QED BY <1>1, <2>2, <2>5
  <2> HIDE DEF new
  <2>7. \A i \in DOMAIN new : new[i] \in Found \/ Strong(new[i])
    BY <1>1, <2>4, <2>5, <2>6 DEF Strong
  <2>8. \A i \in DOMAIN rules :
           /\ i \in DOMAIN new
           /\ new[i].id = rules[i].id /\ new[i].caps = rules[i].caps
           /\ new[i].importance = rules[i].importance /\ ~new[i].semanticOnly
    BY <1>1, <2>5, <2>6
  <2> QED BY <2>3, <2>6, <2>7, <2>8 DEF MergedOf
<1> QED BY <1>3, <1>4, <1>5
\* Without an item the rules' list is what it was.
LEMMA FusedIs ==
  ASSUME NEW rules \in Seq(Found), NEW accepted \in Seq(Offered)
  PROVE  /\ FoldLeft(Merged, rules, accepted) \in MergedOf(rules)
         /\ accepted = <<>> => FoldLeft(Merged, rules, accepted) = rules
<1> DEFINE n == Len(accepted)
           S == Places(n)
           T == MergedOf(rules)
           base == rules
           Step == [p \in S \X T |-> Merged(p[2], accepted[p[1]])]
           Body(g) == [s \in SUBSET S |->
                         IF s = {} THEN base
                         ELSE LET i == Max(s) IN Merged(g[s \ {i}], accepted[i])]
           f == CHOOSE g : g = Body(g)
<1>1. n \in Nat /\ DOMAIN accepted = S /\ \A i \in S : accepted[i] \in Offered
  BY DEF Places
<1>2. base \in T
  <2>1. rules \in Seq(Found \cup Offered) /\ \A i \in DOMAIN rules : rules[i] \in Found
    OBVIOUS
  <2>2. \A r \in Found : ~r.semanticOnly
    BY DEF Found
  <2> QED BY <2>1, <2>2 DEF MergedOf
<1>3. \A i \in S, t \in T :
        Step[<<i, t>>] = Merged(t, accepted[i]) /\ Step[<<i, t>>] \in T
  <2> HIDE DEF n
  <2> QED BY <1>1, MergedIs
<1>4. \A s \in SUBSET S : s /= {} => Max(s) \in s
  <2> HIDE DEF n
  <2> QED BY <1>1, PlacesHaveALast
<1>5. f = Body(f)
  <2>1. PICK g \in [SUBSET S -> T] : FoldsPlaces(g, n, base, Step)
    <3>1. \A i \in Places(n), t \in T : Step[<<i, t>>] \in T
      <4> HIDE DEF Step, T
      <4> QED BY <1>3
    <3> HIDE DEF n, T, base, Step
    <3> QED BY <1>1, <1>2, <3>1, FoldOverPlaces
  <2>2. \A s \in SUBSET S :
          g[s] = IF s = {} THEN base ELSE Step[<<Max(s), g[s \ {Max(s)}]>>]
    <3> HIDE DEF n, T, base, Step
    <3> QED BY <2>1 DEF FoldsPlaces
  <2>3. \A s \in SUBSET S : s /= {} => Max(s) \in S /\ g[s \ {Max(s)}] \in T
    <3> HIDE DEF T
    <3> QED BY <1>4, <2>1
  <2>4. \A s \in SUBSET S : s /= {} => g[s] = Merged(g[s \ {Max(s)}], accepted[Max(s)])
    <3> HIDE DEF Step, T
    <3> QED BY <1>3, <2>2, <2>3
  <2>5. g = Body(g)
    <3> HIDE DEF Step, T, base
    <3> QED BY <2>1, <2>2, <2>4
  <2> HIDE DEF Body
  <2> QED BY <2>5
<1>6. \A s \in SUBSET S :
        f[s] = IF s = {} THEN base ELSE Merged(f[s \ {Max(s)}], accepted[Max(s)])
  <2> HIDE DEF f
  <2> QED BY <1>5
<1>7. f[S] \in T
  <2>1. f[{}] \in T
    <3> HIDE DEF f, T, base
    <3> QED BY <1>2, <1>6
  <2>2. \A s \in SUBSET S : s /= {} /\ f[s \ {Max(s)}] \in T => f[s] \in T
    <3>1. \A s \in SUBSET S : s /= {} => accepted[Max(s)] \in Offered
      <4> HIDE DEF n
      <4> QED BY <1>1, <1>4
    <3> HIDE DEF f, base
    <3> QED BY <1>6, <3>1, MergedIs
  <2> HIDE DEF f, T, n
  <2> QED BY <1>1, <2>1, <2>2, StaysOverPlaces
<1>8. FoldLeft(Merged, rules, accepted) = f[S]
  BY <1>1 DEF FoldLeft, MapThenFoldSet
<1>9. accepted = <<>> => f[S] = rules
  <2>1. accepted = <<>> => S = {}
    BY DEF Places
  <2> HIDE DEF f, S
  <2> QED BY <1>6, <2>1
<1> HIDE DEF f, S
<1> QED BY <1>7, <1>8, <1>9

\* fuse_requirements of what the rules found and of what was accepted: each of the
\* rules' requirements is still there, with its importance and its capabilities, and
\* what is added is strong and speaks of known capabilities only.
LEMMA FusionIs ==
  ASSUME NEW rules \in Seq(Found), NEW accepted \in Seq(Offered)
  PROVE  /\ \A r \in ToSet(rules) : \E f \in ToSet(Fused(rules, accepted)) :
              f.id = r.id /\ f.caps = r.caps /\ f.importance = r.importance
                /\ ~f.semanticOnly
         /\ \A f \in ToSet(Fused(rules, accepted)) : f.id[1] = "sem" =>
              /\ accepted /= <<>>
              /\ f.importance >= 620 /\ f.caps \subseteq ApprovedCapabilities
<1> DEFINE fused == FoldLeft(Merged, rules, accepted)
<1>1. /\ fused \in MergedOf(rules)
      /\ accepted = <<>> => fused = rules
  BY FusedIs
<1> HIDE DEF fused
<1>2. fused \in Seq(Found \cup Offered)
  BY <1>1 DEF MergedOf
<1>3. ToSet(Fused(rules, accepted)) = ToSet(fused)
  BY <1>2, SortedIs DEF Fused, fused
<1>4. ASSUME NEW r \in ToSet(rules)
      PROVE  \E f \in ToSet(fused) :
               f.id = r.id /\ f.caps = r.caps /\ f.importance = r.importance
                 /\ ~f.semanticOnly
  <2>1. PICK i \in DOMAIN rules : rules[i] = r
    BY DEF ToSet
  <2>2. /\ i \in DOMAIN fused
        /\ fused[i].id = rules[i].id /\ fused[i].caps = rules[i].caps
        /\ fused[i].importance = rules[i].importance /\ ~fused[i].semanticOnly
    BY <1>1 DEF MergedOf
  <2> QED BY <2>1, <2>2 DEF ToSet
<1>5. \A r \in Found : r.id[1] = "req"
  BY DEF Found
<1>6. ASSUME NEW f \in ToSet(fused), f.id[1] = "sem"
      PROVE  /\ accepted /= <<>>
             /\ f.importance >= 620 /\ f.caps \subseteq ApprovedCapabilities
  <2>1. PICK i \in DOMAIN fused : fused[i] = f
    BY DEF ToSet
  <2>2. f \in Found \cup Offered
    BY <1>2, <2>1
  <2>3. f \notin Found
    BY <1>5, <1>6
  <2>4. f.importance >= 620
    BY <1>1, <2>1, <2>3 DEF MergedOf, Strong
  <2>5. f.caps \subseteq ApprovedCapabilities
    BY <2>2, <2>3 DEF Offered
  <2>6. accepted /= <<>>
    <3> SUFFICES ASSUME accepted = <<>> PROVE FALSE
      OBVIOUS
    <3>1. fused = rules
      BY <1>1
    <3>2. f \in Found
      BY <2>1, <3>1
    <3> QED BY <2>3, <3>2
  <2> QED BY <2>4, <2>5, <2>6
<1> QED BY <1>3, <1>4, <1>6

\* extract_requirements: the same of an analysis, of whatever the posting mentions and
\* the model answers; only an analysis that says the model took part has its items.
THEOREM RulesStand ==
  ASSUME NEW mentions \in Seq(MentionShape), NEW enabled, NEW provider,
         NEW response, response.items \in Seq(ItemShape)
  PROVE  LET analysis == Extract(mentions, enabled, provider, response)
             rules    == ToSet(analysis.rules)
             fused    == ToSet(analysis.requirements)
         IN /\ \A r \in rules : \E f \in fused :
                 f.id = r.id /\ f.caps = r.caps /\ f.importance = r.importance
                   /\ ~f.semanticOnly
            /\ \A f \in fused : f.id[1] = "sem" =>
                 /\ analysis.status = "live_success"
                 /\ f.importance >= 620 /\ f.caps \subseteq ApprovedCapabilities
<1> DEFINE rules == RulesFind(mentions)
           semantic == SemanticOutcome(enabled, provider, response)
<1>1. rules \in Seq(Found)
  BY RulesFindIs
<1>2. /\ semantic.accepted \in Seq(Offered)
      /\ semantic.accepted /= <<>> => semantic.status = "live_success"
  <2>1. Accepted(response.items) \in Seq(Offered)
    BY AcceptedIs
  <2>2. <<>> \in Seq(Offered)
    OBVIOUS
  <2> QED BY <2>1, <2>2 DEF SemanticOutcome
<1>3. /\ Extract(mentions, enabled, provider, response).rules = rules
      /\ Extract(mentions, enabled, provider, response).status = semantic.status
      /\ Extract(mentions, enabled, provider, response).requirements
           = Fused(rules, semantic.accepted)
  BY DEF Extract
<1> HIDE DEF rules, semantic
<1> QED BY <1>1, <1>2, <1>3, FusionIs

-----------------------------------------------------------------------------
\* Tailoring.

\* A swap by a rule, of a block of the base for one that the rest of the base
\* does not have: what is missing and what is new in it.
LEMMA SwapChanges ==
  ASSUME NEW r \in Rules, r.family \in Families, r.removed \in Base[r.family],
         r.inserted \notin Base[r.family] \ {r.removed}
  PROVE  /\ Listed(Swap(r)) = (Base[r.family] \ {r.removed}) \cup {r.inserted}
         /\ Base[r.family] \ Listed(Swap(r)) \subseteq {r.removed}
         /\ Listed(Swap(r)) \ Base[r.family] \subseteq {r.inserted}
         /\ Listed(Swap(r)) /= Base[r.family] =>
              /\ Base[r.family] \ Listed(Swap(r)) = {r.removed}
              /\ Listed(Swap(r)) \ Base[r.family] = {r.inserted}
BY DEF Swap, Listed

\* The pair of a rule is an approved one.
LEMMA RulesAreValid ==
  ASSUME NEW r \in Rules, r.family \in Families
  PROVE  ValidPair(r.family, r.removed, r.inserted)
BY RegistryAssumption DEF ValidPair, Blocks

\* Such a swap passes validate_tailoring_decision.
LEMMA SwapIsValid ==
  ASSUME NEW r \in Rules, r.family \in Families, r.removed \in Base[r.family],
         r.inserted \notin Base[r.family] \ {r.removed}
  PROVE  ValidOrder(r.family, Swap(r), r.removed, r.inserted)
<1>1. Listed(Swap(r)) \subseteq Blocks
  BY SwapChanges, RegistryAssumption
<1>2. /\ AtMostOne(Base[r.family] \ Listed(Swap(r)))
      /\ AtMostOne(Listed(Swap(r)) \ Base[r.family])
  BY SwapChanges DEF AtMostOne
<1> QED
  BY <1>1, <1>2, SwapChanges, RulesAreValid DEF ValidOrder

\* Such a swap shows no project twice.
LEMMA SwapIsDistinct ==
  ASSUME NEW r \in Rules, r.family \in Families, r.removed \in Base[r.family],
         r.inserted \notin Base[r.family] \ {r.removed}
  PROVE  ProjectsAreDistinct(Swap(r))
<1>1. \A a, b \in Base[r.family] : Project(a) = Project(b) => a = b
  BY MastersAreDistinct DEF ProjectsAreDistinct, Unchanged, Listed
<1>2. \A b \in Base[r.family] \ {r.removed} : Project(b) /= Project(r.inserted)
  BY RulesKeepProjectsApart
<1>3. /\ Swap(r).kept = Base[r.family] \ {r.removed}
      /\ Swap(r).added = {r.inserted}
  BY DEF Swap
<1> QED
  BY <1>1, <1>2, <1>3 DEF ProjectsAreDistinct, Listed

\* The master's own order passes too, whatever pair is named with it.
LEMMA UnchangedIsValid ==
  ASSUME NEW f \in Families, NEW removed, NEW inserted
  PROVE  ValidOrder(f, Unchanged(f), removed, inserted) /\ Listed(Unchanged(f)) = Base[f]
<1>1. Listed(Unchanged(f)) = Base[f]
  BY DEF Unchanged, Listed
<1>2. Base[f] \subseteq Blocks
  BY RegistryAssumption DEF Blocks
<1> QED
  BY <1>1, <1>2 DEF ValidOrder

\* A decision of select_tailoring_decision keeps the master or makes one swap that
\* best_substitution may choose.
LEMMA DecisionsKeepOrSwap ==
  ASSUME NEW profile, profile.family \in Families, NEW reading,
         NEW d \in Decisions(profile, reading)
  PROVE  \/ \E status, review : d = KeepMaster(profile, status, review)
         \/ \E r \in Options(profile.family) : d = Tailored(profile, r)
<1>1. CASE profile.decision = "low_confidence"
  BY <1>1 DEF Decisions
<1>2. CASE profile.decision /= "low_confidence" /\ Options(profile.family) = {}
  BY <1>2 DEF Decisions, NotConvinced
<1>3. CASE profile.decision /= "low_confidence" /\ Options(profile.family) /= {}
  <2>1. PICK r \in Options(profile.family) : d = Judged(profile, reading, r)
    BY <1>3 DEF Decisions
  <2> QED
    BY <2>1 DEF Judged, NotConvinced
<1> QED
  BY <1>1, <1>2, <1>3

\* select_tailoring_decision: whatever it decides passes validate_tailoring_decision
\* and shows no project twice, which that validation does not look for.
THEOREM DecisionsAreValid ==
  ASSUME NEW profile, profile.family \in Families, NEW reading,
         NEW d \in Decisions(profile, reading)
  PROVE  /\ ValidOrder(d.family, d.order, d.removed, d.inserted)
         /\ ProjectsAreDistinct(d.order)
<1>1. CASE \E status, review : d = KeepMaster(profile, status, review)
  BY <1>1, UnchangedIsValid, MastersAreDistinct DEF KeepMaster
<1>2. CASE \E r \in Options(profile.family) : d = Tailored(profile, r)
  <2>1. PICK r \in Options(profile.family) : d = Tailored(profile, r)
    BY <1>2
  <2>2. /\ r \in Rules /\ r.family = profile.family
        /\ r.removed \in Base[r.family] /\ r.inserted \notin Base[r.family]
    BY DEF Options, Candidates
  <2>3. /\ d.family = r.family /\ d.order = Swap(r)
        /\ d.removed = r.removed /\ d.inserted = r.inserted
    BY <2>1, <2>2 DEF Tailored
  <2> QED
    BY <2>2, <2>3, SwapIsValid, SwapIsDistinct
<1> QED
  BY <1>1, <1>2, DecisionsKeepOrSwap

\* The master's own order passes the validation of the regeneration worker.
LEMMA UnchangedIsReviewed ==
  ASSUME NEW f \in Families
  PROVE  ReviewedOrderIsValid(f, Unchanged(f))
<1>1. Listed(Unchanged(f)) = Base[f]
  BY UnchangedIsValid
<1> QED
  BY <1>1, UnchangedIsValid, MastersAreDistinct DEF ReviewedOrderIsValid, AtMostOne

\* A replacement that a reviewer may select passes it as well.
LEMMA ReplacementsAreReviewed ==
  ASSUME NEW f \in Families, NEW q \in Replacements(f)
  PROVE  q.family = f /\ ReviewedOrderIsValid(f, q.order)
<1>1. PICK r \in Candidates(f) :
         /\ r.removed \in Base[f] /\ r.inserted \notin Base[f] \ {r.removed}
         /\ q = Queued(f, Swap(r))
  BY DEF Replacements
<1>2. r \in Rules /\ r.family = f
  BY DEF Candidates
<1>3. q.family = f /\ q.order = Swap(r)
  BY <1>1 DEF Queued
<1> DEFINE lost   == Base[f] \ Listed(Swap(r))
           gained == Listed(Swap(r)) \ Base[f]
<1>4. AtMostOne(lost) /\ AtMostOne(gained)
  BY <1>1, <1>2, SwapChanges DEF AtMostOne
<1>5. ValidOrder(f, Swap(r), PickFrom(lost), PickFrom(gained))
  <2>1. CASE Listed(Swap(r)) = Base[f]
    BY <2>1, RegistryAssumption DEF ValidOrder, Blocks
  <2>2. CASE Listed(Swap(r)) /= Base[f]
    <3>1. lost = {r.removed} /\ gained = {r.inserted}
      BY <1>1, <1>2, <2>2, SwapChanges
    <3>2. PickFrom(lost) = r.removed /\ PickFrom(gained) = r.inserted
      BY <3>1 DEF PickFrom
    <3> QED
      BY <1>1, <1>2, <3>2, SwapIsValid
  <2> QED
    BY <2>1, <2>2
<1>6. ProjectsAreDistinct(Swap(r))
  BY <1>1, <1>2, SwapIsDistinct
<1> QED
  BY <1>3, <1>4, <1>5, <1>6 DEF ReviewedOrderIsValid

\* resolve_review and _validate_blocks: what any action on any review can queue
\* passes the validation of the regeneration worker, so that no resolution a user
\* was allowed to make fails for its order.
THEOREM ResolutionsAreValid ==
  ASSUME NEW action, NEW original, NEW named,
         NEW q \in Resolutions(action, original, named)
  PROVE  \/ q = Nothing
         \/ q.family \in Families /\ ReviewedOrderIsValid(q.family, q.order)
<1>1. \/ q = Nothing
      \/ \E f \in Families : q = Queued(f, Unchanged(f)) \/ q \in Replacements(f)
  BY DEF Resolutions
<1>2. ASSUME NEW f \in Families, q = Queued(f, Unchanged(f))
      PROVE  q.family \in Families /\ ReviewedOrderIsValid(q.family, q.order)
  BY <1>2, UnchangedIsReviewed DEF Queued
<1>3. ASSUME NEW f \in Families, q \in Replacements(f)
      PROVE  q.family \in Families /\ ReviewedOrderIsValid(q.family, q.order)
  BY <1>3, ReplacementsAreReviewed
<1> QED
  BY <1>1, <1>2, <1>3
=============================================================================
