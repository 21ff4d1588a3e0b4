--------------------------- MODULE OrderPlan_proofs ---------------------------
(***************************************************************************)
(* Theorems about OrderPlan: the counts it plans with are feasible, its    *)
(* sequence is never stuck and never overdraws an account, its volume is   *)
(* accounted for, and what it shows as executable is accepted, unless it   *)
(* takes the whole of a figure it rounded up.                              *)
(*                                                                         *)
(* Its volumes are sums over accounts, orders and tasks.  What holds of    *)
(* sums comes first; it is shown of the smallest set for which it could    *)
(* fail, as the finite sets are well founded by inclusion.                 *)
(***************************************************************************)
EXTENDS OrderPlan, WellFoundedInduction, SequenceTheorems, FiniteSetTheorems, TLAPS

-----------------------------------------------------------------------------
(* Least numbers, smallest sets.                                            *)

\* A nonempty set of natural numbers has a least element.
LEMMA LeastNat ==
  ASSUME NEW S, S \subseteq Nat, S # {}
  PROVE  \E n \in S : \A m \in S : n <= m
<1> DEFINE R == {p \in Nat \X Nat : p[1] < p[2]}
<1>1. IsWellFoundedOn(R, Nat)
  BY NatLessThanWellFounded DEF OpToRel
<1>2. PICK n \in S : \A m \in S : ~(<<m, n>> \in R)
  BY <1>1, WFMin
<1>3. ASSUME NEW m \in S PROVE n <= m
  <2>1. m \in Nat /\ n \in Nat /\ <<m, n>> \notin R
    BY <1>2
  <2>2. ~(m < n)
    BY <2>1
  <2> QED
    BY <2>1, <2>2
<1> QED
  BY <1>3

\* Among some subsets of a finite set there is a smallest.
LEMMA SmallestSet ==
  ASSUME NEW S, IsFiniteSet(S), NEW T, T \subseteq SUBSET S, T # {}
  PROVE  \E U \in T : \A V \in T : V \subseteq U => V = U
<1>1. T \subseteq FiniteSubsetsOf(S)
  BY FS_Subset DEF FiniteSubsetsOf
<1>2. PICK U \in T : \A V \in T : ~(<<V, U>> \in StrictSubsetOrdering(S))
  BY <1>1, FS_StrictSubsetOrderingWellFounded, WFMin
<1> QED
  BY <1>2 DEF StrictSubsetOrdering

-----------------------------------------------------------------------------
(* Sums over finite sets.                                                   *)

\* h gives the sum of f over every subset of S.
Measures(h, f, S) ==
    /\ h \in [SUBSET S -> Int]
    /\ h[{}] = 0
    /\ \A s \in SUBSET S : \A a \in s : h[s] = f[a] + h[s \ {a}]

\* A finite set has such sums.
LEMMA MeasureExists ==
  ASSUME NEW S, IsFiniteSet(S), NEW f, \A a \in S : f[a] \in Int
  PROVE  \E h : Measures(h, f, S)
<1> DEFINE T == {U \in SUBSET S : ~ \E h : Measures(h, f, U)}
<1>1. SUFFICES ASSUME T # {} PROVE FALSE
  OBVIOUS
<1>2. PICK U \in T : \A V \in T : V \subseteq U => V = U
  <2> HIDE DEF T
  <2>1. T \subseteq SUBSET S
    BY DEF T
  <2> QED
    BY <1>1, <2>1, SmallestSet
<1>3. CASE U = {}
  <2> DEFINE h == [s \in SUBSET {} |-> 0]
  <2>1. Measures(h, f, {})
    BY DEF Measures
  <2> QED
    BY <1>2, <1>3, <2>1
<1>4. CASE U # {}
  <2>1. PICK a \in U : TRUE
    BY <1>4
  <2>2. U \ {a} \in SUBSET S /\ U \ {a} \notin T
    BY <1>2
  <2>3. PICK g : Measures(g, f, U \ {a})
    BY <2>2
  <2>4. f[a] \in Int
    BY <1>2
  <2>5. /\ g[{}] = 0
        /\ \A s \in SUBSET (U \ {a}) : g[s] \in Int
        /\ \A s \in SUBSET (U \ {a}) : \A b \in s : g[s] = f[b] + g[s \ {b}]
    BY <2>3 DEF Measures
  <2> DEFINE h == [s \in SUBSET U |-> IF a \in s THEN f[a] + g[s \ {a}] ELSE g[s]]
  <2>6. h \in [SUBSET U -> Int]
    <3> SUFFICES ASSUME NEW s \in SUBSET U PROVE h[s] \in Int
      OBVIOUS
    <3>1. s \ {a} \in SUBSET (U \ {a})
      OBVIOUS
    <3>2. a \notin s => s \in SUBSET (U \ {a})
      OBVIOUS
    <3> QED
      BY <2>4, <2>5, <3>1, <3>2
  <2>7. h[{}] = 0
    BY <2>5
  <2>8. ASSUME NEW s \in SUBSET U, NEW b \in s
        PROVE  h[s] = f[b] + h[s \ {b}]
    <3>1. s \ {b} \in SUBSET U /\ s \ {a} \in SUBSET (U \ {a})
          /\ (s \ {a}) \ {b} \in SUBSET (U \ {a}) /\ (s \ {a}) \ {b} = (s \ {b}) \ {a}
      OBVIOUS
    <3>2. f[b] \in Int
      BY <1>2
    <3>3. CASE b = a
      BY <3>1, <3>3
    <3>4. CASE b # a /\ a \in s
      <4>1. h[s] = f[a] + g[s \ {a}] /\ h[s \ {b}] = f[a] + g[(s \ {b}) \ {a}]
        BY <3>1, <3>4
      <4>2. g[s \ {a}] = f[b] + g[(s \ {a}) \ {b}]
        BY <2>5, <3>1, <3>4
      <4>3. g[(s \ {a}) \ {b}] \in Int
        BY <2>5, <3>1
      <4>4. h[s \ {b}] = f[a] + g[(s \ {a}) \ {b}]
        BY <3>1, <4>1
      <4> HIDE DEF h
      <4>5. \A x, y, z \in Int : x + (y + z) = y + (x + z)
        OBVIOUS
      <4> QED
        BY <2>4, <3>2, <4>1, <4>2, <4>3, <4>4, <4>5
    <3>5. CASE b # a /\ a \notin s
      <4>1. s \in SUBSET (U \ {a})
        BY <3>5
      <4> QED
        BY <2>5, <3>1, <3>5, <4>1
    <3> QED
      BY <3>3, <3>4, <3>5
  <2>9. Measures(h, f, U)
    BY <2>6, <2>7, <2>8 DEF Measures
  <2> QED
    BY <1>2, <2>9
<1> QED
  BY <1>3, <1>4

\* c takes an element of each subset of S; g adds f's values taken in that order.
Takes(c, S) == \A s \in SUBSET S : s # {} => c[s] \in s
Adds(g, f, c, S) ==
    \A s \in SUBSET S : g[s] = IF s = {} THEN 0 ELSE f[c[s]] + g[s \ {c[s]}]

\* A fold that adds, in whatever order c takes the elements, is that sum.
LEMMA FoldMeasures ==
  ASSUME NEW S, IsFiniteSet(S), NEW f, NEW h, Measures(h, f, S),
         NEW c, Takes(c, S), NEW g, Adds(g, f, c, S)
  PROVE  g[S] = h[S]
<1> DEFINE T == {s \in SUBSET S : g[s] # h[s]}
<1>1. SUFFICES ASSUME T # {} PROVE FALSE
  OBVIOUS
<1>2. PICK U \in T : \A V \in T : V \subseteq U => V = U
  <2> HIDE DEF T
  <2>1. T \subseteq SUBSET S
    BY DEF T
  <2> QED
    BY <1>1, <2>1, SmallestSet
<1>3. U \in SUBSET S /\ g[U] # h[U]
  OBVIOUS
<1>4. U # {}
  BY <1>3 DEF Measures, Adds
<1>5. c[U] \in U
  BY <1>3, <1>4 DEF Takes
<1>6. U \ {c[U]} \in SUBSET S /\ U \ {c[U]} # U
  BY <1>3, <1>5
<1>7. g[U \ {c[U]}] = h[U \ {c[U]}]
  BY <1>2, <1>6
<1>8. h[U] = f[c[U]] + h[U \ {c[U]}]
  BY <1>3, <1>5 DEF Measures
<1>9. g[U] = f[c[U]] + g[U \ {c[U]}]
  BY <1>3, <1>4 DEF Adds
<1> QED
  BY <1>3, <1>7, <1>8, <1>9

\* SumFunctionOnSet is that sum.
LEMMA SumIsMeasure ==
  ASSUME NEW S, IsFiniteSet(S), NEW f, NEW h, Measures(h, f, S)
  PROVE  SumFunctionOnSet(f, S) = h[S]
<1> DEFINE iter[s \in SUBSET S] ==
             IF s = {} THEN 0
             ELSE LET x == CHOOSE x \in s : TRUE IN f[x] + iter[s \ {x}]
           c == [s \in SUBSET S |-> CHOOSE x \in s : TRUE]
           IsIter(g) == g = [s \in SUBSET S |-> IF s = {} THEN 0 ELSE f[c[s]] + g[s \ {c[s]}]]
<1>1. \A s \in SUBSET S : s # {} => c[s] \in s
  OBVIOUS
<1>2. IsIter(h)
  <2> HIDE DEF c
  <2>1. \A s \in SUBSET S : h[s] = IF s = {} THEN 0 ELSE f[c[s]] + h[s \ {c[s]}]
    BY <1>1 DEF Measures
  <2>2. h = [s \in SUBSET S |-> h[s]]
    BY DEF Measures
  <2> QED
    BY <2>1, <2>2
<1>3. iter = CHOOSE g : g = [s \in SUBSET S |->
         IF s = {} THEN 0 ELSE LET x == CHOOSE x \in s : TRUE IN f[x] + g[s \ {x}]]
  OBVIOUS
<1>4. \A g : IsIter(g) <=> g = [s \in SUBSET S |->
         IF s = {} THEN 0 ELSE LET x == CHOOSE x \in s : TRUE IN f[x] + g[s \ {x}]]
  OBVIOUS
<1>5. IsIter(iter)
  <2> HIDE DEF IsIter, c
  <2> QED
    BY <1>2, <1>4
<1>6. \A s \in SUBSET S : iter[s] = IF s = {} THEN 0 ELSE f[c[s]] + iter[s \ {c[s]}]
  <2> HIDE DEF c, iter
  <2> QED
    BY <1>5
<1>7. iter[S] = h[S]
  <2> HIDE DEF c, iter, IsIter
  <2>1. Takes(c, S) /\ Adds(iter, f, c, S)
    BY <1>1, <1>6 DEF Takes, Adds
  <2> QED
    BY <2>1, FoldMeasures
<1>8. SumFunctionOnSet(f, S) = iter[S]
  BY DEF SumFunctionOnSet, FoldFunctionOnSet, MapThenFoldSet
<1> QED
  BY <1>7, <1>8

\* The integers f gives to the elements of S.
IsIntOn(f, S) == \A a \in S : f[a] \in Int

\* There is one function that gives the sum of f over every subset of S.
LEMMA SumsAre ==
  ASSUME NEW S, IsFiniteSet(S), NEW f, IsIntOn(f, S)
  PROVE  \E h : /\ Measures(h, f, S)
                /\ \A U \in SUBSET S : SumFunctionOnSet(f, U) = h[U]
<1>1. PICK h : Measures(h, f, S)
  BY MeasureExists DEF IsIntOn
<1>2. ASSUME NEW U \in SUBSET S PROVE SumFunctionOnSet(f, U) = h[U]
  <2> DEFINE g == [s \in SUBSET U |-> h[s]]
  <2>1. Measures(g, f, U)
    <3>1. SUBSET U \subseteq SUBSET S
      OBVIOUS
    <3>2. g \in [SUBSET U -> Int]
      BY <1>1, <3>1 DEF Measures
    <3>3. g[{}] = 0
      BY <1>1 DEF Measures
    <3>4. ASSUME NEW s \in SUBSET U, NEW a \in s PROVE g[s] = f[a] + g[s \ {a}]
      <4>1. s \in SUBSET S /\ s \ {a} \in SUBSET U
        BY <3>1
      <4> QED
        BY <1>1, <4>1 DEF Measures
    <3> QED
      BY <3>2, <3>3, <3>4 DEF Measures
  <2>2. IsFiniteSet(U)
    BY FS_Subset
  <2>3. SumFunctionOnSet(f, U) = g[U]
    <3> HIDE DEF g
    <3> QED
      BY <2>1, <2>2, SumIsMeasure
  <2> QED
    BY <2>3
<1> QED
  BY <1>1, <1>2

\* A sum of integers is one; one of them can be taken out of it; nothing sums up
\* to zero.
LEMMA SumLaw ==
  ASSUME NEW S, IsFiniteSet(S), NEW f, IsIntOn(f, S)
  PROVE  /\ SumFunctionOnSet(f, {}) = 0
         /\ \A U \in SUBSET S : SumFunctionOnSet(f, U) \in Int
         /\ \A U \in SUBSET S : \A a \in U :
               SumFunctionOnSet(f, U) = f[a] + SumFunctionOnSet(f, U \ {a})
<1>1. PICK h : /\ Measures(h, f, S)
               /\ \A U \in SUBSET S : SumFunctionOnSet(f, U) = h[U]
  BY SumsAre
<1>2. \A U \in SUBSET S : \A a \in U : U \ {a} \in SUBSET S
  OBVIOUS
<1>3. SumFunctionOnSet(f, {}) = 0
  BY <1>1 DEF Measures
<1>4. \A U \in SUBSET S : SumFunctionOnSet(f, U) \in Int
  BY <1>1 DEF Measures
<1> QED
  BY <1>1, <1>2, <1>3, <1>4 DEF Measures

\* Functions that agree have the same sum.
LEMMA SumSame ==
  ASSUME NEW S, IsFiniteSet(S), NEW f, NEW g, IsIntOn(f, S), \A a \in S : f[a] = g[a]
  PROVE  SumFunctionOnSet(f, S) = SumFunctionOnSet(g, S)
<1>1. PICK h : /\ Measures(h, f, S)
               /\ \A U \in SUBSET S : SumFunctionOnSet(f, U) = h[U]
  BY SumsAre
<1>2. Measures(h, g, S)
  <2>1. \A s \in SUBSET S : \A a \in s : f[a] = g[a]
    OBVIOUS
  <2> QED
    BY <1>1, <2>1 DEF Measures
<1>3. SumFunctionOnSet(g, S) = h[S]
  BY <1>2, SumIsMeasure
<1> QED
  BY <1>1, <1>3

\* A sum of zeros is zero.
LEMMA SumZero ==
  ASSUME NEW S, IsFiniteSet(S), NEW f, \A a \in S : f[a] = 0
  PROVE  SumFunctionOnSet(f, S) = 0
<1> DEFINE h == [s \in SUBSET S |-> 0]
<1>1. Measures(h, f, S)
  BY DEF Measures
<1>2. h[S] = 0
  OBVIOUS
<1> HIDE DEF h
<1> QED
  BY <1>1, <1>2, SumIsMeasure

\* The sum of two functions has the sum of their sums.
LEMMA SumAdd ==
  ASSUME NEW S, IsFiniteSet(S), NEW f, NEW g, NEW e, IsIntOn(f, S), IsIntOn(g, S),
         \A a \in S : e[a] = f[a] + g[a]
  PROVE  SumFunctionOnSet(e, S) = SumFunctionOnSet(f, S) + SumFunctionOnSet(g, S)
<1>1. PICK h : /\ Measures(h, f, S)
               /\ \A U \in SUBSET S : SumFunctionOnSet(f, U) = h[U]
  BY SumsAre
<1>2. PICK k : /\ Measures(k, g, S)
               /\ \A U \in SUBSET S : SumFunctionOnSet(g, U) = k[U]
  BY SumsAre
<1> DEFINE m == [s \in SUBSET S |-> h[s] + k[s]]
<1>3. Measures(m, e, S)
  <2>1. \A s \in SUBSET S : h[s] \in Int /\ k[s] \in Int
    BY <1>1, <1>2 DEF Measures
  <2>2. m \in [SUBSET S -> Int]
    BY <2>1
  <2>3. m[{}] = 0
    BY <1>1, <1>2 DEF Measures
  <2>4. ASSUME NEW s \in SUBSET S, NEW a \in s PROVE m[s] = e[a] + m[s \ {a}]
    <3>1. s \ {a} \in SUBSET S /\ a \in S
      OBVIOUS
    <3>2. h[s] = f[a] + h[s \ {a}] /\ k[s] = g[a] + k[s \ {a}]
      BY <1>1, <1>2 DEF Measures
    <3>3. f[a] \in Int /\ g[a] \in Int /\ h[s \ {a}] \in Int /\ k[s \ {a}] \in Int
      BY <2>1, <3>1 DEF IsIntOn
    <3>4. m[s] = h[s] + k[s] /\ m[s \ {a}] = h[s \ {a}] + k[s \ {a}] /\ e[a] = f[a] + g[a]
      BY <3>1
    <3>5. \A w, x, y, z \in Int : (w + x) + (y + z) = (w + y) + (x + z)
      OBVIOUS
    <3> HIDE DEF m
    <3> QED
      BY <3>2, <3>3, <3>4, <3>5
  <2> QED
    BY <2>2, <2>3, <2>4 DEF Measures
<1>4. m[S] = h[S] + k[S]
  OBVIOUS
<1> HIDE DEF m
<1>5. SumFunctionOnSet(e, S) = m[S]
  BY <1>3, SumIsMeasure
<1> QED
  BY <1>1, <1>2, <1>4, <1>5

\* Summing over other names of the elements gives the same.
LEMMA SumRenamed ==
  ASSUME NEW S, NEW T, IsFiniteSet(S), IsFiniteSet(T), NEW f, NEW g, IsIntOn(f, S),
         NEW b \in [T -> S], \A s \in S : \E t \in T : b[t] = s,
         \A t, u \in T : t # u => b[t] # b[u],
         \A t \in T : g[t] = f[b[t]]
  PROVE  SumFunctionOnSet(g, T) = SumFunctionOnSet(f, S)
<1>1. PICK h : /\ Measures(h, f, S)
               /\ \A U \in SUBSET S : SumFunctionOnSet(f, U) = h[U]
  BY SumsAre
<1> DEFINE Image(U) == {b[t] : t \in U}
           k == [U \in SUBSET T |-> h[Image(U)]]
<1>2. \A U \in SUBSET T : Image(U) \in SUBSET S
  OBVIOUS
<1>3. Measures(k, g, T)
  <2>1. k \in [SUBSET T -> Int]
    <3>1. \A U \in SUBSET S : h[U] \in Int
      BY <1>1 DEF Measures
    <3> HIDE DEF Image
    <3> QED
      BY <1>2, <3>1
  <2>2. k[{}] = 0
    <3>1. Image({}) = {}
      OBVIOUS
    <3> HIDE DEF Image
    <3> QED
      BY <1>1, <3>1 DEF Measures
  <2>3. ASSUME NEW U \in SUBSET T, NEW t \in U PROVE k[U] = g[t] + k[U \ {t}]
    <3>1. Image(U \ {t}) = Image(U) \ {b[t]}
      <4>1. \A u \in U \ {t} : b[u] # b[t]
        OBVIOUS
      <4> QED
        BY <4>1
    <3>2. b[t] \in Image(U) /\ Image(U) \in SUBSET S /\ U \ {t} \in SUBSET T
      OBVIOUS
    <3> HIDE DEF Image
    <3>3. h[Image(U)] = f[b[t]] + h[Image(U) \ {b[t]}]
      BY <1>1, <3>2 DEF Measures
    <3> QED
      BY <3>1, <3>2, <3>3
  <2> QED
    BY <2>1, <2>2, <2>3 DEF Measures
<1>4. k[T] = h[S]
  <2>1. Image(T) = S
    OBVIOUS
  <2> QED
    BY <2>1
<1> HIDE DEF k
<1> QED
  BY <1>1, <1>3, <1>4, SumIsMeasure

\* What is zero does not count.
LEMMA SumWithin ==
  ASSUME NEW S, IsFiniteSet(S), NEW f, IsIntOn(f, S), NEW T \in SUBSET S,
         \A a \in S \ T : f[a] = 0
  PROVE  SumFunctionOnSet(f, T) = SumFunctionOnSet(f, S)
<1>1. PICK h : /\ Measures(h, f, S)
               /\ \A U \in SUBSET S : SumFunctionOnSet(f, U) = h[U]
  BY SumsAre
<1> DEFINE C == {U \in SUBSET S : T \subseteq U /\ h[U] # h[T]}
<1>2. C = {}
  <2>1. SUFFICES ASSUME C # {} PROVE FALSE
    OBVIOUS
  <2>2. PICK U \in C : \A V \in C : V \subseteq U => V = U
    <3>1. C \subseteq SUBSET S
      OBVIOUS
    <3> HIDE DEF C
    <3> QED
      BY <2>1, <3>1, SmallestSet
  <2>3. PICK a \in U \ T : TRUE
    <3>1. T \subseteq U /\ h[U] # h[T]
      BY <2>2
    <3>2. U # T
      BY <3>1
    <3> QED
      BY <3>1, <3>2
  <2>4. U \ {a} \in SUBSET S /\ T \subseteq U \ {a} /\ U \ {a} \notin C
    <3>1. U \ {a} # U /\ U \ {a} \subseteq U
      BY <2>3
    <3>2. U \in SUBSET S /\ T \subseteq U
      BY <2>2
    <3> HIDE DEF C
    <3> QED
      BY <2>2, <2>3, <3>1, <3>2
  <2>5. h[U \ {a}] = h[T]
    BY <2>4
  <2>6. h[U] = f[a] + h[U \ {a}] /\ f[a] = 0 /\ h[U \ {a}] \in Int
    BY <1>1, <2>2, <2>3, <2>4 DEF Measures
  <2> QED
    BY <2>2, <2>5, <2>6
<1>3. h[S] = h[T]
  <2>1. S \in SUBSET S /\ S \notin C
    BY <1>2
  <2> QED
    BY <2>1
<1> QED
  BY <1>1, <1>3

\* A sum of natural numbers is one, and no smaller than any of them.
LEMMA SumNat ==
  ASSUME NEW S, IsFiniteSet(S), NEW f, \A a \in S : f[a] \in Nat
  PROVE  /\ SumFunctionOnSet(f, S) \in Nat
         /\ \A a \in S : f[a] <= SumFunctionOnSet(f, S)
<1>1. IsIntOn(f, S)
  BY DEF IsIntOn
<1>2. PICK h : /\ Measures(h, f, S)
               /\ \A U \in SUBSET S : SumFunctionOnSet(f, U) = h[U]
  BY <1>1, SumsAre
<1> DEFINE C == {U \in SUBSET S : h[U] \notin Nat}
<1>3. C = {}
  <2>1. SUFFICES ASSUME C # {} PROVE FALSE
    OBVIOUS
  <2>2. PICK U \in C : \A V \in C : V \subseteq U => V = U
    <3>1. C \subseteq SUBSET S
      OBVIOUS
    <3> HIDE DEF C
    <3> QED
      BY <2>1, <3>1, SmallestSet
  <2>3. U # {}
    <3>1. h[U] \notin Nat
      BY <2>2
    <3>2. h[{}] = 0
      BY <1>2 DEF Measures
    <3> QED
      BY <3>1, <3>2
  <2>4. PICK a \in U : TRUE
    BY <2>3
  <2>5. U \in SUBSET S /\ U \ {a} \in SUBSET S /\ U \ {a} \notin C
    <3>1. U \ {a} # U /\ U \ {a} \subseteq U
      BY <2>4
    <3>2. U \in SUBSET S
      BY <2>2
    <3> HIDE DEF C
    <3> QED
      BY <2>2, <2>4, <3>1, <3>2
  <2>6. h[U \ {a}] \in Nat
    BY <2>5
  <2>7. h[U] = f[a] + h[U \ {a}] /\ f[a] \in Nat
    BY <1>2, <2>4, <2>5 DEF Measures
  <2> QED
    BY <2>2, <2>6, <2>7
<1>4. \A U \in SUBSET S : h[U] \in Nat
  BY <1>3
<1>5. ASSUME NEW a \in S PROVE f[a] <= h[S]
  <2>1. h[S] = f[a] + h[S \ {a}] /\ h[S \ {a}] \in Nat /\ f[a] \in Nat
    BY <1>2, <1>4 DEF Measures
  <2> QED
    BY <2>1
<1> QED
  BY <1>2, <1>4, <1>5

\* The sum of what is nowhere less is not less.
LEMMA SumLess ==
  ASSUME NEW S, IsFiniteSet(S), NEW f, NEW g, IsIntOn(f, S), IsIntOn(g, S),
         \A a \in S : f[a] <= g[a]
  PROVE  SumFunctionOnSet(f, S) <= SumFunctionOnSet(g, S)
<1> DEFINE d == [a \in S |-> g[a] - f[a]]
<1>1. \A a \in S : d[a] \in Nat /\ g[a] = f[a] + d[a]
  BY DEF IsIntOn
<1>2. IsIntOn(d, S)
  BY <1>1 DEF IsIntOn
<1> HIDE DEF d
<1>3. SumFunctionOnSet(g, S) = SumFunctionOnSet(f, S) + SumFunctionOnSet(d, S)
  BY <1>1, <1>2, SumAdd
<1>4. SumFunctionOnSet(d, S) \in Nat
  BY <1>1, SumNat
<1>5. SumFunctionOnSet(f, S) \in Int
  BY SumLaw
<1> QED
  BY <1>3, <1>4, <1>5

\* Changing one term changes the sum by as much.
LEMMA SumChange ==
  ASSUME NEW S, IsFiniteSet(S), NEW f, NEW g, IsIntOn(f, S), IsIntOn(g, S),
         NEW a \in S, \A b \in S \ {a} : f[b] = g[b]
  PROVE  SumFunctionOnSet(g, S) = SumFunctionOnSet(f, S) - f[a] + g[a]
<1>1. /\ SumFunctionOnSet(f, S) = f[a] + SumFunctionOnSet(f, S \ {a})
      /\ SumFunctionOnSet(g, S) = g[a] + SumFunctionOnSet(g, S \ {a})
      /\ SumFunctionOnSet(f, S \ {a}) \in Int
  BY SumLaw
<1>2. SumFunctionOnSet(f, S \ {a}) = SumFunctionOnSet(g, S \ {a})
  <2>1. IsFiniteSet(S \ {a})
    BY FS_Subset
  <2>2. IsIntOn(f, S \ {a})
    BY DEF IsIntOn
  <2> QED
    BY <2>1, <2>2, SumSame
<1>3. f[a] \in Int /\ g[a] \in Int
  BY DEF IsIntOn
<1> QED
  BY <1>1, <1>2, <1>3

-----------------------------------------------------------------------------
(* Sums over sequences.                                                     *)

\* The last term can be taken out of a sum.
LEMMA SumLast ==
  ASSUME NEW n \in Nat, NEW f, IsIntOn(f, 1 .. (n + 1)), NEW g,
         \A i \in 1 .. n : g[i] = f[i]
  PROVE  SumFunctionOnSet(f, 1 .. (n + 1)) = SumFunctionOnSet(g, 1 .. n) + f[n + 1]
<1>1. IsFiniteSet(1 .. (n + 1)) /\ IsFiniteSet(1 .. n)
  BY FS_Interval
<1>2. n + 1 \in 1 .. (n + 1) /\ (1 .. (n + 1)) \ {n + 1} = 1 .. n
  OBVIOUS
<1>3. /\ SumFunctionOnSet(f, 1 .. (n + 1))
           = f[n + 1] + SumFunctionOnSet(f, (1 .. (n + 1)) \ {n + 1})
      /\ SumFunctionOnSet(f, (1 .. (n + 1)) \ {n + 1}) \in Int
  BY <1>1, <1>2, SumLaw
<1>4. IsIntOn(f, 1 .. n)
  BY DEF IsIntOn
<1>5. SumFunctionOnSet(f, 1 .. n) = SumFunctionOnSet(g, 1 .. n)
  BY <1>1, <1>4, SumSame
<1>6. f[n + 1] \in Int
  BY <1>2 DEF IsIntOn
<1>7. SumFunctionOnSet(f, (1 .. (n + 1)) \ {n + 1}) = SumFunctionOnSet(g, 1 .. n)
  BY <1>2, <1>5
<1> QED
  BY <1>3, <1>6, <1>7

\* What a list of orders adds up to.
LEMMA SeqSumLaw ==
  ASSUME NEW s \in Seq(Nat)
  PROVE  /\ SeqSum(s) = SumFunctionOnSet(s, 1 .. Len(s))
         /\ SeqSum(s) \in Nat
         /\ \A i \in DOMAIN s : s[i] <= SeqSum(s)
<1>1. DOMAIN s = 1 .. Len(s) /\ Len(s) \in Nat /\ \A i \in 1 .. Len(s) : s[i] \in Nat
  OBVIOUS
<1>2. SeqSum(s) = SumFunctionOnSet(s, 1 .. Len(s))
  BY <1>1 DEF SeqSum, SumFunction
<1>3. IsFiniteSet(1 .. Len(s))
  BY <1>1, FS_Interval
<1> QED
  BY <1>1, <1>2, <1>3, SumNat

\* No orders add up to nothing.
LEMMA SeqSumEmpty == SeqSum(<<>>) = 0
<1>1. <<>> \in Seq(Nat) /\ Len(<<>>) = 0 /\ 1 .. 0 = {}
  OBVIOUS
<1>2. SeqSum(<<>>) = SumFunctionOnSet(<<>>, {})
  BY <1>1, SeqSumLaw
<1>3. IsFiniteSet({}) /\ IsIntOn(<<>>, {})
  BY FS_EmptySet DEF IsIntOn
<1> QED
  BY <1>2, <1>3, SumLaw

\* Orders are volumes, volumes are numbers.
LEMMA SeqsOfNat == \A S : S \subseteq Nat => Seq(S) \subseteq Seq(Nat)
<1> SUFFICES ASSUME NEW S, S \subseteq Nat, NEW s \in Seq(S) PROVE s \in Seq(Nat)
  OBVIOUS
<1>1. Len(s) \in Nat /\ s = [i \in 1 .. Len(s) |-> s[i]] /\ \A i \in 1 .. Len(s) : s[i] \in Nat
  OBVIOUS
<1> QED
  BY <1>1, IsASeq

\* One place taken out of a list.
LEMMA RemoveAtLaw ==
  ASSUME NEW S, NEW s \in Seq(S), NEW i \in 1 .. Len(s)
  PROVE  /\ RemoveAt(s, i) \in Seq(S)
         /\ Len(RemoveAt(s, i)) = Len(s) - 1
         /\ \A j \in 1 .. (Len(s) - 1) :
               RemoveAt(s, i)[j] = IF j < i THEN s[j] ELSE s[j + 1]
<1> DEFINE n == Len(s)
           f == SubSeq(s, 1, i - 1)
           g == SubSeq(s, i + 1, n)
<1>1. n \in Nat /\ i \in Nat /\ 1 <= i /\ i <= n /\ \A j \in 1 .. n : s[j] \in S
  OBVIOUS
<1>2. /\ f \in Seq(S) /\ Len(f) = i - 1 /\ \A j \in 1 .. (i - 1) : f[j] = s[j]
  <2>1. 1 \in 1 .. n + 1 /\ i - 1 \in 0 .. n
    BY <1>1
  <2>2. f = [j \in 1 .. (i - 1) |-> s[j]]
    BY <1>1
  <2>3. \A j \in 1 .. (i - 1) : s[j] \in S
    BY <1>1
  <2>4. i - 1 \in Nat
    BY <1>1
  <2> HIDE DEF f
  <2> QED
    BY <2>2, <2>3, <2>4, IsASeq
<1>3. /\ g \in Seq(S) /\ Len(g) = n - i /\ \A j \in 1 .. (n - i) : g[j] = s[i + j]
  <2>1. g = [j \in 1 .. (n - i) |-> s[i + j]]
    BY <1>1
  <2>2. \A j \in 1 .. (n - i) : s[i + j] \in S
    BY <1>1
  <2>3. n - i \in Nat
    BY <1>1
  <2> HIDE DEF g, n
  <2> QED
    BY <2>1, <2>2, <2>3, IsASeq
<1>4. RemoveAt(s, i) = f \o g
  BY DEF RemoveAt
<1> HIDE DEF f, g
<1>5. /\ f \o g \in Seq(S) /\ Len(f \o g) = n - 1
      /\ \A j \in 1 .. (n - 1) : (f \o g)[j] = IF j <= i - 1 THEN f[j] ELSE g[j - (i - 1)]
  <2>1. Len(f) + Len(g) = n - 1
    BY <1>1, <1>2, <1>3
  <2> HIDE DEF n
  <2> QED
    BY <1>1, <1>2, <1>3, <2>1, ConcatProperties
<1>6. ASSUME NEW j \in 1 .. (n - 1)
      PROVE  (f \o g)[j] = IF j < i THEN s[j] ELSE s[j + 1]
  <2>1. CASE j < i
    <3>1. j \in 1 .. (i - 1) /\ j <= i - 1
      BY <1>1, <2>1
    <3> QED
      BY <1>2, <1>5, <2>1, <3>1
  <2>2. CASE ~(j < i)
    <3>1. j - (i - 1) \in 1 .. (n - i) /\ ~(j <= i - 1) /\ i + (j - (i - 1)) = j + 1
      BY <1>1, <2>2
    <3> HIDE DEF n
    <3> QED
      BY <1>3, <1>5, <2>2, <3>1
  <2> QED
    BY <2>1, <2>2
<1> QED
  BY <1>4, <1>5, <1>6

\* An order taken out of a list takes its volume with it, and leaves the others.
LEMMA RemoveFirstLaw ==
  ASSUME NEW S, S \subseteq Nat, NEW s \in Seq(S), NEW v \in ToSet(s)
  PROVE  /\ RemoveFirst(s, v) \in Seq(S)
         /\ SeqSum(RemoveFirst(s, v)) = SeqSum(s) - v
<1> DEFINE I == {i \in 1 .. Len(s) : s[i] = v}
           i == SelectInSeq(s, LAMBDA w : w = v)
           n == Len(s)
           r == RemoveFirst(s, v)
<1>1. n \in Nat /\ DOMAIN s = 1 .. n /\ \A j \in 1 .. n : s[j] \in S /\ s[j] \in Int
  <2>1. n \in Nat /\ DOMAIN s = 1 .. n /\ \A j \in 1 .. n : s[j] \in S
    OBVIOUS
  <2>2. ASSUME NEW j \in 1 .. n PROVE s[j] \in Int
    <3>1. s[j] \in Nat
      BY <2>1
    <3> QED
      BY <3>1
  <2> QED
    BY <2>1, <2>2
<1>2. \E j \in 1 .. Len(s) : s[j] = v
  BY DEF ToSet
<1>3. i \in I
  <2>1. I # {} /\ I \subseteq Nat
    BY <1>2
  <2>2. i = Min(I)
    BY <2>1 DEF SelectInSeq
  <2> HIDE DEF I, i
  <2> QED
    BY <2>1, <2>2, LeastNat DEF Min
<1>4. r = RemoveAt(s, i)
  BY <1>2 DEF RemoveFirst
<1>5. i \in 1 .. n /\ s[i] = v
  BY <1>3
<1> HIDE DEF i, I, r
<1>6. /\ r \in Seq(S) /\ Len(r) = n - 1
      /\ \A j \in 1 .. (n - 1) : r[j] = IF j < i THEN s[j] ELSE s[j + 1]
  BY <1>4, <1>5, RemoveAtLaw
<1> DEFINE T == 1 .. (n - 1)
           U == (1 .. n) \ {i}
           b == [j \in T |-> IF j < i THEN j ELSE j + 1]
<1>7. IsFiniteSet(T) /\ IsFiniteSet(1 .. n) /\ IsFiniteSet(U) /\ IsIntOn(s, U)
      /\ IsIntOn(s, 1 .. n)
  <2>1. IsFiniteSet(1 .. n) /\ IsFiniteSet(T)
    BY <1>1, <1>5, FS_Interval
  <2> QED
    BY <1>1, <2>1, FS_Subset DEF IsIntOn
<1>8. /\ b \in [T -> U]
      /\ \A j \in U : \E t \in T : b[t] = j
      /\ \A t, u \in T : t # u => b[t] # b[u]
      /\ \A t \in T : r[t] = s[b[t]]
  <2>1. n \in Nat /\ i \in 1 .. n
    BY <1>1, <1>5
  <2>2. b \in [T -> U]
    BY <2>1
  <2>3. ASSUME NEW j \in U PROVE \E t \in T : b[t] = j
    <3>1. CASE j < i
      <4>1. j \in T /\ b[j] = j
        BY <2>1, <3>1
      <4> QED
        BY <4>1
    <3>2. CASE ~(j < i)
      <4>1. j - 1 \in T /\ b[j - 1] = j
        BY <2>1, <3>2
      <4> QED
        BY <4>1
    <3> QED
      BY <3>1, <3>2
  <2>4. \A t, u \in T : t # u => b[t] # b[u]
    BY <2>1
  <2>5. \A t \in T : r[t] = s[b[t]]
    BY <1>6
  <2> QED
    BY <2>2, <2>3, <2>4, <2>5
<1>9. SumFunctionOnSet(r, T) = SumFunctionOnSet(s, U)
  <2> HIDE DEF T, U, b
  <2> QED
    BY <1>7, <1>8, SumRenamed
<1>10. SumFunctionOnSet(s, 1 .. n) = v + SumFunctionOnSet(s, U)
       /\ SumFunctionOnSet(s, U) \in Int
  BY <1>5, <1>7, SumLaw
<1>11. r \in Seq(Nat) /\ s \in Seq(Nat) /\ v \in Int
  BY <1>1, <1>5, <1>6, SeqsOfNat
<1>12. SeqSum(r) = SumFunctionOnSet(r, T) /\ SeqSum(s) = SumFunctionOnSet(s, 1 .. n)
  BY <1>6, <1>11, SeqSumLaw
<1>13. SeqSum(r) = SeqSum(s) - v
  BY <1>9, <1>10, <1>11, <1>12
<1> QED
  BY <1>6, <1>13 DEF r

-----------------------------------------------------------------------------
(* Counts.                                                                  *)

\* The quotient is the largest number of times y fits into x.
LEMMA DivLaw ==
  ASSUME NEW x \in Nat, NEW y \in Nat \ {0}, NEW n \in Nat
  PROVE  /\ x \div y \in Nat
         /\ n <= x \div y <=> n * y <= x
<1> DEFINE q == x \div y
<1>1. q \in Nat /\ q * y <= x /\ x < q * y + y
  OBVIOUS
<1> HIDE DEF q
<1>2. CASE n <= q
  <2>1. n * y <= q * y
    BY <1>1, <1>2
  <2> QED
    BY <1>1, <1>2, <2>1
<1>3. CASE n >= q + 1
  <2>1. n * y >= (q + 1) * y
    BY <1>1, <1>3
  <2>2. (q + 1) * y = q * y + y
    BY <1>1
  <2> QED
    BY <1>1, <1>3, <2>1, <2>2
<1> QED
  BY <1>1, <1>2, <1>3

\* The smallest multiple of y that is not below x.
LEMMA CeilLaw ==
  ASSUME NEW x \in Nat, NEW y \in Nat \ {0}, NEW n \in Nat
  PROVE  /\ CeilDiv(x, y) \in Nat
         /\ CeilDiv(x, y) <= n <=> x <= n * y
<1> DEFINE q == (x + y - 1) \div y
<1>1. q \in Nat /\ q * y <= x + y - 1 /\ x + y - 1 < q * y + y
  OBVIOUS
<1>2. CeilDiv(x, y) = q
  BY DEF CeilDiv
<1> HIDE DEF q
<1>3. CASE q <= n
  <2>1. q * y <= n * y
    BY <1>1, <1>3
  <2> QED
    BY <1>1, <1>2, <1>3, <2>1
<1>4. CASE q >= n + 1
  <2>1. q * y >= (n + 1) * y
    BY <1>1, <1>4
  <2>2. (n + 1) * y = n * y + y
    OBVIOUS
  <2>3. n * y \in Nat
    OBVIOUS
  <2> QED
    BY <1>1, <1>2, <1>4, <2>1, <2>2, <2>3
<1> QED
  BY <1>1, <1>3, <1>4

\* A volume can be cut into n orders of legal size.
Carries(n, v) == n * MinOrder <= v /\ v <= n * MaxOrder

\* The bounds of a volume are those of the numbers of orders that can make it up.
LEMMA BoundsCarry ==
  ASSUME NEW v \in Nat, NEW n \in Nat
  PROVE  /\ CountBounds(v).least \in Nat /\ CountBounds(v).most \in Nat
         /\ Carries(n, v) <=> CountBounds(v).least <= n /\ n <= CountBounds(v).most
<1>1. MinOrder \in Nat \ {0} /\ MaxOrder \in Nat \ {0}
  BY SizeAssumption
<1>2. CASE v = 0
  <2>1. n * MinOrder <= 0 <=> n = 0
    BY <1>1
  <2>2. n = 0 => n * MaxOrder = 0
    BY <1>1
  <2> QED
    BY <1>1, <1>2, <2>1, <2>2 DEF CountBounds, Carries
<1>3. CASE v # 0
  <2>1. /\ v \div MinOrder \in Nat /\ CeilDiv(v, MaxOrder) \in Nat
        /\ n <= v \div MinOrder <=> n * MinOrder <= v
        /\ CeilDiv(v, MaxOrder) <= n <=> v <= n * MaxOrder
    BY <1>1, DivLaw, CeilLaw
  <2>2. /\ CountBounds(v).least = AtLeast(1, CeilDiv(v, MaxOrder))
        /\ CountBounds(v).most = v \div MinOrder
    BY <1>3 DEF CountBounds
  <2>3. n = 0 => ~(v <= n * MaxOrder)
    BY <1>1, <1>3
  <2> QED
    BY <2>1, <2>2, <2>3 DEF Carries, AtLeast
<1> QED
  BY <1>2, <1>3

\* The share of one side, rounded, is some number.
LEMMA RoundIsInt ==
  ASSUME NEW x \in Int, NEW y \in Nat \ {0}
  PROVE  Round(x, y) \in Int
<1>1. 2 * x + y \in Int /\ 2 * y \in Nat \ {0}
  OBVIOUS
<1> QED
  BY <1>1 DEF Round

\* The counts exist exactly when there are any, and carry both volumes.
LEMMA CountsFit ==
  ASSUME NEW count \in Nat \ {0}, NEW buy \in Nat, NEW sell \in Nat, buy + sell > 0
  PROVE  LET c == TradeCounts(count, buy, sell)
         IN  IF c.feasible
             THEN /\ c.buy \in Nat /\ c.sell \in Nat
                  /\ Carries(c.buy, buy) /\ Carries(c.sell, sell)
                  /\ c.buy + c.sell \in count .. MaxCount
             ELSE \A b, s \in 0 .. MaxCount :
                      b + s \in count .. MaxCount => ~ (Carries(b, buy) /\ Carries(s, sell))
<1> DEFINE b == CountBounds(buy)
           s == CountBounds(sell)
           most == AtMost(MaxCount, b.most + s.most)
           total == AtLeast(count, b.least + s.least)
           share == Round(total * buy, buy + sell)
           buys0 == AtMost(AtMost(b.most, total - s.least),
                           AtLeast(AtLeast(b.least, total - s.most), share))
           infeasible == \/ b.least > b.most \/ s.least > s.most
                         \/ b.least + s.least > most \/ count > most
           c == TradeCounts(count, buy, sell)
<1>1. b.least \in Nat /\ b.most \in Nat /\ s.least \in Nat /\ s.most \in Nat
  BY BoundsCarry
<1>2. c = IF infeasible THEN [feasible |-> FALSE]
          ELSE [feasible |-> TRUE, buy |-> buys0, sell |-> total - buys0]
  BY DEF TradeCounts
<1>3. MaxCount \in Nat
  BY SizeAssumption
<1>4. total \in Nat /\ (total = count \/ total = b.least + s.least) /\ total >= count
      /\ total >= b.least + s.least
  BY <1>1 DEF AtLeast
<1>5. share \in Int
  <2>1. total * buy \in Int /\ buy + sell \in Nat \ {0}
    BY <1>4
  <2> HIDE DEF total
  <2> QED
    BY <2>1, RoundIsInt
<1>6. most \in Nat /\ most <= MaxCount /\ most <= b.most + s.most
      /\ (most = MaxCount \/ most = b.most + s.most)
  BY <1>1, <1>3 DEF AtMost
<1> HIDE DEF share, total, most
<1>7. CASE infeasible
  <2>1. ~ c.feasible
    BY <1>2, <1>7
  <2>2. ASSUME NEW n \in 0 .. MaxCount, NEW m \in 0 .. MaxCount,
               n + m \in count .. MaxCount, Carries(n, buy), Carries(m, sell)
        PROVE  FALSE
    <3>1. b.least <= n /\ n <= b.most /\ s.least <= m /\ m <= s.most
      <4>1. n \in Nat /\ m \in Nat
        BY <1>3
      <4> QED
        BY <2>2, <4>1, BoundsCarry
    <3> HIDE DEF b, s
    <3> QED
      BY <1>1, <1>3, <1>6, <1>7, <2>2, <3>1
  <2> QED
    BY <2>1, <2>2
<1>8. CASE ~ infeasible
  <2>1. c = [feasible |-> TRUE, buy |-> buys0, sell |-> total - buys0]
    BY <1>2, <1>8
  <2>2. /\ buys0 \in Nat /\ total - buys0 \in Nat
        /\ b.least <= buys0 /\ buys0 <= b.most
        /\ s.least <= total - buys0 /\ total - buys0 <= s.most
    <3> HIDE DEF b, s
    <3> QED
      BY <1>1, <1>3, <1>4, <1>5, <1>6, <1>8 DEF AtMost, AtLeast
  <2>3. Carries(buys0, buy) /\ Carries(total - buys0, sell)
    <3> HIDE DEF buys0
    <3> QED
      BY <2>2, BoundsCarry
  <2>4. buys0 + (total - buys0) \in count .. MaxCount
    <3> HIDE DEF buys0, b, s
    <3> QED
      BY <1>1, <1>3, <1>4, <1>6, <1>8, <2>2
  <2> QED
    BY <2>1, <2>2, <2>3, <2>4
<1> QED
  BY <1>7, <1>8

\* Half of what one number exceeds another by.
LEMMA HalfIsNat ==
  ASSUME NEW x \in Nat, NEW y \in Nat, x >= y
  PROVE  (x - y) \div 2 \in Nat
<1>1. x - y \in Nat
  OBVIOUS
<1> QED
  BY <1>1, DivLaw

\* A side that buys more than it sells.
LEMMA SelfCyclingTyped ==
  ASSUME NEW g \in Nat \ {0}, NEW n \in Nat, NEW m \in Nat
  PROVE  LET t == SelfCyclingTotals(g, n, m)
         IN  t.buy \in Nat /\ t.sell \in Nat
<1> DEFINE x == AtLeast(g, n + 2 * m)
           h == (x - n) \div 2
<1>1. x \in Nat /\ x >= n
  BY DEF AtLeast
<1>2. h \in Nat
  <2> HIDE DEF x
  <2> QED
    BY <1>1, HalfIsNat
<1> HIDE DEF h
<1>3. AtLeast(m, h) \in Nat
  BY <1>2 DEF AtLeast
<1>4. SelfCyclingTotals(g, n, m) = [buy |-> n + AtLeast(m, h), sell |-> AtLeast(m, h)]
  BY DEF SelfCyclingTotals, h
<1> QED
  BY <1>3, <1>4

\* A distribution sells all it is asked to, and buys what is left.
LEMMA DistributionTyped ==
  ASSUME NEW g \in Nat, NEW n \in Nat
  PROVE  LET t == DistributionTotals(g, n)
         IN  /\ t.buy \in Nat /\ t.sell \in Nat
             /\ g > 0 => t.buy + t.sell > 0
<1> DEFINE x == AtLeast(g, n)
           h == (x - n) \div 2
<1>1. x \in Nat /\ x >= n /\ x >= g
  BY DEF AtLeast
<1>2. h \in Nat
  <2> HIDE DEF x
  <2> QED
    BY <1>1, HalfIsNat
<1>3. DistributionTotals(g, n) = [buy |-> h, sell |-> IF h > 0 THEN n + h ELSE x]
  BY DEF DistributionTotals
<1> HIDE DEF h, x
<1> QED
  BY <1>1, <1>2, <1>3

\* The volume of a distribution, whatever number of buys it was found with.
LEMMA VolumeTyped ==
  ASSUME NEW r \in Requests
  PROVE  DistributionVolume(r) \in Nat /\ DistributionVolume(r) > 0
<1>1. r.gross \in Nat \ {0} /\ r.net \in Nat /\ r.count \in Nat \ {0}
  BY RequestAssumption
<1>2. MinOrder \in Nat \ {0}
  BY SizeAssumption
<1> DEFINE floor == AtLeast(AtLeast(r.gross, r.net), r.count * MinOrder)
           Needed(b) ==
             LET s == r.count - b
             IN  AtLeast(AtLeast(floor,
                     IF b > 0 THEN r.net + 2 * b * MinOrder ELSE 0),
                     IF s > 0 THEN 2 * s * MinOrder - r.net ELSE 0)
           Fits(b) ==
             LET s == r.count - b
                 t == DistributionTotals(Needed(b), r.net)
             IN  /\ Needed(b) <= r.net + 2 * b * MaxOrder
                 /\ s > 0 => Needed(b) <= 2 * s * MaxOrder - r.net
                 /\ TradeCounts(r.count, t.buy, t.sell).feasible
           fitting == {b \in 0..r.count : Fits(b)}
<1>3. floor \in Nat /\ floor > 0
  <2>1. r.count * MinOrder \in Nat
    BY <1>1, <1>2
  <2> QED
    BY <1>1, <2>1 DEF AtLeast
<1>4. \A b \in 0 .. r.count : Needed(b) \in Nat /\ Needed(b) > 0
  <2> SUFFICES ASSUME NEW b \in 0 .. r.count PROVE Needed(b) \in Nat /\ Needed(b) > 0
    OBVIOUS
  <2>1. b \in Nat /\ r.count - b \in Nat
    BY <1>1
  <2>2. 2 * b * MinOrder \in Nat /\ 2 * (r.count - b) * MinOrder \in Nat
    BY <1>2, <2>1
  <2> HIDE DEF floor
  <2> QED
    BY <1>1, <1>3, <2>1, <2>2 DEF AtLeast
<1>5. DistributionVolume(r) =
        IF r.gross < r.net \/ fitting = {} THEN floor ELSE Needed(Min(fitting))
  BY DEF DistributionVolume
<1> HIDE DEF floor, Needed, Fits
<1>6. CASE fitting = {}
  BY <1>3, <1>5, <1>6
<1>7. CASE fitting # {}
  <2>1. fitting \subseteq Nat /\ fitting \subseteq 0 .. r.count
    BY <1>1
  <2> HIDE DEF fitting
  <2>2. Min(fitting) \in fitting
    BY <1>7, <2>1, LeastNat DEF Min
  <2> QED
    BY <1>3, <1>4, <1>5, <2>1, <2>2
<1> QED
  BY <1>6, <1>7

\* What is to be bought and sold is not nothing.
LEMMA TotalsTyped ==
  ASSUME NEW r \in Requests
  PROVE  LET t == Totals(r)
         IN  t.buy \in Nat /\ t.sell \in Nat /\ t.buy + t.sell > 0
<1>1. r.gross \in Nat \ {0} /\ r.net \in Nat /\ r.leastSell \in Nat
      /\ r.leastSell >= MinOrder /\ MinOrder \in Nat \ {0}
  BY RequestAssumption, SizeAssumption
<1>2. CASE r.objective = "distribution"
  <2> DEFINE v == DistributionVolume(r)
             n == IF r.gross < r.net THEN v ELSE r.net
  <2>1. v \in Nat /\ v > 0
    BY VolumeTyped
  <2>2. n \in Nat
    BY <1>1, <2>1
  <2>3. Totals(r) = DistributionTotals(v, n)
    BY <1>2 DEF Totals
  <2> HIDE DEF v, n
  <2> QED
    BY <2>1, <2>2, <2>3, DistributionTyped
<1>3. CASE r.objective # "distribution"
  <2> DEFINE m == IF r.net >= r.gross THEN 0 ELSE r.leastSell
             t == Totals(r)
  <2>1. m \in Nat
    BY <1>1
  <2>2. t = SelfCyclingTotals(r.gross, r.net, m)
    BY <1>3 DEF Totals
  <2>3. t.buy = r.net + t.sell /\ t.sell >= m
    <3>1. t.sell = AtLeast(m, (AtLeast(r.gross, r.net + 2 * m) - r.net) \div 2)
          /\ t.buy = r.net + t.sell
      BY <2>2 DEF SelfCyclingTotals
    <3> DEFINE h == (AtLeast(r.gross, r.net + 2 * m) - r.net) \div 2
    <3>2. AtLeast(r.gross, r.net + 2 * m) \in Nat
          /\ AtLeast(r.gross, r.net + 2 * m) >= r.net
      BY <1>1, <2>1 DEF AtLeast
    <3>3. h \in Nat
      BY <1>1, <3>2, HalfIsNat
    <3> HIDE DEF h, m, t
    <3> QED
      BY <2>1, <3>1, <3>3 DEF AtLeast, h
  <2>4. t.buy \in Nat /\ t.sell \in Nat
    <3> HIDE DEF m, t
    <3> QED
      BY <1>1, <2>1, <2>2, SelfCyclingTyped
  <2>5. r.net > 0 \/ m > 0
    BY <1>1
  <2> HIDE DEF m, t
  <2>6. t.buy + t.sell > 0
    BY <1>1, <2>1, <2>3, <2>4, <2>5
  <2> QED
    BY <2>4, <2>6 DEF t
<1> QED
  BY <1>2, <1>3

\* The counts of a request, whatever it asks for.
LEMMA FeasibleOfRequest ==
  ASSUME request \in Requests
  PROVE  CountsAreFeasible
<1> DEFINE t == Totals(request)
<1>1. t.buy \in Nat /\ t.sell \in Nat /\ t.buy + t.sell > 0
      /\ request.count \in Nat \ {0}
  BY TotalsTyped, RequestAssumption
<1> HIDE DEF t
<1>2. LET c == TradeCounts(request.count, t.buy, t.sell)
      IN  IF c.feasible
          THEN /\ c.buy \in Nat /\ c.sell \in Nat
               /\ Carries(c.buy, t.buy) /\ Carries(c.sell, t.sell)
               /\ c.buy + c.sell \in request.count .. MaxCount
          ELSE \A b, s \in 0 .. MaxCount :
                   b + s \in request.count .. MaxCount =>
                       ~ (Carries(b, t.buy) /\ Carries(s, t.sell))
  BY <1>1, CountsFit
<1> QED
  BY <1>2 DEF CountsAreFeasible, t, Carries

\* For any request, sizes and count: the counts that the planner plans with exist
\* exactly when some counts within the bounds can carry both volumes, and are such
\* counts (calculateFeasibleTradeCounts).
THEOREM CountsFeasible == Spec => []CountsAreFeasible
<1>1. Init => request \in Requests
  BY DEF Init
<1>2. request \in Requests /\ [Next]_vars => (request \in Requests)'
  BY DEF Next, Specify, Allocate, GiveUp, Place, EndSequence, Slice, EndSlices, vars
<1>3. request \in Requests => CountsAreFeasible
  BY FeasibleOfRequest
<1> QED
  BY <1>1, <1>2, <1>3, PTL DEF Spec

-----------------------------------------------------------------------------
(* Orders of a side.                                                        *)

\* Lists of orders of some accounts.
Lists(g) == \E S \in SUBSET Accounts : g \in [S -> Seq(Volumes)]

\* What all accounts together have in their lists.
LeftOf(g) == SumFunctionOnSet([a \in Accounts |-> Sold(g, a)], Accounts)

\* A list is of numbers, and so is what it adds up to.
LEMMA ListsLaw ==
  ASSUME NEW g, Lists(g)
  PROVE  /\ DOMAIN g \subseteq Accounts
         /\ \A a \in DOMAIN g : g[a] \in Seq(Volumes) /\ g[a] \in Seq(Nat)
         /\ \A a : Sold(g, a) \in Nat
         /\ LeftOf(g) \in Nat
<1>1. PICK S \in SUBSET Accounts : g \in [S -> Seq(Volumes)]
  BY DEF Lists
<1>2. Volumes \subseteq Nat
  BY SizeAssumption DEF Volumes
<1>3. \A a \in DOMAIN g : g[a] \in Seq(Volumes) /\ g[a] \in Seq(Nat)
  <2>1. Seq(Volumes) \subseteq Seq(Nat)
    BY <1>2, SeqsOfNat
  <2> QED
    BY <1>1, <2>1
<1>4. \A a : Sold(g, a) \in Nat
  BY <1>3, SeqSumLaw DEF Sold
<1> DEFINE f == [a \in Accounts |-> Sold(g, a)]
<1>5. \A a \in Accounts : f[a] \in Nat
  BY <1>4
<1> HIDE DEF f
<1>6. SumFunctionOnSet(f, Accounts) \in Nat
  BY <1>5, AccountAssumption, SumNat
<1> QED
  BY <1>1, <1>3, <1>4, <1>6 DEF LeftOf, f

\* One account's turn to be chosen.
AddAccount(least, target, n, got, a) ==
    IF \/ Cardinality(got.accounts) >= AtMost(n, target \div MinOrder)
       \/ got.least + least[a] > target
    THEN got
    ELSE [accounts |-> got.accounts \cup {a}, least |-> got.least + least[a]]

\* h gives the accounts chosen after each of the first k turns.
IsChosen(h, order, least, target, n, k) ==
    h = [i \in 0 .. k |-> IF i = 0 THEN [accounts |-> {}, least |-> 0]
                          ELSE AddAccount(least, target, n, h[i - 1], order[i])]

\* There is such a function, so that the one taken is one.
LEMMA ChosenIsFunction ==
  ASSUME NEW order, NEW least, NEW target, NEW n, NEW k \in Nat
  PROVE  \E h : IsChosen(h, order, least, target, n, k)
<1> DEFINE T == {j \in Nat : ~ \E h : IsChosen(h, order, least, target, n, j)}
<1>1. SUFFICES ASSUME T # {} PROVE FALSE
  OBVIOUS
<1>2. PICK j \in T : \A m \in T : j <= m
  BY <1>1, LeastNat
<1>3. CASE j = 0
  <2> DEFINE h == [i \in 0 .. 0 |-> [accounts |-> {}, least |-> 0]]
  <2>1. IsChosen(h, order, least, target, n, 0)
    BY DEF IsChosen
  <2> QED
    BY <1>2, <1>3, <2>1
<1>4. CASE j # 0
  <2>1. j - 1 \in Nat /\ j - 1 \notin T
    BY <1>2, <1>4
  <2>2. PICK g : IsChosen(g, order, least, target, n, j - 1)
    BY <2>1
  <2> DEFINE h == [i \in 0 .. j |->
                     IF i = j THEN AddAccount(least, target, n, g[j - 1], order[j])
                     ELSE g[i]]
  <2>3. \A i \in 0 .. j : h[i] = IF i = 0 THEN [accounts |-> {}, least |-> 0]
                                 ELSE AddAccount(least, target, n, h[i - 1], order[i])
    <3> DEFINE start == [accounts |-> {}, least |-> 0]
               New(x, a) == AddAccount(least, target, n, x, a)
    <3>1. g = [i \in 0 .. j - 1 |-> IF i = 0 THEN start ELSE New(g[i - 1], order[i])]
      BY <2>2 DEF IsChosen
    <3> HIDE DEF start, New
    <3>2. \A i \in 0 .. j - 1 : g[i] = IF i = 0 THEN start ELSE New(g[i - 1], order[i])
      BY <3>1
    <3>3. \A i \in 0 .. j : h[i] = IF i = j THEN New(g[j - 1], order[j]) ELSE g[i]
      BY DEF New
    <3>4. \A i \in 0 .. j : i # j => i \in 0 .. j - 1
      BY <2>1
    <3>5. \A i \in 0 .. j : i # 0 => i - 1 \in 0 .. j /\ i - 1 # j
      BY <2>1
    <3> HIDE DEF h
    <3>6. \A i \in 0 .. j : h[i] = IF i = 0 THEN start ELSE New(h[i - 1], order[i])
      BY <1>4, <3>2, <3>3, <3>4, <3>5
    <3> QED
      BY <3>6 DEF start, New
  <2>4. IsChosen(h, order, least, target, n, j)
    BY <2>3 DEF IsChosen
  <2> QED
    BY <1>2, <2>4
<1> QED
  BY <1>3, <1>4

\* Only accounts that have their turn are chosen.
LEMMA ChosenAreOf ==
  ASSUME NEW C, NEW order \in Seq(C), NEW least, NEW target, NEW n
  PROVE  Chosen(order, least, target, n) \subseteq C
<1> DEFINE k == Len(order)
           Add(got, a) ==
               IF \/ Cardinality(got.accounts) >= AtMost(n, target \div MinOrder)
                  \/ got.least + least[a] > target
               THEN got
               ELSE [accounts |-> got.accounts \cup {a}, least |-> got.least + least[a]]
           chosen[i \in 0 .. k] == IF i = 0 THEN [accounts |-> {}, least |-> 0]
                                   ELSE Add(chosen[i - 1], order[i])
<1>1. k \in Nat /\ \A i \in 1 .. k : order[i] \in C
  OBVIOUS
<1>2. \E h : IsChosen(h, order, least, target, n, k)
  <2> HIDE DEF k
  <2> QED
    BY <1>1, ChosenIsFunction
<1>3. IsChosen(chosen, order, least, target, n, k)
  <2> HIDE DEF k
  <2> QED
    BY <1>2 DEF IsChosen, AddAccount
<1> DEFINE T == {i \in 0 .. k : ~(chosen[i].accounts \subseteq C)}
<1>4. T = {}
  <2> HIDE DEF k, chosen
  <2>1. SUFFICES ASSUME T # {} PROVE FALSE
    OBVIOUS
  <2>2. PICK i \in T : \A m \in T : i <= m
    <3>1. T \subseteq Nat
      BY <1>1
    <3> HIDE DEF T
    <3> QED
      BY <2>1, <3>1, LeastNat
  <2>3. chosen[i] = IF i = 0 THEN [accounts |-> {}, least |-> 0]
                    ELSE AddAccount(least, target, n, chosen[i - 1], order[i])
    BY <1>3, <2>2 DEF IsChosen
  <2>4. i # 0
    BY <2>2, <2>3
  <2>5. i - 1 \in 0 .. k /\ i - 1 \notin T /\ i \in 1 .. k
    BY <1>1, <2>2, <2>4
  <2>6. chosen[i - 1].accounts \subseteq C
    BY <2>5
  <2> QED
    BY <1>1, <2>2, <2>3, <2>4, <2>5, <2>6 DEF AddAccount
<1>5. chosen[k].accounts \subseteq C
  BY <1>1, <1>4
<1>6. Chosen(order, least, target, n) = chosen[k].accounts
  BY DEF Chosen
<1> QED
  BY <1>5, <1>6

\* A way to cut an amount into orders.
LEMMA SplitLaw ==
  ASSUME NEW v, NEW s \in Splits(v)
  PROVE  s \in Seq(Volumes) /\ SeqSum(s) = v
<1>1. s \in BoundedSeq(Volumes, v \div MinOrder) /\ SeqSum(s) = v
  BY DEF Splits
<1>2. PICK m \in 0 .. (v \div MinOrder) : s \in [1 .. m -> Volumes]
  BY <1>1 DEF BoundedSeq, SeqOf
<1>3. s \in Seq(Volumes)
  <2>1. m \in Nat
    BY <1>2
  <2>2. s = [i \in 1 .. m |-> s[i]] /\ \A i \in 1 .. m : s[i] \in Volumes
    BY <1>2
  <2> QED
    BY <2>1, <2>2, IsASeq
<1> QED
  BY <1>1, <1>3

\* Only some accounts have orders, none more than it can take.
Within(g, C, cap) == DOMAIN g \subseteq C /\ \A a \in DOMAIN g : Sold(g, a) <= cap[a]

\* What is allocated is of the accounts asked, within what each can take, and adds
\* up to the volume asked for.
LEMMA AllocateLaw ==
  ASSUME NEW C \in SUBSET Accounts, NEW cap, NEW priority, NEW least, NEW target, NEW n,
         NEW g \in AllocateAccountOrders(C, cap, priority, least, target, n),
         g # NoOrders
  PROVE  Lists(g) /\ Within(g, C, cap) /\ LeftOf(g) = target
<1> DEFINE Result(f) == IF Cuts(f, n) = {} THEN {NoOrders} ELSE Cuts(f, n)
           From(S) == IF Total(cap, S) < target THEN {NoOrders}
                      ELSE UNION {Result(f) : f \in Amounts(S, least, cap, target)}
           Orders == {p \in SetToSeqs(C) :
                        IsSorted(p, LAMBDA a, b : priority[a] >= priority[b])}
<1>0. Orders \subseteq SetToSeqs(C)
  <2> DEFINE P(p) == IsSorted(p, LAMBDA a, b : priority[a] >= priority[b])
  <2>1. Orders = {p \in SetToSeqs(C) : P(p)}
    OBVIOUS
  <2> HIDE DEF P, Orders
  <2> QED
    BY <2>1
<1>1. \E o \in SetToSeqs(C) : g \in From(Chosen(o, least, target, n))
  <2>1. \E o \in Orders : g \in From(Chosen(o, least, target, n))
    BY Zenon DEF AllocateAccountOrders
  <2> HIDE DEF Orders, From
  <2> QED
    BY <1>0, <2>1
<1> HIDE DEF Orders
<1>12. PICK o \in SetToSeqs(C) : g \in From(Chosen(o, least, target, n))
  BY <1>1
<1>2. o \in Seq(C)
  <2>1. o \in [1 .. Cardinality(C) -> C]
    BY DEF SetToSeqs
  <2>2. Cardinality(C) \in Nat
    BY AccountAssumption, FS_Subset, FS_CardinalityType
  <2>3. PICK m \in Nat : m = Cardinality(C)
    BY <2>2
  <2>4. o \in [1 .. m -> C]
    BY <2>1, <2>3
  <2>5. o = [i \in 1 .. m |-> o[i]] /\ \A i \in 1 .. m : o[i] \in C
    BY <2>4
  <2> QED
    BY <2>3, <2>4
<1> DEFINE S == Chosen(o, least, target, n)
<1>3. S \subseteq C
  BY <1>2, ChosenAreOf
<1> HIDE DEF S
<1>4. PICK f \in Amounts(S, least, cap, target) : g \in Cuts(f, n)
  <2>1. g \in From(S)
    BY <1>12 DEF S
  <2> QED
    BY <2>1
<1>5. /\ f \in [S -> MinOrder .. target] /\ \A a \in S : f[a] <= cap[a]
      /\ SumFunctionOnSet(f, S) = target
  BY DEF Amounts, Total
<1>6. DOMAIN g = S /\ \A a \in S : g[a] \in Splits(f[a])
  BY <1>4, <1>5 DEF Cuts
<1>7. \A a \in S : g[a] \in Seq(Volumes) /\ SeqSum(g[a]) = f[a]
  BY <1>6, SplitLaw
<1>8. g \in [S -> Seq(Volumes)]
  <2>1. g = [a \in S |-> g[a]]
    BY <1>4, <1>5, <1>6 DEF Cuts
  <2> QED
    BY <1>7, <2>1
<1>9. Lists(g)
  BY <1>3, <1>8 DEF Lists
<1>10. \A a \in S : Sold(g, a) = f[a]
  BY <1>6, <1>7 DEF Sold
<1>11. LeftOf(g) = target
  <2> DEFINE e == [a \in Accounts |-> Sold(g, a)]
  <2>0. \A a : Sold(g, a) \in Nat
    BY <1>9, ListsLaw
  <2>1. IsIntOn(e, Accounts)
    <3>0. \A a \in Accounts : e[a] = Sold(g, a)
      OBVIOUS
    <3>1. \A a \in Accounts : e[a] \in Int
      <4>1. \A a \in Accounts : Sold(g, a) \in Int
        BY <2>0
      <4> HIDE DEF e
      <4> QED
        BY <3>0, <4>1
    <3> HIDE DEF e
    <3> QED
      BY <3>1 DEF IsIntOn
  <2>2. \A a \in Accounts \ S : e[a] = 0
    BY <1>6 DEF Sold
  <2>3. \A a \in S : f[a] = e[a]
    BY <1>3, <1>10
  <2>4. S \in SUBSET Accounts /\ IsFiniteSet(S) /\ IsFiniteSet(Accounts)
    BY <1>3, AccountAssumption, FS_Subset
  <2>5. IsIntOn(f, S)
    BY <2>1, <2>3, <2>4 DEF IsIntOn
  <2> HIDE DEF e
  <2>6. SumFunctionOnSet(e, S) = SumFunctionOnSet(e, Accounts)
    BY <2>1, <2>2, <2>4, SumWithin
  <2>7. SumFunctionOnSet(f, S) = SumFunctionOnSet(e, S)
    BY <2>3, <2>4, <2>5, SumSame
  <2> QED
    BY <1>5, <2>6, <2>7 DEF LeftOf, e
<1> QED
  BY <1>3, <1>5, <1>6, <1>9, <1>10, <1>11 DEF Within

-----------------------------------------------------------------------------
(* Tasks and plans.                                                         *)

Part == [account : Accounts, volume : Nat]
PlanTask == [side : {"sell", "buy"}, parts : Seq(Part)]

\* What the parts of a task trade, and what one account trades of it.
PartsSum(parts) == SumFunction([i \in DOMAIN parts |-> parts[i].volume])
PartsOf(parts, a) ==
    SumFunction([i \in DOMAIN parts |->
                    IF parts[i].account = a THEN parts[i].volume ELSE 0])

\* What the tasks of one side trade.
SideOf(tasks, side) ==
    SumFunction([i \in DOMAIN tasks |->
                    IF tasks[i].side = side THEN Volume(tasks[i]) ELSE 0])

\* One more term adds to a sum.
LEMMA SumAppended ==
  ASSUME NEW n \in Nat, NEW f, NEW g, DOMAIN f = 1 .. n, DOMAIN g = 1 .. (n + 1),
         IsIntOn(g, 1 .. (n + 1)), \A i \in 1 .. n : f[i] = g[i]
  PROVE  SumFunction(g) = SumFunction(f) + g[n + 1]
<1>1. SumFunctionOnSet(g, 1 .. (n + 1)) = SumFunctionOnSet(f, 1 .. n) + g[n + 1]
  BY SumLast
<1> QED
  BY <1>1 DEF SumFunction

\* A sum of numbers is a number.
LEMMA SumOfNat ==
  ASSUME NEW n \in Nat, NEW f, DOMAIN f = 1 .. n, \A i \in 1 .. n : f[i] \in Nat
  PROVE  SumFunction(f) \in Nat
<1>1. IsFiniteSet(1 .. n)
  BY FS_Interval
<1>2. SumFunctionOnSet(f, 1 .. n) \in Nat
  BY <1>1, SumNat
<1> QED
  BY <1>2 DEF SumFunction

\* A sum of integers is one.
LEMMA SumOfInt ==
  ASSUME NEW n \in Nat, NEW f, DOMAIN f = 1 .. n, IsIntOn(f, 1 .. n)
  PROVE  SumFunction(f) \in Int
<1>1. IsFiniteSet(1 .. n)
  BY FS_Interval
<1>2. SumFunctionOnSet(f, 1 .. n) \in Int
  BY <1>1, SumLaw
<1> QED
  BY <1>2 DEF SumFunction

\* No terms make no sum.
LEMMA SumOfNone ==
  ASSUME NEW f, DOMAIN f = {}
  PROVE  SumFunction(f) = 0
<1>1. IsFiniteSet({}) /\ IsIntOn(f, {})
  BY FS_EmptySet DEF IsIntOn
<1>2. SumFunctionOnSet(f, {}) = 0
  BY <1>1, SumLaw
<1> QED
  BY <1>2 DEF SumFunction

\* The volumes of parts are numbers; no parts have none.
LEMMA PartsLaw ==
  /\ \A parts \in Seq(Part) :
         PartsSum(parts) \in Nat /\ \A a : PartsOf(parts, a) \in Nat
  /\ PartsSum(<<>>) = 0 /\ \A a : PartsOf(<<>>, a) = 0
<1>1. ASSUME NEW parts \in Seq(Part)
      PROVE  PartsSum(parts) \in Nat /\ \A a : PartsOf(parts, a) \in Nat
  <2>1. PICK n \in Nat : n = Len(parts)
    OBVIOUS
  <2>2. DOMAIN parts = 1 .. n /\ \A i \in 1 .. n : parts[i] \in Part
    BY <2>1
  <2>3. \A i \in 1 .. n : parts[i].volume \in Nat
    BY <2>2 DEF Part
  <2>4. PartsSum(parts) \in Nat
    <3> DEFINE f == [i \in DOMAIN parts |-> parts[i].volume]
    <3>1. DOMAIN f = 1 .. n /\ \A i \in 1 .. n : f[i] \in Nat
      BY <2>2, <2>3
    <3> HIDE DEF f
    <3>2. SumFunction(f) \in Nat
      BY <3>1, SumOfNat
    <3> QED
      BY <3>2 DEF PartsSum, f
  <2>5. ASSUME NEW a PROVE PartsOf(parts, a) \in Nat
    <3> DEFINE f == [i \in DOMAIN parts |->
                       IF parts[i].account = a THEN parts[i].volume ELSE 0]
    <3>1. DOMAIN f = 1 .. n /\ \A i \in 1 .. n : f[i] \in Nat
      BY <2>2, <2>3
    <3> HIDE DEF f
    <3>2. SumFunction(f) \in Nat
      BY <3>1, SumOfNat
    <3> QED
      BY <3>2 DEF PartsOf, f
  <2> QED
    BY <2>4, <2>5
<1>2. PartsSum(<<>>) = 0
  <2>1. DOMAIN [i \in DOMAIN <<>> |-> <<>>[i].volume] = {}
    OBVIOUS
  <2> QED
    BY <2>1, SumOfNone DEF PartsSum
<1>3. ASSUME NEW a PROVE PartsOf(<<>>, a) = 0
  <2>1. DOMAIN [i \in DOMAIN <<>> |->
                  IF <<>>[i].account = a THEN <<>>[i].volume ELSE 0] = {}
    OBVIOUS
  <2> QED
    BY <2>1, SumOfNone DEF PartsOf
<1> QED
  BY <1>1, <1>2, <1>3

\* One more part adds its volume, to its account.
LEMMA PartsAppended ==
  ASSUME NEW parts \in Seq(Part), NEW p \in Part
  PROVE  /\ Append(parts, p) \in Seq(Part)
         /\ PartsSum(Append(parts, p)) = PartsSum(parts) + p.volume
         /\ \A a : PartsOf(Append(parts, p), a)
                       = PartsOf(parts, a) + (IF p.account = a THEN p.volume ELSE 0)
<1> DEFINE more == Append(parts, p)
<1>1. PICK n \in Nat : n = Len(parts)
  OBVIOUS
<1>2. /\ more \in Seq(Part) /\ DOMAIN parts = 1 .. n /\ DOMAIN more = 1 .. (n + 1)
      /\ \A i \in 1 .. n : more[i] = parts[i]
      /\ more[n + 1] = p
  BY <1>1, AppendProperties
<1> HIDE DEF more
<1>3. \A i \in 1 .. (n + 1) : more[i].volume \in Nat
  <2>1. \A i \in 1 .. (n + 1) : more[i] \in Part
    BY <1>2
  <2> QED
    BY <2>1 DEF Part
<1>4. PartsSum(more) = PartsSum(parts) + p.volume
  <2> DEFINE f == [i \in DOMAIN parts |-> parts[i].volume]
             g == [i \in DOMAIN more |-> more[i].volume]
  <2>1. /\ DOMAIN f = 1 .. n /\ DOMAIN g = 1 .. (n + 1)
        /\ \A i \in 1 .. n : f[i] = g[i]
        /\ g[n + 1] = p.volume
    BY <1>2
  <2>2. IsIntOn(g, 1 .. (n + 1))
    BY <1>2, <1>3 DEF IsIntOn
  <2> HIDE DEF f, g
  <2>3. SumFunction(g) = SumFunction(f) + g[n + 1]
    BY <2>1, <2>2, SumAppended
  <2> QED
    BY <2>1, <2>3 DEF PartsSum, f, g
<1>5. ASSUME NEW a
      PROVE  PartsOf(more, a) = PartsOf(parts, a) + (IF p.account = a THEN p.volume ELSE 0)
  <2> DEFINE f == [i \in DOMAIN parts |->
                     IF parts[i].account = a THEN parts[i].volume ELSE 0]
             g == [i \in DOMAIN more |->
                     IF more[i].account = a THEN more[i].volume ELSE 0]
  <2>1. /\ DOMAIN f = 1 .. n /\ DOMAIN g = 1 .. (n + 1)
        /\ \A i \in 1 .. n : f[i] = g[i]
        /\ g[n + 1] = IF p.account = a THEN p.volume ELSE 0
    BY <1>2
  <2>2. IsIntOn(g, 1 .. (n + 1))
    <3>1. \A i \in 1 .. (n + 1) : g[i] \in Nat
      BY <1>2, <1>3
    <3> HIDE DEF g
    <3> QED
      BY <3>1 DEF IsIntOn
  <2> HIDE DEF f, g
  <2>3. SumFunction(g) = SumFunction(f) + g[n + 1]
    BY <2>1, <2>2, SumAppended
  <2> QED
    BY <2>1, <2>3 DEF PartsOf, f, g
<1> QED
  BY <1>2, <1>4, <1>5 DEF more

\* What a task trades.
LEMMA TaskLaw ==
  ASSUME NEW t \in PlanTask
  PROVE  /\ Volume(t) = PartsSum(t.parts) /\ Volume(t) \in Nat
         /\ \A a : /\ Gain(t, a) = IF t.side = "sell" THEN PartsOf(t.parts, a)
                                   ELSE 0 - PartsOf(t.parts, a)
                   /\ PartsOf(t.parts, a) \in Nat /\ Gain(t, a) \in Int
<1>1. t.parts \in Seq(Part)
  BY DEF PlanTask
<1>2. PartsSum(t.parts) \in Nat /\ \A a : PartsOf(t.parts, a) \in Nat
  BY <1>1, PartsLaw
<1>3. Volume(t) = PartsSum(t.parts)
  BY DEF Volume, PartsSum
<1>4. \A a : Gain(t, a) = IF t.side = "sell" THEN PartsOf(t.parts, a)
                          ELSE 0 - PartsOf(t.parts, a)
  BY DEF Gain, PartsOf
<1> HIDE DEF Part
<1>5. \A a : Gain(t, a) \in Int
  <2> SUFFICES ASSUME NEW a PROVE Gain(t, a) \in Int
    OBVIOUS
  <2>1. PICK x \in Nat : x = PartsOf(t.parts, a)
    BY <1>2
  <2>2. Gain(t, a) = x \/ Gain(t, a) = 0 - x
    BY <1>4, <2>1
  <2> QED
    BY <2>2
<1> QED
  BY <1>2, <1>3, <1>4, <1>5

\* One order.
LEMMA OrderLaw ==
  ASSUME NEW side \in {"sell", "buy"}, NEW a \in Accounts, NEW v \in Nat
  PROVE  LET t == Task(side, a, v)
         IN  /\ t \in PlanTask /\ t.side = side /\ t.parts[1].account = a
             /\ t.parts[1].volume = v /\ Len(t.parts) = 1
             /\ Volume(t) = v
             /\ \A b : PartsOf(t.parts, b) = IF a = b THEN v ELSE 0
<1> DEFINE p == [account |-> a, volume |-> v]
           t == Task(side, a, v)
<1>1. p \in Part /\ p.account = a /\ p.volume = v
  BY DEF Part
<1> HIDE DEF p
<1>2. <<p>> = Append(<<>>, p) /\ <<>> \in Seq(Part) /\ <<p>>[1] = p /\ Len(<<p>>) = 1
  OBVIOUS
<1>3. /\ <<p>> \in Seq(Part) /\ PartsSum(<<p>>) = 0 + v
      /\ \A b : PartsOf(<<p>>, b) = 0 + (IF a = b THEN v ELSE 0)
  <2> DEFINE q == Append(<<>>, p)
  <2>1. <<>> \in Seq(Part)
    BY <1>2
  <2>2. /\ q \in Seq(Part) /\ PartsSum(q) = PartsSum(<<>>) + p.volume
        /\ \A b : PartsOf(q, b) = PartsOf(<<>>, b)
                                  + (IF p.account = b THEN p.volume ELSE 0)
    BY <1>1, <2>1, PartsAppended
  <2>3. q = <<p>>
    BY <1>2
  <2> HIDE DEF q
  <2>4. PartsSum(<<>>) = 0 /\ \A b : PartsOf(<<>>, b) = 0
    BY PartsLaw
  <2>5. PartsSum(q) = 0 + v /\ \A b : PartsOf(q, b) = 0 + (IF a = b THEN v ELSE 0)
    BY <1>1, <2>2, <2>4
  <2> QED
    BY <2>2, <2>3, <2>5
<1>4. t.side = side /\ t.parts = <<p>>
  BY DEF Task, p
<1>5. t \in PlanTask
  BY <1>3 DEF PlanTask, Task, p
<1> HIDE DEF t
<1>6. Volume(t) = v
  BY <1>3, <1>4, <1>5, TaskLaw
<1>7. \A b : PartsOf(t.parts, b) = IF a = b THEN v ELSE 0
  BY <1>3, <1>4
<1> QED
  BY <1>1, <1>2, <1>4, <1>5, <1>6, <1>7 DEF t

\* What a plan trades and what its accounts gain are numbers, none without tasks.
LEMMA PlanLaw ==
  /\ \A tasks \in Seq(PlanTask) :
         (\A side : SideOf(tasks, side) \in Nat) /\ (\A a : Gained(tasks, a) \in Int)
  /\ \A side : SideOf(<<>>, side) = 0
  /\ \A a : Gained(<<>>, a) = 0
<1>1. ASSUME NEW tasks \in Seq(PlanTask)
      PROVE  (\A side : SideOf(tasks, side) \in Nat) /\ (\A a : Gained(tasks, a) \in Int)
  <2>1. PICK n \in Nat : n = Len(tasks)
    OBVIOUS
  <2>2. DOMAIN tasks = 1 .. n /\ \A i \in 1 .. n : tasks[i] \in PlanTask
    BY <2>1
  <2>3. \A i \in 1 .. n : Volume(tasks[i]) \in Nat /\ \A a : Gain(tasks[i], a) \in Int
    BY <2>2, TaskLaw
  <2>4. ASSUME NEW side PROVE SideOf(tasks, side) \in Nat
    <3> DEFINE f == [i \in DOMAIN tasks |->
                       IF tasks[i].side = side THEN Volume(tasks[i]) ELSE 0]
    <3>1. DOMAIN f = 1 .. n /\ \A i \in 1 .. n : f[i] \in Nat
      BY <2>2, <2>3
    <3> HIDE DEF f
    <3>2. SumFunction(f) \in Nat
      BY <3>1, SumOfNat
    <3> QED
      BY <3>2 DEF SideOf, f
  <2>5. ASSUME NEW a PROVE Gained(tasks, a) \in Int
    <3> DEFINE f == [i \in DOMAIN tasks |-> Gain(tasks[i], a)]
    <3>1. DOMAIN f = 1 .. n /\ \A i \in 1 .. n : f[i] \in Int
      BY <2>2, <2>3
    <3> HIDE DEF f
    <3>2. SumFunction(f) \in Int
      BY <3>1, SumOfInt DEF IsIntOn
    <3> QED
      BY <3>2 DEF Gained, f
  <2> QED
    BY <2>4, <2>5
<1>2. ASSUME NEW side PROVE SideOf(<<>>, side) = 0
  <2>1. DOMAIN [i \in DOMAIN <<>> |->
                  IF <<>>[i].side = side THEN Volume(<<>>[i]) ELSE 0] = {}
    OBVIOUS
  <2> QED
    BY <2>1, SumOfNone DEF SideOf
<1>3. ASSUME NEW a PROVE Gained(<<>>, a) = 0
  <2>1. DOMAIN [i \in DOMAIN <<>> |-> Gain(<<>>[i], a)] = {}
    OBVIOUS
  <2> QED
    BY <2>1, SumOfNone DEF Gained
<1> QED
  BY <1>1, <1>2, <1>3

\* One more task adds its volume to its side and its gain to its accounts.
LEMMA PlanAppended ==
  ASSUME NEW tasks \in Seq(PlanTask), NEW t \in PlanTask
  PROVE  /\ Append(tasks, t) \in Seq(PlanTask)
         /\ \A side : SideOf(Append(tasks, t), side)
                          = SideOf(tasks, side)
                            + (IF t.side = side THEN Volume(t) ELSE 0)
         /\ \A a : Gained(Append(tasks, t), a) = Gained(tasks, a) + Gain(t, a)
<1> DEFINE more == Append(tasks, t)
<1>1. PICK n \in Nat : n = Len(tasks)
  OBVIOUS
<1>2. /\ more \in Seq(PlanTask) /\ DOMAIN tasks = 1 .. n /\ DOMAIN more = 1 .. (n + 1)
      /\ \A i \in 1 .. n : more[i] = tasks[i]
      /\ more[n + 1] = t
  BY <1>1, AppendProperties
<1> HIDE DEF more
<1>3. \A i \in 1 .. (n + 1) : Volume(more[i]) \in Nat /\ \A a : Gain(more[i], a) \in Int
  <2>1. \A i \in 1 .. (n + 1) : more[i] \in PlanTask
    BY <1>2
  <2> QED
    BY <2>1, TaskLaw
<1>4. ASSUME NEW side
      PROVE  SideOf(more, side) = SideOf(tasks, side)
                                  + (IF t.side = side THEN Volume(t) ELSE 0)
  <2> DEFINE f == [i \in DOMAIN tasks |->
                     IF tasks[i].side = side THEN Volume(tasks[i]) ELSE 0]
             g == [i \in DOMAIN more |->
                     IF more[i].side = side THEN Volume(more[i]) ELSE 0]
  <2>1. /\ DOMAIN f = 1 .. n /\ DOMAIN g = 1 .. (n + 1)
        /\ \A i \in 1 .. n : f[i] = g[i]
        /\ g[n + 1] = IF t.side = side THEN Volume(t) ELSE 0
    BY <1>2
  <2>2. IsIntOn(g, 1 .. (n + 1))
    <3>1. \A i \in 1 .. (n + 1) : g[i] \in Nat
      BY <1>2, <1>3
    <3> HIDE DEF g
    <3> QED
      BY <3>1 DEF IsIntOn
  <2> HIDE DEF f, g
  <2>3. SumFunction(g) = SumFunction(f) + g[n + 1]
    BY <2>1, <2>2, SumAppended
  <2> QED
    BY <2>1, <2>3 DEF SideOf, f, g
<1>5. ASSUME NEW a PROVE Gained(more, a) = Gained(tasks, a) + Gain(t, a)
  <2> DEFINE f == [i \in DOMAIN tasks |-> Gain(tasks[i], a)]
             g == [i \in DOMAIN more |-> Gain(more[i], a)]
  <2>1. /\ DOMAIN f = 1 .. n /\ DOMAIN g = 1 .. (n + 1)
        /\ \A i \in 1 .. n : f[i] = g[i]
        /\ g[n + 1] = Gain(t, a)
    BY <1>2
  <2>2. IsIntOn(g, 1 .. (n + 1))
    BY <1>2, <1>3 DEF IsIntOn
  <2> HIDE DEF f, g
  <2>3. SumFunction(g) = SumFunction(f) + g[n + 1]
    BY <2>1, <2>2, SumAppended
  <2> QED
    BY <2>1, <2>3 DEF Gained, f, g
<1> QED
  BY <1>2, <1>4, <1>5 DEF more

\* The tasks before the next one, and those up to it.
LEMMA PrefixLaw ==
  ASSUME NEW tasks \in Seq(PlanTask), NEW t \in PlanTask
  PROVE  /\ \A n \in 0 .. Len(tasks) :
                /\ SubSeq(Append(tasks, t), 1, n) = SubSeq(tasks, 1, n)
                /\ SubSeq(tasks, 1, n) \in Seq(PlanTask)
         /\ SubSeq(tasks, 1, Len(tasks)) = tasks
         /\ Len(Append(tasks, t)) = Len(tasks) + 1
         /\ \A n \in 1 .. Len(tasks) : Append(tasks, t)[n] = tasks[n]
         /\ Append(tasks, t)[Len(tasks) + 1] = t
         /\ SubSeq(Append(tasks, t), 1, Len(tasks) + 1) = Append(tasks, t)
<1> DEFINE more == Append(tasks, t)
           k == Len(tasks)
<1>1. /\ k \in Nat /\ more \in Seq(PlanTask) /\ Len(more) = k + 1
      /\ \A i \in 1 .. k : more[i] = tasks[i]
      /\ more[k + 1] = t
  BY AppendProperties
<1> HIDE DEF more
<1>2. ASSUME NEW n \in 0 .. k
      PROVE  SubSeq(more, 1, n) = SubSeq(tasks, 1, n) /\ SubSeq(tasks, 1, n) \in Seq(PlanTask)
  <2>1. SubSeq(more, 1, n) = [i \in 1 .. n |-> more[i]]
    BY <1>1
  <2>2. SubSeq(tasks, 1, n) = [i \in 1 .. n |-> tasks[i]]
    BY <1>1
  <2>3. \A i \in 1 .. n : more[i] = tasks[i] /\ tasks[i] \in PlanTask
    BY <1>1
  <2>4. n \in Nat
    BY <1>1
  <2>5. [i \in 1 .. n |-> tasks[i]] \in Seq(PlanTask)
    BY <2>3, <2>4, IsASeq
  <2> QED
    BY <2>1, <2>2, <2>3, <2>5
<1>3. SubSeq(tasks, 1, k) = tasks
  <2>1. SubSeq(tasks, 1, k) = [i \in 1 .. k |-> tasks[i]]
    BY <1>1
  <2>2. tasks = [i \in 1 .. k |-> tasks[i]]
    OBVIOUS
  <2> QED
    BY <2>1, <2>2
<1>4. SubSeq(more, 1, k + 1) = more
  <2>1. SubSeq(more, 1, k + 1) = [i \in 1 .. k + 1 |-> more[i]]
    BY <1>1
  <2>2. more = [i \in 1 .. k + 1 |-> more[i]]
    BY <1>1
  <2> QED
    BY <2>1, <2>2
<1> QED
  BY <1>1, <1>2, <1>3, <1>4 DEF more

-----------------------------------------------------------------------------
(* The inductive invariant.                                                 *)

\* The sides of a plan: what is known of them once they are specified.
SideSpec == [side : {"sell", "buy"}, volume : Nat, count : Nat]

\* A task that can be executed after those before it, by the one account it is of.
Fits(done, t) ==
    LET a == t.parts[1].account
    IN  /\ Len(t.parts) = 1 /\ Volume(t) \in Volumes
        /\ IF t.side = "sell" THEN BaseAfter(done, a) >= Volume(t)
                              ELSE QuoteAfter(done, a) >= Volume(t)

InOrder(tasks) == \A i \in DOMAIN tasks : Fits(SubSeq(tasks, 1, i - 1), tasks[i])

\* What is not in the plan yet can still be sold, and pays for what is to be bought.
Funded ==
    \A a \in Accounts :
        /\ BaseAfter(plan, a) >= Sold(sells, a)
        /\ QuoteAfter(plan, a) + Sold(sells, a) >= Sold(buys, a)

\* The accounts together can pay what is bought beyond what is sold.
Affordable ==
    SumFunction([a \in Accounts |-> account[a].quote]) >= specs[2].volume - specs[1].volume

\* Two sides: the orders are in the plan or waiting, funded and within the volumes.
Ledger ==
    /\ Lists(sells) /\ Lists(buys)
    /\ Funded /\ Affordable /\ InOrder(plan)
    /\ SideVolume("sell") + LeftOf(sells) = specs[1].volume
    /\ SideVolume("buy") + LeftOf(buys) = specs[2].volume
    /\ unallocated = 0

\* One side: what is in the plan, left over and still to come is its volume.
Sliced ==
    /\ slices \in Seq(Nat)
    /\ \/ SideVolume("buy") + SideVolume("sell") + SeqSum(slices) + unallocated
              = specs[1].volume
       \/ specs[1].volume < MinOrder

\* A finished plan: none, a complete one of two sides, or one of one side.
Finished ==
    IF TwoSided
    THEN \/ plan = <<>> /\ unallocated = Unplanned
         \/ /\ unallocated = 0 /\ Affordable /\ InOrder(plan)
            /\ SideVolume("sell") = specs[1].volume
            /\ SideVolume("buy") = specs[2].volume
    ELSE \/ SideVolume("buy") + SideVolume("sell") + unallocated = specs[1].volume
         \/ specs[1].volume < MinOrder

TypeInv ==
    /\ request \in Requests
    /\ account \in [Accounts -> Balances]
    /\ step \in {"specify", "allocate", "sequence", "slice", "done"}
    /\ plan \in Seq(PlanTask)
    /\ unallocated \in Nat
    /\ IF step = "specify" THEN specs = <<>> ELSE specs = TaskSpecs(request)

StepInv ==
    /\ step \in {"specify", "allocate"} => plan = <<>> /\ unallocated = 0
    /\ step \in {"allocate", "sequence"} => TwoSided
    /\ step = "sequence" => Ledger
    /\ step = "slice" => ~ TwoSided /\ Sliced
    /\ step = "done" => Finished

PlanInv == TypeInv /\ StepInv /\ NeverOverdrawn

\* A sum of one term, and of two.
LEMMA SumOfFew ==
  ASSUME NEW n \in 1 .. 2, NEW f, DOMAIN f = 1 .. n, IsIntOn(f, 1 .. n)
  PROVE  SumFunction(f) = IF n = 1 THEN f[1] ELSE f[1] + f[2]
<1>1. f[1] \in Int
  BY DEF IsIntOn
<1> DEFINE none == [i \in 1 .. 0 |-> 0]
           one == [i \in 1 .. 1 |-> f[1]]
<1>2. SumFunction(none) = 0
  <2>1. DOMAIN none = {}
    OBVIOUS
  <2> HIDE DEF none
  <2> QED
    BY <2>1, SumOfNone
<1>3. SumFunction(one) = f[1]
  <2>1. /\ DOMAIN none = 1 .. 0 /\ DOMAIN one = 1 .. (0 + 1) /\ one[0 + 1] = f[1]
        /\ IsIntOn(one, 1 .. (0 + 1)) /\ \A i \in 1 .. 0 : none[i] = one[i]
    BY <1>1 DEF IsIntOn
  <2> HIDE DEF none, one
  <2>2. SumFunction(one) = SumFunction(none) + one[0 + 1]
    BY <2>1, SumAppended
  <2> QED
    BY <1>1, <1>2, <2>1, <2>2
<1>4. CASE n = 1
  <2>1. /\ DOMAIN none = 1 .. 0 /\ DOMAIN f = 1 .. (0 + 1)
        /\ IsIntOn(f, 1 .. (0 + 1)) /\ \A i \in 1 .. 0 : none[i] = f[i]
    BY <1>4
  <2> HIDE DEF none
  <2>2. SumFunction(f) = SumFunction(none) + f[0 + 1]
    BY <2>1, SumAppended
  <2> QED
    BY <1>1, <1>2, <1>4, <2>2
<1>5. CASE n = 2
  <2>1. /\ DOMAIN one = 1 .. 1 /\ DOMAIN f = 1 .. (1 + 1)
        /\ IsIntOn(f, 1 .. (1 + 1)) /\ \A i \in 1 .. 1 : one[i] = f[i]
    BY <1>5
  <2> HIDE DEF one
  <2>2. SumFunction(f) = SumFunction(one) + f[1 + 1]
    BY <2>1, SumAppended
  <2> QED
    BY <1>3, <1>5, <2>2
<1> QED
  BY <1>4, <1>5

\* Whatever the totals, there are enough orders, and some where there is a volume.
LEMMA SpecCountsLaw ==
  ASSUME NEW r \in Requests
  PROVE  LET t == Totals(r)
             c == SpecCounts(r, t)
         IN  /\ c.sell \in Nat /\ c.buy \in Nat
             /\ c.sell + c.buy >= r.count
             /\ t.sell = 0 /\ t.buy > 0 /\ r.objective # "distribution" => c.buy > 0
<1> DEFINE t == Totals(r)
           c == TradeCounts(r.count, t.buy, t.sell)
           volume == IF r.objective = "distribution" THEN DistributionVolume(r)
                                                     ELSE r.gross
           guess == AtLeast(1, Round(r.count * t.sell, volume))
           sell == IF r.objective = "distribution" THEN guess
                                                   ELSE AtMost(r.count - 1, guess)
           n == SpecCounts(r, t)
<1>1. t.buy \in Nat /\ t.sell \in Nat /\ t.buy + t.sell > 0
  BY TotalsTyped
<1>2. r.count \in Nat \ {0} /\ r.gross \in Nat \ {0}
  BY RequestAssumption
<1>3. volume \in Nat \ {0}
  BY <1>2, VolumeTyped
<1>4. n = IF c.feasible THEN c ELSE [sell |-> sell, buy |-> AtLeast(0, r.count - sell)]
  BY DEF SpecCounts
<1>5. CASE c.feasible
  <2>1. /\ c.buy \in Nat /\ c.sell \in Nat /\ Carries(c.buy, t.buy)
        /\ c.buy + c.sell >= r.count
    <3> HIDE DEF t
    <3> QED
      BY <1>1, <1>2, <1>5, SizeAssumption, CountsFit
  <2>2. t.buy > 0 => c.buy > 0
    <3>1. t.buy <= c.buy * MaxOrder
      BY <2>1 DEF Carries
    <3> HIDE DEF t, c
    <3>2. c.buy = 0 => c.buy * MaxOrder = 0
      BY SizeAssumption
    <3> QED
      BY <1>1, <2>1, <3>1, <3>2
  <2>3. n = c
    BY <1>4, <1>5
  <2> HIDE DEF t, c, n
  <2> QED
    BY <1>2, <2>1, <2>2, <2>3 DEF t, n
<1>6. CASE ~ c.feasible
  <2>1. r.count * t.sell \in Nat
    <3> HIDE DEF t
    <3> QED
      BY <1>1, <1>2
  <2>2. Round(r.count * t.sell, volume) \in Int
    <3> HIDE DEF t, volume
    <3> QED
      BY <1>3, <2>1, RoundIsInt
  <2>3. guess \in Nat /\ guess >= 1
    <3> HIDE DEF t, volume
    <3> QED
      BY <2>2 DEF AtLeast
  <2>4. sell \in Nat /\ (r.objective # "distribution" => sell <= r.count - 1)
    <3> HIDE DEF guess
    <3> QED
      BY <1>2, <2>3 DEF AtMost
  <2>5. n.sell = sell /\ n.buy = AtLeast(0, r.count - sell)
    BY <1>4, <1>6
  <2> HIDE DEF t, n, sell
  <2>6. n.buy \in Nat /\ n.buy >= r.count - sell
    BY <1>2, <2>4, <2>5 DEF AtLeast
  <2> QED
    BY <1>2, <2>4, <2>5, <2>6 DEF t, n
<1> QED
  BY <1>5, <1>6

\* The sides of a plan: one or two, the sell side first, with orders enough; a plan
\* that is not a distribution buys the net volume beyond what it sells.
LEMMA SpecsLaw ==
  ASSUME NEW r \in Requests
  PROVE  LET s == TaskSpecs(r)
         IN  /\ s \in Seq(SideSpec) /\ Len(s) \in 1 .. 2
             /\ Len(s) = 2 => /\ s[1].side = "sell" /\ s[2].side = "buy"
                              /\ s[1].count + s[2].count >= r.count
                              /\ r.objective # "distribution"
                                     => s[2].volume - s[1].volume = r.net
<1> DEFINE t == Totals(r)
           c == SpecCounts(r, t)
           x == [side |-> "sell", volume |-> t.sell, count |-> c.sell]
           y == [side |-> "buy", volume |-> t.buy, count |-> c.buy]
           hasX == r.objective = "distribution" \/ (t.sell > 0 /\ c.sell > 0)
           hasY == t.buy > 0 /\ c.buy > 0
           s == TaskSpecs(r)
<1>1. t.buy \in Nat /\ t.sell \in Nat /\ t.buy + t.sell > 0
  BY TotalsTyped
<1>2. c.sell \in Nat /\ c.buy \in Nat /\ c.sell + c.buy >= r.count /\ r.count \in Nat \ {0}
      /\ (t.sell = 0 /\ t.buy > 0 /\ r.objective # "distribution" => c.buy > 0)
  BY SpecCountsLaw, RequestAssumption
<1>3. r.objective # "distribution" => t.buy - t.sell = r.net
  <2> SUFFICES ASSUME r.objective # "distribution" PROVE t.buy - t.sell = r.net
    OBVIOUS
  <2>1. t = SelfCyclingTotals(r.gross, r.net, IF r.net >= r.gross THEN 0 ELSE r.leastSell)
    BY DEF Totals
  <2>2. t.buy = r.net + t.sell
    BY <2>1 DEF SelfCyclingTotals
  <2>3. r.net \in Nat
    BY RequestAssumption
  <2> HIDE DEF t
  <2> QED
    BY <1>1, <2>2, <2>3
<1>4. s = (IF hasX THEN <<x>> ELSE <<>>) \o (IF hasY THEN <<y>> ELSE <<>>)
  BY DEF TaskSpecs
<1>5. hasX \/ hasY
  <2> HIDE DEF t, c
  <2>1. CASE t.sell = 0
    BY <1>1, <1>2, <2>1
  <2>2. CASE t.sell > 0 /\ r.objective # "distribution" /\ c.sell = 0
    <3>1. c.buy > 0
      BY <1>2, <2>2
    <3>2. t.buy > 0
      <4>1. r.net \in Nat
        BY RequestAssumption
      <4> QED
        BY <1>1, <1>3, <2>2, <4>1
    <3> QED
      BY <3>1, <3>2
  <2>3. CASE r.objective = "distribution" \/ (c.sell > 0 /\ t.sell > 0)
    BY <2>3
  <2> QED
    BY <1>1, <1>2, <2>1, <2>2, <2>3
<1>6. x \in SideSpec /\ y \in SideSpec
  BY <1>1, <1>2 DEF SideSpec
<1>7. /\ x.side = "sell" /\ y.side = "buy" /\ x.volume = t.sell /\ y.volume = t.buy
      /\ x.count = c.sell /\ y.count = c.buy
  OBVIOUS
<1> HIDE DEF x, y, hasX, hasY, s
<1>8. CASE hasX /\ hasY
  <2>1. s = <<x>> \o <<y>>
    BY <1>4, <1>8
  <2>2. /\ <<x>> \in Seq(SideSpec) /\ <<y>> \in Seq(SideSpec)
        /\ Len(<<x>>) = 1 /\ Len(<<y>>) = 1 /\ <<x>>[1] = x /\ <<y>>[1] = y
    BY <1>6
  <2>3. s \in Seq(SideSpec) /\ Len(s) = 2 /\ s[1] = x /\ s[2] = y
    BY <2>1, <2>2, ConcatProperties
  <2>4. s[1].count + s[2].count >= r.count
    <3> HIDE DEF c
    <3> QED
      BY <1>2, <1>7, <2>3
  <2>5. s[2].volume = t.buy /\ s[1].volume = t.sell
    BY <1>7, <2>3
  <2>6. r.objective # "distribution" => s[2].volume - s[1].volume = r.net
    <3> HIDE DEF t
    <3> QED
      BY <1>3, <2>5
  <2> QED
    BY <1>7, <2>3, <2>4, <2>6 DEF s
<1>9. CASE hasX /\ ~ hasY
  <2>1. s = <<x>> \o <<>>
    BY <1>4, <1>9
  <2>2. s = <<x>>
    BY <2>1
  <2>3. s \in Seq(SideSpec) /\ Len(s) = 1
    BY <1>6, <2>2
  <2> QED
    BY <2>3 DEF s
<1>10. CASE ~ hasX /\ hasY
  <2>1. s = <<>> \o <<y>>
    BY <1>4, <1>10
  <2>2. s = <<y>>
    BY <2>1
  <2>3. s \in Seq(SideSpec) /\ Len(s) = 1
    BY <1>6, <2>2
  <2> QED
    BY <2>3 DEF s
<1> QED
  BY <1>5, <1>8, <1>9, <1>10

\* What the specified sides add up to.
LEMMA SpecSums ==
  ASSUME request \in Requests, specs = TaskSpecs(request)
  PROVE  /\ specs \in Seq(SideSpec) /\ Len(specs) \in 1 .. 2 /\ specs[1] \in SideSpec
         /\ TwoSided => /\ specs[2] \in SideSpec
                        /\ SpecVolume("sell") = specs[1].volume
                        /\ SpecVolume("buy") = specs[2].volume
                        /\ SumFunction([i \in DOMAIN specs |-> specs[i].count])
                               >= request.count
         /\ ~ TwoSided => SpecVolume("buy") + SpecVolume("sell") = specs[1].volume
<1>1. /\ specs \in Seq(SideSpec) /\ Len(specs) \in 1 .. 2
      /\ TwoSided => /\ specs[1].side = "sell" /\ specs[2].side = "buy"
                     /\ specs[1].count + specs[2].count >= request.count
  BY SpecsLaw DEF TwoSided
<1>2. PICK n \in 1 .. 2 : n = Len(specs)
  BY <1>1
<1>3. DOMAIN specs = 1 .. n /\ \A i \in 1 .. n : specs[i] \in SideSpec
  BY <1>1, <1>2
<1>4. \A i \in 1 .. n : /\ specs[i].side \in {"sell", "buy"} /\ specs[i].volume \in Nat
                        /\ specs[i].count \in Nat
  BY <1>3 DEF SideSpec
<1> DEFINE V(side) == [i \in DOMAIN specs |->
                         IF specs[i].side = side THEN specs[i].volume ELSE 0]
           counts == [i \in DOMAIN specs |-> specs[i].count]
<1>5. ASSUME NEW side \in {"sell", "buy"}
      PROVE  SpecVolume(side) = IF n = 1 THEN V(side)[1] ELSE V(side)[1] + V(side)[2]
  <2> DEFINE f == V(side)
  <2>1. DOMAIN f = 1 .. n
    BY <1>3
  <2>2. \A i \in 1 .. n : f[i] \in Int
    BY <1>3, <1>4
  <2>3. SpecVolume(side) = SumFunction(f)
    BY DEF SpecVolume
  <2> HIDE DEF f
  <2>4. SumFunction(f) = IF n = 1 THEN f[1] ELSE f[1] + f[2]
    BY <2>1, <2>2, SumOfFew DEF IsIntOn
  <2> QED
    BY <2>3, <2>4 DEF f
<1>6. SumFunction(counts) = IF n = 1 THEN counts[1] ELSE counts[1] + counts[2]
  <2>1. DOMAIN counts = 1 .. n /\ \A i \in 1 .. n : counts[i] \in Int
    BY <1>3, <1>4
  <2> HIDE DEF counts
  <2> QED
    BY <2>1, SumOfFew DEF IsIntOn
<1>7. CASE n = 1
  <2>1. 1 \in DOMAIN specs /\ ~ TwoSided
    BY <1>2, <1>3, <1>7 DEF TwoSided
  <2>2. \A side : V(side)[1] = IF specs[1].side = side THEN specs[1].volume ELSE 0
    BY <2>1
  <2>3. SpecVolume("buy") = V("buy")[1] /\ SpecVolume("sell") = V("sell")[1]
    BY <1>5, <1>7
  <2>4. specs[1].side \in {"sell", "buy"} /\ specs[1].volume \in Nat
    BY <1>4, <1>7
  <2>5. SpecVolume("buy") + SpecVolume("sell") = specs[1].volume
    <3> HIDE DEF V
    <3> QED
      BY <2>2, <2>3, <2>4
  <2> QED
    BY <1>1, <1>3, <1>7, <2>1, <2>5
<1>8. CASE n = 2
  <2>1. 1 \in DOMAIN specs /\ 2 \in DOMAIN specs /\ TwoSided
    BY <1>2, <1>3, <1>8 DEF TwoSided
  <2>2. \A side : /\ V(side)[1] = IF specs[1].side = side THEN specs[1].volume ELSE 0
                  /\ V(side)[2] = IF specs[2].side = side THEN specs[2].volume ELSE 0
    BY <2>1
  <2>3. /\ SpecVolume("buy") = V("buy")[1] + V("buy")[2]
        /\ SpecVolume("sell") = V("sell")[1] + V("sell")[2]
    BY <1>5, <1>8
  <2>4. specs[1].volume \in Nat /\ specs[2].volume \in Nat
    BY <1>4, <1>8
  <2>5. SpecVolume("sell") = specs[1].volume /\ SpecVolume("buy") = specs[2].volume
    <3> HIDE DEF V
    <3> QED
      BY <1>1, <2>1, <2>2, <2>3, <2>4
  <2>6. counts[1] = specs[1].count /\ counts[2] = specs[2].count
    BY <2>1
  <2>7. SumFunction(counts) >= request.count
    <3> HIDE DEF counts
    <3> QED
      BY <1>1, <1>6, <1>8, <2>1, <2>6
  <2> QED
    BY <1>1, <1>3, <1>8, <2>1, <2>5, <2>7
<1> QED
  BY <1>7, <1>8

-----------------------------------------------------------------------------
(* Two sides: the orders waiting, and the next one.                         *)

\* What an account holds are numbers, and so is what it has after some tasks.
LEMMA HoldingLaw ==
  ASSUME account \in [Accounts -> Balances], NEW a \in Accounts
  PROVE  /\ account[a].quote \in Nat /\ account[a].base \in Nat
         /\ \A tasks \in Seq(PlanTask) :
                QuoteAfter(tasks, a) \in Int /\ BaseAfter(tasks, a) \in Int
         /\ QuoteAfter(<<>>, a) = account[a].quote /\ BaseAfter(<<>>, a) = account[a].base
<1>1. account[a].quote \in Nat /\ account[a].base \in Nat
  <2>1. account[a] \in [quote : Nat, base : Nat, short : SUBSET {"quote", "base"}]
    BY AccountAssumption
  <2> QED
    BY <2>1
<1>2. \A tasks \in Seq(PlanTask) : Gained(tasks, a) \in Int
  BY PlanLaw
<1>3. \A tasks \in Seq(PlanTask) : QuoteAfter(tasks, a) \in Int /\ BaseAfter(tasks, a) \in Int
  BY <1>1, <1>2 DEF QuoteAfter, BaseAfter
<1>4. Gained(<<>>, a) = 0
  BY PlanLaw
<1> QED
  BY <1>1, <1>3, <1>4 DEF QuoteAfter, BaseAfter

\* Tasks of one more change what their accounts have by what they gain.
LEMMA HoldingAppended ==
  ASSUME account \in [Accounts -> Balances], NEW tasks \in Seq(PlanTask), NEW t \in PlanTask,
         NEW a \in Accounts
  PROVE  /\ QuoteAfter(Append(tasks, t), a) = QuoteAfter(tasks, a) + Gain(t, a)
         /\ BaseAfter(Append(tasks, t), a) = BaseAfter(tasks, a) - Gain(t, a)
<1>1. account[a].quote \in Nat /\ account[a].base \in Nat
  BY HoldingLaw
<1>2. Gained(tasks, a) \in Int /\ Gain(t, a) \in Int
  BY PlanLaw, TaskLaw
<1>3. Gained(Append(tasks, t), a) = Gained(tasks, a) + Gain(t, a)
  BY PlanAppended
<1>4. \A q, b, x, y \in Int : q + (x + y) = (q + x) + y /\ b - (x + y) = (b - x) - y
  OBVIOUS
<1>5. account[a].quote \in Int /\ account[a].base \in Int
  BY <1>1
<1>6. account[a].quote + (Gained(tasks, a) + Gain(t, a))
          = (account[a].quote + Gained(tasks, a)) + Gain(t, a)
  BY <1>2, <1>4, <1>5
<1>7. account[a].base - (Gained(tasks, a) + Gain(t, a))
          = (account[a].base - Gained(tasks, a)) - Gain(t, a)
  BY <1>2, <1>4, <1>5
<1> QED
  BY <1>3, <1>6, <1>7 DEF QuoteAfter, BaseAfter

\* An order waits in the list of its account, which is of at least its volume.
LEMMA WaitingLaw ==
  ASSUME Lists(sells), Lists(buys), NEW side \in {"sell", "buy"}, NEW t \in Waiting(side)
  PROVE  LET g == IF side = "sell" THEN sells ELSE buys
         IN  \E a \in Accounts : \E v \in Volumes :
                /\ t = Task(side, a, v)
                /\ a \in DOMAIN g /\ v \in ToSet(g[a]) /\ v <= Sold(g, a)
<1> DEFINE g == IF side = "sell" THEN sells ELSE buys
<1>1. Lists(g)
  OBVIOUS
<1>2. PICK a \in DOMAIN g : \E v \in ToSet(g[a]) : t = Task(side, a, v)
  BY DEF Waiting
<1>3. PICK v \in ToSet(g[a]) : t = Task(side, a, v)
  BY <1>2
<1> HIDE DEF g
<1>4. a \in Accounts /\ g[a] \in Seq(Volumes) /\ g[a] \in Seq(Nat)
  BY <1>1, <1>2, ListsLaw
<1>5. PICK i \in DOMAIN g[a] : g[a][i] = v
  BY <1>3 DEF ToSet
<1>6. v \in Volumes
  BY <1>4, <1>5
<1>7. v <= Sold(g, a)
  <2>1. g[a][i] <= SeqSum(g[a])
    BY <1>4, <1>5, SeqSumLaw
  <2>2. Sold(g, a) = SeqSum(g[a])
    BY <1>2 DEF Sold
  <2> QED
    BY <1>5, <2>1, <2>2
<1>8. \E b \in Accounts : \E w \in Volumes :
         t = Task(side, b, w) /\ b \in DOMAIN g /\ w \in ToSet(g[b]) /\ w <= Sold(g, b)
  BY <1>2, <1>3, <1>4, <1>6, <1>7
<1> QED
  BY <1>8 DEF g

\* Where a list is not used up an order of it waits.
LEMMA SomeWaiting ==
  ASSUME NEW side \in {"sell", "buy"}, Waiting(side) = {},
         Lists(IF side = "sell" THEN sells ELSE buys)
  PROVE  LET g == IF side = "sell" THEN sells ELSE buys
         IN  LeftOf(g) = 0 /\ \A a : Sold(g, a) = 0
<1> DEFINE g == IF side = "sell" THEN sells ELSE buys
<1>1. \A a \in DOMAIN g : ToSet(g[a]) = {}
  BY DEF Waiting
<1>2. Lists(g)
  OBVIOUS
<1> HIDE DEF g
<1>3. \A a \in DOMAIN g : g[a] = <<>>
  <2> SUFFICES ASSUME NEW a \in DOMAIN g PROVE g[a] = <<>>
    OBVIOUS
  <2>1. g[a] \in Seq(Nat)
    BY <1>2, ListsLaw
  <2>2. DOMAIN g[a] = {}
    BY <1>1 DEF ToSet
  <2> QED
    BY <2>1, <2>2
<1>4. \A a : Sold(g, a) = 0
  BY <1>3, SeqSumEmpty DEF Sold
<1>5. LeftOf(g) = 0
  <2> DEFINE f == [a \in Accounts |-> Sold(g, a)]
  <2>1. \A a \in Accounts : f[a] = 0
    BY <1>4
  <2> HIDE DEF f
  <2>2. SumFunctionOnSet(f, Accounts) = 0
    BY <2>1, AccountAssumption, SumZero
  <2> QED
    BY <2>2 DEF LeftOf, f
<1> QED
  BY <1>4, <1>5 DEF g

\* An order that gets its place leaves its list, with its volume.
LEMMA WithoutLaw ==
  ASSUME NEW g, Lists(g), NEW a \in DOMAIN g, NEW v \in ToSet(g[a]), NEW t,
         t.parts[1].account = a, t.parts[1].volume = v
  PROVE  LET h == Without(g, t)
         IN  /\ Lists(h)
             /\ \A b : Sold(h, b) = IF b = a THEN Sold(g, a) - v ELSE Sold(g, b)
             /\ LeftOf(h) = LeftOf(g) - v
<1> DEFINE h == Without(g, t)
<1>1. PICK S \in SUBSET Accounts : g \in [S -> Seq(Volumes)]
  BY DEF Lists
<1>2. a \in Accounts /\ g[a] \in Seq(Volumes)
  BY <1>1
<1>3. Volumes \subseteq Nat
  BY SizeAssumption DEF Volumes
<1>4. RemoveFirst(g[a], v) \in Seq(Volumes) /\ SeqSum(RemoveFirst(g[a], v)) = SeqSum(g[a]) - v
  BY <1>2, <1>3, RemoveFirstLaw
<1>5. h = [g EXCEPT ![a] = RemoveFirst(g[a], v)]
  BY DEF Without
<1>6. /\ h \in [S -> Seq(Volumes)]
      /\ h[a] = RemoveFirst(g[a], v) /\ \A b \in S \ {a} : h[b] = g[b]
  BY <1>1, <1>4, <1>5
<1> HIDE DEF h
<1>7. Lists(h)
  BY <1>6 DEF Lists
<1>8. DOMAIN h = S /\ DOMAIN g = S
  BY <1>1, <1>6
<1>9. \A b : Sold(h, b) = IF b = a THEN Sold(g, a) - v ELSE Sold(g, b)
  <2> SUFFICES ASSUME NEW b
               PROVE  Sold(h, b) = IF b = a THEN Sold(g, a) - v ELSE Sold(g, b)
    OBVIOUS
  <2>1. CASE b = a
    BY <1>4, <1>6, <1>8, <2>1 DEF Sold
  <2>2. CASE b # a /\ b \in S
    BY <1>6, <1>8, <2>2 DEF Sold
  <2>3. CASE b # a /\ b \notin S
    BY <1>8, <2>3 DEF Sold
  <2> QED
    BY <2>1, <2>2, <2>3
<1>10. LeftOf(h) = LeftOf(g) - v
  <2> DEFINE f == [b \in Accounts |-> Sold(g, b)]
             e == [b \in Accounts |-> Sold(h, b)]
  <2>1. (\A b : Sold(g, b) \in Nat) /\ (\A b : Sold(h, b) \in Nat) /\ LeftOf(g) \in Nat
    BY <1>7, ListsLaw
  <2>2. (\A b \in Accounts : f[b] = Sold(g, b)) /\ (\A b \in Accounts : e[b] = Sold(h, b))
    OBVIOUS
  <2> HIDE DEF f, e
  <2>3. IsIntOn(f, Accounts) /\ IsIntOn(e, Accounts)
    <3>1. \A b \in Accounts : f[b] \in Nat /\ e[b] \in Nat
      BY <2>1, <2>2
    <3> QED
      BY <3>1 DEF IsIntOn
  <2>4. \A b \in Accounts \ {a} : f[b] = e[b]
    BY <1>9, <2>2
  <2>5. SumFunctionOnSet(e, Accounts) = SumFunctionOnSet(f, Accounts) - f[a] + e[a]
    BY <1>2, <2>3, <2>4, AccountAssumption, SumChange
  <2>6. LeftOf(g) = SumFunctionOnSet(f, Accounts) /\ LeftOf(h) = SumFunctionOnSet(e, Accounts)
    BY DEF LeftOf, f, e
  <2>7. f[a] \in Nat /\ e[a] = f[a] - v /\ v \in Nat
    <3>1. PICK i \in DOMAIN g[a] : g[a][i] = v
      BY DEF ToSet
    <3>2. v \in Nat
      <4>1. g[a][i] \in Volumes
        BY <1>2
      <4> QED
        BY <1>3, <3>1, <4>1
    <3> QED
      BY <1>2, <1>9, <2>1, <2>2, <3>2
  <2> QED
    BY <2>1, <2>5, <2>6, <2>7
<1> QED
  BY <1>7, <1>9, <1>10 DEF h

\* An order that is taken next can be executed.
LEMMA EligibleLaw ==
  ASSUME Lists(sells), Lists(buys), Funded, account \in [Accounts -> Balances],
         plan \in Seq(PlanTask), NEW t \in Eligible
  PROVE  \/ t \in Waiting("sell")
         \/ /\ t \in Waiting("buy")
            /\ QuoteAfter(plan, t.parts[1].account) >= t.parts[1].volume
<1>1. CASE request.objective # "shakeout"
  <2>1. t \in Executable
    BY <1>1 DEF Eligible, Alternating
  <2> QED
    BY <2>1 DEF Executable
<1>2. CASE request.objective = "shakeout"
  <2>1. t \in NextOfShakeout
    BY <1>2 DEF Eligible
  <2>2. CASE Waiting("sell") # {}
    BY <2>1, <2>2 DEF NextOfShakeout
  <2>3. CASE Waiting("sell") = {}
    <3>1. t \in Waiting("buy")
      BY <2>1, <2>3 DEF NextOfShakeout
    <3>2. PICK a \in Accounts : \E v \in Volumes :
             t = Task("buy", a, v) /\ v <= Sold(buys, a)
      BY <3>1, WaitingLaw
    <3>3. PICK v \in Volumes : t = Task("buy", a, v) /\ v <= Sold(buys, a)
      BY <3>2
    <3>4. Sold(sells, a) = 0
      BY <2>3, SomeWaiting
    <3>5. QuoteAfter(plan, a) + Sold(sells, a) >= Sold(buys, a)
      BY DEF Funded
    <3>6. QuoteAfter(plan, a) \in Int /\ Sold(buys, a) \in Nat /\ v \in Nat
      <4>1. v \in Nat
        BY SizeAssumption DEF Volumes
      <4> QED
        BY <4>1, HoldingLaw, ListsLaw
    <3>7. QuoteAfter(plan, a) >= v
      BY <3>3, <3>4, <3>5, <3>6
    <3>8. t.parts[1].account = a /\ t.parts[1].volume = v
      BY <3>3, <3>6, OrderLaw
    <3> QED
      BY <3>1, <3>7, <3>8
  <2> QED
    BY <2>2, <2>3
<1> QED
  BY <1>1, <1>2

\* While an order waits one can be taken.
LEMMA NotStuck ==
  ASSUME Lists(sells), Lists(buys), Funded, account \in [Accounts -> Balances],
         plan \in Seq(PlanTask), Waiting("sell") \cup Waiting("buy") # {}
  PROVE  Eligible # {}
<1>1. CASE Waiting("sell") # {} /\ request.objective = "shakeout"
  <2> DEFINE S == {x \in Nat : \E t \in Waiting("sell") : Volume(t) = MaxOrder - x}
  <2>1. \A t \in Waiting("sell") : Volume(t) \in Volumes
    <3> SUFFICES ASSUME NEW t \in Waiting("sell") PROVE Volume(t) \in Volumes
      OBVIOUS
    <3>1. PICK a \in Accounts : \E v \in Volumes : t = Task("sell", a, v)
      BY WaitingLaw
    <3>2. PICK v \in Volumes : t = Task("sell", a, v)
      BY <3>1
    <3>3. v \in Nat
      BY SizeAssumption DEF Volumes
    <3> QED
      BY <3>2, <3>3, OrderLaw
  <2>2. \A t \in Waiting("sell") :
            MaxOrder - Volume(t) \in S /\ Volume(t) \in Nat /\ MaxOrder \in Nat
    <3> SUFFICES ASSUME NEW t \in Waiting("sell")
                 PROVE  MaxOrder - Volume(t) \in S /\ Volume(t) \in Nat /\ MaxOrder \in Nat
      OBVIOUS
    <3>1. PICK y \in Volumes : y = Volume(t)
      BY <2>1
    <3>2. MaxOrder - y \in Nat /\ y = MaxOrder - (MaxOrder - y) /\ y \in Nat
      BY SizeAssumption DEF Volumes
    <3> QED
      BY <3>1, <3>2, SizeAssumption
  <2>3. S # {} /\ S \subseteq Nat
    BY <1>1, <2>2
  <2> HIDE DEF S
  <2>4. PICK x \in S : \A y \in S : x <= y
    BY <2>3, LeastNat
  <2>5. PICK t \in Waiting("sell") : Volume(t) = MaxOrder - x
    BY <2>4 DEF S
  <2>6. ASSUME NEW u \in Waiting("sell") PROVE Volume(t) >= Volume(u)
    <3>1. x <= MaxOrder - Volume(u)
      BY <2>2, <2>4
    <3>2. x \in Nat /\ Volume(u) \in Nat /\ Volume(t) \in Nat /\ MaxOrder \in Nat
      BY <2>2, <2>3, <2>4
    <3> QED
      BY <2>5, <3>1, <3>2
  <2>7. t \in NextOfShakeout
    BY <1>1, <2>6 DEF NextOfShakeout
  <2> QED
    BY <1>1, <2>7 DEF Eligible
<1>2. CASE Waiting("sell") = {} /\ request.objective = "shakeout"
  BY <1>2 DEF Eligible, NextOfShakeout
<1>3. CASE request.objective # "shakeout"
  <2>1. Executable # {}
    <3>1. CASE Waiting("sell") # {}
      BY <3>1 DEF Executable
    <3>2. CASE Waiting("sell") = {}
      <4>1. PICK t \in Waiting("buy") : TRUE
        BY <3>2
      <4>2. PICK a \in Accounts : \E v \in Volumes :
               t = Task("buy", a, v) /\ v <= Sold(buys, a)
        BY <4>1, WaitingLaw
      <4>3. PICK v \in Volumes : t = Task("buy", a, v) /\ v <= Sold(buys, a)
        BY <4>2
      <4>4. Sold(sells, a) = 0
        BY <3>2, SomeWaiting
      <4>5. QuoteAfter(plan, a) + Sold(sells, a) >= Sold(buys, a)
        BY DEF Funded
      <4>6. QuoteAfter(plan, a) \in Int /\ Sold(buys, a) \in Nat /\ v \in Nat
        <5>1. v \in Nat
          BY SizeAssumption DEF Volumes
        <5> QED
          BY <5>1, HoldingLaw, ListsLaw
      <4>7. QuoteAfter(plan, a) >= v
        BY <4>3, <4>4, <4>5, <4>6
      <4>8. t.parts[1].account = a /\ t.parts[1].volume = v
        BY <4>3, <4>6, OrderLaw
      <4> QED
        BY <4>1, <4>7, <4>8 DEF Executable
    <3> QED
      BY <3>1, <3>2
  <2>2. Alternating(Executable) # {}
    BY <2>1 DEF Alternating
  <2> QED
    BY <1>3, <2>2 DEF Eligible
<1> QED
  BY <1>1, <1>2, <1>3

-----------------------------------------------------------------------------
(* Every step keeps the invariant.                                          *)

\* What each side of the plan trades: the sums of the properties.
LEMMA SidesLaw ==
  ASSUME plan \in Seq(PlanTask)
  PROVE  \A side : SideVolume(side) = SideOf(plan, side) /\ SideVolume(side) \in Nat
BY PlanLaw DEF SideVolume, SideOf

\* A step that changes neither the accounts nor the plan overdraws nothing.
LEMMA SamePlan ==
  ASSUME NeverOverdrawn, UNCHANGED <<plan, account>>
  PROVE  NeverOverdrawn'
BY DEF NeverOverdrawn, QuoteAfter, BaseAfter

\* No plan overdraws nothing.
LEMMA NoPlan ==
  ASSUME account \in [Accounts -> Balances], plan = <<>>
  PROVE  NeverOverdrawn
<1> SUFFICES ASSUME NEW n \in 0 .. Len(plan), NEW a \in Accounts
             PROVE  /\ QuoteAfter(SubSeq(plan, 1, n), a) >= 0
                    /\ BaseAfter(SubSeq(plan, 1, n), a) >= 0
  BY DEF NeverOverdrawn
<1>1. SubSeq(plan, 1, n) = <<>>
  OBVIOUS
<1>2. account[a].quote >= 0 /\ account[a].base >= 0
  BY HoldingLaw
<1>3. QuoteAfter(<<>>, a) >= 0 /\ BaseAfter(<<>>, a) >= 0
  BY <1>2, HoldingLaw
<1> QED
  BY <1>1, <1>3

\* One more task overdraws nothing that its accounts have after it.
LEMMA MorePlan ==
  ASSUME account \in [Accounts -> Balances], plan \in Seq(PlanTask), NeverOverdrawn,
         NEW t \in PlanTask, plan' = Append(plan, t), account' = account,
         \A a \in Accounts : /\ QuoteAfter(plan, a) + Gain(t, a) >= 0
                             /\ BaseAfter(plan, a) - Gain(t, a) >= 0
  PROVE  NeverOverdrawn'
<1> DEFINE k == Len(plan)
           Holds(tasks, a) == QuoteAfter(tasks, a) >= 0 /\ BaseAfter(tasks, a) >= 0
<1>1. /\ k \in Nat /\ Len(plan') = k + 1
      /\ \A n \in 0 .. k : SubSeq(plan', 1, n) = SubSeq(plan, 1, n)
      /\ SubSeq(plan', 1, k + 1) = plan'
  BY PrefixLaw
<1>2. \A n \in 0 .. k, a \in Accounts : Holds(SubSeq(plan, 1, n), a)
  BY DEF NeverOverdrawn
<1>3. \A a \in Accounts : Holds(plan', a)
  BY HoldingAppended
<1> HIDE DEF k
<1>4. \A n \in 0 .. (k + 1), a \in Accounts : Holds(SubSeq(plan', 1, n), a)
  <2> HIDE DEF Holds
  <2> SUFFICES ASSUME NEW n \in 0 .. (k + 1), NEW a \in Accounts
               PROVE  Holds(SubSeq(plan', 1, n), a)
    OBVIOUS
  <2>1. CASE n \in 0 .. k
    BY <1>1, <1>2, <2>1
  <2>2. CASE n = k + 1
    BY <1>1, <1>3, <2>2
  <2> QED
    BY <1>1, <2>1, <2>2
<1> QED
  BY <1>1, <1>4 DEF NeverOverdrawn, QuoteAfter, BaseAfter

\* A task that can be executed after the others comes at its place.
LEMMA MoreInOrder ==
  ASSUME plan \in Seq(PlanTask), InOrder(plan), NEW t \in PlanTask, Fits(plan, t),
         plan' = Append(plan, t), account' = account
  PROVE  InOrder(plan)'
<1> DEFINE k == Len(plan)
<1>1. /\ k \in Nat /\ DOMAIN plan' = 1 .. (k + 1) /\ DOMAIN plan = 1 .. k
      /\ \A n \in 0 .. k : SubSeq(plan', 1, n) = SubSeq(plan, 1, n)
      /\ SubSeq(plan, 1, k) = plan
      /\ \A n \in 1 .. k : plan'[n] = plan[n]
      /\ plan'[k + 1] = t
  <2>1. plan' \in Seq(PlanTask) /\ Len(plan') = k + 1
    BY AppendProperties
  <2>2. DOMAIN plan' = 1 .. (k + 1)
    BY <2>1
  <2> QED
    BY <2>2, PrefixLaw
<1> HIDE DEF k
<1>2. \A i \in 1 .. k : Fits(SubSeq(plan, 1, i - 1), plan[i])
  BY <1>1 DEF InOrder
<1>3. \A i \in 1 .. (k + 1) : Fits(SubSeq(plan', 1, i - 1), plan'[i])
  <2> SUFFICES ASSUME NEW i \in 1 .. (k + 1) PROVE Fits(SubSeq(plan', 1, i - 1), plan'[i])
    OBVIOUS
  <2>1. i - 1 \in 0 .. k /\ SubSeq(plan', 1, i - 1) = SubSeq(plan, 1, i - 1)
    BY <1>1
  <2>2. CASE i \in 1 .. k
    BY <1>1, <1>2, <2>1, <2>2
  <2>3. CASE i = k + 1
    <3>1. i - 1 = k
      BY <1>1, <2>3
    <3> QED
      BY <1>1, <2>1, <2>3, <3>1
  <2> QED
    BY <1>1, <2>2, <2>3
<1>4. \A i \in DOMAIN plan' : Fits(SubSeq(plan', 1, i - 1), plan'[i])
  BY <1>1, <1>3
<1> QED
  BY <1>4 DEF InOrder, Fits, QuoteAfter, BaseAfter

\* The sides are specified: slices are cut, or counts listed.
LEMMA SpecifyKeeps ==
  ASSUME PlanInv, Specify
  PROVE  PlanInv'
<1>1. /\ request \in Requests /\ request' = request /\ account' = account
      /\ plan = <<>> /\ plan' = <<>> /\ unallocated = 0 /\ unallocated' = 0
      /\ account \in [Accounts -> Balances]
  BY DEF PlanInv, TypeInv, StepInv, Specify
<1>2. specs' = TaskSpecs(request)
  BY DEF Specify
<1>3. step' \in {"allocate", "slice"} /\ (step' = "allocate" <=> Len(specs') = 2)
  BY DEF Specify
<1>4. TypeInv'
  BY <1>1, <1>2, <1>3, PlanLaw DEF TypeInv
<1>5. NeverOverdrawn'
  BY <1>1, SamePlan DEF PlanInv
<1>6. step' = "slice" => Sliced'
  <2> SUFFICES ASSUME step' = "slice" PROVE Sliced'
    OBVIOUS
  <2> DEFINE v == specs'[1].volume
             n == specs'[1].count
             k == SliceCount(v, n)
  <2>1. slices' \in SliceVolumes(v, n)
    BY <1>3 DEF Specify
  <2>2. v \in Nat /\ n \in Nat
    <3>1. specs' \in Seq(SideSpec) /\ Len(specs') \in 1 .. 2
      BY <1>1, <1>2, SpecsLaw
    <3>2. specs'[1] \in SideSpec
      BY <3>1
    <3> QED
      BY <3>2 DEF SideSpec
  <2> HIDE DEF v, n
  <2>3. k \in Nat /\ (v >= MinOrder => k >= 1)
    <3>1. CountBounds(v).least \in Nat /\ CountBounds(v).most \in Nat
      BY <2>2, BoundsCarry
    <3>2. v >= MinOrder => CountBounds(v).least >= 1
      <4>1. v >= MinOrder => CountBounds(v).least = AtLeast(1, CeilDiv(v, MaxOrder))
        BY SizeAssumption DEF CountBounds
      <4>2. CeilDiv(v, MaxOrder) \in Nat
        BY <2>2, SizeAssumption, CeilLaw
      <4> QED
        BY <4>1, <4>2 DEF AtLeast
    <3> DEFINE b == CountBounds(v)
    <3>3. k = IF v < MinOrder THEN 0
              ELSE IF b.least > AtLeast(1, b.most) THEN 1
              ELSE AtMost(AtLeast(1, b.most), AtLeast(b.least, n))
      BY DEF SliceCount
    <3> HIDE DEF b, k
    <3> QED
      BY <2>2, <3>1, <3>2, <3>3, SizeAssumption DEF AtLeast, AtMost, b
  <2>4. Volumes \subseteq Nat
    BY SizeAssumption DEF Volumes
  <2> HIDE DEF k
  <2>5. slices' \in Seq(Nat) /\ (v >= MinOrder => SeqSum(slices') = v)
    <3>1. CASE k = 1
      <4>1. slices' = <<v>>
        BY <2>1, <3>1 DEF SliceVolumes, k
      <4>2. <<v>> \in Seq(Nat) /\ Len(<<v>>) = 1 /\ DOMAIN <<v>> = 1 .. 1 /\ <<v>>[1] = v
        BY <2>2
      <4>3. SeqSum(<<v>>) = v
        <5> DEFINE s == <<v>>
        <5>1. DOMAIN s = 1 .. 1 /\ IsIntOn(s, 1 .. 1) /\ s[1] = v
          BY <2>2, <4>2 DEF IsIntOn
        <5> HIDE DEF s
        <5>2. SumFunction(s) = s[1]
          BY <5>1, SumOfFew
        <5> QED
          BY <5>1, <5>2 DEF SeqSum, s
      <4> QED
        BY <4>1, <4>2, <4>3
    <3>2. CASE k # 1
      <4>1. slices' \in [1 .. k -> Volumes] /\ (k > 0 => SeqSum(slices') = v)
        BY <2>1, <3>2 DEF SliceVolumes, k
      <4>2. slices' = [i \in 1 .. k |-> slices'[i]] /\ \A i \in 1 .. k : slices'[i] \in Nat
        BY <2>4, <4>1
      <4>3. slices' \in Seq(Nat)
        BY <2>3, <4>2, IsASeq
      <4> QED
        BY <2>3, <4>1, <4>3
    <3> QED
      BY <3>1, <3>2
  <2>6. SideVolume("buy")' = 0 /\ SideVolume("sell")' = 0
    <3>1. \A side : SideOf(<<>>, side) = 0
      BY PlanLaw
    <3>2. \A side : SideVolume(side)' = SideOf(plan', side)
      BY DEF SideVolume, SideOf
    <3> QED
      BY <1>1, <3>1, <3>2
  <2>7. v < MinOrder \/ SideVolume("buy")' + SideVolume("sell")' + SeqSum(slices') + unallocated'
            = v
    BY <1>1, <2>2, <2>5, <2>6, SizeAssumption
  <2> QED
    BY <2>5, <2>7 DEF Sliced, v
<1>7. StepInv'
  BY <1>1, <1>3, <1>6 DEF StepInv, TwoSided
<1> QED
  BY <1>4, <1>5, <1>7 DEF PlanInv

\* The orders found are within what the accounts hold and what they sell first.
LEMMA OrdersLaw ==
  ASSUME account \in [Accounts -> Balances], request \in Requests, plan = <<>>,
         NEW n, NEW m, NEW g \in SellOrders(n), NEW h \in BuyOrders(g, m),
         g # NoOrders, h # NoOrders, TwoSided, specs = TaskSpecs(request)
  PROVE  /\ Lists(g) /\ Lists(h)
         /\ \A a \in Accounts : /\ account[a].base >= Sold(g, a)
                                /\ account[a].quote + Sold(g, a) >= Sold(h, a)
         /\ LeftOf(g) = specs[1].volume /\ LeftOf(h) = specs[2].volume
         /\ Affordable
<1>0. \A S \in SUBSET Accounts : \A cap, priority, least, v, k :
         \A x \in AllocateAccountOrders(S, cap, priority, least, v, k) :
             x # NoOrders => Lists(x) /\ Within(x, S, cap) /\ LeftOf(x) = v
  BY ONLY AllocateLaw, Zenon
<1> DEFINE base == [a \in Accounts |-> account[a].base]
           C == {a \in Accounts : base[a] >= MinOrder}
<1>1. /\ Lists(g) /\ DOMAIN g \subseteq C /\ \A a \in DOMAIN g : Sold(g, a) <= base[a]
      /\ LeftOf(g) = specs[1].volume
  <2> DEFINE first == [a \in Accounts |-> Deficit(a)]
             least == [a \in Accounts |-> AtMost(base[a], AtLeast(MinOrder, Deficit(a)))]
  <2>1. g \in AllocateAccountOrders(C, base, first, least, specs[1].volume, n)
    BY DEF SellOrders
  <2>2. C \in SUBSET Accounts
    OBVIOUS
  <2>3. PICK v : v = specs[1].volume
    OBVIOUS
  <2> HIDE DEF base, C, first, least
  <2>4. g \in AllocateAccountOrders(C, base, first, least, v, n)
    BY <2>1, <2>3
  <2>5. Lists(g) /\ Within(g, C, base) /\ LeftOf(g) = v
    BY <1>0, <2>2, <2>4
  <2> QED
    BY <2>3, <2>5 DEF Within
<1> DEFINE quote == [a \in Accounts |-> Spendable(a, Sold(g, a))]
           funded == {a \in Accounts : Spendable(a, 0) >= MinOrder}
           spendable == Total([a \in funded |-> Spendable(a, 0)], funded)
           D == IF request.objective = "shakeout" /\ spendable >= specs[2].volume
                THEN funded ELSE {a \in Accounts : quote[a] >= MinOrder}
<1>2. /\ Lists(h) /\ DOMAIN h \subseteq D /\ \A a \in DOMAIN h : Sold(h, a) <= quote[a]
      /\ LeftOf(h) = specs[2].volume
  <2> DEFINE first == [a \in Accounts |-> 0]
             least == [a \in Accounts |-> MinOrder]
  <2>1. h \in AllocateAccountOrders(D, quote, first, least, specs[2].volume, m)
    BY DEF BuyOrders
  <2>2. D \in SUBSET Accounts
    OBVIOUS
  <2>3. PICK v : v = specs[2].volume
    OBVIOUS
  <2> HIDE DEF quote, D, first, least
  <2>4. h \in AllocateAccountOrders(D, quote, first, least, v, m)
    BY <2>1, <2>3
  <2>5. Lists(h) /\ Within(h, D, quote) /\ LeftOf(h) = v
    BY <1>0, <2>2, <2>4
  <2> QED
    BY <2>3, <2>5 DEF Within
<1>3. \A a : Sold(g, a) \in Nat /\ Sold(h, a) \in Nat
  BY <1>1, <1>2, ListsLaw
<1>4. \A a \in Accounts : account[a].quote \in Nat /\ account[a].base \in Nat
  BY HoldingLaw
<1>5. ASSUME NEW a \in Accounts
      PROVE  account[a].base >= Sold(g, a)
  <2>1. a \in DOMAIN g => Sold(g, a) <= account[a].base
    BY <1>1
  <2>2. a \notin DOMAIN g => Sold(g, a) = 0
    BY DEF Sold
  <2> QED
    BY <1>3, <1>4, <2>1, <2>2
<1>6. ASSUME NEW a \in Accounts
      PROVE  account[a].quote + Sold(g, a) >= Sold(h, a)
  <2>1. CASE a \notin DOMAIN h
    <3>1. Sold(h, a) = 0
      BY <2>1 DEF Sold
    <3> QED
      BY <1>3, <1>4, <3>1
  <2>2. CASE a \in DOMAIN h
    <3>1. Sold(h, a) <= quote[a] /\ a \in D
      BY <1>2, <2>2
    <3>2. quote[a] = AtLeast(0, account[a].quote + Sold(g, a) - Reserve)
      BY DEF Spendable
    <3>3. Reserve \in Nat
      BY RequestAssumption DEF Reserve
    <3> HIDE DEF quote
    <3> QED
      BY <1>3, <1>4, <3>1, <3>2, <3>3 DEF AtLeast
  <2> QED
    BY <2>1, <2>2
<1>7. Affordable
  <2> DEFINE q == [a \in Accounts |-> account[a].quote]
             f == [a \in Accounts |-> Sold(g, a)]
             e == [a \in Accounts |-> Sold(h, a)]
             k == [a \in Accounts |-> account[a].quote + Sold(g, a)]
  <2>1. /\ \A a \in Accounts : q[a] \in Nat
        /\ \A a \in Accounts : f[a] \in Nat
        /\ \A a \in Accounts : e[a] \in Nat
        /\ \A a \in Accounts : k[a] = q[a] + f[a]
        /\ \A a \in Accounts : e[a] <= k[a]
    <3>1. /\ \A a \in Accounts : q[a] = account[a].quote
          /\ \A a \in Accounts : f[a] = Sold(g, a)
          /\ \A a \in Accounts : e[a] = Sold(h, a)
          /\ \A a \in Accounts : k[a] = account[a].quote + Sold(g, a)
      OBVIOUS
    <3> HIDE DEF q, f, e, k
    <3> QED
      BY <1>3, <1>4, <1>6, <3>1
  <2>2. DOMAIN q = Accounts
    OBVIOUS
  <2>3. LeftOf(g) = SumFunctionOnSet(f, Accounts) /\ LeftOf(h) = SumFunctionOnSet(e, Accounts)
    BY DEF LeftOf
  <2>4. Affordable <=> SumFunction(q) >= specs[2].volume - specs[1].volume
    BY DEF Affordable
  <2> HIDE DEF q, f, e, k
  <2>5. IsIntOn(q, Accounts) /\ IsIntOn(f, Accounts) /\ IsIntOn(e, Accounts)
        /\ IsIntOn(k, Accounts)
    <3>1. \A a \in Accounts : k[a] \in Int
      BY <2>1
    <3> QED
      BY <2>1, <3>1 DEF IsIntOn
  <2>6. SumFunctionOnSet(k, Accounts)
            = SumFunctionOnSet(q, Accounts) + SumFunctionOnSet(f, Accounts)
    BY <2>1, <2>5, AccountAssumption, SumAdd
  <2>7. SumFunctionOnSet(e, Accounts) <= SumFunctionOnSet(k, Accounts)
    BY <2>1, <2>5, AccountAssumption, SumLess
  <2>8. SumFunction(q) = SumFunctionOnSet(q, Accounts)
    BY <2>2 DEF SumFunction
  <2>9. /\ SumFunctionOnSet(q, Accounts) \in Int /\ SumFunctionOnSet(f, Accounts) \in Int
        /\ SumFunctionOnSet(e, Accounts) \in Int
    BY <2>1, AccountAssumption, SumNat
  <2>10. SumFunctionOnSet(e, Accounts) = specs[2].volume
         /\ SumFunctionOnSet(f, Accounts) = specs[1].volume
    BY <1>1, <1>2, <2>3
  <2>11. specs[2].volume <= SumFunction(q) + specs[1].volume
    BY <2>6, <2>7, <2>8, <2>10
  <2>12. specs[2].volume \in Int /\ specs[1].volume \in Int /\ SumFunction(q) \in Int
    BY <2>8, <2>9, <2>10
  <2>13. SumFunction(q) >= specs[2].volume - specs[1].volume
    BY <2>11, <2>12
  <2> QED
    BY <2>4, <2>13
<1> QED
  BY <1>1, <1>2, <1>5, <1>6, <1>7

\* Both sides of a pair of counts are found, or the pair is given up.
LEMMA AllocateKeeps ==
  ASSUME PlanInv, Allocate
  PROVE  PlanInv'
<1>1. /\ request \in Requests /\ request' = request /\ account' = account
      /\ plan = <<>> /\ plan' = <<>> /\ unallocated = 0 /\ unallocated' = 0
      /\ account \in [Accounts -> Balances] /\ specs = TaskSpecs(request) /\ specs' = specs
      /\ TwoSided /\ step = "allocate"
  BY DEF PlanInv, TypeInv, StepInv, Allocate
<1>2. PICK p \in tries : \E g \in SellOrders(p[1]) :
         \E h \in IF g = NoOrders THEN {NoOrders} ELSE BuyOrders(g, p[2]) :
            IF h = NoOrders THEN UNCHANGED <<step, sells, buys>>
            ELSE sells' = g /\ buys' = h /\ step' = "sequence"
  BY DEF Allocate
<1>3. PICK g \in SellOrders(p[1]) :
         \E h \in IF g = NoOrders THEN {NoOrders} ELSE BuyOrders(g, p[2]) :
            IF h = NoOrders THEN UNCHANGED <<step, sells, buys>>
            ELSE sells' = g /\ buys' = h /\ step' = "sequence"
  BY <1>2
<1>4. PICK h \in IF g = NoOrders THEN {NoOrders} ELSE BuyOrders(g, p[2]) :
         IF h = NoOrders THEN UNCHANGED <<step, sells, buys>>
         ELSE sells' = g /\ buys' = h /\ step' = "sequence"
  BY <1>3
<1>5. TypeInv'
  <2>1. step' \in {"allocate", "sequence"}
    BY <1>1, <1>4
  <2> QED
    BY <1>1, <2>1, PlanLaw DEF TypeInv
<1>6. NeverOverdrawn'
  BY <1>1, SamePlan DEF PlanInv
<1>7. CASE h = NoOrders
  <2>1. step' = "allocate" /\ TwoSided'
    BY <1>1, <1>4, <1>7 DEF TwoSided
  <2> QED
    BY <1>1, <1>5, <1>6, <2>1 DEF PlanInv, StepInv
<1>8. CASE h # NoOrders
  <2>1. g # NoOrders /\ h \in BuyOrders(g, p[2])
    BY <1>4, <1>8
  <2>2. sells' = g /\ buys' = h /\ step' = "sequence" /\ TwoSided'
    BY <1>1, <1>4, <1>8 DEF TwoSided
  <2>3. /\ Lists(g) /\ Lists(h)
        /\ \A a \in Accounts : /\ account[a].base >= Sold(g, a)
                               /\ account[a].quote + Sold(g, a) >= Sold(h, a)
        /\ LeftOf(g) = specs[1].volume /\ LeftOf(h) = specs[2].volume
        /\ Affordable
    BY <1>1, <1>8, <2>1, OrdersLaw
  <2>4. Funded'
    <3> SUFFICES ASSUME NEW a \in Accounts
                 PROVE  /\ BaseAfter(<<>>, a)' >= Sold(g, a)
                        /\ QuoteAfter(<<>>, a)' + Sold(g, a) >= Sold(h, a)
      BY <1>1, <2>2 DEF Funded
    <3>1. QuoteAfter(<<>>, a) = account[a].quote /\ BaseAfter(<<>>, a) = account[a].base
      BY <1>1, HoldingLaw
    <3>2. QuoteAfter(<<>>, a)' = QuoteAfter(<<>>, a) /\ BaseAfter(<<>>, a)' = BaseAfter(<<>>, a)
      BY <1>1 DEF QuoteAfter, BaseAfter
    <3> QED
      BY <2>3, <3>1, <3>2
  <2>5. InOrder(plan)'
    BY <1>1 DEF InOrder
  <2>6. Affordable'
    BY <1>1, <2>3 DEF Affordable
  <2>7. SideVolume("sell")' = 0 /\ SideVolume("buy")' = 0
    <3>1. \A side : SideOf(<<>>, side) = 0
      BY PlanLaw
    <3>2. \A side : SideVolume(side)' = SideOf(plan', side)
      BY DEF SideVolume, SideOf
    <3> QED
      BY <1>1, <3>1, <3>2
  <2>8. specs[1].volume \in Nat /\ specs[2].volume \in Nat
    BY <2>3, ListsLaw
  <2>9. SideVolume("sell")' + LeftOf(sells)' = specs'[1].volume
        /\ SideVolume("buy")' + LeftOf(buys)' = specs'[2].volume
    <3>1. LeftOf(sells)' = LeftOf(g) /\ LeftOf(buys)' = LeftOf(h)
      BY <2>2 DEF LeftOf, Sold
    <3> QED
      BY <1>1, <2>3, <2>7, <2>8, <3>1
  <2>10. Lists(sells)' /\ Lists(buys)'
    BY <2>2, <2>3 DEF Lists
  <2>11. Ledger'
    BY <1>1, <2>4, <2>5, <2>6, <2>9, <2>10 DEF Ledger
  <2> QED
    BY <1>1, <1>5, <1>6, <2>2, <2>11 DEF PlanInv, StepInv
<1> QED
  BY <1>7, <1>8

\* No pair of counts works: an empty plan.
LEMMA GiveUpKeeps ==
  ASSUME PlanInv, GiveUp
  PROVE  PlanInv'
<1>1. /\ request \in Requests /\ request' = request /\ account' = account
      /\ plan = <<>> /\ plan' = <<>> /\ unallocated' = Unplanned
      /\ account \in [Accounts -> Balances] /\ specs = TaskSpecs(request) /\ specs' = specs
      /\ TwoSided /\ step = "allocate" /\ step' = "done"
  BY DEF PlanInv, TypeInv, StepInv, GiveUp
<1>2. Unplanned \in Nat /\ Unplanned' = Unplanned /\ TwoSided'
  <2>1. specs[1] \in SideSpec /\ specs[2] \in SideSpec
    BY <1>1, SpecSums
  <2>2. specs[1].volume \in Nat /\ specs[2].volume \in Nat
    BY <2>1 DEF SideSpec
  <2> QED
    BY <1>1, <2>2 DEF Unplanned, TwoSided
<1>3. TypeInv'
  BY <1>1, <1>2, PlanLaw DEF TypeInv
<1>4. NeverOverdrawn'
  BY <1>1, SamePlan DEF PlanInv
<1>5. Finished'
  BY <1>1, <1>2 DEF Finished
<1> QED
  BY <1>1, <1>3, <1>4, <1>5 DEF PlanInv, StepInv

\* Every order has its place: the plan is complete.
LEMMA EndSequenceKeeps ==
  ASSUME PlanInv, EndSequence
  PROVE  PlanInv'
<1>1. /\ request \in Requests /\ request' = request /\ account' = account
      /\ plan \in Seq(PlanTask)
      /\ account \in [Accounts -> Balances] /\ specs = TaskSpecs(request) /\ specs' = specs
      /\ TwoSided /\ step = "sequence" /\ step' = "done" /\ Ledger /\ Eligible = {}
      /\ unallocated = 0
  BY DEF PlanInv, TypeInv, StepInv, EndSequence, Ledger
<1>2. Waiting("sell") \cup Waiting("buy") = {}
  BY <1>1, NotStuck DEF Ledger
<1>3. plan' = plan /\ unallocated' = unallocated
  BY <1>2 DEF EndSequence
<1>4. TypeInv'
  BY <1>1, <1>3 DEF TypeInv
<1>5. NeverOverdrawn'
  BY <1>1, <1>3, SamePlan DEF PlanInv
<1>6. SideVolume("sell") = specs[1].volume /\ SideVolume("buy") = specs[2].volume
  <2>1. LeftOf(sells) = 0 /\ LeftOf(buys) = 0
    BY <1>1, <1>2, SomeWaiting DEF Ledger
  <2>2. SideVolume("sell") \in Nat /\ SideVolume("buy") \in Nat
    BY <1>1, SidesLaw
  <2> QED
    BY <1>1, <2>1, <2>2 DEF Ledger
<1>7. SideVolume("sell")' = SideVolume("sell") /\ SideVolume("buy")' = SideVolume("buy")
  BY <1>3 DEF SideVolume
<1>8. Affordable' /\ InOrder(plan)'
  <2>1. Affordable /\ InOrder(plan)
    BY <1>1 DEF Ledger
  <2>2. Affordable'
    BY <1>1, <2>1 DEF Affordable
  <2> QED
    BY <1>1, <1>3, <2>1, <2>2 DEF InOrder, Fits, QuoteAfter, BaseAfter
<1>9. Finished'
  BY <1>1, <1>3, <1>6, <1>7, <1>8 DEF Finished, TwoSided
<1> QED
  BY <1>1, <1>4, <1>5, <1>9 DEF PlanInv, StepInv

\* The next order gets its place.
LEMMA PlaceKeeps ==
  ASSUME PlanInv, Place
  PROVE  PlanInv'
<1>1. /\ request \in Requests /\ request' = request /\ account' = account
      /\ plan \in Seq(PlanTask) /\ NeverOverdrawn
      /\ account \in [Accounts -> Balances] /\ specs = TaskSpecs(request) /\ specs' = specs
      /\ TwoSided /\ step = "sequence" /\ step' = "sequence" /\ Ledger
      /\ unallocated = 0 /\ unallocated' = 0
  BY DEF PlanInv, TypeInv, StepInv, Place, Ledger
<1>2. /\ Lists(sells) /\ Lists(buys) /\ Funded /\ Affordable /\ InOrder(plan)
      /\ SideVolume("sell") + LeftOf(sells) = specs[1].volume
      /\ SideVolume("buy") + LeftOf(buys) = specs[2].volume
  BY <1>1 DEF Ledger
<1>3. PICK t \in Eligible :
         /\ plan' = Append(plan, t)
         /\ IF t.side = "sell" THEN sells' = Without(sells, t) /\ buys' = buys
            ELSE buys' = Without(buys, t) /\ sells' = sells
  BY DEF Place
<1>4. \/ t \in Waiting("sell")
      \/ /\ t \in Waiting("buy")
         /\ QuoteAfter(plan, t.parts[1].account) >= t.parts[1].volume
  BY <1>1, <1>2, EligibleLaw
<1>5. PICK side \in {"sell", "buy"} :
         /\ t \in Waiting(side)
         /\ side = "buy" => QuoteAfter(plan, t.parts[1].account) >= t.parts[1].volume
  BY <1>4
<1> DEFINE g == IF side = "sell" THEN sells ELSE buys
<1>6. PICK a \in Accounts : \E v \in Volumes :
         /\ t = Task(side, a, v)
         /\ a \in DOMAIN g /\ v \in ToSet(g[a]) /\ v <= Sold(g, a)
  BY <1>2, <1>5, WaitingLaw
<1>7. PICK v \in Volumes :
         /\ t = Task(side, a, v)
         /\ a \in DOMAIN g /\ v \in ToSet(g[a]) /\ v <= Sold(g, a)
  BY <1>6
<1>8. v \in Nat
  BY SizeAssumption DEF Volumes
<1>9. /\ t \in PlanTask /\ t.side = side /\ t.parts[1].account = a
      /\ t.parts[1].volume = v /\ Len(t.parts) = 1 /\ Volume(t) = v
      /\ \A b : PartsOf(t.parts, b) = IF a = b THEN v ELSE 0
  BY <1>7, <1>8, OrderLaw
<1>10. Lists(g)
  BY <1>2
<1> HIDE DEF g
<1>11. /\ Lists(Without(g, t))
       /\ \A b : Sold(Without(g, t), b) = IF b = a THEN Sold(g, a) - v ELSE Sold(g, b)
       /\ LeftOf(Without(g, t)) = LeftOf(g) - v
  BY <1>7, <1>9, <1>10, WithoutLaw
<1>12. /\ \A b : Sold(sells, b) \in Nat /\ Sold(buys, b) \in Nat
       /\ LeftOf(sells) \in Nat /\ LeftOf(buys) \in Nat
  BY <1>2, ListsLaw
<1>13. \A b : Gain(t, b) = IF a # b THEN 0 ELSE IF side = "sell" THEN v ELSE 0 - v
  <2> SUFFICES ASSUME NEW b
               PROVE  Gain(t, b) = IF a # b THEN 0 ELSE IF side = "sell" THEN v ELSE 0 - v
    OBVIOUS
  <2>1. Gain(t, b) = IF side = "sell" THEN PartsOf(t.parts, b) ELSE 0 - PartsOf(t.parts, b)
    BY <1>9, TaskLaw
  <2>2. PartsOf(t.parts, b) = IF a = b THEN v ELSE 0
    BY <1>9
  <2> QED
    BY <1>8, <2>1, <2>2
<1>14. \A b \in Accounts : /\ QuoteAfter(plan, b) \in Int /\ BaseAfter(plan, b) \in Int
                           /\ QuoteAfter(plan, b) >= 0 /\ BaseAfter(plan, b) >= 0
                           /\ BaseAfter(plan, b) >= Sold(sells, b)
                           /\ QuoteAfter(plan, b) + Sold(sells, b) >= Sold(buys, b)
  <2> SUFFICES ASSUME NEW b \in Accounts
               PROVE  /\ QuoteAfter(plan, b) \in Int /\ BaseAfter(plan, b) \in Int
                      /\ QuoteAfter(plan, b) >= 0 /\ BaseAfter(plan, b) >= 0
                      /\ BaseAfter(plan, b) >= Sold(sells, b)
                      /\ QuoteAfter(plan, b) + Sold(sells, b) >= Sold(buys, b)
    OBVIOUS
  <2>1. QuoteAfter(plan, b) \in Int /\ BaseAfter(plan, b) \in Int
    BY <1>1, HoldingLaw
  <2>2. SubSeq(plan, 1, Len(plan)) = plan /\ Len(plan) \in 0 .. Len(plan)
    BY <1>1, <1>9, PrefixLaw
  <2>3. QuoteAfter(SubSeq(plan, 1, Len(plan)), b) >= 0
        /\ BaseAfter(SubSeq(plan, 1, Len(plan)), b) >= 0
    BY <1>1, <2>2 DEF NeverOverdrawn
  <2>4. QuoteAfter(plan, b) >= 0 /\ BaseAfter(plan, b) >= 0
    BY <2>2, <2>3
  <2> QED
    BY <1>2, <2>1, <2>4 DEF Funded
<1>15. side = "sell" => BaseAfter(plan, a) >= v
  BY <1>7, <1>8, <1>12, <1>14 DEF g
<1>16. side = "buy" => QuoteAfter(plan, a) >= v
  BY <1>5, <1>9
<1>17. plan' \in Seq(PlanTask)
  BY <1>1, <1>3, <1>9, PlanAppended
<1>18. TypeInv'
  BY <1>1, <1>17 DEF TypeInv
<1>19. NeverOverdrawn'
  <2>1. \A b \in Accounts : /\ QuoteAfter(plan, b) + Gain(t, b) >= 0
                            /\ BaseAfter(plan, b) - Gain(t, b) >= 0
    <3> SUFFICES ASSUME NEW b \in Accounts
                 PROVE  /\ QuoteAfter(plan, b) + Gain(t, b) >= 0
                        /\ BaseAfter(plan, b) - Gain(t, b) >= 0
      OBVIOUS
    <3>1. CASE a # b
      BY <1>13, <1>14, <3>1
    <3>2. CASE a = b /\ side = "sell"
      <4>1. Gain(t, b) = v
        BY <1>13, <3>2
      <4> QED
        BY <1>8, <1>14, <1>15, <3>2, <4>1
    <3>3. CASE a = b /\ side = "buy"
      <4>1. Gain(t, b) = 0 - v
        BY <1>13, <3>3
      <4> QED
        BY <1>8, <1>14, <1>16, <3>3, <4>1
    <3> QED
      BY <3>1, <3>2, <3>3
  <2> QED
    BY <1>1, <1>3, <1>9, <2>1, MorePlan
<1>20. InOrder(plan)'
  <2>1. Fits(plan, t)
    BY <1>9, <1>15, <1>16 DEF Fits
  <2> QED
    BY <1>1, <1>2, <1>3, <1>9, <2>1, MoreInOrder
<1>21. /\ Lists(sells') /\ Lists(buys')
       /\ \A b : Sold(sells', b)
                     = IF b = a /\ side = "sell" THEN Sold(sells, b) - v ELSE Sold(sells, b)
       /\ \A b : Sold(buys', b)
                     = IF b = a /\ side = "buy" THEN Sold(buys, b) - v ELSE Sold(buys, b)
       /\ LeftOf(sells') = IF side = "sell" THEN LeftOf(sells) - v ELSE LeftOf(sells)
       /\ LeftOf(buys') = IF side = "buy" THEN LeftOf(buys) - v ELSE LeftOf(buys)
  <2>1. CASE side = "sell"
    <3>1. sells' = Without(sells, t) /\ buys' = buys /\ g = sells
      BY <1>3, <1>9, <2>1 DEF g
    <3> QED
      BY <1>2, <1>11, <2>1, <3>1
  <2>2. CASE side = "buy"
    <3>1. buys' = Without(buys, t) /\ sells' = sells /\ g = buys
      BY <1>3, <1>9, <2>2 DEF g
    <3> QED
      BY <1>2, <1>11, <2>2, <3>1
  <2> QED
    BY <2>1, <2>2
<1>22. Funded'
  <2>1. ASSUME NEW b \in Accounts
        PROVE  /\ BaseAfter(plan', b) >= Sold(sells', b)
               /\ QuoteAfter(plan', b) + Sold(sells', b) >= Sold(buys', b)
    <3>1. /\ QuoteAfter(plan', b) = QuoteAfter(plan, b) + Gain(t, b)
          /\ BaseAfter(plan', b) = BaseAfter(plan, b) - Gain(t, b)
      BY <1>1, <1>3, <1>9, HoldingAppended
    <3>2. CASE a # b
      <4>1. Gain(t, b) = 0
        BY <1>13, <3>2
      <4> QED
        BY <1>12, <1>14, <1>21, <3>1, <3>2, <4>1
    <3>3. CASE a = b /\ side = "sell"
      <4>1. Gain(t, b) = v
        BY <1>13, <3>3
      <4>2. Sold(sells', b) = Sold(sells, b) - v /\ Sold(buys', b) = Sold(buys, b)
        BY <1>21, <3>3
      <4> QED
        BY <1>8, <1>12, <1>14, <3>1, <4>1, <4>2
    <3>4. CASE a = b /\ side = "buy"
      <4>1. Gain(t, b) = 0 - v
        BY <1>13, <3>4
      <4>2. Sold(sells', b) = Sold(sells, b) /\ Sold(buys', b) = Sold(buys, b) - v
        BY <1>21, <3>4
      <4> QED
        BY <1>8, <1>12, <1>14, <3>1, <4>1, <4>2
    <3> QED
      BY <3>2, <3>3, <3>4
  <2> QED
    BY <1>1, <2>1 DEF Funded, QuoteAfter, BaseAfter
<1>23. SideVolume("sell")' + LeftOf(sells)' = specs'[1].volume
       /\ SideVolume("buy")' + LeftOf(buys)' = specs'[2].volume
  <2>1. \A s : SideVolume(s)' = SideOf(plan', s) /\ SideVolume(s) = SideOf(plan, s)
    BY DEF SideVolume, SideOf
  <2>2. \A s : SideOf(plan', s) = SideOf(plan, s) + (IF side = s THEN v ELSE 0)
    BY <1>1, <1>3, <1>9, PlanAppended
  <2>3. \A s : SideVolume(s) \in Nat
    BY <1>1, SidesLaw
  <2>4. LeftOf(sells)' = LeftOf(sells') /\ LeftOf(buys)' = LeftOf(buys')
    BY DEF LeftOf, Sold
  <2>5. CASE side = "sell"
    <3>1. SideVolume("sell")' = SideVolume("sell") + v /\ SideVolume("buy")' = SideVolume("buy")
      BY <2>1, <2>2, <2>3, <2>5
    <3>2. LeftOf(sells)' = LeftOf(sells) - v /\ LeftOf(buys)' = LeftOf(buys)
      BY <1>21, <2>4, <2>5
    <3> QED
      BY <1>1, <1>2, <1>8, <1>12, <2>3, <3>1, <3>2
  <2>6. CASE side = "buy"
    <3>1. SideVolume("buy")' = SideVolume("buy") + v /\ SideVolume("sell")' = SideVolume("sell")
      BY <2>1, <2>2, <2>3, <2>6
    <3>2. LeftOf(buys)' = LeftOf(buys) - v /\ LeftOf(sells)' = LeftOf(sells)
      BY <1>21, <2>4, <2>6
    <3> QED
      BY <1>1, <1>2, <1>8, <1>12, <2>3, <3>1, <3>2
  <2> QED
    BY <2>5, <2>6
<1>24. Affordable'
  BY <1>1, <1>2 DEF Affordable
<1>25. Lists(sells)' /\ Lists(buys)'
  BY <1>21 DEF Lists
<1>26. Ledger'
  BY <1>1, <1>20, <1>22, <1>23, <1>24, <1>25 DEF Ledger
<1>27. TwoSided'
  BY <1>1 DEF TwoSided
<1> QED
  BY <1>1, <1>18, <1>19, <1>26, <1>27 DEF PlanInv, StepInv

-----------------------------------------------------------------------------
(* One side: a slice spread over accounts.                                  *)

\* A list of numbers adds up to its first and the rest.
LEMMA HeadTailLaw ==
  ASSUME NEW s \in Seq(Nat), s # <<>>
  PROVE  /\ Head(s) \in Nat /\ Tail(s) \in Seq(Nat)
         /\ SeqSum(s) = Head(s) + SeqSum(Tail(s))
<1>1. PICK n \in Nat : n = Len(s)
  OBVIOUS
<1>2. /\ n >= 1 /\ Head(s) = s[1] /\ Tail(s) \in Seq(Nat) /\ Len(Tail(s)) = n - 1
      /\ \A i \in 1 .. (n - 1) : Tail(s)[i] = s[i + 1]
      /\ \A i \in 1 .. n : s[i] \in Nat
  BY <1>1, HeadTailProperties
<1> DEFINE T == 1 .. (n - 1)
           U == (1 .. n) \ {1}
           b == [i \in T |-> i + 1]
           r == Tail(s)
<1> HIDE DEF r
<1>3. IsFiniteSet(T) /\ IsFiniteSet(1 .. n) /\ IsFiniteSet(U)
  <2>1. IsFiniteSet(T) /\ IsFiniteSet(1 .. n)
    BY <1>2, FS_Interval
  <2>2. U \subseteq 1 .. n
    OBVIOUS
  <2> QED
    BY <2>1, <2>2, FS_Subset
<1>4. IsIntOn(s, 1 .. n) /\ IsIntOn(s, U)
  BY <1>2 DEF IsIntOn
<1>5. /\ b \in [T -> U] /\ \A t, u \in T : t # u => b[t] # b[u]
      /\ \A t \in T : r[t] = s[b[t]]
  BY <1>2 DEF r
<1>6. \A j \in U : \E t \in T : b[t] = j
  <2> SUFFICES ASSUME NEW j \in U PROVE \E t \in T : b[t] = j
    OBVIOUS
  <2>1. j - 1 \in T /\ b[j - 1] = j
    BY <1>2
  <2> QED
    BY <2>1
<1>7. 1 \in 1 .. n
  BY <1>2
<1>8. SumFunctionOnSet(s, 1 .. n) = s[1] + SumFunctionOnSet(s, U)
  <2> DEFINE A == 1 .. n
  <2>1. A \in SUBSET A /\ 1 \in A /\ IsFiniteSet(A) /\ IsIntOn(s, A)
    BY <1>3, <1>4, <1>7
  <2> HIDE DEF A
  <2>2. SumFunctionOnSet(s, A) = s[1] + SumFunctionOnSet(s, A \ {1})
    BY <2>1, SumLaw
  <2> QED
    BY <2>2 DEF A
<1> HIDE DEF T, U, b
<1>9. SumFunctionOnSet(r, T) = SumFunctionOnSet(s, U)
  BY <1>3, <1>4, <1>5, <1>6, SumRenamed
<1>10. SeqSum(s) = SumFunctionOnSet(s, 1 .. n) /\ SeqSum(r) = SumFunctionOnSet(r, T)
  BY <1>1, <1>2, SeqSumLaw DEF r, T
<1> QED
  BY <1>2, <1>7, <1>8, <1>9, <1>10 DEF r

\* What is left of a slice and the parts of it that are taken.
Got == [left : Nat, parts : Seq(Part)]

\* The parts and what is left are the slice; no account has more than it can take.
IsSpread(r, cap, v) ==
    /\ r \in Got
    /\ PartsSum(r.parts) + r.left = v
    /\ \A a \in Accounts : PartsOf(r.parts, a) <= cap[a]

\* An account that has nothing of the slice yet takes what it can.
LEMMA TakeLaw ==
  ASSUME NEW cap \in [Accounts -> Nat], NEW v \in Nat, NEW r, IsSpread(r, cap, v),
         NEW a \in Accounts, PartsOf(r.parts, a) = 0
  PROVE  LET s == Take(cap, r, a)
         IN  /\ IsSpread(s, cap, v)
             /\ \A b \in Accounts \ {a} : PartsOf(s.parts, b) = PartsOf(r.parts, b)
<1>1. /\ r.left \in Nat /\ r.parts \in Seq(Part) /\ PartsSum(r.parts) + r.left = v
      /\ \A b \in Accounts : PartsOf(r.parts, b) <= cap[b]
  BY DEF IsSpread, Got
<1>2. PartsSum(r.parts) \in Nat
  BY <1>1, PartsLaw
<1> DEFINE x == AtMost(cap[a], r.left)
           rest == r.left - x
           less == x - (MinOrder - rest)
           w == IF rest > 0 /\ rest < MinOrder /\ less >= MinOrder THEN less ELSE x
           p == [account |-> a, volume |-> w]
           s == Take(cap, r, a)
<1>3. s = IF r.left < MinOrder \/ w < MinOrder THEN r
          ELSE [left |-> r.left - w, parts |-> Append(r.parts, p)]
  BY DEF Take
<1>4. cap[a] \in Nat /\ x \in Nat /\ x <= cap[a] /\ x <= r.left
  BY <1>1 DEF AtMost
<1> HIDE DEF x
<1>5. w \in Int /\ w <= x
  BY <1>1, <1>4, SizeAssumption
<1> HIDE DEF w, rest, less
<1>6. CASE r.left < MinOrder \/ w < MinOrder
  <2>1. s = r
    BY <1>3, <1>6
  <2> HIDE DEF s
  <2> QED
    BY <2>1 DEF s
<1>7. CASE ~(r.left < MinOrder \/ w < MinOrder)
  <2>1. s.left = r.left - w /\ s.parts = Append(r.parts, p)
        /\ s = [left |-> r.left - w, parts |-> Append(r.parts, p)]
    BY <1>3, <1>7
  <2>2. w \in Nat /\ r.left - w \in Nat
    BY <1>1, <1>4, <1>5, <1>7, SizeAssumption
  <2>3. p \in Part /\ p.account = a /\ p.volume = w
    BY <2>2 DEF Part
  <2> HIDE DEF s, p
  <2>4. /\ s.parts \in Seq(Part) /\ PartsSum(s.parts) = PartsSum(r.parts) + w
        /\ \A b : PartsOf(s.parts, b)
                      = PartsOf(r.parts, b) + (IF a = b THEN w ELSE 0)
    BY <1>1, <2>1, <2>3, PartsAppended
  <2>5. s \in Got
    BY <2>1, <2>2, <2>4 DEF Got
  <2>6. PartsSum(s.parts) + s.left = v
    BY <1>1, <1>2, <2>1, <2>2, <2>4
  <2>7. \A b \in Accounts \ {a} : PartsOf(s.parts, b) = PartsOf(r.parts, b)
    <3>1. \A b : PartsOf(r.parts, b) \in Nat
      BY <1>1, PartsLaw
    <3> SUFFICES ASSUME NEW b \in Accounts \ {a}
                 PROVE  PartsOf(s.parts, b) = PartsOf(r.parts, b)
      OBVIOUS
    <3>2. PartsOf(s.parts, b) = PartsOf(r.parts, b) + 0 /\ PartsOf(r.parts, b) \in Nat
      BY <2>4, <3>1
    <3> QED
      BY <3>2
  <2>8. PartsOf(s.parts, a) <= cap[a]
    <3>1. PartsOf(s.parts, a) = 0 + w
      BY <2>4
    <3> QED
      BY <1>4, <1>5, <2>2, <3>1
  <2>9. \A b \in Accounts : PartsOf(s.parts, b) <= cap[b]
    BY <1>1, <2>7, <2>8
  <2> QED
    BY <2>5, <2>6, <2>7, <2>9 DEF IsSpread, s
<1> QED
  BY <1>6, <1>7

\* h gives what is taken after each of the first k turns.
IsTaken(h, o, cap, v, k) ==
    h = [i \in 0 .. k |-> IF i = 0 THEN [left |-> v, parts |-> <<>>]
                          ELSE Take(cap, h[i - 1], o[i])]

\* There is such a function, so that the one taken is one.
LEMMA TakenIsFunction ==
  ASSUME NEW o, NEW cap, NEW v, NEW k \in Nat
  PROVE  \E h : IsTaken(h, o, cap, v, k)
<1> DEFINE start == [left |-> v, parts |-> <<>>]
           New(x, a) == Take(cap, x, a)
           T == {j \in Nat : ~ \E h : IsTaken(h, o, cap, v, j)}
<1>1. SUFFICES ASSUME T # {} PROVE FALSE
  OBVIOUS
<1>2. PICK j \in T : \A m \in T : j <= m
  BY <1>1, LeastNat
<1>3. CASE j = 0
  <2> DEFINE h == [i \in 0 .. 0 |-> start]
  <2>1. IsTaken(h, o, cap, v, 0)
    BY DEF IsTaken
  <2> QED
    BY <1>2, <1>3, <2>1
<1>4. CASE j # 0
  <2>1. j - 1 \in Nat /\ j - 1 \notin T
    BY <1>2, <1>4
  <2>2. PICK g : IsTaken(g, o, cap, v, j - 1)
    BY <2>1
  <2> DEFINE h == [i \in 0 .. j |-> IF i = j THEN Take(cap, g[j - 1], o[j]) ELSE g[i]]
  <2>3. \A i \in 0 .. j : h[i] = IF i = 0 THEN [left |-> v, parts |-> <<>>]
                                 ELSE Take(cap, h[i - 1], o[i])
    <3>1. g = [i \in 0 .. j - 1 |-> IF i = 0 THEN start ELSE New(g[i - 1], o[i])]
      BY <2>2 DEF IsTaken
    <3> HIDE DEF start, New
    <3>2. \A i \in 0 .. j - 1 : g[i] = IF i = 0 THEN start ELSE New(g[i - 1], o[i])
      BY <3>1
    <3>3. \A i \in 0 .. j : h[i] = IF i = j THEN New(g[j - 1], o[j]) ELSE g[i]
      BY DEF New
    <3>4. \A i \in 0 .. j : i # j => i \in 0 .. j - 1
      BY <2>1
    <3>5. \A i \in 0 .. j : i # 0 => i - 1 \in 0 .. j /\ i - 1 # j
      BY <2>1
    <3> HIDE DEF h
    <3>6. \A i \in 0 .. j : h[i] = IF i = 0 THEN start ELSE New(h[i - 1], o[i])
      BY <1>4, <3>2, <3>3, <3>4, <3>5
    <3> QED
      BY <3>6 DEF start, New
  <2>4. IsTaken(h, o, cap, v, j)
    BY <2>3 DEF IsTaken
  <2> QED
    BY <1>2, <2>4
<1> QED
  BY <1>3, <1>4

\* A slice is spread within what the accounts can take, whatever their order.
LEMMA SpreadLaw ==
  ASSUME NEW cap \in [Accounts -> Nat], NEW v \in Nat,
         NEW r \in AllocateBoundedOrderVolume(cap, v)
  PROVE  IsSpread(r, cap, v)
<1> DEFINE C == {a \in Accounts : cap[a] >= MinOrder}
           InTurn(o) ==
             LET taken[i \in 0 .. Len(o)] ==
                     IF i = 0 THEN [left |-> v, parts |-> <<>>]
                     ELSE Take(cap, taken[i - 1], o[i])
             IN  taken[Len(o)]
<1>1. PICK o \in SetToSeqs(C) : r = InTurn(o)
  BY DEF AllocateBoundedOrderVolume
<1>2. PICK k \in Nat : k = Cardinality(C)
  BY AccountAssumption, FS_Subset, FS_CardinalityType
<1>3. o \in [1 .. k -> C] /\ \A i, j \in 1 .. k : o[i] = o[j] => i = j
  BY <1>2 DEF SetToSeqs, IsInjective
<1>4. Len(o) = k /\ \A i \in 1 .. k : o[i] \in Accounts
  <2>1. o \in Seq(C)
    BY <1>3
  <2> QED
    BY <1>3, <2>1
<1> DEFINE taken[i \in 0 .. k] == IF i = 0 THEN [left |-> v, parts |-> <<>>]
                                  ELSE Take(cap, taken[i - 1], o[i])
<1>5. IsTaken(taken, o, cap, v, k)
  <2>1. \E h : IsTaken(h, o, cap, v, k)
    BY TakenIsFunction
  <2> QED
    BY <2>1 DEF IsTaken
<1>6. r = taken[k]
  BY <1>1, <1>4
<1> HIDE DEF taken, InTurn
<1> DEFINE Good(i) ==
             /\ IsSpread(taken[i], cap, v)
             /\ \A a \in Accounts :
                    (\A j \in 1 .. i : o[j] # a) => PartsOf(taken[i].parts, a) = 0
           T == {i \in 0 .. k : ~ Good(i)}
<1>7. \A i \in 0 .. k : taken[i] = IF i = 0 THEN [left |-> v, parts |-> <<>>]
                                   ELSE Take(cap, taken[i - 1], o[i])
  BY <1>5 DEF IsTaken
<1>8. T = {}
  <2>1. SUFFICES ASSUME T # {} PROVE FALSE
    OBVIOUS
  <2>2. PICK i \in T : \A m \in T : i <= m
    <3>1. T \subseteq Nat
      BY <1>2
    <3> HIDE DEF T
    <3> QED
      BY <2>1, <3>1, LeastNat
  <2>3. CASE i = 0
    <3>1. taken[0] = [left |-> v, parts |-> <<>>]
      BY <1>7, <2>2, <2>3
    <3>2. <<>> \in Seq(Part)
      OBVIOUS
    <3>3. taken[0] \in Got /\ taken[0].left = v /\ taken[0].parts = <<>>
      BY <3>1, <3>2 DEF Got
    <3>4. PartsSum(<<>>) = 0 /\ \A a : PartsOf(<<>>, a) = 0
      BY PartsLaw
    <3>5. IsSpread(taken[0], cap, v)
      BY <3>3, <3>4 DEF IsSpread
    <3> QED
      BY <2>2, <2>3, <3>3, <3>4, <3>5
  <2>4. CASE i # 0
    <3>1. i - 1 \in 0 .. k /\ i \in 1 .. k /\ i - 1 \notin T
      BY <1>2, <2>2, <2>4
    <3>2. Good(i - 1)
      BY <3>1
    <3> DEFINE s == taken[i - 1]
    <3>3. IsSpread(s, cap, v)
      BY <3>2
    <3>4. o[i] \in Accounts
      BY <1>4, <3>1
    <3>5. PartsOf(s.parts, o[i]) = 0
      <4>1. \A j \in 1 .. i - 1 : o[j] # o[i]
        BY <1>2, <1>3, <3>1
      <4> QED
        BY <3>2, <3>4, <4>1
    <3>6. taken[i] = Take(cap, s, o[i])
      BY <1>7, <2>2, <2>4
    <3> HIDE DEF s
    <3>7. /\ IsSpread(taken[i], cap, v)
          /\ \A b \in Accounts \ {o[i]} : PartsOf(taken[i].parts, b) = PartsOf(s.parts, b)
      BY <3>3, <3>4, <3>5, <3>6, TakeLaw
    <3>8. ASSUME NEW a \in Accounts, \A j \in 1 .. i : o[j] # a
          PROVE  PartsOf(taken[i].parts, a) = 0
      <4>1. a # o[i] /\ \A j \in 1 .. i - 1 : o[j] # a
        BY <1>2, <3>1, <3>8
      <4>2. PartsOf(s.parts, a) = 0
        BY <3>2, <4>1 DEF s
      <4> QED
        BY <3>7, <4>1, <4>2
    <3> QED
      BY <2>2, <3>7, <3>8
  <2> QED
    BY <2>3, <2>4
<1>9. Good(k)
  <2>1. k \in 0 .. k /\ k \notin T
    BY <1>2, <1>8
  <2> HIDE DEF Good
  <2> QED
    BY <2>1
<1> QED
  BY <1>6, <1>9

\* A slice is spread: what is traded, left over and to come stays the volume.
LEMMA SliceKeeps ==
  ASSUME PlanInv, Slice
  PROVE  PlanInv'
<1>1. /\ request \in Requests /\ request' = request /\ account' = account
      /\ plan \in Seq(PlanTask) /\ NeverOverdrawn /\ unallocated \in Nat
      /\ account \in [Accounts -> Balances] /\ specs = TaskSpecs(request) /\ specs' = specs
      /\ ~ TwoSided /\ step = "slice" /\ step' = "slice" /\ Sliced
      /\ slices # <<>> /\ slices' = Tail(slices)
  BY DEF PlanInv, TypeInv, StepInv, Slice
<1> DEFINE side == specs[1].side
           v == Head(slices)
           cap == [a \in Accounts |-> Capacity(side, a)]
<1>2. PICK r \in AllocateBoundedOrderVolume(cap, v) :
         /\ unallocated' = unallocated + r.left
         /\ plan' = IF r.parts = <<>> THEN plan
                    ELSE Append(plan, [side |-> side, parts |-> r.parts])
  BY DEF Slice
<1>3. specs[1] \in SideSpec
  BY <1>1, SpecSums
<1>4. side \in {"sell", "buy"} /\ specs[1].volume \in Nat
  BY <1>3 DEF SideSpec
<1>5. /\ v \in Nat /\ slices' \in Seq(Nat) /\ SeqSum(slices) = v + SeqSum(slices')
      /\ SeqSum(slices') \in Nat
  BY <1>1, HeadTailLaw, SeqSumLaw DEF Sliced
<1>6. \A a \in Accounts : /\ QuoteAfter(plan, a) \in Int /\ BaseAfter(plan, a) \in Int
                          /\ QuoteAfter(plan, a) >= 0 /\ BaseAfter(plan, a) >= 0
  <2> SUFFICES ASSUME NEW a \in Accounts
               PROVE  /\ QuoteAfter(plan, a) \in Int /\ BaseAfter(plan, a) \in Int
                      /\ QuoteAfter(plan, a) >= 0 /\ BaseAfter(plan, a) >= 0
    OBVIOUS
  <2>1. QuoteAfter(plan, a) \in Int /\ BaseAfter(plan, a) \in Int
    BY <1>1, HoldingLaw
  <2>2. SubSeq(plan, 1, Len(plan)) = plan /\ Len(plan) \in 0 .. Len(plan)
    <3>1. Len(plan) \in Nat /\ plan = [i \in 1 .. Len(plan) |-> plan[i]]
      BY <1>1
    <3>2. SubSeq(plan, 1, Len(plan)) = [i \in 1 .. Len(plan) |-> plan[i]]
      BY <1>1
    <3> QED
      BY <3>1, <3>2
  <2>3. QuoteAfter(SubSeq(plan, 1, Len(plan)), a) >= 0
        /\ BaseAfter(SubSeq(plan, 1, Len(plan)), a) >= 0
    BY <1>1, <2>2 DEF NeverOverdrawn
  <2> QED
    BY <2>1, <2>2, <2>3
<1>7. Reserve \in Nat
  BY <1>1, RequestAssumption DEF Reserve
<1>8. \A a \in Accounts :
         /\ cap[a] \in Nat
         /\ side = "buy" => cap[a] <= QuoteAfter(plan, a)
         /\ side = "sell" => cap[a] <= BaseAfter(plan, a)
  <2> SUFFICES ASSUME NEW a \in Accounts
               PROVE  /\ cap[a] \in Nat
                      /\ side = "buy" => cap[a] <= QuoteAfter(plan, a)
                      /\ side = "sell" => cap[a] <= BaseAfter(plan, a)
    OBVIOUS
  <2>1. cap[a] = Capacity(side, a)
    OBVIOUS
  <2> HIDE DEF cap, side
  <2> QED
    BY <1>4, <1>6, <1>7, <2>1 DEF Capacity, AtLeast
<1>9. cap \in [Accounts -> Nat]
  BY <1>8
<1> HIDE DEF cap
<1>10. /\ r \in Got /\ PartsSum(r.parts) + r.left = v
       /\ \A a \in Accounts : PartsOf(r.parts, a) <= cap[a]
  <2>1. IsSpread(r, cap, v)
    BY <1>2, <1>5, <1>9, SpreadLaw
  <2> QED
    BY <2>1 DEF IsSpread
<1>11. r.left \in Nat /\ r.parts \in Seq(Part)
  BY <1>10 DEF Got
<1> DEFINE t == [side |-> side, parts |-> r.parts]
<1>12. t \in PlanTask /\ t.side = side /\ t.parts = r.parts
  BY <1>4, <1>11 DEF PlanTask
<1> HIDE DEF t
<1>13. /\ Volume(t) = PartsSum(r.parts) /\ Volume(t) \in Nat
       /\ \A a : /\ Gain(t, a) = IF side = "sell" THEN PartsOf(r.parts, a)
                                 ELSE 0 - PartsOf(r.parts, a)
                 /\ PartsOf(r.parts, a) \in Nat
  <2>1. /\ Volume(t) = PartsSum(t.parts) /\ Volume(t) \in Nat
        /\ \A a : /\ Gain(t, a) = IF t.side = "sell" THEN PartsOf(t.parts, a)
                                  ELSE 0 - PartsOf(t.parts, a)
                  /\ PartsOf(t.parts, a) \in Nat
    BY <1>12, TaskLaw
  <2> QED
    BY <1>12, <2>1
<1>14. \A s : /\ SideVolume(s) = SideOf(plan, s) /\ SideVolume(s)' = SideOf(plan', s)
              /\ SideVolume(s) \in Nat
  BY <1>1, SidesLaw DEF SideVolume, SideOf
<1>15. unallocated' \in Nat /\ unallocated' = unallocated + r.left
  BY <1>1, <1>2, <1>11
<1>16. /\ plan' \in Seq(PlanTask) /\ NeverOverdrawn'
       /\ SideVolume("buy")' + SideVolume("sell")' + r.left
              = SideVolume("buy") + SideVolume("sell") + v
  <2>1. CASE r.parts = <<>>
    <3>1. plan' = plan
      BY <1>2, <2>1
    <3>2. r.left = v
      <4>1. PartsSum(<<>>) = 0
        BY PartsLaw
      <4> QED
        BY <1>5, <1>10, <1>11, <2>1, <4>1
    <3>3. SideVolume("buy")' = SideVolume("buy") /\ SideVolume("sell")' = SideVolume("sell")
      BY <1>14, <3>1
    <3> QED
      BY <1>1, <3>1, <3>2, <3>3, SamePlan
  <2>2. CASE r.parts # <<>>
    <3>1. plan' = Append(plan, t)
      BY <1>2, <2>2 DEF t
    <3>2. plan' \in Seq(PlanTask)
      BY <1>1, <1>12, <3>1, PlanAppended
    <3>3. \A a \in Accounts : /\ QuoteAfter(plan, a) + Gain(t, a) >= 0
                              /\ BaseAfter(plan, a) - Gain(t, a) >= 0
      <4> SUFFICES ASSUME NEW a \in Accounts
                   PROVE  /\ QuoteAfter(plan, a) + Gain(t, a) >= 0
                          /\ BaseAfter(plan, a) - Gain(t, a) >= 0
        OBVIOUS
      <4>1. /\ PartsOf(r.parts, a) \in Nat /\ PartsOf(r.parts, a) <= cap[a] /\ cap[a] \in Nat
            /\ QuoteAfter(plan, a) \in Int /\ BaseAfter(plan, a) \in Int
            /\ QuoteAfter(plan, a) >= 0 /\ BaseAfter(plan, a) >= 0
        BY <1>6, <1>8, <1>10, <1>13
      <4>2. CASE side = "sell"
        <5>1. Gain(t, a) = PartsOf(r.parts, a) /\ cap[a] <= BaseAfter(plan, a)
          BY <1>8, <1>13, <4>2
        <5> QED
          BY <4>1, <5>1
      <4>3. CASE side = "buy"
        <5>1. Gain(t, a) = 0 - PartsOf(r.parts, a) /\ cap[a] <= QuoteAfter(plan, a)
          BY <1>8, <1>13, <4>3
        <5> QED
          BY <4>1, <5>1
      <4> QED
        BY <1>4, <4>2, <4>3
    <3>4. NeverOverdrawn'
      BY <1>1, <1>12, <3>1, <3>3, MorePlan
    <3>5. \A s : SideVolume(s)' = SideVolume(s) + (IF side = s THEN Volume(t) ELSE 0)
      <4>1. \A s : SideOf(plan', s) = SideOf(plan, s) + (IF side = s THEN Volume(t) ELSE 0)
        BY <1>1, <1>12, <3>1, PlanAppended
      <4> QED
        BY <1>14, <4>1
    <3> HIDE DEF side
    <3>6. CASE side = "sell"
      <4>1. SideVolume("sell")' = SideVolume("sell") + Volume(t)
            /\ SideVolume("buy")' = SideVolume("buy") + 0
        BY <3>5, <3>6
      <4> QED
        BY <1>5, <1>10, <1>11, <1>13, <1>14, <3>2, <3>4, <4>1
    <3>7. CASE side = "buy"
      <4>1. SideVolume("buy")' = SideVolume("buy") + Volume(t)
            /\ SideVolume("sell")' = SideVolume("sell") + 0
        BY <3>5, <3>7
      <4> QED
        BY <1>5, <1>10, <1>11, <1>13, <1>14, <3>2, <3>4, <4>1
    <3> QED
      BY <1>4, <3>6, <3>7
  <2> QED
    BY <2>1, <2>2
<1>17. TypeInv'
  BY <1>1, <1>15, <1>16 DEF TypeInv
<1>18. Sliced'
  <2>1. SeqSum(slices)' = SeqSum(slices')
    BY DEF SeqSum
  <2>2. CASE specs[1].volume < MinOrder
    BY <1>1, <1>5, <2>2 DEF Sliced
  <2>3. CASE SideVolume("buy") + SideVolume("sell") + SeqSum(slices) + unallocated
                 = specs[1].volume
    <3>1. SideVolume("buy")' \in Nat /\ SideVolume("sell")' \in Nat
      BY <1>14, <1>16, PlanLaw
    <3>2. SideVolume("buy") \in Nat /\ SideVolume("sell") \in Nat
      BY <1>14
    <3>3. SideVolume("buy")' + SideVolume("sell")' + SeqSum(slices') + unallocated'
              = specs[1].volume
      <4> DEFINE x == SideVolume("buy") + SideVolume("sell")
                 y == SideVolume("buy")' + SideVolume("sell")'
      <4>1. y + r.left = x + v
        BY <1>16
      <4>2. x \in Int /\ y \in Int
        BY <3>1, <3>2
      <4>3. x + SeqSum(slices) + unallocated = specs[1].volume
        BY <2>3
      <4> HIDE DEF x, y
      <4>4. y + SeqSum(slices') + (unallocated + r.left)
                = x + (v + SeqSum(slices')) + unallocated
        <5>1. PICK z \in Nat : z = SeqSum(slices')
          BY <1>5
        <5>2. PICK l \in Nat : l = r.left
          BY <1>11
        <5>3. PICK u \in Nat : u = unallocated
          BY <1>1
        <5>4. PICK w \in Nat : w = v
          BY <1>5
        <5>5. y + l = x + w
          BY <4>1, <5>2, <5>4
        <5>6. y + z + (u + l) = x + (w + z) + u
          BY <4>2, <5>5
        <5> QED
          BY <5>1, <5>2, <5>3, <5>4, <5>6
      <4>5. y + SeqSum(slices') + unallocated' = specs[1].volume
        BY <1>5, <1>15, <4>3, <4>4
      <4> QED
        BY <4>5 DEF y
    <3> QED
      BY <1>1, <1>5, <2>1, <3>3 DEF Sliced
  <2> QED
    BY <1>1, <2>2, <2>3 DEF Sliced
<1>19. ~ TwoSided'
  BY <1>1 DEF TwoSided
<1> QED
  BY <1>1, <1>16, <1>17, <1>18, <1>19 DEF PlanInv, StepInv

\* No slice is left.
LEMMA EndSlicesKeeps ==
  ASSUME PlanInv, EndSlices
  PROVE  PlanInv'
<1>1. /\ ~ TwoSided /\ step' = "done" /\ Sliced /\ slices = <<>> /\ TypeInv /\ NeverOverdrawn
      /\ UNCHANGED <<request, account, specs, plan, unallocated>> /\ step = "slice"
  BY DEF PlanInv, StepInv, EndSlices
<1>2. TypeInv'
  BY <1>1 DEF TypeInv
<1>3. NeverOverdrawn'
  BY <1>1, SamePlan
<1>4. Finished'
  <2>1. /\ SideVolume("buy") \in Nat /\ SideVolume("sell") \in Nat /\ unallocated \in Nat
        /\ SeqSum(slices) = 0
    BY <1>1, SidesLaw, SeqSumEmpty DEF TypeInv
  <2>2. \/ SideVolume("buy") + SideVolume("sell") + unallocated = specs[1].volume
        \/ specs[1].volume < MinOrder
    BY <1>1, <2>1 DEF Sliced
  <2>3. SideVolume("sell")' = SideVolume("sell") /\ SideVolume("buy")' = SideVolume("buy")
    BY <1>1 DEF SideVolume
  <2>4. ~ TwoSided'
    BY <1>1 DEF TwoSided
  <2> QED
    BY <1>1, <2>2, <2>3, <2>4 DEF Finished
<1> QED
  BY <1>1, <1>2, <1>3, <1>4 DEF PlanInv, StepInv

-----------------------------------------------------------------------------
(* What holds of every plan.                                                *)

\* The invariant holds before the planner starts.
LEMMA InitPlanInv == Init => PlanInv
<1> SUFFICES ASSUME Init PROVE PlanInv
  OBVIOUS
<1>1. TypeInv /\ plan = <<>>
  <2>1. <<>> \in Seq(PlanTask)
    BY PlanLaw
  <2> QED
    BY <2>1 DEF Init, TypeInv
<1>2. NeverOverdrawn
  BY <1>1, NoPlan DEF TypeInv
<1> QED
  BY <1>1, <1>2 DEF Init, PlanInv, StepInv

\* Every step keeps the invariant.
LEMMA NextPlanInv == PlanInv /\ [Next]_vars => PlanInv'
<1> SUFFICES ASSUME PlanInv, [Next]_vars PROVE PlanInv'
  OBVIOUS
<1>1. CASE UNCHANGED vars
  <2>1. UNCHANGED <<request, account, step, specs, sells, buys, slices, plan, unallocated>>
    BY <1>1 DEF vars
  <2>2. TypeInv' /\ NeverOverdrawn'
    BY <2>1, SamePlan DEF PlanInv, TypeInv
  <2>3. TwoSided' = TwoSided /\ Unplanned' = Unplanned
    BY <2>1 DEF TwoSided, Unplanned
  <2>4. SideVolume("sell")' = SideVolume("sell") /\ SideVolume("buy")' = SideVolume("buy")
    BY <2>1 DEF SideVolume
  <2>5. Affordable' = Affordable /\ InOrder(plan)' = InOrder(plan)
    BY <2>1 DEF Affordable, InOrder, Fits, QuoteAfter, BaseAfter
  <2>6. Funded' = Funded
    BY <2>1 DEF Funded, QuoteAfter, BaseAfter
  <2>7. Ledger => Ledger'
    BY <2>1, <2>4, <2>5, <2>6 DEF Ledger
  <2>8. Sliced => Sliced'
    BY <2>1, <2>4 DEF Sliced
  <2>9. Finished => Finished'
    BY <2>1, <2>3, <2>4, <2>5 DEF Finished
  <2>10. StepInv'
    BY <2>1, <2>3, <2>7, <2>8, <2>9 DEF PlanInv, StepInv
  <2> QED
    BY <2>2, <2>10 DEF PlanInv
<1> QED
  BY <1>1, SpecifyKeeps, AllocateKeeps, GiveUpKeeps, PlaceKeeps, EndSequenceKeeps,
     SliceKeeps, EndSlicesKeeps DEF Next

\* Whatever the planner does, the invariant holds.
THEOREM PlanInvariant == Spec => []PlanInv
BY InitPlanInv, NextPlanInv, PTL DEF Spec

\* A finished plan accounts for the whole volume asked for: what it trades and what
\* it reports as unallocated (unallocatedVolumeUsd), for every request and balances.
THEOREM VolumeConserved == Spec => []VolumeIsConserved
<1>1. PlanInv => VolumeIsConserved
  <2> SUFFICES ASSUME PlanInv, step = "done" PROVE VolumeIsConserved
    BY DEF VolumeIsConserved
  <2>1. /\ request \in Requests /\ specs = TaskSpecs(request) /\ plan \in Seq(PlanTask)
        /\ Finished /\ unallocated \in Nat
    BY DEF PlanInv, TypeInv, StepInv
  <2>2. /\ specs[1] \in SideSpec
        /\ TwoSided => /\ specs[2] \in SideSpec
                       /\ SpecVolume("sell") = specs[1].volume
                       /\ SpecVolume("buy") = specs[2].volume
        /\ ~ TwoSided => SpecVolume("buy") + SpecVolume("sell") = specs[1].volume
    BY <2>1, SpecSums
  <2>3. CASE ~ TwoSided
    BY <2>1, <2>2, <2>3 DEF VolumeIsConserved, Finished
  <2>4. CASE TwoSided /\ plan = <<>> /\ unallocated = Unplanned
    <3>1. SideVolume("buy") = 0 /\ SideVolume("sell") = 0
      BY <2>1, <2>4, SidesLaw, PlanLaw
    <3>2. specs[1].volume \in Nat /\ specs[2].volume \in Nat
      BY <2>2, <2>4 DEF SideSpec
    <3> QED
      BY <2>2, <2>4, <3>1, <3>2 DEF VolumeIsConserved, Unplanned
  <2>5. CASE TwoSided /\ ~(plan = <<>> /\ unallocated = Unplanned)
    <3>1. /\ unallocated = 0 /\ SideVolume("sell") = specs[1].volume
          /\ SideVolume("buy") = specs[2].volume
      BY <2>1, <2>5 DEF Finished
    <3>2. SideVolume("sell") \in Nat /\ SideVolume("buy") \in Nat
      BY <2>1, SidesLaw
    <3> QED
      BY <2>2, <2>5, <3>1, <3>2 DEF VolumeIsConserved
  <2> QED
    BY <2>3, <2>4, <2>5
<1> QED
  BY <1>1, PlanInvariant, PTL

\* Whatever orders have their place, one of those left can be executed next: the loop
\* of the planner is never left with orders over.
THEOREM SequenceNeverStuck == Spec => []NeverStuck
<1>1. PlanInv => NeverStuck
  <2> SUFFICES ASSUME PlanInv, step = "sequence", Waiting("sell") \cup Waiting("buy") # {}
               PROVE  Eligible # {}
    BY DEF NeverStuck
  <2>1. Ledger /\ account \in [Accounts -> Balances] /\ plan \in Seq(PlanTask)
    BY DEF PlanInv, TypeInv, StepInv
  <2> QED
    BY <2>1, NotStuck DEF Ledger
<1> QED
  BY <1>1, PlanInvariant, PTL

\* No plan, complete or not, spends quote an account does not have by then or sells
\* more than the account holds.
THEOREM PlanNeverOverdrawn == Spec => []NeverOverdrawn
<1>1. PlanInv => NeverOverdrawn
  BY DEF PlanInv
<1> QED
  BY <1>1, PlanInvariant, PTL

-----------------------------------------------------------------------------
(* The route's check of a plan that takes nothing to the last.              *)

\* A task of one order trades its volume of the account of the order.
LEMMA OneOrder ==
  ASSUME NEW t \in PlanTask, Len(t.parts) = 1
  PROVE  LET a == t.parts[1].account
         IN  /\ a \in Accounts /\ Volume(t) \in Nat
             /\ \A b : Gain(t, b) = IF a # b THEN 0
                                    ELSE IF t.side = "sell" THEN Volume(t) ELSE 0 - Volume(t)
<1> DEFINE p == t.parts[1]
<1>1. t.parts \in Seq(Part) /\ p \in Part /\ p.account \in Accounts /\ p.volume \in Nat
  <2>1. t.parts \in Seq(Part)
    BY DEF PlanTask
  <2>2. p \in Part
    BY <2>1
  <2> QED
    BY <2>1, <2>2 DEF Part
<1>2. t.parts = Append(<<>>, p) /\ <<>> \in Seq(Part)
  BY <1>1
<1> HIDE DEF p
<1>3. /\ PartsSum(t.parts) = 0 + p.volume
      /\ \A b : PartsOf(t.parts, b) = 0 + (IF p.account = b THEN p.volume ELSE 0)
  <2> DEFINE q == Append(<<>>, p)
  <2>1. /\ PartsSum(q) = PartsSum(<<>>) + p.volume
        /\ \A b : PartsOf(q, b) = PartsOf(<<>>, b) + (IF p.account = b THEN p.volume ELSE 0)
    BY <1>1, <1>2, PartsAppended
  <2>2. PartsSum(<<>>) = 0 /\ \A b : PartsOf(<<>>, b) = 0
    BY PartsLaw
  <2>3. t.parts = q
    BY <1>2
  <2> HIDE DEF q
  <2>4. PartsSum(q) = 0 + p.volume
        /\ \A b : PartsOf(q, b) = 0 + (IF p.account = b THEN p.volume ELSE 0)
    BY <2>1, <2>2
  <2> QED
    BY <2>3, <2>4
<1>4. Volume(t) = p.volume /\ Volume(t) \in Nat
  BY <1>1, <1>3, TaskLaw
<1>5. \A b : PartsOf(t.parts, b) = IF p.account = b THEN Volume(t) ELSE 0
  BY <1>1, <1>3, <1>4
<1>6. \A b : Gain(t, b) = IF t.side = "sell" THEN PartsOf(t.parts, b) ELSE 0 - PartsOf(t.parts, b)
  BY TaskLaw
<1>7. \A b : Gain(t, b) = IF p.account # b THEN 0
                         ELSE IF t.side = "sell" THEN Volume(t) ELSE 0 - Volume(t)
  BY <1>4, <1>5, <1>6
<1> QED
  BY <1>1, <1>4, <1>7 DEF p

\* The tasks before one of the tasks, and with it.
LEMMA NextPrefix ==
  ASSUME NEW tasks \in Seq(PlanTask), NEW n \in 1 .. Len(tasks)
  PROVE  /\ SubSeq(tasks, 1, n - 1) \in Seq(PlanTask) /\ tasks[n] \in PlanTask
         /\ SubSeq(tasks, 1, n) = Append(SubSeq(tasks, 1, n - 1), tasks[n])
<1>1. n - 1 \in 0 .. Len(tasks) /\ n - 1 \in Nat /\ Len(tasks) \in Nat /\ n \in Nat
  OBVIOUS
<1>2. /\ SubSeq(tasks, 1, n - 1) = [i \in 1 .. n - 1 |-> tasks[i]]
      /\ SubSeq(tasks, 1, n) = [i \in 1 .. n |-> tasks[i]]
  BY <1>1
<1>3. SubSeq(tasks, 1, n - 1) \in Seq(PlanTask) /\ Len(SubSeq(tasks, 1, n - 1)) = n - 1
      /\ tasks[n] \in PlanTask
  BY <1>1
<1>4. Append(SubSeq(tasks, 1, n - 1), tasks[n]) = [i \in 1 .. n |-> tasks[i]]
  BY <1>1, <1>2, <1>3
<1> QED
  BY <1>2, <1>3, <1>4

\* What the accounts gain in all is what is sold less what is bought.
GainOfAll(tasks) == SumFunctionOnSet([a \in Accounts |-> Gained(tasks, a)], Accounts)

LEMMA GainOfPlan ==
  ASSUME NEW tasks \in Seq(PlanTask), \A i \in DOMAIN tasks : Len(tasks[i].parts) = 1
  PROVE  GainOfAll(tasks) = SideOf(tasks, "sell") - SideOf(tasks, "buy")
<1> DEFINE Even(done) == GainOfAll(done) = SideOf(done, "sell") - SideOf(done, "buy")
           T == {n \in 0 .. Len(tasks) : ~ Even(SubSeq(tasks, 1, n))}
<1>1. Even(<<>>)
  <2> DEFINE f == [a \in Accounts |-> Gained(<<>>, a)]
  <2>1. \A a \in Accounts : f[a] = 0
    BY PlanLaw
  <2>2. SumFunctionOnSet(f, Accounts) = 0
    <3> HIDE DEF f
    <3> QED
      BY <2>1, AccountAssumption, SumZero
  <2>3. SideOf(<<>>, "sell") = 0 /\ SideOf(<<>>, "buy") = 0
    BY PlanLaw
  <2> QED
    BY <2>2, <2>3 DEF GainOfAll
<1>2. ASSUME NEW n \in 1 .. Len(tasks), Even(SubSeq(tasks, 1, n - 1))
      PROVE  Even(SubSeq(tasks, 1, n))
  <2> DEFINE done == SubSeq(tasks, 1, n - 1)
             t == tasks[n]
             f == [b \in Accounts |-> Gained(done, b)]
             g == [b \in Accounts |-> Gained(Append(done, t), b)]
             a == t.parts[1].account
  <2>1. /\ done \in Seq(PlanTask) /\ t \in PlanTask /\ Len(t.parts) = 1
        /\ SubSeq(tasks, 1, n) = Append(done, t)
    BY NextPrefix
  <2>2. GainOfAll(done) = SideOf(done, "sell") - SideOf(done, "buy")
    BY <1>2
  <2> HIDE DEF done, t
  <2>3. /\ a \in Accounts /\ Volume(t) \in Nat
        /\ \A b : Gain(t, b) = IF a # b THEN 0
                               ELSE IF t.side = "sell" THEN Volume(t) ELSE 0 - Volume(t)
    BY <2>1, OneOrder
  <2> HIDE DEF a
  <2>4. /\ \A b : Gained(Append(done, t), b) = Gained(done, b) + Gain(t, b)
        /\ \A side : SideOf(Append(done, t), side)
                         = SideOf(done, side) + (IF t.side = side THEN Volume(t) ELSE 0)
        /\ \A b : Gained(done, b) \in Int
        /\ SideOf(done, "sell") \in Int /\ SideOf(done, "buy") \in Int
    BY <2>1, PlanAppended, PlanLaw
  <2>5. /\ \A b \in Accounts \ {a} : f[b] = g[b]
        /\ g[a] = f[a] + (IF t.side = "sell" THEN Volume(t) ELSE 0 - Volume(t))
    BY <2>3, <2>4
  <2>6. IsIntOn(f, Accounts) /\ f[a] \in Int
    BY <2>3, <2>4 DEF IsIntOn
  <2>7. IsIntOn(g, Accounts)
    <3>1. \A b \in Accounts : g[b] \in Int
      <4> SUFFICES ASSUME NEW b \in Accounts PROVE g[b] \in Int
        OBVIOUS
      <4>1. f[b] \in Int
        BY <2>6 DEF IsIntOn
      <4> HIDE DEF f, g
      <4> QED
        BY <2>3, <2>5, <4>1
    <3> QED
      BY <3>1 DEF IsIntOn
  <2>8. GainOfAll(done) = SumFunctionOnSet(f, Accounts)
        /\ GainOfAll(Append(done, t)) = SumFunctionOnSet(g, Accounts)
    BY DEF GainOfAll
  <2> HIDE DEF f, g
  <2>9. SumFunctionOnSet(g, Accounts) = SumFunctionOnSet(f, Accounts) - f[a] + g[a]
    BY <2>3, <2>5, <2>6, <2>7, AccountAssumption, SumChange
  <2>10. SumFunctionOnSet(f, Accounts) \in Int
    BY <2>6, AccountAssumption, SumLaw
  <2>11. t.side \in {"sell", "buy"}
    BY <2>1 DEF PlanTask
  <2>12. GainOfAll(Append(done, t))
             = GainOfAll(done) + (IF t.side = "sell" THEN Volume(t) ELSE 0 - Volume(t))
    BY <2>3, <2>5, <2>6, <2>8, <2>9, <2>10
  <2>13. Even(Append(done, t))
    BY <2>2, <2>3, <2>4, <2>11, <2>12
  <2> QED
    BY <2>1, <2>13
<1> HIDE DEF Even
<1>3. T = {}
  <2> SUFFICES ASSUME T # {} PROVE FALSE
    OBVIOUS
  <2>1. PICK n \in T : \A m \in T : n <= m
    <3>1. T \subseteq Nat
      OBVIOUS
    <3> HIDE DEF T
    <3> QED
      BY <3>1, LeastNat
  <2>2. n # 0
    <3>1. SubSeq(tasks, 1, 0) = <<>>
      OBVIOUS
    <3> QED
      BY <1>1, <2>1, <3>1
  <2>3. n \in 1 .. Len(tasks) /\ n - 1 \in 0 .. Len(tasks) /\ n - 1 \notin T
    BY <2>1, <2>2
  <2>4. Even(SubSeq(tasks, 1, n - 1))
    BY <2>3
  <2> QED
    BY <1>2, <2>1, <2>3, <2>4
<1>4. SubSeq(tasks, 1, Len(tasks)) = tasks /\ Len(tasks) \in 0 .. Len(tasks)
  OBVIOUS
<1>5. Even(tasks)
  BY <1>3, <1>4
<1> QED
  BY <1>5 DEF Even

\* Where a task takes an account to the last of a short figure, the plan does.
LEMMA OneEnough ==
  ASSUME account \in [Accounts -> Balances], plan \in Seq(PlanTask), InOrder(plan), Reserve = 0,
         ~ TakesAllOfShort, NEW i \in DOMAIN plan
  PROVE  Reviewed(i)
<1> DEFINE t == plan[i]
           done == SubSeq(plan, 1, i - 1)
           a == t.parts[1].account
<1>1. i \in 1 .. Len(plan)
  OBVIOUS
<1>2. /\ done \in Seq(PlanTask) /\ t \in PlanTask
      /\ SubSeq(plan, 1, i) = Append(done, t)
  BY <1>1, NextPrefix
<1>3. Fits(done, t)
  BY DEF InOrder
<1>4. /\ IsShort(a, "quote") => QuoteAfter(SubSeq(plan, 1, i), a) # 0
      /\ IsShort(a, "base") => BaseAfter(SubSeq(plan, 1, i), a) # 0
      /\ Reviewed(i) <=>
            /\ Len(t.parts) = 1 /\ Volume(t) \in Volumes
            /\ IF t.side = "sell" THEN Enough(BaseAfter(done, a), Volume(t), IsShort(a, "base"))
               ELSE /\ Enough(QuoteAfter(done, a), Volume(t), IsShort(a, "quote"))
                    /\ Reserve > 0 => QuoteAfter(done, a) - Volume(t) >= Reserve
  <2>1. a \in Accounts
    BY <1>2, <1>3, OneOrder DEF Fits
  <2> QED
    BY <1>1, <2>1 DEF TakesAllOfShort, Reviewed
<1> HIDE DEF t, done
<1>5. /\ Len(t.parts) = 1 /\ Volume(t) \in Volumes
      /\ IF t.side = "sell" THEN BaseAfter(done, a) >= Volume(t)
                            ELSE QuoteAfter(done, a) >= Volume(t)
  BY <1>3 DEF Fits
<1>6. /\ a \in Accounts /\ Volume(t) \in Nat
      /\ Gain(t, a) = IF t.side = "sell" THEN Volume(t) ELSE 0 - Volume(t)
  BY <1>2, <1>5, OneOrder
<1>7. QuoteAfter(done, a) \in Int /\ BaseAfter(done, a) \in Int
  BY <1>2, <1>6, HoldingLaw
<1>8. /\ QuoteAfter(SubSeq(plan, 1, i), a) = QuoteAfter(done, a) + Gain(t, a)
      /\ BaseAfter(SubSeq(plan, 1, i), a) = BaseAfter(done, a) - Gain(t, a)
  BY <1>2, <1>6, HoldingAppended
<1> HIDE DEF a
<1>9. CASE t.side = "sell"
  <2>1. IsShort(a, "base") => BaseAfter(done, a) # Volume(t)
    BY <1>4, <1>6, <1>7, <1>8, <1>9
  <2> QED
    BY <1>4, <1>5, <1>6, <1>7, <1>9, <2>1 DEF Enough
<1>10. CASE t.side # "sell"
  <2>1. IsShort(a, "quote") => QuoteAfter(done, a) # Volume(t)
    BY <1>4, <1>6, <1>7, <1>8, <1>10
  <2> QED
    BY <1>4, <1>5, <1>6, <1>7, <1>10, <2>1 DEF Enough
<1> QED
  BY <1>9, <1>10

\* Where the accounts have no more quote than is bought beyond what is sold, a plan
\* spends all of it, what is short too.
LEMMA EnoughTogether ==
  ASSUME account \in [Accounts -> Balances], plan \in Seq(PlanTask), plan # <<>>,
         \A i \in DOMAIN plan : Len(plan[i].parts) = 1, NeverOverdrawn, ~ TakesAllOfShort,
         Affordable, SideVolume("sell") = specs[1].volume, SideVolume("buy") = specs[2].volume
  PROVE  Enough(SumFunction([a \in Accounts |-> account[a].quote]),
                specs[2].volume - specs[1].volume, \E a \in Accounts : IsShort(a, "quote"))
<1> DEFINE q == [a \in Accounts |-> account[a].quote]
           g == [a \in Accounts |-> Gained(plan, a)]
           e == [a \in Accounts |-> QuoteAfter(plan, a)]
           k == Len(plan)
<1>1. k \in 1 .. Len(plan) /\ k \in 0 .. Len(plan) /\ SubSeq(plan, 1, k) = plan
  OBVIOUS
<1>2. /\ \A a \in Accounts : q[a] \in Nat
      /\ \A a \in Accounts : g[a] \in Int
      /\ \A a \in Accounts : e[a] = q[a] + g[a]
  BY HoldingLaw, PlanLaw DEF QuoteAfter
<1>3. \A a \in Accounts : e[a] >= 0
  BY <1>1 DEF NeverOverdrawn
<1>4. \A a \in Accounts : IsShort(a, "quote") => e[a] # 0
  BY <1>1 DEF TakesAllOfShort
<1>5. SumFunction(q) = SumFunctionOnSet(q, Accounts) /\ GainOfAll(plan) = SumFunctionOnSet(g, Accounts)
  BY DEF SumFunction, GainOfAll
<1>6. SumFunction(q) >= specs[2].volume - specs[1].volume
  BY DEF Affordable
<1> HIDE DEF q, g, e, k
<1>7. \A a \in Accounts : e[a] \in Nat
  <2> SUFFICES ASSUME NEW a \in Accounts PROVE e[a] \in Nat
    OBVIOUS
  <2>1. q[a] \in Int /\ g[a] \in Int /\ e[a] = q[a] + g[a] /\ e[a] >= 0
    BY <1>2, <1>3
  <2> QED
    BY <2>1
<1>8. IsIntOn(q, Accounts) /\ IsIntOn(g, Accounts) /\ IsIntOn(e, Accounts)
  BY <1>2, <1>7 DEF IsIntOn
<1>9. SumFunctionOnSet(e, Accounts) = SumFunctionOnSet(q, Accounts) + SumFunctionOnSet(g, Accounts)
  BY <1>2, <1>8, AccountAssumption, SumAdd
<1>10. GainOfAll(plan) = specs[1].volume - specs[2].volume
       /\ specs[1].volume \in Int /\ specs[2].volume \in Int
  BY GainOfPlan, SidesLaw
<1>11. SumFunctionOnSet(q, Accounts) \in Int
  BY <1>8, AccountAssumption, SumLaw
<1>12. \A a \in Accounts : e[a] <= SumFunctionOnSet(e, Accounts)
  BY <1>7, AccountAssumption, SumNat
<1>13. ASSUME NEW a \in Accounts, IsShort(a, "quote")
       PROVE  SumFunction(q) > specs[2].volume - specs[1].volume
  <2>1. e[a] > 0 /\ e[a] \in Nat
    BY <1>4, <1>7, <1>13
  <2> QED
    BY <1>5, <1>9, <1>10, <1>11, <1>12, <2>1
<1> QED
  BY <1>6, <1>13 DEF Enough, q

\* A sequence of length two has two elements.
LEMMA PairOfSeq ==
  ASSUME NEW S, NEW s \in Seq(S), Len(s) = 2
  PROVE  DOMAIN s = 1 .. 2 /\ \A i \in 1 .. 2 : s[i] \in S
<1>1. DOMAIN s = 1 .. 2
  BY LenProperties
<1>2. \A i \in 1 .. 2 : s[i] \in S
  BY ElementOfSeq
<1> QED
  BY <1>1, <1>2

\* A two-sided plan without a reserve that buys more than it sells and is shown as
\* executable passes the check that the deploy route makes of a reviewed plan, unless
\* it takes the whole of a figure that the planner rounded up.
THEOREM ExecutableAccepted == Spec => []ExecutableIsAccepted
<1>1. PlanInv => ExecutableIsAccepted
  <2> SUFFICES ASSUME PlanInv, step = "done", IsExecutable, TwoSided, Reserve = 0,
                      request.objective # "distribution", ~ TakesAllOfShort
               PROVE  Accepted
    BY DEF ExecutableIsAccepted, Shown
  <2>1. /\ request \in Requests /\ specs = TaskSpecs(request) /\ plan \in Seq(PlanTask)
        /\ Finished
    BY DEF PlanInv, TypeInv, StepInv
  <2>2. /\ SpecVolume("sell") = specs[1].volume /\ SpecVolume("buy") = specs[2].volume
        /\ SumFunction([i \in DOMAIN specs |-> specs[i].count]) >= request.count
    BY <2>1, SpecSums
  <2>3. Len(specs) = 2 /\ specs[2].volume - specs[1].volume = request.net
    <3>1. Len(specs) = 2
      BY DEF TwoSided
    <3> QED
      BY <2>1, <3>1, SpecsLaw
  <2>4. Len(plan) \in request.count .. MaxCount
    <3> DEFINE c == SumFunction([i \in DOMAIN specs |-> specs[i].count])
    <3>1. Len(plan) >= c /\ Len(plan) <= MaxCount /\ c >= request.count
      BY <2>2 DEF IsExecutable
    <3>2. c \in Int
      <4>1. specs \in Seq(SideSpec)
        BY <2>1, SpecSums
      <4> DEFINE f == [i \in DOMAIN specs |-> specs[i].count]
      <4>2. DOMAIN f = 1 .. 2 /\ \A i \in 1 .. 2 : f[i] \in Int
        <5>1. Len(specs) = 2
          BY <2>3
        <5> HIDE DEF f
        <5>2. DOMAIN specs = 1 .. 2 /\ \A i \in 1 .. 2 : specs[i] \in SideSpec
          BY <4>1, <5>1, PairOfSeq, Zenon
        <5> QED
          BY <5>2 DEF SideSpec, f
      <4> HIDE DEF f
      <4>3. SumFunction(f) \in Int
        BY <4>2, SumOfInt DEF IsIntOn
      <4> QED
        BY <4>3 DEF f
    <3>3. request.count \in Nat /\ Len(plan) \in Nat /\ MaxCount \in Nat
      BY <2>1, RequestAssumption, SizeAssumption
    <3> HIDE DEF c
    <3> QED
      BY <3>1, <3>2, <3>3
  <2>5. /\ unallocated = 0 /\ Affordable /\ InOrder(plan)
        /\ SideVolume("sell") = specs[1].volume /\ SideVolume("buy") = specs[2].volume
    <3>1. plan # <<>>
      <4>1. request.count \in Nat \ {0}
        BY <2>1, RequestAssumption
      <4> QED
        BY <2>4, <4>1
    <3> QED
      BY <2>1, <3>1 DEF Finished
  <2>6. \A i \in DOMAIN plan : Len(plan[i].parts) = 1
    BY <2>5 DEF InOrder, Fits
  <2>7. Enough(SumFunction([a \in Accounts |-> account[a].quote]), RequiredQuote,
               \E a \in Accounts : IsShort(a, "quote"))
    <3>1. plan # <<>>
      BY <2>1, <2>4, RequestAssumption
    <3> QED
      BY <2>1, <2>3, <2>5, <2>6, <3>1, EnoughTogether DEF RequiredQuote, PlanInv, TypeInv
  <2>8. \A i \in DOMAIN plan : Reviewed(i)
    BY <2>1, <2>5, OneEnough DEF InOrder, PlanInv, TypeInv
  <2>9. ~ (Reserve > 0) /\ \A side \in {"buy", "sell"} : SideVolume(side) = SpecVolume(side)
    BY <2>2, <2>5
  <2> QED
    BY <2>4, <2>7, <2>8, <2>9, Zenon DEF Accepted
<1> QED
  BY <1>1, PlanInvariant, PTL

=============================================================================
