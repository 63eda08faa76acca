--------------------------- MODULE FiniteInduction ---------------------------
(***************************************************************************)
(* Induction over finite sets and natural numbers, as an argument about a  *)
(* smallest counterexample, and what it says of the sum of a function over *)
(* a finite set (SumFunction): it is a natural number, it does not shrink  *)
(* when its terms grow, and it grows by what one of them grows.            *)
(***************************************************************************)
EXTENDS Naturals, FiniteSetsExt, Functions, FiniteSetTheorems,
        WellFoundedInduction, TLAPS

\* A non-empty set of subsets of a finite set has a minimal member: induction
\* over a finite set is an argument about a smallest counterexample.
LEMMA MinimalSubset ==
  ASSUME NEW S, IsFiniteSet(S), NEW C, \A c \in C : c \subseteq S, C # {}
  PROVE  \E s \in C : \A r \in C : ~ (r \subseteq s /\ r # s)
<1>1. IsWellFoundedOn(StrictSubsetOrdering(S), FiniteSubsetsOf(S))
  BY FS_StrictSubsetOrderingWellFounded
<1>2. C \subseteq FiniteSubsetsOf(S)
  BY FS_Subset DEF FiniteSubsetsOf
<1>3. \E s \in C : \A r \in C : ~ (<<r, s>> \in StrictSubsetOrdering(S))
  BY <1>1, <1>2, WFMin, Zenon
<1> QED
  BY <1>3 DEF StrictSubsetOrdering

\* A non-empty set of natural numbers has a least one.
LEMMA LeastNat ==
  ASSUME NEW T \in SUBSET Nat, T # {}
  PROVE  \E n \in T : \A m \in T : n <= m
<1>1. PICK b \in T : TRUE
  OBVIOUS
<1> DEFINE C == {0 .. k : k \in {j \in T : j <= b}}
<1>2. IsFiniteSet(0 .. b)
  BY FS_Interval
<1>3. (\A c \in C : c \subseteq (0 .. b)) /\ C # {}
  BY <1>1
<1>4. PICK s \in C : \A r \in C : ~ (r \subseteq s /\ r # s)
  <2> HIDE DEF C
  <2> QED
    BY <1>2, <1>3, MinimalSubset
<1>5. PICK k \in T : k <= b /\ s = 0 .. k
  BY <1>4
<1>6. \A m \in T : k <= m
  <2> SUFFICES ASSUME NEW m \in T, m < k
               PROVE  FALSE
    OBVIOUS
  <2>1. 0 .. m \in C
    BY <1>5
  <2>2. (0 .. m) \subseteq (0 .. k)
    OBVIOUS
  <2>3. k \in 0 .. k /\ k \notin 0 .. m
    OBVIOUS
  <2> QED
    BY <1>4, <1>5, <2>1, <2>2, <2>3
<1> QED
  BY <1>6

-----------------------------------------------------------------------------
(* Sums *)

\* The element that the fold of a set takes first, and the function it defines.
Some(s) == CHOOSE x \in s : TRUE

IsIter(it, f, S) ==
  it = [s \in SUBSET S |-> IF s = {} THEN 0 ELSE f[Some(s)] + it[s \ {Some(s)}]]

LEMMA SumDef ==
  ASSUME NEW f, NEW S
  PROVE  SumFunctionOnSet(f, S) = (CHOOSE it : IsIter(it, f, S))[S]
  BY DEF SumFunctionOnSet, FoldFunctionOnSet, MapThenFoldSet, IsIter, Some

LEMMA SomeElement ==
  ASSUME NEW s, s # {}
  PROVE  Some(s) \in s
  BY DEF Some

\* it satisfies the recursion on the sets of at most n elements.
IterTo(it, f, S, n) ==
  \A s \in SUBSET S :
    Cardinality(s) <= n =>
      it[s] = IF s = {} THEN 0 ELSE f[Some(s)] + it[s \ {Some(s)}]

\* The recursion has a solution: one for n elements extends to n + 1.
LEMMA IterExists ==
  ASSUME NEW S, IsFiniteSet(S), NEW f \in [S -> Nat]
  PROVE  \E it : IsIter(it, f, S)
<1> DEFINE Good(n) == \E it \in [SUBSET S -> Nat] : IterTo(it, f, S, n)
           Bad == {n \in Nat : ~ Good(n)}
<1>0. \A s \in SUBSET S : /\ IsFiniteSet(s) /\ Cardinality(s) \in Nat
                          /\ Cardinality(s) = 0 <=> s = {}
                          /\ Cardinality(s) <= Cardinality(S)
  BY FS_Subset, FS_CardinalityType, FS_EmptySet
<1>1. Good(0)
  <2> DEFINE z == [s \in SUBSET S |-> 0]
  <2>1. z \in [SUBSET S -> Nat]
    OBVIOUS
  <2>2. IterTo(z, f, S, 0)
    BY <1>0 DEF IterTo
  <2> QED
    BY <2>1, <2>2
<1>2. ASSUME NEW n \in Nat, Good(n)
      PROVE  Good(n + 1)
  <2>1. PICK it \in [SUBSET S -> Nat] : IterTo(it, f, S, n)
    BY <1>2
  <2> DEFINE g == [s \in SUBSET S |->
                     IF Cardinality(s) <= n THEN it[s]
                     ELSE f[Some(s)] + it[s \ {Some(s)}]]
  <2>2. ASSUME NEW s \in SUBSET S, s # {}
        PROVE  /\ Some(s) \in S /\ f[Some(s)] \in Nat
               /\ s \ {Some(s)} \in SUBSET S
               /\ Cardinality(s \ {Some(s)}) = Cardinality(s) - 1
    <3>1. Some(s) \in s
      BY <2>2, SomeElement
    <3>2. Cardinality(s \ {Some(s)}) = Cardinality(s) - 1
      BY <1>0, <3>1, FS_RemoveElement
    <3> QED
      BY <3>1, <3>2
  <2>3. g \in [SUBSET S -> Nat]
    <3> SUFFICES ASSUME NEW s \in SUBSET S, ~ (Cardinality(s) <= n)
                 PROVE  f[Some(s)] + it[s \ {Some(s)}] \in Nat
      BY <2>1
    <3>1. s # {}
      BY <1>0
    <3> QED
      BY <2>1, <2>2, <3>1
  <2>4. IterTo(g, f, S, n + 1)
    <3> SUFFICES ASSUME NEW s \in SUBSET S, Cardinality(s) <= n + 1
                 PROVE  g[s] = IF s = {} THEN 0 ELSE f[Some(s)] + g[s \ {Some(s)}]
      BY DEF IterTo
    <3>1. CASE s = {}
      BY <1>0, <2>1, <3>1 DEF IterTo
    <3>2. CASE s # {}
      <4>1. /\ s \ {Some(s)} \in SUBSET S
            /\ Cardinality(s \ {Some(s)}) <= n
        BY <1>0, <2>2, <3>2
      <4>2. g[s \ {Some(s)}] = it[s \ {Some(s)}]
        BY <4>1
      <4>3. g[s] = f[Some(s)] + it[s \ {Some(s)}]
        BY <2>1, <3>2 DEF IterTo
      <4> QED
        BY <3>2, <4>2, <4>3
    <3> QED
      BY <3>1, <3>2
  <2> QED
    BY <2>3, <2>4
<1>3. Bad = {}
  <2> SUFFICES ASSUME Bad # {}
               PROVE  FALSE
    OBVIOUS
  <2>1. PICK n \in Bad : \A m \in Bad : n <= m
    <3>1. Bad \in SUBSET Nat
      OBVIOUS
    <3> HIDE DEF Bad
    <3> QED
      BY <3>1, LeastNat
  <2> HIDE DEF Good
  <2>2. n \in Nat /\ ~ Good(n) /\ \A m \in Nat : m < n => Good(m)
    BY <2>1
  <2>3. n # 0 /\ n - 1 \in Nat /\ n - 1 < n
    BY <1>1, <2>2
  <2>4. Good((n - 1) + 1)
    BY <1>2, <2>2, <2>3
  <2>5. (n - 1) + 1 = n
    BY <2>2
  <2> QED
    BY <2>2, <2>4, <2>5
<1>4. Good(Cardinality(S))
  BY <1>0, <1>3
<1>5. PICK it \in [SUBSET S -> Nat] : IterTo(it, f, S, Cardinality(S))
  BY <1>4
<1>6. IsIter(it, f, S)
  BY <1>0, <1>5 DEF IterTo, IsIter
<1> QED
  BY <1>6

LEMMA SumIter ==
  ASSUME NEW S, IsFiniteSet(S), NEW f \in [S -> Nat]
  PROVE  \E it : /\ IsIter(it, f, S) /\ SumFunction(f) = it[S]
<1> DEFINE it == CHOOSE i : IsIter(i, f, S)
<1>1. IsIter(it, f, S)
  BY IterExists
<1>2. SumFunction(f) = it[S]
  BY SumDef DEF SumFunction
<1> QED
  BY <1>1, <1>2

\* it[s] is the sum of f over s, for every part s of S.
SumsOf(it, f, S) ==
  /\ it[{}] = 0
  /\ \A s \in SUBSET S : it[s] \in Nat
  /\ \A s \in SUBSET S :
       s # {} => Some(s) \in s /\ it[s] = f[Some(s)] + it[s \ {Some(s)}]

LEMMA IterSums ==
  ASSUME NEW S, IsFiniteSet(S), NEW f \in [S -> Nat], NEW it, IsIter(it, f, S)
  PROVE  SumsOf(it, f, S)
<1>1. /\ it[{}] = 0
      /\ \A s \in SUBSET S : s # {} => it[s] = f[Some(s)] + it[s \ {Some(s)}]
  BY DEF IsIter
<1> DEFINE C == {s \in SUBSET S : it[s] \notin Nat}
<1>2. C = {}
  <2> SUFFICES ASSUME C # {} PROVE FALSE
    OBVIOUS
  <2>0. \A c \in C : c \subseteq S
    OBVIOUS
  <2>1. PICK s \in C : \A r \in C : ~ (r \subseteq s /\ r # s)
    <3> HIDE DEF C
    <3> QED
      BY <2>0, MinimalSubset
  <2>2. s \in SUBSET S /\ it[s] \notin Nat
    OBVIOUS
  <2>3. s # {}
    <3>1. it[{}] \in Nat
      BY <1>1
    <3> QED
      BY <2>2, <3>1, Zenon
  <2>4. Some(s) \in s
    BY <2>3, SomeElement
  <2>5. s \ {Some(s)} \notin C
    BY <2>1, <2>4
  <2>6. it[s \ {Some(s)}] \in Nat
    BY <2>2, <2>5
  <2> QED
    BY <1>1, <2>2, <2>3, <2>4, <2>6
<1> QED
  BY <1>1, <1>2, SomeElement DEF SumsOf

LEMMA SumIs ==
  ASSUME NEW S, IsFiniteSet(S), NEW f \in [S -> Nat]
  PROVE  \E it : SumsOf(it, f, S) /\ SumFunction(f) = it[S]
  BY SumIter, IterSums

\* A sum does not shrink when its terms grow.
LEMMA SumMonotone ==
  ASSUME NEW S, IsFiniteSet(S), NEW f \in [S -> Nat], NEW g \in [S -> Nat],
         \A x \in S : f[x] <= g[x]
  PROVE  SumFunction(f) <= SumFunction(g)
<1>1. PICK it : SumsOf(it, f, S) /\ SumFunction(f) = it[S]
  BY SumIs
<1>2. PICK jt : SumsOf(jt, g, S) /\ SumFunction(g) = jt[S]
  BY SumIs
<1>3. /\ it[{}] = 0 /\ jt[{}] = 0
      /\ \A s \in SUBSET S : it[s] \in Nat /\ jt[s] \in Nat
      /\ \A s \in SUBSET S : s # {} =>
           /\ Some(s) \in s
           /\ it[s] = f[Some(s)] + it[s \ {Some(s)}]
           /\ jt[s] = g[Some(s)] + jt[s \ {Some(s)}]
  BY <1>1, <1>2 DEF SumsOf
<1> DEFINE C == {s \in SUBSET S : ~ (it[s] <= jt[s])}
<1>4. C = {}
  <2> SUFFICES ASSUME C # {} PROVE FALSE
    OBVIOUS
  <2>0. \A c \in C : c \subseteq S
    OBVIOUS
  <2>1. PICK s \in C : \A r \in C : ~ (r \subseteq s /\ r # s)
    <3> HIDE DEF C
    <3> QED
      BY <2>0, MinimalSubset
  <2>2. s \in SUBSET S /\ s # {}
    <3>1. it[{}] <= jt[{}]
      BY <1>3
    <3>2. s \in SUBSET S /\ ~ (it[s] <= jt[s])
      OBVIOUS
    <3> QED
      BY <3>1, <3>2, Zenon
  <2> DEFINE x == Some(s)
             r == s \ {x}
  <2>3. x \in S /\ x \in s /\ r \in SUBSET S /\ r # s /\ r \subseteq s
    BY <1>3, <2>2
  <2>4. it[r] <= jt[r]
    BY <2>1, <2>3
  <2>5. it[s] = f[x] + it[r] /\ jt[s] = g[x] + jt[r]
    BY <1>3, <2>2
  <2>6. f[x] \in Nat /\ g[x] \in Nat /\ it[r] \in Nat /\ jt[r] \in Nat /\ f[x] <= g[x]
    BY <1>3, <2>3
  <2>7. ~ (it[s] <= jt[s])
    OBVIOUS
  <2> HIDE DEF x, r
  <2> QED
    BY <2>4, <2>5, <2>6, <2>7
<1> QED
  BY <1>1, <1>2, <1>4

\* A sum grows by what one of its terms grows.
LEMMA SumAdd ==
  ASSUME NEW S, IsFiniteSet(S), NEW f \in [S -> Nat], NEW g \in [S -> Nat],
         NEW y \in S, NEW m \in Nat, g[y] = f[y] + m,
         \A x \in S : x # y => g[x] = f[x]
  PROVE  SumFunction(g) = SumFunction(f) + m
<1>1. PICK it : SumsOf(it, f, S) /\ SumFunction(f) = it[S]
  BY SumIs
<1>2. PICK jt : SumsOf(jt, g, S) /\ SumFunction(g) = jt[S]
  BY SumIs
<1>3. /\ it[{}] = 0 /\ jt[{}] = 0
      /\ \A s \in SUBSET S : it[s] \in Nat /\ jt[s] \in Nat
      /\ \A s \in SUBSET S : s # {} =>
           /\ Some(s) \in s
           /\ it[s] = f[Some(s)] + it[s \ {Some(s)}]
           /\ jt[s] = g[Some(s)] + jt[s \ {Some(s)}]
  BY <1>1, <1>2 DEF SumsOf
<1> DEFINE C == {s \in SUBSET S : ~ (jt[s] = it[s] + (IF y \in s THEN m ELSE 0))}
<1>4. C = {}
  <2> SUFFICES ASSUME C # {} PROVE FALSE
    OBVIOUS
  <2>0. \A c \in C : c \subseteq S
    OBVIOUS
  <2>1. PICK s \in C : \A r \in C : ~ (r \subseteq s /\ r # s)
    <3> HIDE DEF C
    <3> QED
      BY <2>0, MinimalSubset
  <2>2. s \in SUBSET S /\ s # {}
    <3>1. jt[{}] = it[{}] + 0
      BY <1>3
    <3>2. s \in SUBSET S /\ ~ (jt[s] = it[s] + (IF y \in s THEN m ELSE 0))
      OBVIOUS
    <3> QED
      BY <3>1, <3>2, Zenon
  <2> DEFINE x == Some(s)
             r == s \ {x}
  <2>3. x \in S /\ x \in s /\ r \in SUBSET S /\ r # s /\ r \subseteq s
    BY <1>3, <2>2
  <2>4. jt[r] = it[r] + (IF y \in r THEN m ELSE 0)
    BY <2>1, <2>3
  <2>5. it[s] = f[x] + it[r] /\ jt[s] = g[x] + jt[r]
    BY <1>3, <2>2
  <2>6. f[x] \in Nat /\ it[r] \in Nat
    BY <1>3, <2>3
  <2>7. jt[s] # it[s] + (IF y \in s THEN m ELSE 0)
    OBVIOUS
  <2>8. CASE x = y
    <3>1. y \in s /\ y \notin r
      BY <2>3, <2>8
    <3> HIDE DEF x, r
    <3> QED
      BY <2>4, <2>5, <2>6, <2>7, <2>8, <3>1
  <2>9. CASE x # y
    <3>1. y \in s <=> y \in r
      BY <2>9
    <3>2. g[x] = f[x]
      BY <2>3, <2>9
    <3> HIDE DEF x, r
    <3>3. CASE y \in r
      BY <2>4, <2>5, <2>6, <2>7, <3>1, <3>2, <3>3
    <3>4. CASE y \notin r
      BY <2>4, <2>5, <2>6, <2>7, <3>1, <3>2, <3>4
    <3> QED
      BY <3>3, <3>4
  <2> QED
    BY <2>8, <2>9
<1>5. jt[S] = it[S] + m
  BY <1>4
<1> QED
  BY <1>1, <1>2, <1>5

\* The sum of nothing.
LEMMA SumZero ==
  ASSUME NEW S, IsFiniteSet(S)
  PROVE  SumFunction([x \in S |-> 0]) = 0
<1> DEFINE f == [x \in S |-> 0]
<1>0. f \in [S -> Nat] /\ \A x \in S : f[x] = 0
  OBVIOUS
<1> HIDE DEF f
<1>1. PICK it : SumsOf(it, f, S) /\ SumFunction(f) = it[S]
  BY <1>0, SumIs
<1>2. /\ it[{}] = 0 
      /\ \A s \in SUBSET S : it[s] \in Nat 
      /\ \A s \in SUBSET S : s # {} =>
           Some(s) \in s /\ it[s] = f[Some(s)] + it[s \ {Some(s)}]
  BY <1>1 DEF SumsOf
<1> DEFINE C == {s \in SUBSET S : it[s] # 0}
<1>3. C = {}
  <2> SUFFICES ASSUME C # {} PROVE FALSE
    OBVIOUS
  <2>0. \A c \in C : c \subseteq S
    OBVIOUS
  <2>1. PICK s \in C : \A r \in C : ~ (r \subseteq s /\ r # s)
    <3> HIDE DEF C
    <3> QED
      BY <2>0, MinimalSubset
  <2>2. s \in SUBSET S /\ s # {} /\ it[s] # 0
    BY <1>2
  <2>3. Some(s) \in s /\ it[s] = f[Some(s)] + it[s \ {Some(s)}]
    BY <1>2, <2>2
  <2>4. s \ {Some(s)} \notin C /\ s \ {Some(s)} \in SUBSET S
    BY <2>1, <2>2, <2>3
  <2>5. it[s \ {Some(s)}] = 0 /\ f[Some(s)] = 0
    BY <1>0, <2>2, <2>3, <2>4
  <2> QED
    BY <2>2, <2>3, <2>5
<1> QED
  BY <1>1, <1>3 DEF f

\* The sum of natural numbers is one.
LEMMA SumNat ==
  ASSUME NEW S, IsFiniteSet(S), NEW f \in [S -> Nat]
  PROVE  SumFunction(f) \in Nat
  BY SumIs DEF SumsOf
==============================================================================
