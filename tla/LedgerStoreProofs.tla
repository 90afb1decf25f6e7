------------------------- MODULE LedgerStoreProofs -------------------------
(***************************************************************************)
(* Lemmas for the proofs about services over the ledger, which extend this *)
(* module: sums over finite sets; the journal builders, for every party,   *)
(* currency and amount (each makes a sequence of postings, each is         *)
(* balanced in every currency, and each reversal cancels the journals it   *)
(* reverses); and post(), for every key and journal.                       *)
(***************************************************************************)
EXTENDS LedgerStore, SequenceTheorems, FiniteSetTheorems, TLAPS

-----------------------------------------------------------------------------
(* Sums over finite sets.  The induction theorems of the library have an    *)
(* operator as parameter; FiniteInduction has a set in its place.           *)

\* Induction over the subsets of a finite set, in set form: G is the set of the
\* subsets that have the property.
LEMMA FiniteInduction ==
    ASSUME NEW S, IsFiniteSet(S), NEW G,
           \A T \in SUBSET S : (\A U \in SUBSET T : U # T => U \in G) => T \in G
    PROVE  SUBSET S \subseteq G
<1> DEFINE R == StrictSubsetOrdering(S)
           Bad == {T \in SUBSET S : T \notin G}
<1>1. IsWellFoundedOn(R, SUBSET S)
    BY FS_StrictSubsetOrderingWellFounded, FS_FiniteSubsetsOfFinite
<1>2. \A T, U : (T \in SUBSET S /\ U \in SUBSET T /\ U # T) => <<U, T>> \in R
    BY DEF StrictSubsetOrdering
<1> HIDE DEF R
<1>3. SUFFICES ASSUME Bad # {} PROVE FALSE
    OBVIOUS
<1>4. PICK T \in Bad : \A y \in Bad : ~ (<<y, T>> \in R)
  <2>1. Bad \subseteq SUBSET S
    OBVIOUS
  <2> HIDE DEF Bad
  <2> QED
    BY <1>1, <1>3, <2>1, WFMin
<1>5. ASSUME NEW U \in SUBSET T, U # T PROVE U \in G
  <2>1. T \in SUBSET S /\ <<U, T>> \in R
    BY <1>2, <1>4, <1>5
  <2>2. U \notin Bad
    BY <1>4, <2>1
  <2> QED
    BY <2>1, <2>2
<1> QED
    BY <1>4, <1>5

\* The recursion of a sum of f over the subsets of S.
IsSum(f, S, g) ==
    g = [s \in SUBSET S |->
            IF s = {} THEN 0
            ELSE LET x == CHOOSE x \in s : TRUE
                 IN  f[x] + g[s \ {x}]]

\* Two functions that satisfy the recursion agree where both are defined.
LEMMA SumUnique ==
    ASSUME NEW f, NEW S, IsFiniteSet(S), NEW g, IsSum(f, S, g),
           NEW S2, S \subseteq S2, NEW g2, IsSum(f, S2, g2)
    PROVE  \A T \in SUBSET S : g[T] = g2[T]
<1> DEFINE G == {T \in SUBSET S : g[T] = g2[T]}
<1>1. \A T \in SUBSET S : (\A U \in SUBSET T : U # T => U \in G) => T \in G
  <2> SUFFICES ASSUME NEW T \in SUBSET S, \A U \in SUBSET T : U # T => U \in G
               PROVE  g[T] = g2[T]
    OBVIOUS
  <2> DEFINE x == CHOOSE x \in T : TRUE
  <2>1. g[T] = IF T = {} THEN 0 ELSE f[x] + g[T \ {x}]
    BY DEF IsSum
  <2>2. g2[T] = IF T = {} THEN 0 ELSE f[x] + g2[T \ {x}]
    BY DEF IsSum
  <2>3. CASE T = {}
    BY <2>1, <2>2, <2>3
  <2>4. CASE T # {}
    <3>1. x \in T
        BY <2>4
    <3>2. T \ {x} \in SUBSET T /\ T \ {x} # T
        BY <3>1
    <3>3. g[T \ {x}] = g2[T \ {x}]
        BY <3>2
    <3> QED
        BY <2>1, <2>2, <2>4, <3>3
  <2> QED
    BY <2>3, <2>4
<1> HIDE DEF G
<1>2. SUBSET S \subseteq G
    BY <1>1, FiniteInduction
<1> QED
    BY <1>2 DEF G

\* The recursion has a solution.
LEMMA SumExists ==
    ASSUME NEW f, NEW S, IsFiniteSet(S)
    PROVE  \E g : IsSum(f, S, g)
<1> DEFINE G == {T \in SUBSET S : \E g : IsSum(f, T, g)}
<1>1. \A T \in SUBSET S : (\A U \in SUBSET T : U # T => U \in G) => T \in G
  <2> SUFFICES ASSUME NEW T \in SUBSET S, \A U \in SUBSET T : U # T => U \in G
               PROVE  \E g : IsSum(f, T, g)
    OBVIOUS
  <2> DEFINE sol(U) == CHOOSE g : IsSum(f, U, g)
             below == [U \in SUBSET T |-> sol(U)[U]]
             x == CHOOSE x \in T : TRUE
             h == [s \in SUBSET T |->
                      IF s = T
                      THEN IF T = {} THEN 0 ELSE f[x] + below[T \ {x}]
                      ELSE below[s]]
  <2>1. \A U \in SUBSET T : U # T => IsSum(f, U, sol(U))
    OBVIOUS
  <2> HIDE DEF sol
  <2>2. ASSUME NEW s \in SUBSET T, s # T, s # {}
        PROVE  below[s] = f[CHOOSE y \in s : TRUE] + below[s \ {CHOOSE y \in s : TRUE}]
    <3> DEFINE y == CHOOSE y \in s : TRUE
    <3>1. y \in s
        BY <2>2
    <3> HIDE DEF y
    <3>2. s \ {y} \in SUBSET s /\ s \ {y} # T /\ s \ {y} \in SUBSET T
        BY <3>1
    <3>3. IsFiniteSet(s \ {y})
        BY <3>2, FS_Subset
    <3>4. IsSum(f, s, sol(s)) /\ IsSum(f, s \ {y}, sol(s \ {y}))
        BY <2>1, <2>2, <3>2
    <3> DEFINE u == s \ {y}
               v == sol(u)
               w == sol(s)
    <3>5. v[u] = w[u]
      <4>1. u \subseteq s /\ IsFiniteSet(u) /\ IsSum(f, u, v) /\ IsSum(f, s, w)
        BY <3>2, <3>3, <3>4
      <4> HIDE DEF u, v, w
      <4> QED
        BY <4>1, SumUnique
    <3>6. sol(s)[s] = f[y] + sol(s)[s \ {y}]
        BY <2>2, <3>4 DEF IsSum, y
    <3>7. below[s] = f[y] + below[s \ {y}]
        BY <3>2, <3>5, <3>6
    <3> QED
        BY <3>7 DEF y
  <2>3. T # {} => below[{}] = 0
    BY <2>1 DEF IsSum
  <2> HIDE DEF below
  <2>4. T # {} => T \ {x} # T
    OBVIOUS
  <2>5. ASSUME NEW s \in SUBSET T
        PROVE  h[s] = IF s = {} THEN 0
                      ELSE LET z == CHOOSE z \in s : TRUE IN f[z] + h[s \ {z}]
    <3>1. CASE s = T
        BY <2>4, <3>1
    <3>2. CASE s # T /\ s = {}
        BY <2>3, <3>2
    <3>3. CASE s # T /\ s # {}
      <4> DEFINE z == CHOOSE z \in s : TRUE
      <4>1. z \in s
        BY <3>3
      <4>2. h[s] = f[z] + below[s \ {z}]
        BY <2>2, <3>3
      <4> HIDE DEF z
      <4>3. s \ {z} # T /\ s \ {z} \in SUBSET T
        BY <3>3, <4>1
      <4>4. h[s \ {z}] = below[s \ {z}]
        BY <4>3
      <4> QED
        BY <3>3, <4>2, <4>4 DEF z
    <3> QED
        BY <3>1, <3>2, <3>3
  <2>6. h = [s \in SUBSET T |-> h[s]]
    OBVIOUS
  <2> HIDE DEF h
  <2>7. IsSum(f, T, h)
    BY <2>5, <2>6 DEF IsSum
  <2> QED
    BY <2>7
<1> HIDE DEF G
<1>2. SUBSET S \subseteq G
    BY <1>1, FiniteInduction
<1> QED
    BY <1>2 DEF G

\* SumFunctionOnSet(f, S) is a solution of the recursion, at S.
LEMMA SumDef ==
    ASSUME NEW f, NEW S, IsFiniteSet(S)
    PROVE  \E g : IsSum(f, S, g) /\ SumFunctionOnSet(f, S) = g[S]
<1> DEFINE iter == CHOOSE g : g = [s \in SUBSET S |->
            IF s = {} THEN 0
            ELSE LET x == CHOOSE x \in s : TRUE
                 IN  f[x] + g[s \ {x}]]
<1>1. IsSum(f, S, iter)
  <2>1. \E g : IsSum(f, S, g)
    BY SumExists
  <2> QED
    BY <2>1 DEF IsSum
<1>2. SumFunctionOnSet(f, S) = iter[S]
    BY DEF SumFunctionOnSet, FoldFunctionOnSet, MapThenFoldSet
<1> QED
    BY <1>1, <1>2

\* The sum over no element is zero.
LEMMA SumEmpty ==
    ASSUME NEW f
    PROVE  SumFunctionOnSet(f, {}) = 0
<1>1. IsFiniteSet({})
    BY FS_EmptySet
<1>2. PICK g : IsSum(f, {}, g) /\ SumFunctionOnSet(f, {}) = g[{}]
    BY <1>1, SumDef
<1> QED
    BY <1>2 DEF IsSum

\* One unfolding of the sum: the chosen element, then the rest.
LEMMA SumStep ==
    ASSUME NEW f, NEW S, IsFiniteSet(S), S # {}
    PROVE  \E x \in S : SumFunctionOnSet(f, S) = f[x] + SumFunctionOnSet(f, S \ {x})
<1>1. PICK g : IsSum(f, S, g) /\ SumFunctionOnSet(f, S) = g[S]
    BY SumDef
<1> DEFINE x == CHOOSE x \in S : TRUE
<1>2. x \in S
    OBVIOUS
<1>3. g[S] = f[x] + g[S \ {x}]
    BY <1>1 DEF IsSum
<1> HIDE DEF x
<1> DEFINE U == S \ {x}
<1>4. IsFiniteSet(U) /\ U \subseteq S
    BY FS_RemoveElement
<1> HIDE DEF U
<1>5. PICK g2 : IsSum(f, U, g2) /\ SumFunctionOnSet(f, U) = g2[U]
    BY <1>4, SumDef
<1>6. g2[U] = g[U]
    BY <1>1, <1>4, <1>5, SumUnique
<1> QED
    BY <1>1, <1>2, <1>3, <1>5, <1>6 DEF U

\* A sum of integers is an integer.
LEMMA SumInt ==
    ASSUME NEW f, NEW S, IsFiniteSet(S), \A x \in S : f[x] \in Int
    PROVE  SumFunctionOnSet(f, S) \in Int
<1> DEFINE G == {T \in SUBSET S : SumFunctionOnSet(f, T) \in Int}
<1>1. ASSUME NEW T \in SUBSET S, \A U \in SUBSET T : U # T => U \in G
      PROVE  T \in G
  <2>1. CASE T = {}
    BY <2>1, SumEmpty
  <2>2. CASE T # {}
    <3>1. PICK x \in T : SumFunctionOnSet(f, T) = f[x] + SumFunctionOnSet(f, T \ {x})
        BY <2>2, SumStep, FS_Subset
    <3>2. T \ {x} \in SUBSET T /\ T \ {x} # T
        BY <3>1
    <3>3. SumFunctionOnSet(f, T \ {x}) \in Int
        BY <1>1, <3>2
    <3>4. f[x] \in Int
        BY <3>1
    <3> QED
        BY <3>1, <3>3, <3>4
  <2> QED
    BY <2>1, <2>2
<1> HIDE DEF G
<1>2. SUBSET S \subseteq G
    BY <1>1, FiniteInduction
<1> QED
    BY <1>2 DEF G

\* The order of the summands does not matter: any element can be taken out.
LEMMA SumRemove ==
    ASSUME NEW f, NEW S, IsFiniteSet(S), \A x \in S : f[x] \in Int, NEW y \in S
    PROVE  SumFunctionOnSet(f, S) = f[y] + SumFunctionOnSet(f, S \ {y})
<1> DEFINE sum(T) == SumFunctionOnSet(f, T)
           G == {T \in SUBSET S : \A z \in T : sum(T) = f[z] + sum(T \ {z})}
<1>a. \A T \in SUBSET S : sum(T) \in Int
    BY SumInt, FS_Subset
<1>1. ASSUME NEW T \in SUBSET S, \A U \in SUBSET T : U # T => U \in G
      PROVE  T \in G
  <2> SUFFICES ASSUME NEW z \in T PROVE sum(T) = f[z] + sum(T \ {z})
    OBVIOUS
  <2>1. PICK x \in T : sum(T) = f[x] + sum(T \ {x})
    BY SumStep, FS_Subset
  <2>2. CASE x = z
    BY <2>1, <2>2
  <2>3. CASE x # z
    <3> DEFINE V == T \ {x}
               W == T \ {z}
    <3>1. V \in G /\ z \in V /\ W \in G /\ x \in W
        BY <1>1, <2>1, <2>3
    <3>2. sum(V) = f[z] + sum(V \ {z}) /\ sum(W) = f[x] + sum(W \ {x})
        BY <3>1
    <3>3. V \ {z} = W \ {x} /\ V \ {z} \in SUBSET S /\ V \in SUBSET S /\ W \in SUBSET S
        OBVIOUS
    <3>4. sum(V \ {z}) \in Int /\ sum(V) \in Int /\ sum(W) \in Int /\ f[x] \in Int /\ f[z] \in Int
        BY <1>a, <2>1, <3>3
    <3>5. sum(T) = f[x] + sum(V)
        BY <2>1
    <3> DEFINE r == sum(V \ {z})
    <3>6. sum(V) = f[z] + r /\ sum(W) = f[x] + r /\ r \in Int
        BY <3>2, <3>3, <3>4
    <3> HIDE DEF sum, V, W, r
    <3>7. sum(T) = f[z] + sum(W)
        BY <3>4, <3>5, <3>6
    <3> QED
        BY <3>7 DEF W
  <2> QED
    BY <2>2, <2>3
<1> HIDE DEF G
<1>2. SUBSET S \subseteq G
    BY <1>1, FiniteInduction
<1> QED
    BY <1>2 DEF G

\* Functions that agree on a set have the same sum over it.
LEMMA SumSame ==
    ASSUME NEW f, NEW h, NEW S, IsFiniteSet(S),
           \A x \in S : f[x] \in Int /\ h[x] = f[x]
    PROVE  SumFunctionOnSet(h, S) = SumFunctionOnSet(f, S)
<1> DEFINE G == {T \in SUBSET S : SumFunctionOnSet(h, T) = SumFunctionOnSet(f, T)}
<1>1. ASSUME NEW T \in SUBSET S, \A U \in SUBSET T : U # T => U \in G
      PROVE  T \in G
  <2>1. CASE T = {}
    BY <2>1, SumEmpty
  <2>2. CASE T # {}
    <3>1. PICK x \in T : SumFunctionOnSet(h, T) = h[x] + SumFunctionOnSet(h, T \ {x})
        BY <2>2, SumStep, FS_Subset
    <3>2. T \ {x} \in SUBSET T /\ T \ {x} # T
        BY <3>1
    <3>3. SumFunctionOnSet(h, T \ {x}) = SumFunctionOnSet(f, T \ {x})
        BY <1>1, <3>2
    <3>4. IsFiniteSet(T) /\ \A y \in T : f[y] \in Int
        BY FS_Subset
    <3>5. SumFunctionOnSet(f, T) = f[x] + SumFunctionOnSet(f, T \ {x})
        BY <3>4, SumRemove
    <3> QED
        BY <3>1, <3>3, <3>5
  <2> QED
    BY <2>1, <2>2
<1> HIDE DEF G
<1>2. SUBSET S \subseteq G
    BY <1>1, FiniteInduction
<1> QED
    BY <1>2 DEF G

\* Changing one summand changes the sum by as much.
LEMMA SumUpdate ==
    ASSUME NEW f, NEW h, NEW S, IsFiniteSet(S), NEW y \in S,
           \A x \in S : f[x] \in Int /\ h[x] \in Int,
           \A x \in S \ {y} : h[x] = f[x]
    PROVE  SumFunctionOnSet(h, S) = SumFunctionOnSet(f, S) + h[y] - f[y]
<1>1. SumFunctionOnSet(f, S) = f[y] + SumFunctionOnSet(f, S \ {y})
    BY SumRemove
<1>2. SumFunctionOnSet(h, S) = h[y] + SumFunctionOnSet(h, S \ {y})
    BY SumRemove
<1>3. IsFiniteSet(S \ {y})
    BY FS_RemoveElement
<1>4. SumFunctionOnSet(h, S \ {y}) = SumFunctionOnSet(f, S \ {y})
    BY <1>3, SumSame
<1>5. SumFunctionOnSet(f, S \ {y}) \in Int
    BY <1>3, SumInt
<1> QED
    BY <1>1, <1>2, <1>4, <1>5

\* Adding an element adds its summand.
LEMMA SumAdd ==
    ASSUME NEW f, NEW S, IsFiniteSet(S), NEW y, y \notin S,
           \A x \in S \cup {y} : f[x] \in Int
    PROVE  SumFunctionOnSet(f, S \cup {y}) = SumFunctionOnSet(f, S) + f[y]
<1>1. IsFiniteSet(S \cup {y}) /\ (S \cup {y}) \ {y} = S
    BY FS_AddElement
<1>2. SumFunctionOnSet(f, S \cup {y}) = f[y] + SumFunctionOnSet(f, (S \cup {y}) \ {y})
  <2> DEFINE U == S \cup {y}
  <2>1. y \in U /\ IsFiniteSet(U) /\ \A x \in U : f[x] \in Int
    BY <1>1
  <2> HIDE DEF U
  <2>2. SumFunctionOnSet(f, U) = f[y] + SumFunctionOnSet(f, U \ {y})
    BY <2>1, SumRemove
  <2> QED
    BY <2>2 DEF U
<1>3. SumFunctionOnSet(f, S) \in Int /\ f[y] \in Int
    BY SumInt
<1>4. SumFunctionOnSet(f, S \cup {y}) = f[y] + SumFunctionOnSet(f, S)
    BY <1>1, <1>2
<1> QED
    BY <1>3, <1>4

\* A sum of zeros is zero.
LEMMA SumZero ==
    ASSUME NEW f, NEW S, IsFiniteSet(S), \A x \in S : f[x] = 0
    PROVE  SumFunctionOnSet(f, S) = 0
<1> DEFINE G == {T \in SUBSET S : SumFunctionOnSet(f, T) = 0}
<1>1. ASSUME NEW T \in SUBSET S, \A U \in SUBSET T : U # T => U \in G
      PROVE  T \in G
  <2>1. CASE T = {}
    BY <2>1, SumEmpty
  <2>2. CASE T # {}
    <3>1. PICK x \in T : SumFunctionOnSet(f, T) = f[x] + SumFunctionOnSet(f, T \ {x})
        BY <2>2, SumStep, FS_Subset
    <3>2. T \ {x} \in SUBSET T /\ T \ {x} # T
        BY <3>1
    <3> QED
        BY <1>1, <3>1, <3>2
  <2> QED
    BY <2>1, <2>2
<1> HIDE DEF G
<1>2. SUBSET S \subseteq G
    BY <1>1, FiniteInduction
<1> QED
    BY <1>2 DEF G

\* A sum of pointwise sums is the sum of the sums.
LEMMA SumPlus ==
    ASSUME NEW f, NEW h, NEW g, NEW S, IsFiniteSet(S),
           \A x \in S : f[x] \in Int /\ h[x] \in Int /\ g[x] = f[x] + h[x]
    PROVE  SumFunctionOnSet(g, S) = SumFunctionOnSet(f, S) + SumFunctionOnSet(h, S)
<1> DEFINE G == {T \in SUBSET S : SumFunctionOnSet(g, T) =
                     SumFunctionOnSet(f, T) + SumFunctionOnSet(h, T)}
<1>1. ASSUME NEW T \in SUBSET S, \A U \in SUBSET T : U # T => U \in G
      PROVE  T \in G
  <2>1. CASE T = {}
    BY <2>1, SumEmpty
  <2>2. CASE T # {}
    <3>1. PICK x \in T : SumFunctionOnSet(g, T) = g[x] + SumFunctionOnSet(g, T \ {x})
        BY <2>2, SumStep, FS_Subset
    <3> DEFINE U == T \ {x}
    <3>2. U \in SUBSET T /\ U # T /\ IsFiniteSet(U) /\ IsFiniteSet(T)
        BY <3>1, FS_Subset
    <3>3. \A y \in T : f[y] \in Int /\ h[y] \in Int /\ g[y] = f[y] + h[y]
        OBVIOUS
    <3>4. SumFunctionOnSet(g, U) = SumFunctionOnSet(f, U) + SumFunctionOnSet(h, U)
        BY <1>1, <3>2
    <3>5. SumFunctionOnSet(f, T) = f[x] + SumFunctionOnSet(f, U)
        BY <3>2, <3>3, SumRemove
    <3>6. SumFunctionOnSet(h, T) = h[x] + SumFunctionOnSet(h, U)
        BY <3>2, <3>3, SumRemove
    <3>7. SumFunctionOnSet(f, U) \in Int /\ SumFunctionOnSet(h, U) \in Int
        BY <3>2, <3>3, SumInt
    <3>8. SumFunctionOnSet(g, T) = g[x] + SumFunctionOnSet(g, U)
        BY <3>1
    <3> HIDE DEF U
    <3>9. SumFunctionOnSet(g, T) = SumFunctionOnSet(f, T) + SumFunctionOnSet(h, T)
        BY <3>3, <3>4, <3>5, <3>6, <3>7, <3>8
    <3> QED
        BY <3>9
  <2> QED
    BY <2>1, <2>2
<1> HIDE DEF G
<1>2. SUBSET S \subseteq G
    BY <1>1, FiniteInduction
<1> QED
    BY <1>2 DEF G

\* Lowering summands lowers the sum.
LEMMA SumLeq ==
    ASSUME NEW f, NEW h, NEW S, IsFiniteSet(S),
           \A x \in S : f[x] \in Int /\ h[x] \in Int /\ h[x] <= f[x]
    PROVE  SumFunctionOnSet(h, S) <= SumFunctionOnSet(f, S)
<1> DEFINE G == {T \in SUBSET S : SumFunctionOnSet(h, T) <= SumFunctionOnSet(f, T)}
<1>1. ASSUME NEW T \in SUBSET S, \A U \in SUBSET T : U # T => U \in G
      PROVE  T \in G
  <2>1. CASE T = {}
    BY <2>1, SumEmpty
  <2>2. CASE T # {}
    <3>1. PICK x \in T : SumFunctionOnSet(h, T) = h[x] + SumFunctionOnSet(h, T \ {x})
        BY <2>2, SumStep, FS_Subset
    <3> DEFINE U == T \ {x}
    <3>2. U \in SUBSET T /\ U # T /\ IsFiniteSet(U) /\ IsFiniteSet(T)
        BY <3>1, FS_Subset
    <3>3. \A y \in T : f[y] \in Int /\ h[y] \in Int /\ h[y] <= f[y]
        OBVIOUS
    <3>4. SumFunctionOnSet(h, U) <= SumFunctionOnSet(f, U)
        BY <1>1, <3>2
    <3>5. SumFunctionOnSet(f, T) = f[x] + SumFunctionOnSet(f, U)
        BY <3>2, <3>3, SumRemove
    <3>6. SumFunctionOnSet(f, U) \in Int /\ SumFunctionOnSet(h, U) \in Int
        BY <3>2, <3>3, SumInt
    <3> HIDE DEF U
    <3>7. SumFunctionOnSet(h, T) <= SumFunctionOnSet(f, T)
        BY <3>1, <3>3, <3>4, <3>5, <3>6 DEF U
    <3> QED
        BY <3>7
  <2> QED
    BY <2>1, <2>2
<1> HIDE DEF G
<1>2. SUBSET S \subseteq G
    BY <1>1, FiniteInduction
<1> QED
    BY <1>2 DEF G

\* h is at most f, but for one argument at which it is at most d above.
Raises(f, h, S, d) ==
    \/ d = 0 /\ \A x \in S : h[x] <= f[x]
    \/ \E y \in S : h[y] <= f[y] + d /\ \A x \in S \ {y} : h[x] <= f[x]

LEMMA SumRaise ==
    ASSUME NEW f, NEW h, NEW S, IsFiniteSet(S), NEW d \in Int,
           \A x \in S : f[x] \in Int /\ h[x] \in Int, Raises(f, h, S, d)
    PROVE  SumFunctionOnSet(h, S) <= SumFunctionOnSet(f, S) + d
<1>0. SumFunctionOnSet(f, S) \in Int /\ SumFunctionOnSet(h, S) \in Int
    BY SumInt
<1>1. CASE d = 0 /\ \A x \in S : h[x] <= f[x]
    <2>1. SumFunctionOnSet(h, S) <= SumFunctionOnSet(f, S)
        BY <1>1, SumLeq
    <2> QED
        BY <1>0, <1>1, <2>1
<1>2. ASSUME NEW y \in S, h[y] <= f[y] + d, \A x \in S \ {y} : h[x] <= f[x]
      PROVE  SumFunctionOnSet(h, S) <= SumFunctionOnSet(f, S) + d
    <2> DEFINE U == S \ {y}
    <2>1. IsFiniteSet(U) /\ \A x \in U : f[x] \in Int /\ h[x] \in Int /\ h[x] <= f[x]
        BY <1>2, FS_RemoveElement
    <2>2. SumFunctionOnSet(f, S) = f[y] + SumFunctionOnSet(f, U)
        BY SumRemove
    <2>3. SumFunctionOnSet(h, S) = h[y] + SumFunctionOnSet(h, U)
        BY SumRemove
    <2> HIDE DEF U
    <2>4. SumFunctionOnSet(h, U) <= SumFunctionOnSet(f, U)
        BY <2>1, SumLeq
    <2>5. SumFunctionOnSet(f, U) \in Int /\ SumFunctionOnSet(h, U) \in Int
        BY <2>1, SumInt
    <2> QED
        BY <1>2, <2>2, <2>3, <2>4, <2>5
<1> QED
    BY <1>1, <1>2 DEF Raises

-----------------------------------------------------------------------------
(* Sequences *)

LEMMA Concat11 ==
    ASSUME NEW S, NEW a \in S, NEW b \in S
    PROVE  <<a>> \o <<b>> = <<a, b>>
<1> DEFINE s == <<a>> \o <<b>>
<1>1. s \in Seq(S) /\ Len(s) = 2 /\ s[1] = a /\ s[2] = b
    OBVIOUS
<1>2. <<a, b>> \in Seq(S) /\ Len(<<a, b>>) = 2
    OBVIOUS
<1> HIDE DEF s
<1>3. s = <<a, b>>
    BY <1>1, <1>2, SeqEqual
<1> QED
    BY <1>3 DEF s

LEMMA Concat21 ==
    ASSUME NEW S, NEW a \in S, NEW b \in S, NEW c \in S
    PROVE  <<a, b>> \o <<c>> = <<a, b, c>>
<1> DEFINE s == <<a, b>> \o <<c>>
<1>1. s \in Seq(S) /\ Len(s) = 3 /\ s[1] = a /\ s[2] = b /\ s[3] = c
    OBVIOUS
<1>2. <<a, b, c>> \in Seq(S) /\ Len(<<a, b, c>>) = 3
    OBVIOUS
<1> HIDE DEF s
<1>3. s = <<a, b, c>>
    BY <1>1, <1>2, SeqEqual
<1> QED
    BY <1>3 DEF s

LEMMA Concat22 ==
    ASSUME NEW S, NEW a \in S, NEW b \in S, NEW c \in S, NEW d \in S
    PROVE  <<a, b>> \o <<c, d>> = <<a, b, c, d>>
<1> DEFINE s == <<a, b>> \o <<c, d>>
<1>1. s \in Seq(S) /\ Len(s) = 4 /\ s[1] = a /\ s[2] = b /\ s[3] = c /\ s[4] = d
    OBVIOUS
<1>2. <<a, b, c, d>> \in Seq(S) /\ Len(<<a, b, c, d>>) = 4
    OBVIOUS
<1> HIDE DEF s
<1>3. s = <<a, b, c, d>>
    BY <1>1, <1>2, SeqEqual
<1> QED
    BY <1>3 DEF s

-----------------------------------------------------------------------------
(* Postings *)

\* The accounts a builder names are accounts of the ledger.
LEMMA AccountsExist ==
    /\ \A p \in Customers, c \in Currencies :
          customerWallet(p, c) \in Accounts /\ p2pEscrow(p, c) \in Accounts
    /\ \A g \in Agents, c \in Currencies :
          agentFloat(g, c) \in Accounts /\ agentCommission(g, c) \in Accounts
    /\ \A kind \in SystemKinds, c \in Currencies : systemAccount(kind, c) \in Accounts
BY DEF customerWallet, p2pEscrow, agentFloat, agentCommission, systemAccount,
       Account, Accounts, NoOwner

\* debit() and credit() build postings.
LEMMA PostingsExist ==
    ASSUME NEW a \in Accounts, NEW n \in Int
    PROVE  debit(a, n) \in Posting /\ credit(a, n) \in Posting
BY DEF debit, credit, Posting

LEMMA SignedIsInt ==
    ASSUME NEW posting \in Posting
    PROVE  Signed(posting) \in Int
BY DEF Signed, Posting

LEMMA AmountInIsInt ==
    ASSUME NEW s \in Seq(Posting), NEW i \in Nat, NEW accounts
    PROVE  AmountIn(s, i, accounts) \in Int
<1>1. CASE i \in 1..Len(s) /\ s[i].account \in accounts
    <2>1. s[i] \in Posting
        BY <1>1
    <2>2. AmountIn(s, i, accounts) = Signed(s[i])
        BY <1>1 DEF AmountIn
    <2> QED
        BY <2>1, <2>2, SignedIsInt
<1>2. CASE ~(i \in 1..Len(s) /\ s[i].account \in accounts)
    BY <1>2 DEF AmountIn
<1> QED
    BY <1>1, <1>2

\* What an account gains from a journal is an integer.
LEMMA DeltaIsInt ==
    ASSUME NEW s \in Seq(Posting), NEW a
    PROVE  Delta(s, a) \in Int
<1>1. \A i \in 1..4 : AmountIn(s, i, {a}) \in Int
    BY AmountInIsInt
<1> QED
    BY <1>1 DEF Delta, NetOn

\* A journal of two postings, and the sequences the builders concatenate.
LEMMA PairOfPostings ==
    ASSUME NEW p \in Posting, NEW q \in Posting
    PROVE  <<p, q>> \in Seq(Posting)
OBVIOUS

LEMMA MoveIsJournal ==
    ASSUME NEW from \in Accounts, NEW to \in Accounts, NEW n \in Int
    PROVE  Move(from, to, n) \in Seq(Posting)
BY PostingsExist DEF Move

LEMMA IfPositiveIsSeq ==
    ASSUME NEW n \in Int, NEW posting \in Posting
    PROVE  IfPositive(n, posting) \in Seq(Posting)
BY DEF IfPositive

LEMMA ConcatIsSeq ==
    ASSUME NEW s \in Seq(Posting), NEW t \in Seq(Posting)
    PROVE  s \o t \in Seq(Posting)
OBVIOUS

LEMMA SplitIsJournal ==
    ASSUME NEW from \in Accounts, NEW to \in Accounts, NEW feeAccount \in Accounts,
           NEW n \in Int, NEW fee \in Int
    PROVE  Split(from, to, feeAccount, n, fee) \in Seq(Posting)
<1>1. <<debit(from, n)>> \in Seq(Posting)
    BY PostingsExist
<1>2. IfPositive(n - fee, credit(to, n - fee)) \in Seq(Posting)
    BY PostingsExist, IfPositiveIsSeq
<1>3. IfPositive(fee, credit(feeAccount, fee)) \in Seq(Posting)
    BY PostingsExist, IfPositiveIsSeq
<1> QED
    BY <1>1, <1>2, <1>3, ConcatIsSeq DEF Split

-----------------------------------------------------------------------------
(* Builders *)

LEMMA SystemKindsExist ==
    /\ "settlement" \in SystemKinds
    /\ "fee_revenue" \in SystemKinds
    /\ "fx_position" \in SystemKinds
    /\ "payout_suspense" \in SystemKinds
    /\ "provider_fee" \in SystemKinds
    /\ "withdrawal_suspense" \in SystemKinds
    /\ "promo_expense" \in SystemKinds
BY DEF SystemKinds

\* The legs a builder adds for a commission.
LEMMA CommissionLegsAreSeq ==
    ASSUME NEW g \in Agents, NEW c \in Currencies, NEW n \in Int
    PROVE  CommissionLegs(g, c, n) \in Seq(Posting)
<1>1. /\ debit(systemAccount("fee_revenue", c), n) \in Posting
      /\ credit(agentCommission(g, c), n) \in Posting
    BY AccountsExist, SystemKindsExist, PostingsExist
<1> QED
    BY <1>1, IfPositiveIsSeq, ConcatIsSeq DEF CommissionLegs

\* Every builder makes a sequence of postings, whatever its amounts.
LEMMA MovesAreJournals ==
    ASSUME NEW p \in Customers, NEW c \in Currencies, NEW n \in Int
    PROVE  /\ fundWallet(p, c, n) \in Seq(Posting)
           /\ referralReward(p, c, n) \in Seq(Posting)
           /\ p2pLock(p, c, n) \in Seq(Posting)
           /\ p2pUnlock(p, c, n) \in Seq(Posting)
           /\ usdtWithdrawHold(p, c, n) \in Seq(Posting)
           /\ usdtWithdrawRefund(p, c, n) \in Seq(Posting)
BY AccountsExist, SystemKindsExist, MoveIsJournal
   DEF fundWallet, referralReward, p2pLock, p2pUnlock, usdtWithdrawHold,
       usdtWithdrawRefund

LEMMA AgentOperationsAreJournals ==
    ASSUME NEW g \in Agents, NEW p \in Customers, NEW c \in Currencies,
           NEW n \in Int, NEW f \in Int
    PROVE  /\ floatTopup(g, c, n) \in Seq(Posting)
           /\ cashIn(g, p, c, n) \in Seq(Posting)
           /\ cashOut(g, p, c, n) \in Seq(Posting)
           /\ agentCashIn(g, p, c, n, f) \in Seq(Posting)
           /\ agentCashOut(g, p, c, n, f) \in Seq(Posting)
<1>1. /\ floatTopup(g, c, n) \in Seq(Posting)
      /\ cashIn(g, p, c, n) \in Seq(Posting)
      /\ cashOut(g, p, c, n) \in Seq(Posting)
    BY AccountsExist, SystemKindsExist, MoveIsJournal DEF floatTopup, cashIn, cashOut
<1> QED
    BY <1>1, CommissionLegsAreSeq, ConcatIsSeq DEF agentCashIn, agentCashOut

LEMMA SplitsAreJournals ==
    ASSUME NEW m \in Customers, NEW b \in Customers, NEW c \in Currencies,
           NEW n \in Int, NEW f \in Int
    PROVE  /\ settlePayout(c, n, f) \in Seq(Posting)
           /\ p2pRelease(m, b, c, n, f) \in Seq(Posting)
           /\ usdtWithdrawSettle(c, n, f) \in Seq(Posting)
BY AccountsExist, SystemKindsExist, SplitIsJournal
   DEF settlePayout, p2pRelease, usdtWithdrawSettle

LEMMA AirtimeIsJournal ==
    ASSUME NEW p \in Customers, NEW c \in Currencies, NEW n \in Int, NEW f \in Int
    PROVE  /\ airtimeTopup(p, c, n, f) \in Seq(Posting)
           /\ reverseAirtime(p, c, n, f) \in Seq(Posting)
<1> DEFINE wallet == customerWallet(p, c)
           settlement == systemAccount("settlement", c)
           revenue == systemAccount("fee_revenue", c)
<1>1. wallet \in Accounts /\ settlement \in Accounts /\ revenue \in Accounts
    BY AccountsExist, SystemKindsExist
<1>2. n + f \in Int
    OBVIOUS
<1>3. /\ <<debit(wallet, n + f), credit(settlement, n)>> \in Seq(Posting)
      /\ <<debit(settlement, n), credit(wallet, n + f)>> \in Seq(Posting)
    BY <1>1, <1>2, PostingsExist, PairOfPostings
<1>4. /\ IfPositive(f, credit(revenue, f)) \in Seq(Posting)
      /\ IfPositive(f, debit(revenue, f)) \in Seq(Posting)
    BY <1>1, PostingsExist, IfPositiveIsSeq
<1> QED
    BY <1>3, <1>4, ConcatIsSeq DEF airtimeTopup, reverseAirtime

LEMMA TransfersAreJournals ==
    ASSUME NEW p \in Customers, NEW q \in Quote
    PROVE  /\ transferDebitJournal(p, q) \in Seq(Posting)
           /\ transferFxJournal(q) \in Seq(Posting)
           /\ reverseTransferFx(q) \in Seq(Posting)
           /\ reverseTransferDebit(p, q) \in Seq(Posting)
<1> DEFINE wallet == customerWallet(p, q.from)
           fx == systemAccount("fx_position", q.from)
           revenue == systemAccount("fee_revenue", q.from)
<1>1. /\ q.from \in Currencies /\ q.to \in Currencies
      /\ q.send \in Int /\ q.fee \in Int /\ q.receive \in Int
    BY DEF Quote
<1>2. wallet \in Accounts /\ fx \in Accounts /\ revenue \in Accounts
    BY <1>1, AccountsExist, SystemKindsExist
<1>3. q.send + q.fee \in Int
    BY <1>1
<1>4. /\ <<debit(wallet, q.send + q.fee)>> \in Seq(Posting)
      /\ <<credit(fx, q.send)>> \in Seq(Posting)
      /\ <<debit(fx, q.send)>> \in Seq(Posting)
      /\ <<credit(wallet, q.send + q.fee)>> \in Seq(Posting)
    BY <1>1, <1>2, <1>3, PostingsExist
<1>5. /\ IfPositive(q.fee, credit(revenue, q.fee)) \in Seq(Posting)
      /\ IfPositive(q.fee, debit(revenue, q.fee)) \in Seq(Posting)
    BY <1>1, <1>2, PostingsExist, IfPositiveIsSeq
<1>6. /\ transferDebitJournal(p, q) \in Seq(Posting)
      /\ reverseTransferDebit(p, q) \in Seq(Posting)
    BY <1>4, <1>5, ConcatIsSeq DEF transferDebitJournal, reverseTransferDebit
<1>7. transferFxJournal(q) \in Seq(Posting) /\ reverseTransferFx(q) \in Seq(Posting)
    BY <1>1, AccountsExist, SystemKindsExist, MoveIsJournal
       DEF transferFxJournal, reverseTransferFx
<1> QED
    BY <1>6, <1>7

-----------------------------------------------------------------------------
(* Balanced journals *)

\* One amount moved within a currency.
LEMMA MoveIsWellFormed ==
    ASSUME NEW c \in Currencies, NEW x \in Accounts, NEW y \in Accounts,
           x.currency = c, y.currency = c, NEW n \in Int, n > 0
    PROVE  WellFormed(Move(x, y, n))
<1>1. Move(x, y, n) = <<debit(x, n), credit(y, n)>>
    BY DEF Move
<1> QED
    BY <1>1 DEF WellFormed, PositiveMagnitudes, Balanced, NetIn, NetOn, AmountIn,
       Signed, debit, credit

\* A total on one side, its two parts on the other.
LEMMA PartsAreWellFormed ==
    ASSUME NEW c \in Currencies,
           NEW x \in Accounts, NEW y \in Accounts, NEW z \in Accounts,
           x.currency = c, y.currency = c, z.currency = c,
           NEW n \in Int, NEW k \in Int, n > 0, k > 0
    PROVE  /\ WellFormed(<<debit(x, n + k), credit(y, n), credit(z, k)>>)
           /\ WellFormed(<<debit(y, n), credit(x, n + k), debit(z, k)>>)
           /\ WellFormed(<<debit(y, n), debit(z, k), credit(x, n + k)>>)
<1>1. WellFormed(<<debit(x, n + k), credit(y, n), credit(z, k)>>)
    BY DEF WellFormed, PositiveMagnitudes, Balanced, NetIn, NetOn, AmountIn,
       Signed, debit, credit
<1>2. WellFormed(<<debit(y, n), credit(x, n + k), debit(z, k)>>)
    BY DEF WellFormed, PositiveMagnitudes, Balanced, NetIn, NetOn, AmountIn,
       Signed, debit, credit
<1>3. WellFormed(<<debit(y, n), debit(z, k), credit(x, n + k)>>)
    BY DEF WellFormed, PositiveMagnitudes, Balanced, NetIn, NetOn, AmountIn,
       Signed, debit, credit
<1> QED
    BY <1>1, <1>2, <1>3

LEMMA TwoMovesAreWellFormed ==
    ASSUME NEW c \in Currencies, NEW v \in Accounts, NEW w \in Accounts,
           NEW x \in Accounts, NEW y \in Accounts,
           v.currency = c, w.currency = c, x.currency = c, y.currency = c,
           NEW n \in Int, NEW k \in Int, n > 0, k > 0
    PROVE  WellFormed(<<debit(v, n), credit(w, n), debit(x, k), credit(y, k)>>)
BY DEF WellFormed, PositiveMagnitudes, Balanced, NetIn, NetOn, AmountIn,
       Signed, debit, credit

\* The accounts a builder names are of the currency it is given.
LEMMA AccountCurrency ==
    ASSUME NEW c, NEW p, NEW kind
    PROVE  /\ customerWallet(p, c).currency = c
           /\ p2pEscrow(p, c).currency = c
           /\ agentFloat(p, c).currency = c
           /\ agentCommission(p, c).currency = c
           /\ systemAccount(kind, c).currency = c
BY DEF customerWallet, p2pEscrow, agentFloat, agentCommission, systemAccount, Account

\* The three forms a split may have.
LEMMA SplitShapes ==
    ASSUME NEW x \in Accounts, NEW y \in Accounts, NEW z \in Accounts,
           NEW n \in Int, NEW fee \in Int, n > 0, FeeInRange(fee, n)
    PROVE  /\ fee = 0 => Split(x, y, z, n, fee) = Move(x, y, n)
           /\ fee = n => Split(x, y, z, n, fee) = Move(x, z, n)
           /\ fee # 0 /\ fee # n =>
                 Split(x, y, z, n, fee) = <<debit(x, n), credit(y, n - fee), credit(z, fee)>>
<1> DEFINE rest == n - fee
<1>1. rest \in Int /\ rest >= 0 /\ fee >= 0 /\ n = rest + fee
    BY DEF FeeInRange
<1>2. /\ debit(x, n) \in Posting /\ credit(y, rest) \in Posting
      /\ credit(z, fee) \in Posting
    BY <1>1, PostingsExist
<1>3. CASE fee = 0
    <2>1. Split(x, y, z, n, fee) = (<<debit(x, n)>> \o <<credit(y, rest)>>) \o <<>>
        BY <1>1, <1>3 DEF Split, IfPositive
    <2>2. Split(x, y, z, n, fee) = Move(x, y, n)
        BY <1>1, <1>2, <1>3, <2>1, Concat11, PairOfPostings, ConcatEmptySeq DEF Move
    <2> QED
        BY <1>3, <2>2
<1>4. CASE fee = n
    <2>1. Split(x, y, z, n, fee) = (<<debit(x, n)>> \o <<>>) \o <<credit(z, fee)>>
        BY <1>1, <1>4 DEF Split, IfPositive
    <2>2. <<debit(x, n)>> \in Seq(Posting)
        BY <1>2
    <2>3. Split(x, y, z, n, fee) = Move(x, z, n)
        BY <1>1, <1>2, <1>4, <2>1, <2>2, Concat11, ConcatEmptySeq DEF Move
    <2> QED
        BY <1>4, <2>3
<1>5. CASE fee # 0 /\ fee # n
    <2>1. Split(x, y, z, n, fee)
            = (<<debit(x, n)>> \o <<credit(y, rest)>>) \o <<credit(z, fee)>>
        BY <1>1, <1>5 DEF Split, IfPositive
    <2>2. <<debit(x, n)>> \o <<credit(y, rest)>> = <<debit(x, n), credit(y, rest)>>
        BY <1>2, Concat11
    <2>3. Split(x, y, z, n, fee) = <<debit(x, n), credit(y, rest), credit(z, fee)>>
        BY <1>2, <2>1, <2>2, Concat21
    <2> QED
        BY <1>5, <2>3
<1> QED
    BY <1>3, <1>4, <1>5

\* A split of nothing is not a journal that post() takes.
LEMMA WellFormedSplit ==
    ASSUME NEW x \in Accounts, NEW y \in Accounts, NEW z \in Accounts,
           NEW n \in Int, NEW fee \in Int, WellFormed(Split(x, y, z, n, fee))
    PROVE  n > 0
<1> DEFINE s == IfPositive(n - fee, credit(y, n - fee))
           t == IfPositive(fee, credit(z, fee))
<1>1. debit(x, n) \in Posting /\ s \in Seq(Posting) /\ t \in Seq(Posting)
    BY PostingsExist DEF IfPositive
<1>2. Split(x, y, z, n, fee) = <<debit(x, n)>> \o s \o t
    BY DEF Split
<1> HIDE DEF s, t
<1>3. /\ (<<debit(x, n)>> \o s \o t)[1] = debit(x, n)
      /\ 1 \in DOMAIN (<<debit(x, n)>> \o s \o t)
    BY <1>1
<1> QED
    BY <1>2, <1>3 DEF WellFormed, PositiveMagnitudes, debit


LEMMA SplitIsWellFormed ==
    ASSUME NEW c \in Currencies,
           NEW x \in Accounts, NEW y \in Accounts, NEW z \in Accounts,
           x.currency = c, y.currency = c, z.currency = c,
           NEW n \in Int, NEW fee \in Int, n > 0, FeeInRange(fee, n)
    PROVE  WellFormed(Split(x, y, z, n, fee))
<1>1. CASE fee = 0 \/ fee = n
    <2>1. Split(x, y, z, n, fee) = Move(x, y, n) \/ Split(x, y, z, n, fee) = Move(x, z, n)
        BY <1>1, SplitShapes
    <2> QED
        BY <2>1, MoveIsWellFormed
<1>2. CASE fee # 0 /\ fee # n
    <2> DEFINE rest == n - fee
    <2>1. rest \in Int /\ rest > 0 /\ fee > 0 /\ n = rest + fee
        BY <1>2 DEF FeeInRange
    <2>2. Split(x, y, z, n, fee) = <<debit(x, n), credit(y, rest), credit(z, fee)>>
        BY <1>2, SplitShapes
    <2>3. debit(x, n) = debit(x, rest + fee)
        BY <2>1
    <2> HIDE DEF rest
    <2>4. WellFormed(<<debit(x, rest + fee), credit(y, rest), credit(z, fee)>>)
        BY <2>1, PartsAreWellFormed
    <2> QED
        BY <2>2, <2>3, <2>4
<1> QED
    BY <1>1, <1>2

\* Every move and every split the services ask for with a positive amount is a
\* journal the ledger accepts: no builder can make an unbalanced one.
LEMMA MovesBalance ==
    ASSUME NEW p \in Customers, NEW c \in Currencies, NEW n \in Int, n > 0
    PROVE  /\ WellFormed(fundWallet(p, c, n))
           /\ WellFormed(referralReward(p, c, n))
           /\ WellFormed(p2pLock(p, c, n))
           /\ WellFormed(p2pUnlock(p, c, n))
           /\ WellFormed(usdtWithdrawHold(p, c, n))
           /\ WellFormed(usdtWithdrawRefund(p, c, n))
BY AccountsExist, SystemKindsExist, AccountCurrency, MoveIsWellFormed
   DEF fundWallet, referralReward, p2pLock, p2pUnlock, usdtWithdrawHold,
       usdtWithdrawRefund

LEMMA SplitsBalance ==
    ASSUME NEW m \in Customers, NEW b \in Customers, NEW c \in Currencies,
           NEW n \in Int, NEW f \in Int, n > 0, FeeInRange(f, n)
    PROVE  /\ WellFormed(settlePayout(c, n, f))
           /\ WellFormed(p2pRelease(m, b, c, n, f))
           /\ WellFormed(usdtWithdrawSettle(c, n, f))
BY AccountsExist, SystemKindsExist, AccountCurrency, SplitIsWellFormed
   DEF settlePayout, p2pRelease, usdtWithdrawSettle

\* The shape of an agent's journal: its commission adds a second move.
LEMMA CommissionShape ==
    ASSUME NEW g \in Agents, NEW c \in Currencies, NEW x \in Accounts,
           NEW y \in Accounts, NEW n \in Int, NEW f \in Int
    PROVE  /\ f > 0 => Move(x, y, n) \o CommissionLegs(g, c, f)
                         = <<debit(x, n), credit(y, n),
                             debit(systemAccount("fee_revenue", c), f),
                             credit(agentCommission(g, c), f)>>
           /\ ~(f > 0) => Move(x, y, n) \o CommissionLegs(g, c, f) = Move(x, y, n)
<1> DEFINE from == debit(systemAccount("fee_revenue", c), f)
           to == credit(agentCommission(g, c), f)
<1>1. /\ from \in Posting /\ to \in Posting
      /\ debit(x, n) \in Posting /\ credit(y, n) \in Posting
    BY AccountsExist, SystemKindsExist, PostingsExist
<1>2. CASE f > 0
    <2>1. CommissionLegs(g, c, f) = <<from>> \o <<to>>
        BY <1>2 DEF CommissionLegs, IfPositive
    <2>2. CommissionLegs(g, c, f) = <<from, to>>
        BY <1>1, <2>1, Concat11
    <2> QED
        BY <1>1, <1>2, <2>2, Concat22 DEF Move
<1>3. CASE ~(f > 0)
    <2>1. CommissionLegs(g, c, f) = <<>> \o <<>>
        BY <1>3 DEF CommissionLegs, IfPositive
    <2>2. CommissionLegs(g, c, f) = <<>>
        BY <2>1
    <2> QED
        BY <1>3, <2>2, MoveIsJournal, ConcatEmptySeq
<1> QED
    BY <1>2, <1>3

LEMMA AgentOperationsBalance ==
    ASSUME NEW g \in Agents, NEW p \in Customers, NEW c \in Currencies,
           NEW n \in Int, NEW f \in Int, n > 0
    PROVE  /\ WellFormed(floatTopup(g, c, n))
           /\ WellFormed(agentCashIn(g, p, c, n, f))
           /\ WellFormed(agentCashOut(g, p, c, n, f))
<1> DEFINE fl == agentFloat(g, c)
           wallet == customerWallet(p, c)
           revenue == systemAccount("fee_revenue", c)
           commission == agentCommission(g, c)
<1>1. /\ fl \in Accounts /\ wallet \in Accounts
      /\ revenue \in Accounts /\ commission \in Accounts
      /\ systemAccount("settlement", c) \in Accounts
    BY AccountsExist, SystemKindsExist
<1>2. /\ fl.currency = c /\ wallet.currency = c
      /\ revenue.currency = c /\ commission.currency = c
      /\ systemAccount("settlement", c).currency = c
    BY AccountCurrency
<1>3. WellFormed(floatTopup(g, c, n))
    BY <1>1, <1>2, MoveIsWellFormed DEF floatTopup
<1>4. /\ agentCashIn(g, p, c, n, f) = Move(fl, wallet, n) \o CommissionLegs(g, c, f)
      /\ agentCashOut(g, p, c, n, f) = Move(wallet, fl, n) \o CommissionLegs(g, c, f)
    BY DEF agentCashIn, cashIn, agentCashOut, cashOut
<1> HIDE DEF fl, wallet
<1>5. CASE f > 0
    <2>1. /\ agentCashIn(g, p, c, n, f)
                = <<debit(fl, n), credit(wallet, n), debit(revenue, f), credit(commission, f)>>
          /\ agentCashOut(g, p, c, n, f)
                = <<debit(wallet, n), credit(fl, n), debit(revenue, f), credit(commission, f)>>
        BY <1>1, <1>4, <1>5, CommissionShape
    <2> HIDE DEF revenue, commission
    <2> QED
        BY <1>1, <1>2, <1>3, <1>5, <2>1, TwoMovesAreWellFormed
<1>6. CASE ~(f > 0)
    <2>1. /\ agentCashIn(g, p, c, n, f) = Move(fl, wallet, n)
          /\ agentCashOut(g, p, c, n, f) = Move(wallet, fl, n)
        BY <1>1, <1>4, <1>6, CommissionShape
    <2> QED
        BY <1>1, <1>2, <1>3, <2>1, MoveIsWellFormed
<1> QED
    BY <1>5, <1>6

-----------------------------------------------------------------------------
(* What the journals of a transfer do to an account *)

LEMMA PairDelta ==
    ASSUME NEW p, NEW q, NEW a
    PROVE  Delta(<<p, q>>, a) = (IF p.account = a THEN Signed(p) ELSE 0)
                                  + (IF q.account = a THEN Signed(q) ELSE 0) + 0 + 0
BY DEF Delta, NetOn, AmountIn

LEMMA TripleDelta ==
    ASSUME NEW p, NEW q, NEW r, NEW a
    PROVE  Delta(<<p, q, r>>, a) = (IF p.account = a THEN Signed(p) ELSE 0)
                                     + (IF q.account = a THEN Signed(q) ELSE 0)
                                     + (IF r.account = a THEN Signed(r) ELSE 0) + 0
BY DEF Delta, NetOn, AmountIn

\* A total on one side and its two parts on the other: what each account gains.
LEMMA PartsDelta ==
    ASSUME NEW x \in Accounts, NEW y \in Accounts, NEW z \in Accounts,
           x # y, x # z, y # z, NEW n \in Int, NEW k \in Int
    PROVE  /\ Delta(<<debit(x, n + k), credit(z, k), credit(y, n)>>, x) = -(n + k)
           /\ Delta(<<debit(y, n), debit(z, k), credit(x, n + k)>>, x) = n + k
           /\ \A a \in Accounts \ {x, y, z} :
                 /\ Delta(<<debit(x, n + k), credit(z, k), credit(y, n)>>, a) = 0
                 /\ Delta(<<debit(y, n), debit(z, k), credit(x, n + k)>>, a) = 0
BY TripleDelta DEF debit, credit, Signed

LEMMA MoveDelta ==
    ASSUME NEW x \in Accounts, NEW y \in Accounts, x # y, NEW n \in Int
    PROVE  /\ Delta(Move(x, y, n), x) = -n
           /\ Delta(Move(x, y, n), y) = n
           /\ \A a \in Accounts \ {x, y} : Delta(Move(x, y, n), a) = 0
BY PairDelta DEF Move, debit, credit, Signed

LEMMA SplitDelta ==
    ASSUME NEW x \in Accounts, NEW y \in Accounts, NEW z \in Accounts,
           x # y, x # z, y # z,
           NEW n \in Int, NEW fee \in Int, n > 0, FeeInRange(fee, n)
    PROVE  /\ Delta(Split(x, y, z, n, fee), x) = -n
           /\ Delta(Split(x, y, z, n, fee), y) = n - fee
           /\ Delta(Split(x, y, z, n, fee), z) = fee
           /\ \A a \in Accounts \ {x, y, z} : Delta(Split(x, y, z, n, fee), a) = 0
<1>1. CASE fee = 0
    <2>1. Split(x, y, z, n, fee) = Move(x, y, n)
        BY <1>1, SplitShapes
    <2> QED
        BY <1>1, <2>1, MoveDelta
<1>2. CASE fee = n
    <2>1. Split(x, y, z, n, fee) = Move(x, z, n)
        BY <1>2, SplitShapes
    <2> QED
        BY <1>2, <2>1, MoveDelta
<1>3. CASE fee # 0 /\ fee # n
    <2>1. Split(x, y, z, n, fee) = <<debit(x, n), credit(y, n - fee), credit(z, fee)>>
        BY <1>3, SplitShapes
    <2> QED
        BY <2>1, TripleDelta DEF debit, credit, Signed
<1> QED
    BY <1>1, <1>2, <1>3

\* Customers' wallets are told apart by their owner and currency, and are not
\* the platform's accounts.
LEMMA AccountsDiffer ==
    ASSUME NEW p, NEW c, NEW kind \in SystemKinds, NEW d
    PROVE  /\ customerWallet(p, c) # systemAccount(kind, d)
           /\ \A other \in SystemKinds : \A e :
                 systemAccount(kind, d) = systemAccount(other, e) => kind = other
BY DEF customerWallet, systemAccount, Account, SystemKinds

\* A settled payout leaves its suspense account, its fee is booked, and no
\* customer's wallet moves.
LEMMA SettlePayoutDelta ==
    ASSUME NEW c \in Currencies, NEW n \in Int, NEW f \in Int, n > 0, FeeInRange(f, n)
    PROVE  /\ Delta(settlePayout(c, n, f), systemAccount("payout_suspense", c)) = -n
           /\ Delta(settlePayout(c, n, f), systemAccount("provider_fee", c)) = f
           /\ \A p \in Customers, d \in Currencies :
                 Delta(settlePayout(c, n, f), customerWallet(p, d)) = 0
<1> DEFINE x == systemAccount("payout_suspense", c)
           y == systemAccount("settlement", c)
           z == systemAccount("provider_fee", c)
<1>1. x \in Accounts /\ y \in Accounts /\ z \in Accounts
    BY AccountsExist, SystemKindsExist
<1>2. x # y /\ x # z /\ y # z
    BY DEF systemAccount, Account
<1>3. \A p \in Customers, d \in Currencies : customerWallet(p, d) \in Accounts \ {x, y, z}
    BY AccountsExist, AccountsDiffer, SystemKindsExist
<1>4. settlePayout(c, n, f) = Split(x, y, z, n, f)
    BY DEF settlePayout
<1> HIDE DEF x, y, z
<1>5. /\ Delta(settlePayout(c, n, f), x) = -n
      /\ Delta(settlePayout(c, n, f), z) = f
      /\ \A a \in Accounts \ {x, y, z} : Delta(settlePayout(c, n, f), a) = 0
    BY <1>1, <1>2, <1>4, SplitDelta
<1> QED
    BY <1>3, <1>5 DEF x, z

\* The journals of the FX leg do not touch customers' wallets.
LEMMA TransferFxDelta ==
    ASSUME NEW q \in Quote, NEW p \in Customers, NEW d \in Currencies
    PROVE  /\ Delta(transferFxJournal(q), customerWallet(p, d)) = 0
           /\ Delta(reverseTransferFx(q), customerWallet(p, d)) = 0
<1> DEFINE x == systemAccount("fx_position", q.to)
           y == systemAccount("payout_suspense", q.to)
<1>1. q.to \in Currencies /\ q.receive \in Int
    BY DEF Quote
<1>2. x \in Accounts /\ y \in Accounts /\ x # y
    BY <1>1, AccountsExist, SystemKindsExist DEF systemAccount, Account
<1>3. customerWallet(p, d) \in Accounts \ {x, y}
    BY AccountsExist, AccountsDiffer, SystemKindsExist
<1>4. transferFxJournal(q) = Move(x, y, q.receive) /\ reverseTransferFx(q) = Move(y, x, q.receive)
    BY DEF transferFxJournal, reverseTransferFx
<1> HIDE DEF x, y
<1> QED
    BY <1>1, <1>2, <1>3, <1>4, MoveDelta

\* The debit moves the sender's wallet and two accounts of the platform, and no
\* other; so does its reversal.
LEMMA TransferDebitMoves ==
    ASSUME NEW s \in Customers, NEW q \in Quote, q.fee >= 0
    PROVE  LET x == customerWallet(s, q.from)
               y == systemAccount("fx_position", q.from)
               z == systemAccount("fee_revenue", q.from)
           IN /\ Delta(transferDebitJournal(s, q), x) = -(q.send + q.fee)
              /\ Delta(reverseTransferDebit(s, q), x) = q.send + q.fee
              /\ \A a \in Accounts \ {x, y, z} : /\ Delta(transferDebitJournal(s, q), a) = 0
                                                /\ Delta(reverseTransferDebit(s, q), a) = 0
<1> DEFINE x == customerWallet(s, q.from)
           y == systemAccount("fx_position", q.from)
           z == systemAccount("fee_revenue", q.from)
           n == q.send
           k == q.fee
<1>1. q.from \in Currencies /\ n \in Int /\ k \in Int /\ k >= 0
    BY DEF Quote
<1>2. x \in Accounts /\ y \in Accounts /\ z \in Accounts
    BY <1>1, AccountsExist, SystemKindsExist
<1>3. x # y /\ x # z /\ y # z
    BY AccountsDiffer, SystemKindsExist DEF systemAccount, Account
<1>5. /\ debit(x, n + k) \in Posting /\ credit(z, k) \in Posting /\ credit(y, n) \in Posting
      /\ debit(y, n) \in Posting /\ debit(z, k) \in Posting /\ credit(x, n + k) \in Posting
    BY <1>1, <1>2, PostingsExist
<1>6. /\ transferDebitJournal(s, q)
            = (<<debit(x, n + k)>> \o IfPositive(k, credit(z, k))) \o <<credit(y, n)>>
      /\ reverseTransferDebit(s, q)
            = (<<debit(y, n)>> \o IfPositive(k, debit(z, k))) \o <<credit(x, n + k)>>
    BY DEF transferDebitJournal, reverseTransferDebit
<1> SUFFICES /\ Delta(transferDebitJournal(s, q), x) = -(n + k)
             /\ Delta(reverseTransferDebit(s, q), x) = n + k
             /\ \A a \in Accounts \ {x, y, z} : /\ Delta(transferDebitJournal(s, q), a) = 0
                                               /\ Delta(reverseTransferDebit(s, q), a) = 0
    OBVIOUS
<1> HIDE DEF x, y, z, n, k
<1>7. CASE k > 0
    <2>1. /\ transferDebitJournal(s, q) = <<debit(x, n + k), credit(z, k), credit(y, n)>>
          /\ reverseTransferDebit(s, q) = <<debit(y, n), debit(z, k), credit(x, n + k)>>
        <3>1. /\ <<debit(x, n + k)>> \o IfPositive(k, credit(z, k))
                    = <<debit(x, n + k), credit(z, k)>>
              /\ <<debit(y, n)>> \o IfPositive(k, debit(z, k)) = <<debit(y, n), debit(z, k)>>
            BY <1>5, <1>7, Concat11 DEF IfPositive
        <3> QED
            BY <1>5, <1>6, <3>1, Concat21
    <2>2. /\ Delta(<<debit(x, n + k), credit(z, k), credit(y, n)>>, x) = -(n + k)
          /\ Delta(<<debit(y, n), debit(z, k), credit(x, n + k)>>, x) = n + k
          /\ \A a \in Accounts \ {x, y, z} :
                /\ Delta(<<debit(x, n + k), credit(z, k), credit(y, n)>>, a) = 0
                /\ Delta(<<debit(y, n), debit(z, k), credit(x, n + k)>>, a) = 0
        BY <1>1, <1>2, <1>3, PartsDelta
    <2> QED
        BY <2>1, <2>2
<1>8. CASE k = 0
    <2>1. /\ transferDebitJournal(s, q) = Move(x, y, n)
          /\ reverseTransferDebit(s, q) = Move(y, x, n)
        <3>1. n + k = n
            BY <1>1, <1>8
        <3>2. /\ transferDebitJournal(s, q) = (<<debit(x, n)>> \o <<>>) \o <<credit(y, n)>>
              /\ reverseTransferDebit(s, q) = (<<debit(y, n)>> \o <<>>) \o <<credit(x, n)>>
            BY <1>1, <1>6, <1>8, <3>1 DEF IfPositive
        <3>3. <<debit(x, n)>> \in Seq(Posting) /\ <<debit(y, n)>> \in Seq(Posting)
            BY <1>5, <3>1
        <3> QED
            BY <1>5, <3>1, <3>2, <3>3, Concat11, ConcatEmptySeq DEF Move
    <2>2. n + k = n
        BY <1>1, <1>8
    <2> QED
        BY <1>1, <1>2, <1>3, <2>1, <2>2, MoveDelta
<1> QED
    BY <1>1, <1>7, <1>8

\* The debit takes the amount and the fee from the sender's wallet and from no
\* other, and its reversal gives the same back.
LEMMA TransferDebitDelta ==
    ASSUME NEW s \in Customers, NEW q \in Quote, q.fee >= 0,
           NEW p \in Customers, NEW d \in Currencies
    PROVE  /\ Delta(transferDebitJournal(s, q), customerWallet(p, d))
                = IF p = s /\ d = q.from THEN -(q.send + q.fee) ELSE 0
           /\ Delta(reverseTransferDebit(s, q), customerWallet(p, d))
                = IF p = s /\ d = q.from THEN q.send + q.fee ELSE 0
<1> DEFINE x == customerWallet(s, q.from)
           y == systemAccount("fx_position", q.from)
           z == systemAccount("fee_revenue", q.from)
<1>1. customerWallet(p, d) = x <=> p = s /\ d = q.from
    BY DEF customerWallet, Account
<1>2. customerWallet(p, d) \in Accounts \ {y, z}
    BY AccountsExist, AccountsDiffer, SystemKindsExist
<1>3. /\ Delta(transferDebitJournal(s, q), x) = -(q.send + q.fee)
      /\ Delta(reverseTransferDebit(s, q), x) = q.send + q.fee
      /\ \A a \in Accounts \ {x, y, z} : /\ Delta(transferDebitJournal(s, q), a) = 0
                                        /\ Delta(reverseTransferDebit(s, q), a) = 0
    BY TransferDebitMoves
<1> HIDE DEF x, y, z
<1>4. CASE p = s /\ d = q.from
    BY <1>1, <1>3, <1>4
<1>5. CASE ~(p = s /\ d = q.from)
    BY <1>1, <1>2, <1>3, <1>5
<1> QED
    BY <1>4, <1>5

-----------------------------------------------------------------------------
(* post() *)

StoreTypeOK ==
    /\ balance \in [Accounts -> Int]
    /\ journal \in [Keys -> Seq(Posting)]

\* A user's account is never negative.
StoreNonNegative ==
    \A a \in Accounts : a.kind \in NonNegativeKinds => balance[a] >= 0

\* A post() keeps the balance cache and the journal table well typed.
LEMMA PostKeepsType ==
    ASSUME StoreTypeOK, NEW k \in Keys, NEW s \in Seq(Posting), Post(k, s)
    PROVE  StoreTypeOK'
<1>1. \A a \in Accounts : balance[a] + Delta(s, a) \in Int
    BY DeltaIsInt DEF StoreTypeOK
<1>2. CASE Posted(k)
    BY <1>2 DEF Post, StoreTypeOK, ledgerVars
<1>3. CASE ~Posted(k)
    BY <1>1, <1>3 DEF Post, Commit, Applied, StoreTypeOK
<1> QED
    BY <1>2, <1>3

\* A post() never takes a user's account below zero.
LEMMA PostKeepsNonNegative ==
    ASSUME StoreTypeOK, StoreNonNegative,
           NEW k \in Keys, NEW s \in Seq(Posting), Post(k, s)
    PROVE  StoreNonNegative'
<1>1. CASE Posted(k)
    BY <1>1 DEF Post, StoreNonNegative, ledgerVars
<1>2. CASE ~Posted(k)
    <2>1. ~Overdraws(s) /\ balance' = Applied(s)
        BY <1>2 DEF Post, Accepts, Commit
    <2> SUFFICES ASSUME NEW a \in Accounts, a.kind \in NonNegativeKinds
                 PROVE  balance'[a] >= 0
        BY DEF StoreNonNegative
    <2>2. balance'[a] = balance[a] + Delta(s, a)
        BY <2>1 DEF Applied
    <2>3. Delta(s, a) \in Int /\ balance[a] \in Int /\ balance[a] >= 0
        BY DeltaIsInt DEF StoreTypeOK, StoreNonNegative
    <2>4. Delta(s, a) = 0 \/ ~(balance[a] + Delta(s, a) < 0)
        BY <2>1 DEF Overdraws
    <2> QED
        BY <2>2, <2>3, <2>4
<1> QED
    BY <1>1, <1>2

\* A stored journal never changes, and money moves only with a new journal.
LEMMA PostAppends ==
    ASSUME StoreTypeOK, NEW k \in Keys, NEW s \in Seq(Posting), Post(k, s)
    PROVE  /\ \A j \in Keys : Posted(j) => journal'[j] = journal[j]
           /\ journal' = journal => balance' = balance
           /\ \A j \in Keys \ {k} : journal'[j] = journal[j]
           /\ Posted(k)'
<1>1. s # NoJournal
    BY DEF Post, Accepts, WellFormed, Balanced, NoJournal
<1>2. CASE Posted(k)
    BY <1>2 DEF Post, ledgerVars, Posted
<1>3. CASE ~Posted(k)
    <2>1. journal' = [journal EXCEPT ![k] = s]
        BY <1>3 DEF Post, Commit
    <2>2. journal'[k] = s /\ \A j \in Keys \ {k} : journal'[j] = journal[j]
        BY <2>1 DEF StoreTypeOK
    <2>3. journal' # journal
        BY <1>1, <1>3, <2>2 DEF Posted
    <2> QED
        BY <1>1, <1>3, <2>2, <2>3 DEF Posted
<1> QED
    BY <1>2, <1>3

\* What a post() leaves under its key: a new journal, or the one that was there.
LEMMA PostStores ==
    ASSUME StoreTypeOK, NEW k \in Keys, NEW s, Post(k, s)
    PROVE  \/ Posted(k) /\ UNCHANGED ledgerVars
           \/ /\ ~Posted(k) /\ journal'[k] = s /\ WellFormed(s)
              /\ balance' = Applied(s)
BY DEF Post, Accepts, Commit, StoreTypeOK
=============================================================================
