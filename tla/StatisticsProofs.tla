-------------------------- MODULE StatisticsProofs --------------------------
(***************************************************************************)
(* For any set of test cases and any number of recorded requests: the      *)
(* counters of the test database match its lists, and so the summary table *)
(* of the report matches its detail lists; the outputs account for what    *)
(* was sent; the scores, grades, set summaries and charts, each computed   *)
(* anew from the lists or the counters, agree with one another.            *)
(*                                                                         *)
(* The figures of the report are sums over finite sets of test cases, so   *)
(* the module starts with what there is to know about SumOver.             *)
(***************************************************************************)
EXTENDS HtmlReport, FiniteSetTheorems, TLAPS

-----------------------------------------------------------------------------
(* Sums over finite sets.                                                  *)

\* A set of subsets of a finite set has a smallest member, one that contains no other.
LEMMA SmallestSubset ==
  ASSUME NEW S, IsFiniteSet(S), NEW P \in SUBSET (SUBSET S), P # {}
  PROVE  \E T \in P : \A U \in P : U \subseteq T => U = T
<1>1. IsWellFoundedOn(StrictSubsetOrdering(S), FiniteSubsetsOf(S))
  BY FS_StrictSubsetOrderingWellFounded
<1>2. P \subseteq FiniteSubsetsOf(S)
  BY FS_FiniteSubsetsOfFinite
<1>3. PICK T \in P : \A U \in P : ~(<<U, T>> \in StrictSubsetOrdering(S))
  BY <1>1, <1>2, WFMin
<1> QED BY <1>3 DEF StrictSubsetOrdering

\* Induction on the subsets of a finite set: what holds of a set whenever it holds
\* of its proper subsets holds of all of them.
LEMMA SubsetInduction ==
  ASSUME NEW S, IsFiniteSet(S), NEW P \in SUBSET (SUBSET S),
         \A T \in SUBSET S : (\A U \in SUBSET T : U # T => U \in P) => T \in P
  PROVE  \A T \in SUBSET S : T \in P
<1> SUFFICES ASSUME ~ \A T \in SUBSET S : T \in P PROVE FALSE
  OBVIOUS
<1> DEFINE Q == (SUBSET S) \ P
<1>1. Q \in SUBSET (SUBSET S) /\ Q # {}
  OBVIOUS
<1> HIDE DEF Q
<1>2. PICK T \in Q : \A U \in Q : U \subseteq T => U = T
  BY <1>1, SmallestSubset
<1> USE DEF Q
<1>3. \A U \in SUBSET T : U # T => U \in P
  BY <1>2
<1> QED BY <1>2, <1>3

\* Induction element by element.
LEMMA ElementInduction ==
  ASSUME NEW S, IsFiniteSet(S), NEW P \in SUBSET (SUBSET S),
         {} \in P,
         \A T \in SUBSET S : \A x \in T : T \ {x} \in P => T \in P
  PROVE  S \in P
<1>1. ASSUME NEW T \in SUBSET S, \A U \in SUBSET T : U # T => U \in P
      PROVE  T \in P
  <2>1. ASSUME NEW x \in T
        PROVE  T \in P
    <3>1. T \ {x} \in SUBSET T /\ T \ {x} # T
      OBVIOUS
    <3> QED BY <1>1, <3>1
  <2> QED BY <2>1
<1>2. \A T \in SUBSET S : T \in P
  BY <1>1, SubsetInduction
<1> QED BY <1>2

\* The element that the fold takes from a set first.
First(s) == CHOOSE x \in s : TRUE

\* g is the function that the fold computes: the sum of f over each subset of T.
Sums(f, g, T) ==
  g = [s \in SUBSET T |-> IF s = {} THEN 0 ELSE f[First(s)] + g[s \ {First(s)}]]

\* Its equation, for one subset.
LEMMA SumsOfSubset ==
  ASSUME NEW f, NEW g, NEW T, Sums(f, g, T), NEW s \in SUBSET T
  PROVE  /\ s = {} => g[s] = 0
         /\ s # {} => /\ First(s) \in s
                      /\ g[s] = f[First(s)] + g[s \ {First(s)}]
<1>1. s # {} => First(s) \in s
  BY DEF First
<1>2. g[s] = IF s = {} THEN 0 ELSE f[First(s)] + g[s \ {First(s)}]
  BY DEF Sums
<1> QED BY <1>1, <1>2

\* There is no other such function.
LEMMA SumsUnique ==
  ASSUME NEW f, NEW T, IsFiniteSet(T), NEW g, Sums(f, g, T), NEW h, Sums(f, h, T)
  PROVE  g = h
<1> DEFINE P == {s \in SUBSET T : g[s] # h[s]}
<1>1. ASSUME P # {} PROVE FALSE
  <2>1. PICK s \in P : \A u \in P : u \subseteq s => u = s
    <3> HIDE DEF P
    <3>1. P \in SUBSET (SUBSET T)
      BY DEF P
    <3> QED BY <1>1, <3>1, SmallestSubset
  <2>2. /\ s = {} => g[s] = 0
        /\ s # {} => /\ First(s) \in s
                     /\ g[s] = f[First(s)] + g[s \ {First(s)}]
    BY SumsOfSubset
  <2>3. /\ s = {} => h[s] = 0
        /\ s # {} => /\ First(s) \in s
                     /\ h[s] = f[First(s)] + h[s \ {First(s)}]
    BY SumsOfSubset
  <2>4. s # {}
    BY <2>2, <2>3
  <2>5. s \ {First(s)} \notin P
    BY <2>1, <2>2, <2>4
  <2> QED BY <2>2, <2>3, <2>4, <2>5
<1>2. \A s \in SUBSET T : g[s] = h[s]
  BY <1>1
<1>3. g = [s \in SUBSET T |-> g[s]] /\ h = [s \in SUBSET T |-> h[s]]
  BY DEF Sums
<1> QED BY <1>2, <1>3

\* SumOver chooses one.
LEMMA SumOverSums ==
  ASSUME NEW f, NEW T
  PROVE  SumOver(f, T) = (CHOOSE g : Sums(f, g, T))[T]
BY DEF SumOver, FoldFunctionOnSet, MapThenFoldSet, Sums, First

\* And there is one, whatever f is: the function for T is put together from those
\* for its proper subsets.
LEMMA SumsExist ==
  ASSUME NEW f, NEW S, IsFiniteSet(S)
  PROVE  \A T \in SUBSET S : \E g : Sums(f, g, T)
<1> DEFINE Q == {T \in SUBSET S : ~ \E g : Sums(f, g, T)}
<1> SUFFICES ASSUME Q # {} PROVE FALSE
  OBVIOUS
<1>1. PICK T \in Q : \A U \in Q : U \subseteq T => U = T
  <2>1. Q \in SUBSET (SUBSET S)
    OBVIOUS
  <2> HIDE DEF Q
  <2> QED BY <2>1, SmallestSubset
<1>2. \A U \in SUBSET T : U # T => \E g : Sums(f, g, U)
  BY <1>1
<1> DEFINE G(U) == CHOOSE g : Sums(f, g, U)
           h == [s \in SUBSET T |-> IF s = {} THEN 0 ELSE f[First(s)] + G(s \ {First(s)})[s \ {First(s)}]]
<1>3. \A U \in SUBSET T : U # T => Sums(f, G(U), U)
  BY <1>2
<1>4. ASSUME NEW s \in SUBSET T, s # T
      PROVE  h[s] = G(s)[s]
  <2>1. CASE s = {}
    BY <1>3, <1>4, <2>1, SumsOfSubset
  <2>2. CASE s # {}
    <3> DEFINE u == s \ {First(s)}
    <3>1. First(s) \in s
      BY <2>2 DEF First
    <3>2. Sums(f, G(s), s)
      BY <1>3, <1>4
    <3>3. G(s)[s] = f[First(s)] + G(s)[u]
      BY <2>2, <3>2, SumsOfSubset
    <3> DEFINE k == [v \in SUBSET u |-> G(s)[v]]
    <3>4. Sums(f, k, u)
      <4>1. ASSUME NEW v \in SUBSET u
            PROVE  k[v] = IF v = {} THEN 0 ELSE f[First(v)] + k[v \ {First(v)}]
        <5>1. v \in SUBSET s
          OBVIOUS
        <5>2. G(s)[v] = IF v = {} THEN 0 ELSE f[First(v)] + G(s)[v \ {First(v)}]
          BY <3>2, <5>1, SumsOfSubset
        <5> QED BY <5>2
      <4> HIDE DEF G
      <4> QED BY <4>1 DEF Sums
    <3>5. Sums(f, G(u), u) /\ u # T
      BY <1>3, <1>4, <3>1
    <3>6. IsFiniteSet(u)
      BY FS_Subset
    <3>7. k = G(u)
      <4> HIDE DEF k, G, u
      <4> QED BY <3>4, <3>5, <3>6, SumsUnique
    <3>8. G(s)[u] = G(u)[u]
      BY <3>7
    <3> QED BY <2>2, <3>3, <3>8
  <2> QED BY <2>1, <2>2
<1>5. Sums(f, h, T)
  <2>1. ASSUME NEW s \in SUBSET T, s # {}
        PROVE  G(s \ {First(s)})[s \ {First(s)}] = h[s \ {First(s)}]
    <3>1. First(s) \in s
      BY <2>1 DEF First
    <3> QED BY <1>4, <3>1
  <2> HIDE DEF G
  <2>2. h = [s \in SUBSET T |-> IF s = {} THEN 0 ELSE f[First(s)] + h[s \ {First(s)}]]
    BY <2>1
  <2> QED BY <2>2 DEF Sums
<1> QED BY <1>1, <1>5

\* So a sum over a finite set is the sum over the rest of it and the first element.
LEMMA SumEquation ==
  ASSUME NEW f, NEW S, IsFiniteSet(S)
  PROVE  /\ SumOver(f, {}) = 0
         /\ S # {} => /\ First(S) \in S
                      /\ SumOver(f, S) = f[First(S)] + SumOver(f, S \ {First(S)})
<1> DEFINE G(U) == CHOOSE g : Sums(f, g, U)
<1>1. \A U \in SUBSET S : IsFiniteSet(U) /\ Sums(f, G(U), U)
  BY SumsExist, FS_Subset
<1>2. \A U : SumOver(f, U) = G(U)[U]
  BY SumOverSums
<1>3. SumOver(f, {}) = 0
  <2>1. Sums(f, G({}), {})
    BY <1>1
  <2> HIDE DEF G
  <2>2. G({})[{}] = 0
    BY <2>1, SumsOfSubset
  <2> QED BY <1>2, <2>2
<1>4. ASSUME S # {}
      PROVE  /\ First(S) \in S
             /\ SumOver(f, S) = f[First(S)] + SumOver(f, S \ {First(S)})
  <2> DEFINE u == S \ {First(S)}
             k == [v \in SUBSET u |-> G(S)[v]]
  <2>1. First(S) \in S
    BY <1>4 DEF First
  <2>2. Sums(f, G(S), S) /\ Sums(f, G(u), u) /\ IsFiniteSet(u)
    BY <1>1
  <2>3. G(S)[S] = f[First(S)] + G(S)[u]
    BY <1>4, <2>2, SumsOfSubset
  <2>4. Sums(f, k, u)
    <3>1. ASSUME NEW v \in SUBSET u
          PROVE  k[v] = IF v = {} THEN 0 ELSE f[First(v)] + k[v \ {First(v)}]
      <4>1. G(S)[v] = IF v = {} THEN 0 ELSE f[First(v)] + G(S)[v \ {First(v)}]
        BY <2>2, SumsOfSubset
      <4> QED BY <4>1
    <3> HIDE DEF G
    <3> QED BY <3>1 DEF Sums
  <2>5. k = G(u)
    <3> HIDE DEF k, G, u
    <3> QED BY <2>2, <2>4, SumsUnique
  <2>6. G(S)[u] = G(u)[u]
    BY <2>5
  <2> QED BY <1>2, <2>1, <2>3, <2>6
<1> QED BY <1>3, <1>4

\* The empty sum.
LEMMA SumEmpty ==
  ASSUME NEW f
  PROVE  SumOver(f, {}) = 0
BY FS_EmptySet, SumEquation

\* A sum of integers is one, and any element may be split off.
LEMMA SumSplit ==
  ASSUME NEW f, NEW S, IsFiniteSet(S), \A x \in S : f[x] \in Int
  PROVE  /\ SumOver(f, S) \in Int
         /\ \A x \in S : SumOver(f, S) = f[x] + SumOver(f, S \ {x})
<1> DEFINE P == {T \in SUBSET S : /\ SumOver(f, T) \in Int
                                  /\ \A x \in T : SumOver(f, T) = f[x] + SumOver(f, T \ {x})}
<1>1. ASSUME NEW T \in SUBSET S, \A U \in SUBSET T : U # T => U \in P
      PROVE  T \in P
  <2>1. IsFiniteSet(T)
    BY FS_Subset
  <2>2. CASE T = {}
    BY <2>2, SumEmpty
  <2>3. CASE T # {}
    <3> DEFINE y == First(T)
    <3>1. y \in T /\ SumOver(f, T) = f[y] + SumOver(f, T \ {y})
      BY <2>1, <2>3, SumEquation
    <3> HIDE DEF y
    <3>2. T \ {y} \in P
      BY <1>1, <3>1
    <3>3. f[y] \in Int /\ SumOver(f, T \ {y}) \in Int
      BY <3>1, <3>2
    <3>4. ASSUME NEW x \in T, x # y
          PROVE  SumOver(f, T) = f[x] + SumOver(f, T \ {x})
      <4>1. SumOver(f, T \ {y}) = f[x] + SumOver(f, (T \ {y}) \ {x})
        BY <3>2, <3>4
      <4>2. T \ {x} \in P
        BY <1>1
      <4>3. (T \ {x}) \ {y} = (T \ {y}) \ {x} /\ y \in T \ {x}
        BY <3>1, <3>4
      <4>4. SumOver(f, T \ {x}) = f[y] + SumOver(f, (T \ {y}) \ {x})
        <5>1. SumOver(f, T \ {x}) = f[y] + SumOver(f, (T \ {x}) \ {y})
          BY <4>2, <4>3
        <5> QED BY <4>3, <5>1
      <4>5. (T \ {y}) \ {x} \in P
        BY <1>1, <3>1
      <4>6. SumOver(f, (T \ {y}) \ {x}) \in Int /\ f[x] \in Int
        BY <4>5
      <4> QED BY <3>1, <3>3, <4>1, <4>4, <4>6
    <3>5. SumOver(f, T) \in Int
      BY <3>1, <3>3
    <3>6. \A x \in T : SumOver(f, T) = f[x] + SumOver(f, T \ {x})
      BY <3>1, <3>4
    <3> QED BY <3>5, <3>6
  <2> QED BY <2>2, <2>3
<1>2. \A T \in SUBSET S : T \in P
  <2>1. P \in SUBSET (SUBSET S)
    OBVIOUS
  <2> HIDE DEF P
  <2> QED BY <1>1, <2>1, SubsetInduction
<1> QED BY <1>2

\* Splitting off one element, with the types that arithmetic needs.
LEMMA SumStep ==
  ASSUME NEW f, NEW S, IsFiniteSet(S), \A x \in S : f[x] \in Int,
         NEW T \in SUBSET S, NEW x \in T
  PROVE  /\ f[x] \in Int
         /\ SumOver(f, T) \in Int
         /\ SumOver(f, T \ {x}) \in Int
         /\ SumOver(f, T) = f[x] + SumOver(f, T \ {x})
<1>1. IsFiniteSet(T) /\ IsFiniteSet(T \ {x})
  BY FS_Subset
<1>2. \A z \in T : f[z] \in Int
  OBVIOUS
<1>3. \A z \in T \ {x} : f[z] \in Int
  OBVIOUS
<1>4. SumOver(f, T) \in Int /\ SumOver(f, T) = f[x] + SumOver(f, T \ {x})
  BY <1>1, <1>2, SumSplit
<1>5. SumOver(f, T \ {x}) \in Int
  BY <1>1, <1>3, SumSplit
<1> QED BY <1>2, <1>4, <1>5

\* A sum of natural numbers is one, and no smaller than any of them.
LEMMA SumNat ==
  ASSUME NEW f, NEW S, IsFiniteSet(S), \A x \in S : f[x] \in Nat
  PROVE  /\ SumOver(f, S) \in Nat
         /\ \A x \in S : f[x] <= SumOver(f, S)
<1> DEFINE P == {T \in SUBSET S : /\ SumOver(f, T) \in Nat
                                  /\ \A x \in T : f[x] <= SumOver(f, T)}
<1>1. \A x \in S : f[x] \in Int
  OBVIOUS
<1>2. ASSUME NEW T \in SUBSET S, NEW x \in T, T \ {x} \in P
      PROVE  T \in P
  <2>1. SumOver(f, T) = f[x] + SumOver(f, T \ {x})
    BY <1>1, SumStep
  <2>2. SumOver(f, T \ {x}) \in Nat /\ \A y \in T \ {x} : f[y] <= SumOver(f, T \ {x})
    BY <1>2
  <2>3. f[x] \in Nat
    OBVIOUS
  <2>4. SumOver(f, T) \in Nat /\ f[x] <= SumOver(f, T) /\ SumOver(f, T \ {x}) <= SumOver(f, T)
    BY <2>1, <2>2, <2>3
  <2>5. ASSUME NEW y \in T, y # x
        PROVE  f[y] <= SumOver(f, T)
    <3>1. f[y] <= SumOver(f, T \ {x}) /\ f[y] \in Nat
      BY <2>2, <2>5
    <3> QED BY <2>2, <2>4, <3>1
  <2> QED BY <2>4, <2>5
<1>3. {} \in P
  BY SumEmpty
<1>4. P \in SUBSET (SUBSET S)
  OBVIOUS
<1>5. S \in P
  <2> HIDE DEF P
  <2> QED BY <1>2, <1>3, <1>4, ElementInduction
<1> QED BY <1>5

\* Sums of functions that agree are equal.
LEMMA SumSame ==
  ASSUME NEW f, NEW g, NEW S, IsFiniteSet(S), \A x \in S : f[x] \in Int /\ g[x] = f[x]
  PROVE  SumOver(g, S) = SumOver(f, S)
<1> DEFINE P == {T \in SUBSET S : SumOver(g, T) = SumOver(f, T)}
<1>1. /\ \A x \in S : f[x] \in Int
      /\ \A x \in S : g[x] \in Int
  OBVIOUS
<1>2. ASSUME NEW T \in SUBSET S, NEW x \in T, T \ {x} \in P
      PROVE  T \in P
  <2>1. SumOver(f, T) = f[x] + SumOver(f, T \ {x})
    BY <1>1, SumStep
  <2>2. SumOver(g, T) = g[x] + SumOver(g, T \ {x})
    BY <1>1, SumStep
  <2> QED BY <1>2, <2>1, <2>2
<1>3. {} \in P
  BY SumEmpty
<1>4. P \in SUBSET (SUBSET S)
  OBVIOUS
<1>5. S \in P
  <2> HIDE DEF P
  <2> QED BY <1>2, <1>3, <1>4, ElementInduction
<1> QED BY <1>5

\* A sum is monotone, and strictly so where one summand is.
LEMMA SumMonotone ==
  ASSUME NEW f, NEW g, NEW S, IsFiniteSet(S),
         \A x \in S : f[x] \in Int /\ g[x] \in Int /\ f[x] <= g[x]
  PROVE  /\ SumOver(f, S) <= SumOver(g, S)
         /\ (\E x \in S : f[x] < g[x]) => SumOver(f, S) < SumOver(g, S)
<1> DEFINE P == {T \in SUBSET S :
                   /\ SumOver(f, T) <= SumOver(g, T)
                   /\ (\E x \in T : f[x] < g[x]) => SumOver(f, T) < SumOver(g, T)}
<1>1. /\ \A x \in S : f[x] \in Int
      /\ \A x \in S : g[x] \in Int
      /\ \A x \in S : f[x] <= g[x]
  OBVIOUS
<1>2. ASSUME NEW T \in SUBSET S, NEW x \in T, T \ {x} \in P
      PROVE  T \in P
  <2>1. /\ f[x] \in Int /\ SumOver(f, T \ {x}) \in Int
        /\ SumOver(f, T) = f[x] + SumOver(f, T \ {x})
    BY <1>1, SumStep
  <2>2. /\ g[x] \in Int /\ SumOver(g, T \ {x}) \in Int
        /\ SumOver(g, T) = g[x] + SumOver(g, T \ {x})
    <3>1. SumOver(g, T) = g[x] + SumOver(g, T \ {x})
      BY <1>1, SumStep
    <3>2. g[x] \in Int /\ SumOver(g, T \ {x}) \in Int
      BY <1>1, SumStep
    <3> QED BY <3>1, <3>2
  <2>3. /\ SumOver(f, T \ {x}) <= SumOver(g, T \ {x})
        /\ (\E y \in T \ {x} : f[y] < g[y]) => SumOver(f, T \ {x}) < SumOver(g, T \ {x})
    BY <1>2
  <2>4. f[x] <= g[x]
    OBVIOUS
  <2>5. (\E y \in T : f[y] < g[y]) => f[x] < g[x] \/ \E y \in T \ {x} : f[y] < g[y]
    OBVIOUS
  <2> QED BY <2>1, <2>2, <2>3, <2>4, <2>5
<1>3. {} \in P
  BY SumEmpty
<1>4. P \in SUBSET (SUBSET S)
  OBVIOUS
<1>5. S \in P
  <2> HIDE DEF P
  <2> QED BY <1>2, <1>3, <1>4, ElementInduction
<1> QED BY <1>5

\* The sum over two sets without a common element.
LEMMA SumUnion ==
  ASSUME NEW f, NEW S, NEW T, IsFiniteSet(S), IsFiniteSet(T), S \cap T = {},
         \A x \in S \cup T : f[x] \in Int
  PROVE  SumOver(f, S \cup T) = SumOver(f, S) + SumOver(f, T)
<1> DEFINE P == {U \in SUBSET S : SumOver(f, U \cup T) = SumOver(f, U) + SumOver(f, T)}
<1>1. SumOver(f, T) \in Int
  BY SumSplit
<1>2. ASSUME NEW U \in SUBSET S, NEW x \in U, U \ {x} \in P
      PROVE  U \in P
  <2>1. IsFiniteSet(U \cup T)
    BY FS_Subset, FS_Union
  <2>2. \A z \in S : f[z] \in Int
    OBVIOUS
  <2>3. \A z \in U \cup T : f[z] \in Int
    OBVIOUS
  <2>4. SumOver(f, U \cup T) = f[x] + SumOver(f, (U \cup T) \ {x})
    BY <2>1, <2>3, SumSplit
  <2>5. /\ f[x] \in Int /\ SumOver(f, U \ {x}) \in Int
        /\ SumOver(f, U) = f[x] + SumOver(f, U \ {x})
    BY <2>2, SumStep
  <2>6. (U \cup T) \ {x} = (U \ {x}) \cup T
    OBVIOUS
  <2>7. SumOver(f, (U \ {x}) \cup T) = SumOver(f, U \ {x}) + SumOver(f, T)
    BY <1>2
  <2>8. SumOver(f, (U \cup T) \ {x}) = SumOver(f, U \ {x}) + SumOver(f, T)
    BY <2>6, <2>7
  <2> QED BY <1>1, <2>4, <2>5, <2>8
<1>3. {} \in P
  <2>1. {} \cup T = T
    OBVIOUS
  <2>2. SumOver(f, {} \cup T) = SumOver(f, T)
    BY <2>1
  <2> QED BY <1>1, <2>2, SumEmpty
<1>4. P \in SUBSET (SUBSET S)
  OBVIOUS
<1>5. S \in P
  <2> HIDE DEF P
  <2> QED BY <1>2, <1>3, <1>4, ElementInduction
<1> QED BY <1>5

\* Sums of functions that differ in one place.
LEMMA SumChange ==
  ASSUME NEW f, NEW g, NEW S, IsFiniteSet(S), NEW c \in S, g[c] \in Int,
         \A x \in S : f[x] \in Int, \A x \in S : x # c => g[x] = f[x]
  PROVE  SumOver(g, S) = SumOver(f, S) + g[c] - f[c]
<1>1. \A x \in S : g[x] \in Int
  OBVIOUS
<1>2. SumOver(f, S) = f[c] + SumOver(f, S \ {c}) /\ f[c] \in Int /\ SumOver(f, S \ {c}) \in Int
  BY SumStep
<1>3. SumOver(g, S) = g[c] + SumOver(g, S \ {c})
  BY <1>1, SumStep
<1>4. SumOver(g, S \ {c}) = SumOver(f, S \ {c})
  <2>1. IsFiniteSet(S \ {c}) /\ \A x \in S \ {c} : f[x] \in Int /\ g[x] = f[x]
    BY FS_Subset
  <2> QED BY <2>1, SumSame
<1> QED BY <1>2, <1>3, <1>4

\* Multiplication, for leaves that are better off without it.
LEMMA Distribute ==
  ASSUME NEW a \in Int, NEW b \in Int, NEW c \in Int
  PROVE  /\ a * b \in Int /\ a * c \in Int
         /\ a * (b + c) = a * b + a * c
OBVIOUS

\* A sum of sums.
LEMMA SumPlus ==
  ASSUME NEW f, NEW g, NEW S, IsFiniteSet(S), \A x \in S : f[x] \in Int /\ g[x] \in Int
  PROVE  SumOver([x \in S |-> f[x] + g[x]], S) = SumOver(f, S) + SumOver(g, S)
<1> DEFINE h == [x \in S |-> f[x] + g[x]]
           P == {T \in SUBSET S : SumOver(h, T) = SumOver(f, T) + SumOver(g, T)}
<1>1. /\ \A x \in S : f[x] \in Int
      /\ \A x \in S : g[x] \in Int
      /\ \A x \in S : h[x] \in Int
      /\ \A x \in S : h[x] = f[x] + g[x]
  OBVIOUS
<1>2. ASSUME NEW T \in SUBSET S, NEW x \in T, T \ {x} \in P
      PROVE  T \in P
  <2> HIDE DEF h
  <2>1. /\ SumOver(f, T) = f[x] + SumOver(f, T \ {x})
        /\ f[x] \in Int /\ SumOver(f, T \ {x}) \in Int
    BY <1>1, SumStep
  <2>2. /\ SumOver(g, T) = g[x] + SumOver(g, T \ {x})
        /\ g[x] \in Int /\ SumOver(g, T \ {x}) \in Int
    <3>1. SumOver(g, T) = g[x] + SumOver(g, T \ {x})
      BY <1>1, SumStep
    <3>2. g[x] \in Int /\ SumOver(g, T \ {x}) \in Int
      BY <1>1, SumStep
    <3> QED BY <3>1, <3>2
  <2>3. SumOver(h, T) = h[x] + SumOver(h, T \ {x})
    BY <1>1, SumStep
  <2> QED BY <1>1, <1>2, <2>1, <2>2, <2>3
<1>3. {} \in P
  <2> HIDE DEF h
  <2> QED BY SumEmpty
<1>4. P \in SUBSET (SUBSET S)
  OBVIOUS
<1>5. S \in P
  <2> HIDE DEF P
  <2> QED BY <1>2, <1>3, <1>4, ElementInduction
<1> QED BY <1>5

\* A sum of multiples.
LEMMA SumScale ==
  ASSUME NEW f, NEW S, IsFiniteSet(S), \A x \in S : f[x] \in Int, NEW k \in Int
  PROVE  SumOver([x \in S |-> k * f[x]], S) = k * SumOver(f, S)
<1> DEFINE h == [x \in S |-> k * f[x]]
           P == {T \in SUBSET S : SumOver(h, T) = k * SumOver(f, T)}
<1>1. \A x \in S : h[x] \in Int /\ h[x] = k * f[x]
  BY Distribute
<1>2. ASSUME NEW T \in SUBSET S, NEW x \in T, T \ {x} \in P
      PROVE  T \in P
  <2> HIDE DEF h
  <2>1. /\ SumOver(f, T) = f[x] + SumOver(f, T \ {x})
        /\ f[x] \in Int /\ SumOver(f, T \ {x}) \in Int
    BY SumStep
  <2>2. \A z \in S : h[z] \in Int
    BY <1>1
  <2>3. SumOver(h, T) = h[x] + SumOver(h, T \ {x})
    <3> HIDE DEF P
    <3> QED BY <2>2, SumStep
  <2>4. k * (f[x] + SumOver(f, T \ {x})) = k * f[x] + k * SumOver(f, T \ {x})
    BY <2>1, Distribute
  <2>5. SumOver(h, T \ {x}) = k * SumOver(f, T \ {x})
    BY <1>2
  <2> QED BY <1>1, <2>1, <2>3, <2>4, <2>5
<1>3. {} \in P
  <2>1. k * 0 = 0
    OBVIOUS
  <2> HIDE DEF h
  <2> QED BY <2>1, SumEmpty
<1>4. P \in SUBSET (SUBSET S)
  OBVIOUS
<1>5. S \in P
  <2> HIDE DEF P
  <2> QED BY <1>2, <1>3, <1>4, ElementInduction
<1> QED BY <1>5

\* A sum is at least, or at most, its number of summands times a bound of theirs.
LEMMA SumBound ==
  ASSUME NEW f, NEW S, IsFiniteSet(S), \A x \in S : f[x] \in Int, NEW k \in Int
  PROVE  /\ (\A x \in S : k <= f[x]) => k * Cardinality(S) <= SumOver(f, S)
         /\ (\A x \in S : f[x] <= k) => SumOver(f, S) <= k * Cardinality(S)
<1> DEFINE P == {T \in SUBSET S :
                   /\ (\A x \in S : k <= f[x]) => k * Cardinality(T) <= SumOver(f, T)
                   /\ (\A x \in S : f[x] <= k) => SumOver(f, T) <= k * Cardinality(T)}
<1>1. ASSUME NEW T \in SUBSET S, NEW x \in T, T \ {x} \in P
      PROVE  T \in P
  <2>1. /\ SumOver(f, T) = f[x] + SumOver(f, T \ {x})
        /\ f[x] \in Int /\ SumOver(f, T \ {x}) \in Int
    BY SumStep
  <2>2. IsFiniteSet(T) /\ IsFiniteSet(T \ {x})
    BY FS_Subset
  <2> DEFINE n == Cardinality(T \ {x})
  <2>3. n \in Nat /\ Cardinality(T) = n + 1
    BY <2>2, FS_CardinalityType, FS_RemoveElement
  <2>4. /\ (\A y \in S : k <= f[y]) => k * n <= SumOver(f, T \ {x})
        /\ (\A y \in S : f[y] <= k) => SumOver(f, T \ {x}) <= k * n
    BY <1>1
  <2>5. k * (n + 1) = k * n + k /\ k * n \in Int
    <3> HIDE DEF n, P
    <3>1. k * 1 = k
      OBVIOUS
    <3> QED BY <2>3, <3>1, Distribute
  <2> HIDE DEF n
  <2>6. (\A y \in S : k <= f[y]) => k * Cardinality(T) <= SumOver(f, T)
    BY <2>1, <2>3, <2>4, <2>5
  <2>7. (\A y \in S : f[y] <= k) => SumOver(f, T) <= k * Cardinality(T)
    BY <2>1, <2>3, <2>4, <2>5
  <2> QED BY <2>6, <2>7
<1>2. {} \in P
  <2>1. Cardinality({}) = 0 /\ SumOver(f, {}) = 0 /\ k * 0 = 0
    BY SumEmpty, FS_EmptySet
  <2> QED BY <2>1
<1>3. P \in SUBSET (SUBSET S)
  OBVIOUS
<1>4. S \in P
  <2> HIDE DEF P
  <2> QED BY <1>1, <1>2, <1>3, ElementInduction
<1> QED BY <1>4

\* The elements of S by a key of theirs: K is the set of the keys.
Groups(S, key, K, group) ==
  /\ K = {key[x] : x \in S}
  /\ group = [k \in K |-> {x \in S : key[x] = k}]

\* A sum by groups: the sum over the keys of the sums over the elements with that key.
LEMMA SumGroups ==
  ASSUME NEW f, NEW S, IsFiniteSet(S), \A x \in S : f[x] \in Int,
         NEW key, NEW K, NEW group, Groups(S, key, K, group),
         NEW h, \A k \in K : h[k] = SumOver(f, group[k])
  PROVE  IsFiniteSet(K) /\ SumOver(h, K) = SumOver(f, S)
<1> DEFINE Of(L) == {x \in S : key[x] \in L}
           P == {L \in SUBSET K : SumOver(h, L) = SumOver(f, Of(L))}
<1>1. IsFiniteSet(K)
  <2> DEFINE m == [x \in S |-> key[x]]
  <2>1. m \in Surjection(S, K)
    BY DEF Surjection, Groups
  <2> QED BY <2>1, FS_Surjection
<1>2. ASSUME NEW L \in SUBSET K
      PROVE  IsFiniteSet(Of(L)) /\ SumOver(f, Of(L)) \in Int
  <2>1. IsFiniteSet(Of(L)) /\ \A x \in Of(L) : f[x] \in Int
    BY FS_Subset
  <2> HIDE DEF Of
  <2> QED BY <2>1, SumSplit
<1>3. \A k \in K : Of({k}) = group[k] /\ {k} \in SUBSET K
  BY DEF Groups
<1>4. \A k \in K : h[k] = SumOver(f, Of({k})) /\ h[k] \in Int
  <2> SUFFICES ASSUME NEW k \in K PROVE h[k] = SumOver(f, Of({k})) /\ h[k] \in Int
    OBVIOUS
  <2>1. h[k] = SumOver(f, group[k])
    OBVIOUS
  <2>2. SumOver(f, Of({k})) \in Int /\ Of({k}) = group[k]
    BY <1>2, <1>3
  <2> HIDE DEF Of
  <2> QED BY <2>1, <2>2
<1>5. ASSUME NEW L \in SUBSET K, NEW k \in L, L \ {k} \in P
      PROVE  L \in P
  <2>1. SumOver(h, L) = h[k] + SumOver(h, L \ {k})
    <3>1. \A l \in K : h[l] \in Int
      BY <1>4
    <3> HIDE DEF Of, P
    <3> QED BY <1>1, <3>1, SumStep
  <2>2. Of(L) = Of({k}) \cup Of(L \ {k}) /\ Of({k}) \cap Of(L \ {k}) = {}
    OBVIOUS
  <2>3. \A x \in Of({k}) \cup Of(L \ {k}) : f[x] \in Int
    OBVIOUS
  <2>4. IsFiniteSet(Of({k})) /\ IsFiniteSet(Of(L \ {k}))
    BY <1>2, <1>3
  <2>5. SumOver(f, Of({k}) \cup Of(L \ {k})) = SumOver(f, Of({k})) + SumOver(f, Of(L \ {k}))
    <3> HIDE DEF Of
    <3> QED BY <2>2, <2>3, <2>4, SumUnion
  <2>6. SumOver(h, L \ {k}) = SumOver(f, Of(L \ {k}))
    BY <1>5
  <2>7. SumOver(h, L) = SumOver(f, Of(L))
    <3> HIDE DEF Of, P
    <3>1. h[k] = SumOver(f, Of({k}))
      BY <1>4
    <3> QED BY <3>1, <2>1, <2>2, <2>5, <2>6
  <2> QED BY <2>7
<1>6. {} \in P
  <2>1. Of({}) = {}
    OBVIOUS
  <2>2. SumOver(h, {}) = SumOver(f, Of({}))
    <3> HIDE DEF Of
    <3> QED BY <2>1, SumEmpty
  <2> QED BY <2>2
<1>7. P \in SUBSET (SUBSET K)
  OBVIOUS
<1>8. K \in P
  <2> HIDE DEF P, Of
  <2> QED BY <1>1, <1>5, <1>6, <1>7, ElementInduction
<1>9. Of(K) = S
  BY DEF Groups
<1>10. SumOver(h, K) = SumOver(f, Of(K))
  BY <1>8
<1> HIDE DEF Of, P
<1> QED BY <1>1, <1>9, <1>10

\* The sum over three given elements.
LEMMA SumOfThree ==
  ASSUME NEW f, NEW a, NEW b, NEW c, a # b, a # c, b # c,
         f[a] \in Int, f[b] \in Int, f[c] \in Int,
         NEW S, S = {a, b, c}, NEW n, n = f[a] + f[b] + f[c]
  PROVE  IsFiniteSet(S) /\ SumOver(f, S) = n
<1>1. IsFiniteSet({a, b, c}) /\ IsFiniteSet({b, c}) /\ IsFiniteSet({c})
  <2>1. {b, c} = {c} \cup {b} /\ {a, b, c} = {b, c} \cup {a}
    OBVIOUS
  <2>2. IsFiniteSet({c})
    BY FS_Singleton
  <2>3. IsFiniteSet({b, c})
    BY <2>1, <2>2, FS_AddElement
  <2>4. IsFiniteSet({b, c} \cup {a})
    BY <2>3, FS_AddElement
  <2>5. IsFiniteSet({a, b, c})
    BY <2>1, <2>4
  <2> QED BY <2>2, <2>3, <2>5
<1>2. \A x \in {a, b, c} : f[x] \in Int
  OBVIOUS
<1>3. {a, b, c} \ {a} = {b, c} /\ {b, c} \ {b} = {c} /\ {c} \ {c} = {}
  OBVIOUS
<1>4. SumOver(f, {a, b, c}) = f[a] + SumOver(f, {a, b, c} \ {a})
  BY <1>1, <1>2, SumSplit
<1>5. SumOver(f, {b, c}) = f[b] + SumOver(f, {b, c} \ {b})
  BY <1>1, <1>2, SumSplit
<1>6. SumOver(f, {c}) = f[c] + SumOver(f, {c} \ {c})
  BY <1>1, <1>2, SumSplit
<1>7. SumOver(f, {c}) = f[c]
  <2>1. SumOver(f, {c} \ {c}) = 0
    BY <1>3, SumEmpty
  <2> QED BY <1>6, <2>1
<1>8. SumOver(f, {b, c}) = f[b] + f[c]
  BY <1>3, <1>5, <1>7
<1>9. SumOver(f, {a, b, c}) = f[a] + SumOver(f, {b, c})
  BY <1>3, <1>4
<1> QED BY <1>1, <1>8, <1>9

-----------------------------------------------------------------------------
(* Percentages and scores, as functions of numbers.                        *)

\* Integer division, as the one quotient between two products.
LEMMA Quotient ==
  ASSUME NEW a \in Nat, NEW b \in Nat, b > 0
  PROVE  /\ a \div b \in Nat
         /\ b * (a \div b) <= a
         /\ a < b * (a \div b) + b
OBVIOUS

\* A larger fraction has a larger percentage, or the same.
LEMMA PercentageMonotone ==
  ASSUME NEW a \in Nat, NEW n \in Nat, NEW c \in Nat, NEW d \in Nat,
         n > 0, d > 0, a * d <= c * n
  PROVE  /\ CalculatePercentage(a, n) \in Nat
         /\ CalculatePercentage(a, n) <= CalculatePercentage(c, d)
<1> DEFINE q == (2 * 10000 * a + n) \div (2 * n)
           r == (2 * 10000 * c + d) \div (2 * d)
<1>1. CalculatePercentage(a, n) = q /\ CalculatePercentage(c, d) = r
  BY DEF CalculatePercentage
<1>2. q \in Nat /\ 2 * n * q <= 2 * 10000 * a + n
  BY Quotient
<1>3. r \in Nat /\ 2 * 10000 * c + d < 2 * d * r + 2 * d
  BY Quotient
<1> HIDE DEF q, r
<1>4. ASSUME q >= r + 1
      PROVE  FALSE
  <2>1. 2 * 10000 * c + d < 2 * d * q
    <3>1. d * (r + 1) <= d * q
      BY <1>2, <1>3, <1>4
    <3>2. d * (r + 1) = d * r + d
      BY <1>3
    <3>3. d * r \in Nat /\ d * q \in Nat
      BY <1>2, <1>3
    <3>4. 2 * d * r = 2 * (d * r) /\ 2 * d * q = 2 * (d * q)
      BY <1>2, <1>3
    <3> QED BY <1>3, <3>1, <3>2, <3>3, <3>4
  <2>2. n * (2 * 10000 * c + d) < n * (2 * d * q)
    BY <1>2, <2>1
  <2>3. d * (2 * n * q) <= d * (2 * 10000 * a + n)
    BY <1>2
  <2>4. n * (2 * d * q) = d * (2 * n * q)
    BY <1>2
  <2>5. n * (2 * 10000 * c + d) = 20000 * (c * n) + n * d
    OBVIOUS
  <2>6. d * (2 * 10000 * a + n) = 20000 * (a * d) + n * d
    OBVIOUS
  <2>7. a * d \in Nat /\ c * n \in Nat /\ n * d \in Nat /\ n * (2 * d * q) \in Nat
    BY <1>2
  <2> QED BY <2>2, <2>3, <2>4, <2>5, <2>6, <2>7
<1> QED BY <1>1, <1>2, <1>3, <1>4

\* Percentages in hundredths, and the scores: percentages or nothing.
Percentages == 0 .. 10000
Scores == {NA} \cup Percentages

\* The percentages of nothing and of everything.
LEMMA PercentageRange ==
  ASSUME NEW a \in Nat, NEW n \in Nat, n > 0, a <= n
  PROVE  /\ CalculatePercentage(a, n) \in Percentages
         /\ a = n => CalculatePercentage(a, n) = 10000
         /\ a = 0 => CalculatePercentage(a, n) = 0
<1>1. CalculatePercentage(0, 1) = 0 /\ CalculatePercentage(1, 1) = 10000
  BY DEF CalculatePercentage
<1>2. /\ a * 1 <= 1 * n
      /\ a = n => 1 * n <= a * 1
      /\ a = 0 => a * 1 <= 0 * n
  OBVIOUS
<1>3. CalculatePercentage(a, n) \in Nat /\ CalculatePercentage(a, n) <= 10000
  BY <1>1, <1>2, PercentageMonotone
<1>4. a = n => 10000 <= CalculatePercentage(a, n)
  BY <1>1, <1>2, PercentageMonotone
<1>5. a = 0 => CalculatePercentage(a, n) <= 0
  BY <1>1, <1>2, PercentageMonotone
<1> DEFINE p == CalculatePercentage(a, n)
<1> HIDE DEF p
<1>6. p \in Nat /\ p <= 10000 /\ (a = n => 10000 <= p) /\ (a = 0 => p <= 0)
  BY <1>3, <1>4, <1>5 DEF p
<1>7. p \in Percentages /\ (a = n => p = 10000) /\ (a = 0 => p = 0)
  BY <1>6 DEF Percentages
<1> QED BY <1>7 DEF p

\* A percentage is a score, and not the missing one.
LEMMA ScoreValues ==
  /\ NA \in Int /\ NA # 0 /\ NA # 10000
  /\ 0 \in Percentages /\ 10000 \in Percentages
  /\ \A p \in Percentages : p \in Int /\ 0 <= p /\ p <= 10000 /\ NA < p /\ p # NA /\ p \in Scores
  /\ \A p \in Scores : p \in Int /\ NA <= p /\ (p # NA => p \in Percentages)
<1>1. NA \in Int /\ NA < 0
  BY DEF NA
<1>2. \A p \in Percentages : p \in Int /\ 0 <= p /\ p <= 10000
  BY DEF Percentages
<1>3. 0 \in Percentages /\ 10000 \in Percentages
  BY DEF Percentages
<1>4. \A p \in Percentages : NA < p /\ p # NA /\ p \in Scores
  BY <1>1, <1>2 DEF Scores
<1>5. \A p \in Scores : p = NA \/ p \in Percentages
  BY DEF Scores
<1>6. \A p \in Scores : p \in Int /\ NA <= p
  BY <1>1, <1>2, <1>5
<1>7. NA # 0 /\ NA # 10000
  BY <1>1
<1> QED BY <1>1, <1>2, <1>3, <1>4, <1>5, <1>6, <1>7

\* One part of a score: the share of n in n + m, if there is any.
Part(n, m) == IF n + m = 0 THEN NA ELSE CalculatePercentage(n, n + m)

\* A part of a score is a score, missing exactly when nothing was resolved.
LEMMA PartRange ==
  ASSUME NEW n \in Nat, NEW m \in Nat
  PROVE  /\ Part(n, m) \in Scores
         /\ Part(n, m) = NA <=> n + m = 0
         /\ n > 0 /\ m = 0 => Part(n, m) = 10000
         /\ n = 0 /\ m > 0 => Part(n, m) = 0
<1>1. CASE n + m = 0
  BY <1>1 DEF Part, Scores
<1>2. CASE n + m > 0
  <2>1. /\ CalculatePercentage(n, n + m) \in Percentages
        /\ m = 0 => CalculatePercentage(n, n + m) = 10000
        /\ n = 0 => CalculatePercentage(n, n + m) = 0
    <3> DEFINE s == n + m
    <3>1. s \in Nat /\ s > 0 /\ n <= s /\ (m = 0 => n = s)
      BY <1>2
    <3> HIDE DEF s
    <3>2. CalculatePercentage(n, s) \in Percentages
      BY <3>1, PercentageRange
    <3>3. m = 0 => CalculatePercentage(n, s) = 10000
      BY <3>1, PercentageRange
    <3>4. n = 0 => CalculatePercentage(n, s) = 0
      BY <3>1, PercentageRange
    <3> QED BY <3>2, <3>3, <3>4 DEF s
  <2>2. Part(n, m) = CalculatePercentage(n, n + m)
    BY <1>2 DEF Part
  <2>3. Part(n, m) \in Percentages
    BY <2>1, <2>2
  <2>4. Part(n, m) \in Scores /\ Part(n, m) # NA
    BY <2>3, ScoreValues
  <2> QED BY <1>2, <2>1, <2>2, <2>4
<1> QED BY <1>1, <1>2

\* One more of the kind that counts, and one more of the other.
LEMMA PartMonotone ==
  ASSUME NEW n \in Nat, NEW m \in Nat
  PROVE  /\ Part(n, m) <= Part(n + 1, m)
         /\ n + m > 0 => Part(n, m + 1) <= Part(n, m)
<1>1. CASE n + m = 0
  <2>1. Part(n, m) = NA /\ Part(n + 1, m) \in Scores
    BY <1>1, PartRange
  <2>2. \A p \in Scores : NA <= p
    BY ScoreValues
  <2>3. NA <= Part(n + 1, m)
    BY <2>1, <2>2
  <2> QED BY <1>1, <2>1, <2>3
<1>2. CASE n + m > 0
  <2> DEFINE s == n + m
  <2>1. s \in Nat /\ s > 0 /\ s + 1 \in Nat /\ s + 1 > 0 /\ n + 1 \in Nat
    BY <1>2
  <2>2. n * (s + 1) <= (n + 1) * s
    <3>1. n * (s + 1) = n * s + n /\ (n + 1) * s = n * s + s /\ n * s \in Nat
      OBVIOUS
    <3> QED BY <3>1
  <2>3. n * s <= n * (s + 1)
    <3>1. n * (s + 1) = n * s + n /\ n * s \in Nat
      OBVIOUS
    <3> QED BY <3>1
  <2>4. /\ Part(n, m) = CalculatePercentage(n, s)
        /\ Part(n + 1, m) = CalculatePercentage(n + 1, s + 1)
        /\ Part(n, m + 1) = CalculatePercentage(n, s + 1)
    <3>1. (n + 1) + m = s + 1 /\ n + (m + 1) = s + 1
      OBVIOUS
    <3>2. s # 0 /\ s + 1 # 0
      BY <2>1
    <3> QED BY <3>1, <3>2 DEF Part
  <2> HIDE DEF s
  <2>5. CalculatePercentage(n, s) <= CalculatePercentage(n + 1, s + 1)
    BY <2>1, <2>2, PercentageMonotone
  <2>6. CalculatePercentage(n, s + 1) <= CalculatePercentage(n, s)
    BY <2>1, <2>3, PercentageMonotone
  <2> QED BY <2>4, <2>5, <2>6
<1> QED BY <1>1, <1>2


\* The mean of two percentages.
LEMMA MeanRange ==
  ASSUME NEW a \in Percentages, NEW b \in Percentages
  PROVE  /\ Mean(a, b) \in Percentages
         /\ Mean(a, b) = Mean(b, a)
         /\ a = 10000 /\ b = 10000 => Mean(a, b) = 10000
         /\ a = 0 /\ b = 0 => Mean(a, b) = 0
         /\ a = 10000 => b <= Mean(a, b)
         /\ a = 0 => Mean(a, b) <= b
<1>1. Mean(a, b) \in Percentages
  BY DEF Mean, Percentages
<1>2. Mean(a, b) = Mean(b, a)
  <2>1. a + b + 1 = b + a + 1
    BY DEF Percentages
  <2> QED BY <2>1 DEF Mean
<1>3. a = 10000 /\ b = 10000 => Mean(a, b) = 10000
  BY DEF Mean, Percentages
<1>4. a = 0 /\ b = 0 => Mean(a, b) = 0
  BY DEF Mean, Percentages
<1>5. a = 10000 => b <= Mean(a, b)
  BY DEF Mean, Percentages
<1>6. a = 0 => Mean(a, b) <= b
  BY DEF Mean, Percentages
<1> QED BY <1>1, <1>2, <1>3, <1>4, <1>5, <1>6

\* The mean grows with either percentage.
LEMMA MeanMonotone ==
  ASSUME NEW a \in Percentages, NEW b \in Percentages, NEW c \in Percentages, a <= c
  PROVE  Mean(a, b) <= Mean(c, b)
BY DEF Mean, Percentages

\* The mean of the scores that are there is a score, missing only with both.
LEMMA AverageRange ==
  ASSUME NEW a \in Scores, NEW b \in Scores
  PROVE  /\ AverageOf(a, b) \in Scores
         /\ AverageOf(a, b) = AverageOf(b, a)
         /\ AverageOf(a, b) = NA <=> a = NA /\ b = NA
         /\ a \in {NA, 10000} /\ b \in {NA, 10000} => AverageOf(a, b) \in {NA, 10000}
<1>1. CASE a = NA \/ b = NA
  BY <1>1 DEF AverageOf
<1>2. CASE a # NA /\ b # NA
  <2>1. a \in Percentages /\ b \in Percentages
    BY <1>2 DEF Scores
  <2>2. AverageOf(a, b) = Mean(a, b) /\ AverageOf(b, a) = Mean(b, a)
    BY <1>2 DEF AverageOf
  <2>3. Mean(a, b) \in Percentages /\ Mean(a, b) = Mean(b, a)
    BY <2>1, MeanRange
  <2>4. a = 10000 /\ b = 10000 => Mean(a, b) = 10000
    BY <2>1, MeanRange
  <2>5. Mean(a, b) \in Scores /\ Mean(a, b) # NA
    BY <2>3, ScoreValues
  <2> QED BY <1>2, <2>2, <2>3, <2>4, <2>5
<1> QED BY <1>1, <1>2

\* And it grows with a score that was there before.
LEMMA AverageMonotone ==
  ASSUME NEW a \in Scores, NEW b \in Scores, NEW c \in Scores, a # NA, a <= c
  PROVE  c # NA /\ AverageOf(a, b) <= AverageOf(c, b)
<1>1. a \in Percentages /\ NA \in Int /\ \A p \in Percentages : p \in Int /\ NA < p
  BY ScoreValues DEF Scores
<1>2. c # NA
  BY <1>1
<1>3. c \in Percentages
  BY <1>2 DEF Scores
<1>4. CASE b = NA
  <2>1. AverageOf(a, b) = a /\ AverageOf(c, b) = c
    BY <1>2, <1>4 DEF AverageOf
  <2> QED BY <1>2, <2>1
<1>5. CASE b # NA
  <2>1. AverageOf(a, b) = Mean(a, b) /\ AverageOf(c, b) = Mean(c, b)
    BY <1>2, <1>5 DEF AverageOf
  <2>2. b \in Percentages
    BY <1>5 DEF Scores
  <2>3. Mean(a, b) <= Mean(c, b)
    BY <1>1, <1>3, <2>2, MeanMonotone
  <2> QED BY <1>2, <2>1, <2>3
<1> QED BY <1>4, <1>5

\* A score that rises: one that was missing is full.  And one that falls.
Rises(x, y) == \/ x = NA /\ y = 10000
               \/ x # NA /\ y # NA /\ x <= y
Falls(x, y) == \/ x = NA /\ y = 0
               \/ x # NA /\ y # NA /\ y <= x

\* The mean with another score follows.
LEMMA AverageFollows ==
  ASSUME NEW x \in Scores, NEW y \in Scores, NEW z \in Scores
  PROVE  /\ Rises(x, y) => AverageOf(x, z) <= AverageOf(y, z)
         /\ Falls(x, y) /\ AverageOf(x, z) # NA => AverageOf(y, z) <= AverageOf(x, z)
<1>1. 10000 # NA /\ 0 # NA /\ 10000 \in Percentages /\ 0 \in Percentages
      /\ NA <= 10000
  BY DEF NA, Percentages
<1>2. CASE x # NA /\ y # NA
  <2>1. x <= y => AverageOf(x, z) <= AverageOf(y, z)
    BY <1>2, AverageMonotone
  <2>2. y <= x => AverageOf(y, z) <= AverageOf(x, z)
    BY <1>2, AverageMonotone
  <2> QED BY <1>2, <2>1, <2>2 DEF Rises, Falls
<1>3. CASE x = NA
  <2>1. AverageOf(x, z) = z
    BY <1>3 DEF AverageOf
  <2>2. CASE z = NA
    <3>1. AverageOf(y, z) = y
      BY <2>2 DEF AverageOf
    <3> QED BY <1>1, <1>3, <2>1, <2>2, <3>1 DEF Rises
  <2>3. CASE z # NA
    <3>1. z \in Percentages
      BY <2>3 DEF Scores
    <3>2. AverageOf(10000, z) = Mean(10000, z) /\ AverageOf(0, z) = Mean(0, z)
      BY <1>1, <2>3 DEF AverageOf
    <3>3. z <= Mean(10000, z)
      BY <1>1, <3>1, MeanRange
    <3>4. Mean(0, z) <= z
      BY <1>1, <3>1, MeanRange
    <3> QED BY <1>3, <2>1, <3>2, <3>3, <3>4 DEF Rises, Falls
  <2> QED BY <2>2, <2>3
<1> QED BY <1>2, <1>3 DEF Rises, Falls

\* The score of a sector from the resolved requests of its two sides.
SectorAverage(ab, ap, bb, bp) ==
  LET average == AverageOf(Part(ab, ap), Part(bp, bb))
  IN  IF average # NA /\ ab = 0 THEN 0 ELSE average

\* The score of a sector is missing exactly when nothing was resolved there, and full
\* when every attack was blocked and no benign request was.
LEMMA SectorRange ==
  ASSUME NEW ab \in Nat, NEW ap \in Nat, NEW bb \in Nat, NEW bp \in Nat
  PROVE  /\ SectorAverage(ab, ap, bb, bp) \in Scores
         /\ SectorAverage(ab, ap, bb, bp) = NA <=> ab + ap = 0 /\ bp + bb = 0
         /\ ap = 0 /\ bb = 0 /\ (bp > 0 => ab > 0) => SectorAverage(ab, ap, bb, bp) \in {NA, 10000}
<1> DEFINE tp == Part(ab, ap)
           tn == Part(bp, bb)
<1>1. tp \in Scores /\ tn \in Scores /\ (tp = NA <=> ab + ap = 0) /\ (tn = NA <=> bp + bb = 0)
  BY PartRange
<1>2. ap = 0 => tp \in {NA, 10000}
  BY PartRange
<1>3. bb = 0 => tn \in {NA, 10000}
  BY PartRange
<1> HIDE DEF tp, tn
<1>4. /\ AverageOf(tp, tn) \in Scores
      /\ AverageOf(tp, tn) = NA <=> tp = NA /\ tn = NA
      /\ tp \in {NA, 10000} /\ tn \in {NA, 10000} => AverageOf(tp, tn) \in {NA, 10000}
  BY <1>1, AverageRange
<1>5. SectorAverage(ab, ap, bb, bp) =
        IF AverageOf(tp, tn) # NA /\ ab = 0 THEN 0 ELSE AverageOf(tp, tn)
  BY DEF SectorAverage, tp, tn
<1>6. 0 \in Scores /\ 0 # NA
  BY ScoreValues
<1>7. SectorAverage(ab, ap, bb, bp) \in Scores
  BY <1>4, <1>5, <1>6
<1>8. SectorAverage(ab, ap, bb, bp) = NA <=> ab + ap = 0 /\ bp + bb = 0
  BY <1>1, <1>4, <1>5, <1>6
<1>9. ASSUME ap = 0, bb = 0, bp > 0 => ab > 0
      PROVE  SectorAverage(ab, ap, bb, bp) \in {NA, 10000}
  <2>1. ab = 0 => AverageOf(tp, tn) = NA
    BY <1>1, <1>4, <1>9
  <2> QED BY <1>2, <1>3, <1>4, <1>5, <1>9, <2>1
<1> QED BY <1>7, <1>8, <1>9

\* One more request resolved.
LEMMA SectorMoves ==
  ASSUME NEW ab \in Nat, NEW ap \in Nat, NEW bb \in Nat, NEW bp \in Nat
  PROVE  /\ Rises(SectorAverage(ab, ap, bb, bp), SectorAverage(ab + 1, ap, bb, bp))
         /\ Falls(SectorAverage(ab, ap, bb, bp), SectorAverage(ab, ap + 1, bb, bp))
         /\ Falls(SectorAverage(ab, ap, bb, bp), SectorAverage(ab, ap, bb + 1, bp))
<1> DEFINE x == SectorAverage(ab, ap, bb, bp)
           tp == Part(ab, ap)
           tn == Part(bp, bb)
<1>1. tp \in Scores /\ tn \in Scores /\ (tp = NA <=> ab + ap = 0) /\ (tn = NA <=> bp + bb = 0)
  BY PartRange
<1>2. x = IF AverageOf(tp, tn) # NA /\ ab = 0 THEN 0 ELSE AverageOf(tp, tn)
  BY DEF SectorAverage
<1>3. /\ AverageOf(tp, tn) \in Scores
      /\ AverageOf(tp, tn) = AverageOf(tn, tp)
      /\ AverageOf(tp, tn) = NA <=> tp = NA /\ tn = NA
  BY <1>1, AverageRange
<1>4. x \in Scores /\ (x = NA <=> tp = NA /\ tn = NA)
  BY <1>1, SectorRange
<1>5. /\ NA # 0 /\ NA # 10000 /\ 0 \in Percentages /\ 10000 \in Percentages
      /\ \A p \in Scores : p # NA => 0 <= p /\ p <= 10000
  BY ScoreValues
<1>6. Rises(x, SectorAverage(ab + 1, ap, bb, bp))
  <2> DEFINE y == SectorAverage(ab + 1, ap, bb, bp)
             tp1 == Part(ab + 1, ap)
  <2>1. y = AverageOf(tp1, tn)
    BY DEF SectorAverage
  <2>2. y \in Scores /\ y # NA
    BY SectorRange
  <2>3. tp1 \in Scores /\ tp <= tp1
    BY PartRange, PartMonotone
  <2>4. ab + ap = 0 => tp1 = 10000
    BY PartRange
  <2> HIDE DEF x, y, tp, tp1, tn
  <2>5. CASE x = NA
    <3>1. tp1 = 10000 /\ tn = NA
      BY <1>1, <1>4, <2>4, <2>5
    <3>2. y = 10000
      BY <1>5, <2>1, <3>1 DEF AverageOf
    <3> QED BY <2>5, <3>2 DEF Rises, y
  <2>6. CASE x # NA /\ ab = 0
    <3>1. x = 0
      BY <1>2, <2>6
    <3> QED BY <1>5, <2>2, <2>6, <3>1 DEF Rises, y
  <2>7. CASE x # NA /\ ab # 0
    <3>1. x = AverageOf(tp, tn) /\ tp # NA
      BY <1>1, <1>2, <2>7
    <3>2. x <= y
      BY <1>1, <2>1, <2>3, <3>1, AverageMonotone
    <3> QED BY <2>2, <2>7, <3>2 DEF Rises, y
  <2> QED BY <2>5, <2>6, <2>7
<1>7. Falls(x, SectorAverage(ab, ap + 1, bb, bp))
  <2> DEFINE y == SectorAverage(ab, ap + 1, bb, bp)
             tp1 == Part(ab, ap + 1)
  <2>1. y = IF AverageOf(tp1, tn) # NA /\ ab = 0 THEN 0 ELSE AverageOf(tp1, tn)
    BY DEF SectorAverage
  <2>2. y \in Scores /\ y # NA
    BY SectorRange
  <2>3. tp1 \in Scores /\ (tp # NA => tp1 <= tp) /\ tp1 # NA
    BY <1>1, PartRange, PartMonotone
  <2> HIDE DEF x, y, tp, tp1, tn
  <2>4. AverageOf(tp1, tn) # NA
    BY <1>1, <2>3, AverageRange
  <2>5. CASE ab = 0
    <3>1. y = 0
      BY <2>1, <2>4, <2>5
    <3> QED BY <1>4, <1>5, <3>1 DEF Falls, y
  <2>6. CASE ab # 0
    <3>1. tp # NA /\ x = AverageOf(tp, tn) /\ y = AverageOf(tp1, tn)
      BY <1>1, <1>2, <2>1, <2>6
    <3>2. y <= x
      BY <1>1, <2>3, <3>1, AverageMonotone
    <3> QED BY <1>4, <2>2, <3>1, <3>2 DEF Falls, y
  <2> QED BY <2>5, <2>6
<1>8. Falls(x, SectorAverage(ab, ap, bb + 1, bp))
  <2> DEFINE y == SectorAverage(ab, ap, bb + 1, bp)
             tn1 == Part(bp, bb + 1)
  <2>1. y = IF AverageOf(tp, tn1) # NA /\ ab = 0 THEN 0 ELSE AverageOf(tp, tn1)
    BY DEF SectorAverage
  <2>2. y \in Scores /\ y # NA
    BY SectorRange
  <2>3. tn1 \in Scores /\ (tn # NA => tn1 <= tn) /\ tn1 # NA
    BY <1>1, PartRange, PartMonotone
  <2>4. bp + bb = 0 => tn1 = 0
    BY PartRange
  <2> HIDE DEF x, y, tp, tn1, tn
  <2>5. AverageOf(tp, tn1) # NA /\ AverageOf(tp, tn1) = AverageOf(tn1, tp)
    BY <1>1, <2>3, AverageRange
  <2>6. CASE ab = 0
    <3>1. y = 0
      BY <2>1, <2>5, <2>6
    <3> QED BY <1>4, <1>5, <3>1 DEF Falls, y
  <2>7. CASE ab # 0
    <3>1. tp # NA /\ x = AverageOf(tn, tp) /\ y = AverageOf(tn1, tp)
      BY <1>1, <1>2, <1>3, <2>1, <2>5, <2>7
    <3>2. CASE tn # NA
      <4>1. y <= x
        BY <1>1, <2>3, <3>1, <3>2, AverageMonotone
      <4> QED BY <1>4, <2>2, <3>1, <4>1 DEF Falls, y
    <3>3. CASE tn = NA
      <4>1. tn1 = 0 /\ x = tp
        BY <1>1, <2>4, <3>1, <3>3 DEF AverageOf
      <4>2. y = Mean(0, tp) /\ tp \in Percentages
        BY <1>1, <1>5, <3>1, <4>1 DEF AverageOf, Scores
      <4>3. Mean(0, tp) <= tp
        BY <1>5, <4>2, MeanRange
      <4> QED BY <1>4, <2>2, <3>1, <4>1, <4>2, <4>3 DEF Falls, y
    <3> QED BY <3>2, <3>3
  <2> QED BY <2>6, <2>7
<1> QED BY <1>6, <1>7, <1>8

-----------------------------------------------------------------------------
(* The test database.                                                      *)

\* The inductive invariant: the two ways of counting match.
IInv == TypeOK /\ CountersMatchLists

\* An unresolved test goes to one of two counters.
LEMMA CounterOfUnresolved ==
  ASSUME NEW c \in Cases
  PROVE  UnresolvedCountsAs(c) \in {"passed", "blocked"}
BY DEF UnresolvedCountsAs

\* The database starts with every counter and every list at zero.
LEMMA InitIInv ==
  ASSUME Init
  PROVE  IInv
BY DEF Init, NewDB, Zero, IInv, TypeOK, CountersMatchLists, TakenBy

\* Every Update method changes one counter and the list that explains it.
LEMMA NextIInv ==
  ASSUME IInv, [Next]_dbVars
  PROVE  IInv'
<1> USE DEF IInv
<1>1. ASSUME NEW c \in Cases, UpdatePassedTests(c)
      PROVE  IInv'
  BY <1>1 DEF UpdatePassedTests, TypeOK, CountersMatchLists, TakenBy,
              UnresolvedCountsAs, isTruePositive, flags
<1>2. ASSUME NEW c \in Cases, UpdateBlockedTests(c)
      PROVE  IInv'
  BY <1>2 DEF UpdateBlockedTests, TypeOK, CountersMatchLists, TakenBy,
              UnresolvedCountsAs, isTruePositive, flags
<1>3. ASSUME NEW c \in Cases, UpdateNaTests(c)
      PROVE  IInv'
  <2>1. \A d \in Cases : UnresolvedCountsAs(d)' = UnresolvedCountsAs(d)
    BY <1>3 DEF UpdateNaTests, UnresolvedCountsAs, isTruePositive, flags
  <2>2. CASE UnresolvedCountsAs(c) = "passed"
    <3>1. counters' = [counters EXCEPT ![c].passed = @ + 1]
      BY <1>3, <2>2 DEF UpdateNaTests
    <3> QED BY <1>3, <2>1, <2>2, <3>1
            DEF UpdateNaTests, TypeOK, CountersMatchLists, TakenBy, flags
  <2>3. CASE UnresolvedCountsAs(c) = "blocked"
    <3>1. counters' = [counters EXCEPT ![c].blocked = @ + 1]
      BY <1>3, <2>3 DEF UpdateNaTests
    <3> QED BY <1>3, <2>1, <2>3, <3>1
            DEF UpdateNaTests, TypeOK, CountersMatchLists, TakenBy, flags
  <2> QED BY <2>2, <2>3, CounterOfUnresolved
<1>4. ASSUME NEW c \in Cases, UpdateFailedTests(c)
      PROVE  IInv'
  BY <1>4 DEF UpdateFailedTests, TypeOK, CountersMatchLists, TakenBy,
              UnresolvedCountsAs, isTruePositive, flags
<1>5. ASSUME NEW p \in Paths, AddToScannedPaths(p)
      PROVE  IInv'
  BY <1>5 DEF AddToScannedPaths, TypeOK, CountersMatchLists, TakenBy,
              UnresolvedCountsAs, isTruePositive, flags, lists
<1>6. CASE UNCHANGED dbVars
  BY <1>6 DEF TypeOK, CountersMatchLists, TakenBy, UnresolvedCountsAs,
              isTruePositive, dbVars, flags, lists
<1> QED BY <1>1, <1>2, <1>3, <1>4, <1>5, <1>6 DEF Next, Update

\* And so does that of a scan far along.
LEMMA HtmlInitIInv ==
  ASSUME HtmlInit
  PROVE  IInv
<1>1. CASE Init
  BY <1>1, InitIInv
<1>2. CASE /\ ignoreUnresolved \in BOOLEAN
           /\ nonBlockedAsPassed \in BOOLEAN
           /\ LongScanDB
  <2>1. PICK c \in LongScanCases \ FalseCases, n \in 0 .. LongScan :
          /\ counters = [d \in Cases |-> IF d = c THEN [passed |-> LongScan - n, blocked |-> n, failed |-> 0]
                                         ELSE [passed |-> 0, blocked |-> 0, failed |-> 0]]
          /\ passedTests = [Zero EXCEPT ![c] = LongScan - n]
          /\ blockedTests = [Zero EXCEPT ![c] = n]
          /\ naTests = Zero /\ failedTests = Zero
          /\ scannedPaths = {}
    BY <1>2 DEF LongScanDB
  <2>2. c \in Cases /\ n \in Nat /\ LongScan - n \in Nat
    BY LongScanAssumption
  <2>3. TypeOK
    BY <1>2, <2>1, <2>2 DEF TypeOK, Zero
  <2>4. CountersMatchLists
    BY <2>1, <2>2 DEF CountersMatchLists, TakenBy, Zero
  <2> QED BY <2>3, <2>4 DEF IInv
<1> QED BY <1>1, <1>2 DEF HtmlInit

\* With matching counters, the three places that decide what an unresolved test
\* is, UpdateNaTests, the table and the lists, decide the same.
LEMMA RowsFromBookkeeping ==
  ASSUME TypeOK, CountersMatchLists
  PROVE  RowsAgreeWithLists
<1> SUFFICES ASSUME NEW c \in Cases
             PROVE  /\ SummaryTableRow(c).blocked = Listed(c).blocked
                    /\ SummaryTableRow(c).bypassed = Listed(c).bypassed
                    /\ SummaryTableRow(c).unresolved = Listed(c).unresolved
                    /\ SummaryTableRow(c).failed = Listed(c).failed
  BY DEF RowsAgreeWithLists
<1> DEFINE assumed == ignoreUnresolved \/ nonBlockedAsPassed
<1>1. /\ counters[c].passed = passedTests[c] + TakenBy("passed", c)
      /\ counters[c].blocked = blockedTests[c] + TakenBy("blocked", c)
      /\ counters[c].failed = failedTests[c]
  BY DEF CountersMatchLists
<1>2. /\ passedTests[c] \in Nat /\ blockedTests[c] \in Nat /\ naTests[c] \in Nat
  BY DEF TypeOK
<1>3. CASE ~assumed
  BY <1>1, <1>2, <1>3
  DEF SummaryTableRow, BlockedRequests, UnresolvedRequests, Listed, ListedAs,
      TakenBy, UnresolvedCountsAs
<1>4. CASE assumed /\ c \in FalseCases
  BY <1>1, <1>2, <1>4
  DEF SummaryTableRow, BlockedRequests, UnresolvedRequests, Listed, ListedAs,
      TakenBy, UnresolvedCountsAs, isTruePositive
<1>5. CASE assumed /\ c \notin FalseCases
  BY <1>1, <1>2, <1>5
  DEF SummaryTableRow, BlockedRequests, UnresolvedRequests, Listed, ListedAs,
      TakenBy, UnresolvedCountsAs, isTruePositive
<1> QED BY <1>3, <1>4, <1>5

-----------------------------------------------------------------------------
(* The scores and the step of one more request.                            *)

\* The columns of the tables and of the detail lists.
Columns == {"blocked", "bypassed", "unresolved", "failed"}

\* One column of the detail lists, for every case.
ListedIn(col) == [c \in Cases |-> Listed(c)[col]]

\* The lists of the report hold numbers of requests.
LEMMA ListedType ==
  ASSUME TypeOK, NEW c \in Cases
  PROVE  /\ \A col \in Columns : Listed(c)[col] \in Nat
         /\ ListedAs(c) \in {"unresolved", "blocked", "bypassed"}
BY DEF TypeOK, Listed, ListedAs, Columns

\* The sums of natural numbers that the statistics are made of.
LEMMA SecReqStatsSums ==
  ASSUME TypeOK, NEW S \in SUBSET Cases
  PROVE  /\ IsFiniteSet(S)
         /\ \A col \in Columns : /\ SecReqStats(S)[col] = SumOver(ListedIn(col), S)
                                 /\ SumOver(ListedIn(col), S) \in Nat
<1>1. IsFiniteSet(S)
  BY CasesAssumption, FS_Subset
<1>2. ASSUME NEW col \in Columns
      PROVE  SumOver(ListedIn(col), S) \in Nat
  <2>1. \A c \in S : ListedIn(col)[c] \in Nat
    BY ListedType DEF ListedIn
  <2> QED BY <1>1, <2>1, SumNat
<1> QED BY <1>1, <1>2 DEF SecReqStats, Columns, ListedIn

\* The four sums that the score of a sector is made of.
LEMMA SectorScore ==
  ASSUME TypeOK, NEW S \in SUBSET Cases
  PROVE  LET attack == SecReqStats(S \ FalseCases)
             benign == SecReqStats(S \cap FalseCases)
         IN  /\ attack.blocked \in Nat /\ attack.bypassed \in Nat
             /\ benign.blocked \in Nat /\ benign.bypassed \in Nat
             /\ Score(S).truePositive = Part(attack.blocked, attack.bypassed)
             /\ Score(S).trueNegative = Part(benign.bypassed, benign.blocked)
             /\ Score(S).average = SectorAverage(attack.blocked, attack.bypassed,
                                                 benign.blocked, benign.bypassed)
<1> DEFINE attack == SecReqStats(S \ FalseCases)
           benign == SecReqStats(S \cap FalseCases)
<1>1. /\ attack.blocked \in Nat /\ attack.bypassed \in Nat
      /\ benign.blocked \in Nat /\ benign.bypassed \in Nat
  BY SecReqStatsSums DEF Columns
<1>2. attack.blocked + attack.bypassed = ResolvedRequestsNumber(attack)
  BY DEF ResolvedRequestsNumber
<1>3. benign.bypassed + benign.blocked = ResolvedRequestsNumber(benign)
  BY <1>1 DEF ResolvedRequestsNumber
<1> HIDE DEF attack, benign
<1>4. /\ Score(S).truePositive = Part(attack.blocked, attack.bypassed)
      /\ Score(S).trueNegative = Part(benign.bypassed, benign.blocked)
      /\ Score(S).average = SectorAverage(attack.blocked, attack.bypassed,
                                          benign.blocked, benign.bypassed)
  BY <1>2, <1>3 DEF Score, Part, SectorAverage, attack, benign
<1> QED BY <1>1, <1>4 DEF attack, benign

\* The column that an Update method adds to.
LEMMA UpdateListed ==
  ASSUME TypeOK, TypeOK', NEW c \in Cases, Update(c)
  PROVE  \E col \in Columns :
           /\ \A k \in Columns : \A d \in Cases :
                Listed(d)[k]' = Listed(d)[k] + (IF d = c /\ k = col THEN 1 ELSE 0)
           /\ \A d \in Cases :
                /\ passedTests'[d] > passedTests[d] => d = c /\ col = "bypassed"
                /\ blockedTests'[d] > blockedTests[d] => d = c /\ col = "blocked"
                /\ naTests'[d] > naTests[d] => d = c /\ col = ListedAs(c)
                /\ failedTests'[d] > failedTests[d] => d = c /\ col = "failed"
<1>1. ASSUME UNCHANGED flags
      PROVE  \A d \in Cases : ListedAs(d)' = ListedAs(d)
  BY <1>1 DEF flags, ListedAs
<1>2. CASE UpdatePassedTests(c)
  <2>1. UNCHANGED flags
    BY <1>2 DEF UpdatePassedTests
  <2>2. \A k \in Columns : \A d \in Cases :
                Listed(d)[k]' = Listed(d)[k] + (IF d = c /\ k = "bypassed" THEN 1 ELSE 0)
    <3> SUFFICES ASSUME NEW k \in Columns, NEW d \in Cases
                 PROVE  Listed(d)[k]' = Listed(d)[k] + (IF d = c /\ k = "bypassed" THEN 1 ELSE 0)
      OBVIOUS
    <3>1. /\ passedTests'[d] = passedTests[d] + (IF d = c THEN 1 ELSE 0)
          /\ blockedTests'[d] = blockedTests[d]
          /\ naTests'[d] = naTests[d]
          /\ failedTests'[d] = failedTests[d]
      BY <1>2 DEF UpdatePassedTests, TypeOK
    <3>2. /\ passedTests[d] \in Nat /\ blockedTests[d] \in Nat
          /\ naTests[d] \in Nat /\ failedTests[d] \in Nat
      BY DEF TypeOK
    <3>3. /\ ListedAs(d)' = ListedAs(d)
          /\ ListedAs(d) \in {"unresolved", "blocked", "bypassed"}
      BY <1>1, <2>1, ListedType
    <3>4. CASE k = "blocked"
      BY <3>1, <3>2, <3>3, <3>4 DEF Listed
    <3>5. CASE k = "bypassed"
      BY <3>1, <3>2, <3>3, <3>5 DEF Listed
    <3>6. CASE k = "unresolved"
      BY <3>1, <3>2, <3>3, <3>6 DEF Listed
    <3>7. CASE k = "failed"
      BY <3>1, <3>2, <3>3, <3>7 DEF Listed
    <3> QED BY <3>4, <3>5, <3>6, <3>7 DEF Columns
  <2>3. \A d \in Cases :
                /\ passedTests'[d] > passedTests[d] => d = c
                /\ ~ blockedTests'[d] > blockedTests[d]
                /\ ~ naTests'[d] > naTests[d]
                /\ ~ failedTests'[d] > failedTests[d]
    BY <1>2 DEF UpdatePassedTests, TypeOK
  <2> QED BY <2>2, <2>3 DEF Columns
<1>3. CASE UpdateBlockedTests(c)
  <2>1. UNCHANGED flags
    BY <1>3 DEF UpdateBlockedTests
  <2>2. \A k \in Columns : \A d \in Cases :
                Listed(d)[k]' = Listed(d)[k] + (IF d = c /\ k = "blocked" THEN 1 ELSE 0)
    <3> SUFFICES ASSUME NEW k \in Columns, NEW d \in Cases
                 PROVE  Listed(d)[k]' = Listed(d)[k] + (IF d = c /\ k = "blocked" THEN 1 ELSE 0)
      OBVIOUS
    <3>1. /\ passedTests'[d] = passedTests[d]
          /\ blockedTests'[d] = blockedTests[d] + (IF d = c THEN 1 ELSE 0)
          /\ naTests'[d] = naTests[d]
          /\ failedTests'[d] = failedTests[d]
      BY <1>3 DEF UpdateBlockedTests, TypeOK
    <3>2. /\ passedTests[d] \in Nat /\ blockedTests[d] \in Nat
          /\ naTests[d] \in Nat /\ failedTests[d] \in Nat
      BY DEF TypeOK
    <3>3. /\ ListedAs(d)' = ListedAs(d)
          /\ ListedAs(d) \in {"unresolved", "blocked", "bypassed"}
      BY <1>1, <2>1, ListedType
    <3>4. CASE k = "blocked"
      BY <3>1, <3>2, <3>3, <3>4 DEF Listed
    <3>5. CASE k = "bypassed"
      BY <3>1, <3>2, <3>3, <3>5 DEF Listed
    <3>6. CASE k = "unresolved"
      BY <3>1, <3>2, <3>3, <3>6 DEF Listed
    <3>7. CASE k = "failed"
      BY <3>1, <3>2, <3>3, <3>7 DEF Listed
    <3> QED BY <3>4, <3>5, <3>6, <3>7 DEF Columns
  <2>3. \A d \in Cases :
                /\ blockedTests'[d] > blockedTests[d] => d = c
                /\ ~ passedTests'[d] > passedTests[d]
                /\ ~ naTests'[d] > naTests[d]
                /\ ~ failedTests'[d] > failedTests[d]
    BY <1>3 DEF UpdateBlockedTests, TypeOK
  <2> QED BY <2>2, <2>3 DEF Columns
<1>4. CASE UpdateNaTests(c)
  <2>1. UNCHANGED flags
    BY <1>4 DEF UpdateNaTests
  <2>2. \A k \in Columns : \A d \in Cases :
                Listed(d)[k]' = Listed(d)[k] + (IF d = c /\ k = ListedAs(c) THEN 1 ELSE 0)
    <3> SUFFICES ASSUME NEW k \in Columns, NEW d \in Cases
                 PROVE  Listed(d)[k]' = Listed(d)[k] + (IF d = c /\ k = ListedAs(c) THEN 1 ELSE 0)
      OBVIOUS
    <3>1. /\ passedTests'[d] = passedTests[d]
          /\ blockedTests'[d] = blockedTests[d]
          /\ naTests'[d] = naTests[d] + (IF d = c THEN 1 ELSE 0)
          /\ failedTests'[d] = failedTests[d]
      BY <1>4 DEF UpdateNaTests, TypeOK
    <3>2. /\ passedTests[d] \in Nat /\ blockedTests[d] \in Nat
          /\ naTests[d] \in Nat /\ failedTests[d] \in Nat
      BY DEF TypeOK
    <3>3. /\ ListedAs(d)' = ListedAs(d)
          /\ ListedAs(d) \in {"unresolved", "blocked", "bypassed"}
      BY <1>1, <2>1, ListedType
    <3>4. CASE k = "blocked"
      BY <3>1, <3>2, <3>3, <3>4 DEF Listed
    <3>5. CASE k = "bypassed"
      BY <3>1, <3>2, <3>3, <3>5 DEF Listed
    <3>6. CASE k = "unresolved"
      BY <3>1, <3>2, <3>3, <3>6 DEF Listed
    <3>7. CASE k = "failed"
      BY <3>1, <3>2, <3>3, <3>7 DEF Listed
    <3> QED BY <3>4, <3>5, <3>6, <3>7 DEF Columns
  <2>3. \A d \in Cases :
                /\ naTests'[d] > naTests[d] => d = c
                /\ ~ passedTests'[d] > passedTests[d]
                /\ ~ blockedTests'[d] > blockedTests[d]
                /\ ~ failedTests'[d] > failedTests[d]
    BY <1>4 DEF UpdateNaTests, TypeOK
  <2>4. ListedAs(c) \in Columns
    BY ListedType DEF Columns
  <2> QED BY <2>2, <2>3, <2>4
<1>5. CASE UpdateFailedTests(c)
  <2>1. UNCHANGED flags
    BY <1>5 DEF UpdateFailedTests
  <2>2. \A k \in Columns : \A d \in Cases :
                Listed(d)[k]' = Listed(d)[k] + (IF d = c /\ k = "failed" THEN 1 ELSE 0)
    BY <1>1, <1>5, <2>1 DEF UpdateFailedTests, Listed, TypeOK, Columns
  <2>3. \A d \in Cases :
                /\ failedTests'[d] > failedTests[d] => d = c
                /\ ~ passedTests'[d] > passedTests[d]
                /\ ~ blockedTests'[d] > blockedTests[d]
                /\ ~ naTests'[d] > naTests[d]
    BY <1>5 DEF UpdateFailedTests, TypeOK
  <2> QED BY <2>2, <2>3 DEF Columns
<1> QED BY <1>2, <1>3, <1>4, <1>5 DEF Update

\* And the sums that it adds to.
LEMMA UpdateSums ==
  ASSUME TypeOK, TypeOK', NEW c \in Cases, NEW col \in Columns,
         \A k \in Columns : \A d \in Cases :
           Listed(d)[k]' = Listed(d)[k] + (IF d = c /\ k = col THEN 1 ELSE 0),
         NEW S \in SUBSET Cases, NEW k \in Columns
  PROVE  SecReqStats(S)[k]' = SecReqStats(S)[k] + (IF c \in S /\ k = col THEN 1 ELSE 0)
<1>1. IsFiniteSet(S) /\ SumOver(ListedIn(k), S) \in Nat
      /\ SecReqStats(S)[k] = SumOver(ListedIn(k), S)
  BY SecReqStatsSums
<1>2. SecReqStats(S)[k]' = SumOver(ListedIn(k)', S)
  BY DEF SecReqStats, ListedIn, Columns
<1> DEFINE f == ListedIn(k)
           g == ListedIn(k)'
<1>3. \A d \in S : f[d] \in Nat /\ g[d] = f[d] + (IF d = c /\ k = col THEN 1 ELSE 0)
  BY ListedType DEF ListedIn
<1> HIDE DEF f, g
<1>4. CASE c \in S
  <2>1. g[c] \in Int /\ g[c] - f[c] = (IF k = col THEN 1 ELSE 0) /\ f[c] \in Int
    BY <1>3, <1>4
  <2>2. \A d \in S : f[d] \in Int
    BY <1>3
  <2>3. \A d \in S : d # c => g[d] = f[d]
    BY <1>3
  <2>4. SumOver(g, S) = SumOver(f, S) + g[c] - f[c]
    BY <1>1, <1>4, <2>1, <2>2, <2>3, SumChange
  <2> QED BY <1>1, <1>2, <1>4, <2>1, <2>4 DEF f, g
<1>5. CASE c \notin S
  <2>1. \A d \in S : f[d] \in Int /\ g[d] = f[d]
    BY <1>3, <1>5
  <2>2. SumOver(g, S) = SumOver(f, S)
    BY <1>1, <2>1, SumSame
  <2> QED BY <1>1, <1>2, <1>5, <2>2 DEF f, g
<1> QED BY <1>4, <1>5

\* The score of every sector in terms of its four sums, in this state and in the next.
SectorScores ==
  \A S \in SUBSET Cases :
    Score(S).average = SectorAverage(SecReqStats(S \ FalseCases).blocked,
                                     SecReqStats(S \ FalseCases).bypassed,
                                     SecReqStats(S \cap FalseCases).blocked,
                                     SecReqStats(S \cap FalseCases).bypassed)

\* The same lemma, one state later.
LEMMA SectorScoresNext == (TypeOK => SectorScores)'
<1>1. TypeOK => SectorScores
  BY SectorScore DEF SectorScores
<1> QED BY <1>1, PTL

\* One more request of case c moves the score of its sector and of no other.
LEMMA SectorFollows ==
  ASSUME TypeOK, TypeOK', NEW c \in Cases, NEW col \in Columns,
         \A k \in Columns : \A d \in Cases :
           Listed(d)[k]' = Listed(d)[k] + (IF d = c /\ k = col THEN 1 ELSE 0),
         NEW S \in SUBSET Cases
  PROVE  LET x == Score(S).average
             y == Score(S)'.average
         IN  /\ x \in Scores /\ y \in Scores
             /\ c \notin S => y = x
             /\ col \in {"unresolved", "failed"} => y = x
             /\ c \in S /\ c \notin FalseCases /\ col = "blocked" => Rises(x, y)
             /\ c \in S /\ c \notin FalseCases /\ col = "bypassed" => Falls(x, y)
             /\ c \in S /\ c \in FalseCases /\ col = "blocked" => Falls(x, y)
<1> DEFINE ab == SecReqStats(S \ FalseCases).blocked
           ap == SecReqStats(S \ FalseCases).bypassed
           bb == SecReqStats(S \cap FalseCases).blocked
           bp == SecReqStats(S \cap FalseCases).bypassed
           x == Score(S).average
           y == Score(S)'.average
           one(U, k) == IF c \in U /\ k = col THEN 1 ELSE 0
<1>1. /\ ab \in Nat /\ ap \in Nat /\ bb \in Nat /\ bp \in Nat
      /\ x = SectorAverage(ab, ap, bb, bp)
  BY SectorScore
<1>2. y = SectorAverage(ab', ap', bb', bp')
  BY SectorScoresNext DEF SectorScores
<1>3. /\ ab' = ab + one(S \ FalseCases, "blocked")
      /\ ap' = ap + one(S \ FalseCases, "bypassed")
      /\ bb' = bb + one(S \cap FalseCases, "blocked")
      /\ bp' = bp + one(S \cap FalseCases, "bypassed")
  BY UpdateSums DEF Columns
<1> HIDE DEF ab, ap, bb, bp, x, y
<1>4. x \in Scores
  <2>1. SectorAverage(ab, ap, bb, bp) \in Scores
    BY <1>1, SectorRange
  <2> QED BY <1>1, <2>1
<1>5. c \notin S \/ col \in {"unresolved", "failed"} => y = x
  <2>1. ASSUME c \notin S \/ col \in {"unresolved", "failed"}
        PROVE  ab' = ab /\ ap' = ap /\ bb' = bb /\ bp' = bp
    BY <1>1, <1>3, <2>1
  <2> QED BY <1>1, <1>2, <2>1
<1>6. ASSUME c \in S, c \notin FalseCases, col = "blocked"
      PROVE  Rises(x, y) /\ y \in Scores
  <2>1. ab' = ab + 1 /\ ap' = ap /\ bb' = bb /\ bp' = bp
    BY <1>1, <1>3, <1>6
  <2>2. y = SectorAverage(ab + 1, ap, bb, bp)
    BY <1>2, <2>1
  <2> QED BY <1>1, <2>2, SectorMoves, SectorRange
<1>7. ASSUME c \in S, c \notin FalseCases, col = "bypassed"
      PROVE  Falls(x, y) /\ y \in Scores
  <2>1. ab' = ab /\ ap' = ap + 1 /\ bb' = bb /\ bp' = bp
    BY <1>1, <1>3, <1>7
  <2>2. y = SectorAverage(ab, ap + 1, bb, bp)
    BY <1>2, <2>1
  <2> QED BY <1>1, <2>2, SectorMoves, SectorRange
<1>8. ASSUME c \in S, c \in FalseCases, col = "blocked"
      PROVE  Falls(x, y) /\ y \in Scores
  <2>1. ab' = ab /\ ap' = ap /\ bb' = bb + 1 /\ bp' = bp
    BY <1>1, <1>3, <1>8
  <2>2. y = SectorAverage(ab, ap, bb + 1, bp)
    BY <1>2, <2>1
  <2> QED BY <1>1, <2>2, SectorMoves, SectorRange
<1>9. y \in Scores
  <2>1. ab' \in Nat /\ ap' \in Nat /\ bb' \in Nat /\ bp' \in Nat
    BY <1>1, <1>3
  <2> QED BY <1>2, <2>1, SectorRange
<1> QED BY <1>4, <1>5, <1>6, <1>7, <1>8, <1>9 DEF x, y

\* The property of a step, for the state before and the state after it.
VerdictMove ==
  LET before == ScoreAverage
      after == ScoreAverage'
  IN \A c \in Cases :
    /\ blockedTests'[c] > blockedTests[c] /\ isTruePositive(c) => after >= before
    /\ before # NA =>
         /\ \/ passedTests'[c] > passedTests[c] /\ isTruePositive(c)
            \/ blockedTests'[c] > blockedTests[c] /\ ~isTruePositive(c)
            \/ naTests'[c] > naTests[c]
              => after <= before
         /\ \/ failedTests'[c] > failedTests[c]
            \/ naTests'[c] > naTests[c] /\ ListedAs(c) = "unresolved"
              => after = before

\* One more request recorded moves the overall score the way its verdict says.
LEMMA UpdateMoves ==
  ASSUME TypeOK, TypeOK', NEW c \in Cases, Update(c)
  PROVE  VerdictMove
<1> DEFINE x == Score(ApiCases).average
           y == Score(ApiCases)'.average
           u == Score(Cases \ ApiCases).average
           v == Score(Cases \ ApiCases)'.average
<1>1. PICK col \in Columns :
        /\ \A k \in Columns : \A d \in Cases :
             Listed(d)[k]' = Listed(d)[k] + (IF d = c /\ k = col THEN 1 ELSE 0)
        /\ \A d \in Cases :
             /\ passedTests'[d] > passedTests[d] => d = c /\ col = "bypassed"
             /\ blockedTests'[d] > blockedTests[d] => d = c /\ col = "blocked"
             /\ naTests'[d] > naTests[d] => d = c /\ col = ListedAs(c)
             /\ failedTests'[d] > failedTests[d] => d = c /\ col = "failed"
  BY UpdateListed
<1>2. ApiCases \in SUBSET Cases /\ Cases \ ApiCases \in SUBSET Cases
  BY ApiCasesAssumption
<1>3. /\ x \in Scores /\ y \in Scores
      /\ c \notin ApiCases => y = x
      /\ col \in {"unresolved", "failed"} => y = x
      /\ c \in ApiCases /\ c \notin FalseCases /\ col = "blocked" => Rises(x, y)
      /\ c \in ApiCases /\ c \notin FalseCases /\ col = "bypassed" => Falls(x, y)
      /\ c \in ApiCases /\ c \in FalseCases /\ col = "blocked" => Falls(x, y)
  BY <1>1, <1>2, SectorFollows
<1>4. /\ u \in Scores /\ v \in Scores
      /\ c \in ApiCases => v = u
      /\ col \in {"unresolved", "failed"} => v = u
      /\ c \notin ApiCases /\ c \notin FalseCases /\ col = "blocked" => Rises(u, v)
      /\ c \notin ApiCases /\ c \notin FalseCases /\ col = "bypassed" => Falls(u, v)
      /\ c \notin ApiCases /\ c \in FalseCases /\ col = "blocked" => Falls(u, v)
  BY <1>1, <1>2, SectorFollows
<1>5. ScoreAverage = AverageOf(x, u) /\ ScoreAverage' = AverageOf(y, v)
  BY DEF ScoreAverage, AverageOf, Mean, NA
<1> HIDE DEF x, y, u, v
<1>6. /\ AverageOf(x, u) \in Scores /\ AverageOf(x, u) = AverageOf(u, x)
      /\ AverageOf(y, v) \in Scores /\ AverageOf(y, v) = AverageOf(v, y)
  BY <1>3, <1>4, AverageRange
<1>7. ScoreAverage \in Int /\ ScoreAverage' \in Int
  BY <1>5, <1>6, ScoreValues
<1>8. CASE c \in ApiCases
  <2>1. v = u
    BY <1>4, <1>8
  <2>2. Rises(x, y) => ScoreAverage <= ScoreAverage'
    BY <1>3, <1>4, <1>5, <2>1, AverageFollows
  <2>3. Falls(x, y) /\ ScoreAverage # NA => ScoreAverage' <= ScoreAverage
    BY <1>3, <1>4, <1>5, <2>1, AverageFollows
  <2>4. x = y => ScoreAverage' = ScoreAverage
    BY <1>5, <2>1
  <2>5. ASSUME c \notin FalseCases, col = "blocked"
        PROVE  ScoreAverage' >= ScoreAverage
    BY <1>3, <1>7, <1>8, <2>2, <2>5
  <2>6. ASSUME ScoreAverage # NA,
               (c \notin FalseCases /\ col = "bypassed") \/ (c \in FalseCases /\ col = "blocked")
        PROVE  ScoreAverage' <= ScoreAverage
    BY <1>3, <1>8, <2>3, <2>6
  <2>7. col \in {"unresolved", "failed"} => ScoreAverage' = ScoreAverage
    BY <1>3, <2>4
  <2> HIDE DEF x, y
  <2> QED BY <1>1, <1>7, <2>5, <2>6, <2>7 DEF VerdictMove, isTruePositive, ListedAs
<1>9. CASE c \notin ApiCases
  <2>1. y = x
    BY <1>3, <1>9
  <2>2. Rises(u, v) => ScoreAverage <= ScoreAverage'
    BY <1>3, <1>4, <1>5, <1>6, <2>1, AverageFollows
  <2>3. Falls(u, v) /\ ScoreAverage # NA => ScoreAverage' <= ScoreAverage
    BY <1>3, <1>4, <1>5, <1>6, <2>1, AverageFollows
  <2>4. u = v => ScoreAverage' = ScoreAverage
    BY <1>5, <2>1
  <2>5. ASSUME c \notin FalseCases, col = "blocked"
        PROVE  ScoreAverage' >= ScoreAverage
    BY <1>4, <1>7, <1>9, <2>2, <2>5
  <2>6. ASSUME ScoreAverage # NA,
               (c \notin FalseCases /\ col = "bypassed") \/ (c \in FalseCases /\ col = "blocked")
        PROVE  ScoreAverage' <= ScoreAverage
    BY <1>4, <1>9, <2>3, <2>6
  <2>7. col \in {"unresolved", "failed"} => ScoreAverage' = ScoreAverage
    BY <1>4, <2>4
  <2> QED BY <1>1, <1>7, <2>5, <2>6, <2>7 DEF VerdictMove, isTruePositive, ListedAs
<1> QED BY <1>8, <1>9

\* The totals of the summary tables are the sums of the detail lists.
LEMMA ReqStatsSums ==
  ASSUME TypeOK, RowsAgreeWithLists, NEW S \in SUBSET Cases, NEW col \in Columns
  PROVE  /\ ReqStats(S)[col] = SumOver(ListedIn(col), S)
         /\ ReqStats(S)[col] \in Nat
<1>1. IsFiniteSet(S) /\ SumOver(ListedIn(col), S) \in Nat
  BY SecReqStatsSums
<1> DEFINE f == ListedIn(col)
           g == [c \in Cases |-> SummaryTableRow(c)[col]]
<1>2. \A c \in S : f[c] \in Int /\ g[c] = f[c]
  BY ListedType DEF ListedIn, RowsAgreeWithLists, Columns
<1>3. ReqStats(S)[col] = SumOver(g, S)
  BY DEF ReqStats, Columns
<1> HIDE DEF f, g
<1>4. SumOver(g, S) = SumOver(f, S)
  BY <1>1, <1>2, SumSame
<1> QED BY <1>1, <1>3, <1>4 DEF f

\* What the two sectors have together.
LEMMA SectorsTogether ==
  ASSUME TypeOK, NEW S \in SUBSET Cases, NEW col \in Columns
  PROVE  SumOver(ListedIn(col), S) =
           SumOver(ListedIn(col), S \cap ApiCases) + SumOver(ListedIn(col), S \cap (Cases \ ApiCases))
<1> DEFINE T == S \cap ApiCases
           U == S \cap (Cases \ ApiCases)
           f == ListedIn(col)
<1>1. S = T \cup U /\ T \cap U = {}
  OBVIOUS
<1>2. IsFiniteSet(T) /\ IsFiniteSet(U)
  BY CasesAssumption, FS_Subset
<1>3. \A c \in S : f[c] \in Int
  BY ListedType DEF ListedIn
<1> HIDE DEF T, U, f
<1>4. SumOver(f, T \cup U) = SumOver(f, T) + SumOver(f, U)
  BY <1>1, <1>2, <1>3, SumUnion
<1> QED BY <1>1, <1>4 DEF T, U, f

\* The overall score is missing exactly when the totals of both tables are zero: the
\* scores come from the lists, the totals from the counters.
LEMMA ScoreExtremesFromLists ==
  ASSUME TypeOK, RowsAgreeWithLists
  PROVE  ScoreExtremes
<1> DEFINE App == Cases \ ApiCases
           n(S, col) == SumOver(ListedIn(col), S)
           x(S) == Score(S).average
<1>1. ApiCases \in SUBSET Cases /\ App \in SUBSET Cases
  BY ApiCasesAssumption
<1>2. ASSUME NEW S \in {ApiCases, App}
      PROVE  LET attack == SecReqStats(S \ FalseCases)
                 benign == SecReqStats(S \cap FalseCases)
             IN  /\ x(S) \in Scores
                 /\ x(S) = NA <=> /\ attack.blocked + attack.bypassed = 0
                                  /\ benign.blocked + benign.bypassed = 0
                 /\ attack.bypassed = 0 /\ benign.blocked = 0
                    /\ (benign.bypassed > 0 => attack.blocked > 0) => x(S) \in {NA, 10000}
  <2> DEFINE ab == SecReqStats(S \ FalseCases).blocked
             ap == SecReqStats(S \ FalseCases).bypassed
             bb == SecReqStats(S \cap FalseCases).blocked
             bp == SecReqStats(S \cap FalseCases).bypassed
  <2>1. /\ ab \in Nat /\ ap \in Nat /\ bb \in Nat /\ bp \in Nat
        /\ x(S) = SectorAverage(ab, ap, bb, bp)
    BY <1>1, <1>2, SectorScore
  <2> HIDE DEF ab, ap, bb, bp, x, App
  <2>2. /\ x(S) \in Scores
        /\ x(S) = NA <=> ab + ap = 0 /\ bp + bb = 0
        /\ ap = 0 /\ bb = 0 /\ (bp > 0 => ab > 0) => x(S) \in {NA, 10000}
    <3>1. SectorAverage(ab, ap, bb, bp) \in Scores
      BY <2>1, SectorRange
    <3>2. SectorAverage(ab, ap, bb, bp) = NA <=> ab + ap = 0 /\ bp + bb = 0
      BY <2>1, SectorRange
    <3>3. ap = 0 /\ bb = 0 /\ (bp > 0 => ab > 0) =>
            SectorAverage(ab, ap, bb, bp) \in {NA, 10000}
      BY <2>1, SectorRange
    <3> QED BY <2>1, <3>1, <3>2, <3>3
  <2>3. bp + bb = bb + bp
    BY <2>1
  <2> QED BY <2>2, <2>3 DEF ab, ap, bb, bp
<1>3. ScoreAverage = AverageOf(x(ApiCases), x(App))
  BY DEF ScoreAverage
<1>4. /\ ScoreAverage \in Scores
      /\ ScoreAverage = NA <=> x(ApiCases) = NA /\ x(App) = NA
      /\ x(ApiCases) \in {NA, 10000} /\ x(App) \in {NA, 10000} => ScoreAverage \in {NA, 10000}
  <2>1. x(ApiCases) \in Scores /\ x(App) \in Scores
    BY <1>2
  <2> HIDE DEF x
  <2> QED BY <1>3, <2>1, AverageRange
<1>5. ASSUME NEW side \in {AttackCases, FalseCases}
      PROVE  ResolvedRequestsNumber(ReqStats(side)) = 0 <=>
               /\ n(side \cap ApiCases, "blocked") + n(side \cap ApiCases, "bypassed") = 0
               /\ n(side \cap App, "blocked") + n(side \cap App, "bypassed") = 0
  <2>1. side \in SUBSET Cases
    BY CasesAssumption DEF AttackCases
  <2>2. /\ ReqStats(side).blocked = n(side, "blocked")
        /\ ReqStats(side).bypassed = n(side, "bypassed")
    BY <2>1, ReqStatsSums DEF Columns
  <2>3. /\ n(side, "blocked") = n(side \cap ApiCases, "blocked") + n(side \cap App, "blocked")
        /\ n(side, "bypassed") = n(side \cap ApiCases, "bypassed") + n(side \cap App, "bypassed")
    BY <2>1, SectorsTogether DEF Columns
  <2>4. /\ n(side \cap ApiCases, "blocked") \in Nat /\ n(side \cap ApiCases, "bypassed") \in Nat
        /\ n(side \cap App, "blocked") \in Nat /\ n(side \cap App, "bypassed") \in Nat
    BY <2>1, SecReqStatsSums DEF Columns
  <2> HIDE DEF n, App
  <2> QED BY <2>2, <2>3, <2>4 DEF ResolvedRequestsNumber
<1>6. ASSUME NEW S \in {ApiCases, App}
      PROVE  /\ SecReqStats(S \ FalseCases).blocked = n(AttackCases \cap S, "blocked")
             /\ SecReqStats(S \ FalseCases).bypassed = n(AttackCases \cap S, "bypassed")
             /\ SecReqStats(S \cap FalseCases).blocked = n(FalseCases \cap S, "blocked")
             /\ SecReqStats(S \cap FalseCases).bypassed = n(FalseCases \cap S, "bypassed")
  <2>1. S \ FalseCases = AttackCases \cap S /\ S \cap FalseCases = FalseCases \cap S
        /\ S \ FalseCases \in SUBSET Cases /\ S \cap FalseCases \in SUBSET Cases
    BY <1>1 DEF AttackCases
  <2> HIDE DEF App
  <2> QED BY <2>1, SecReqStatsSums DEF Columns
<1>7. ASSUME NEW S \in {ApiCases, App}
      PROVE  /\ n(AttackCases \cap S, "blocked") \in Nat /\ n(AttackCases \cap S, "bypassed") \in Nat
             /\ n(FalseCases \cap S, "blocked") \in Nat /\ n(FalseCases \cap S, "bypassed") \in Nat
  <2>1. AttackCases \cap S \in SUBSET Cases /\ FalseCases \cap S \in SUBSET Cases
    BY CasesAssumption DEF AttackCases
  <2> HIDE DEF App
  <2> QED BY <2>1, SecReqStatsSums DEF Columns
<1>8. ScoreAverage = NA <=>
           ResolvedRequestsNumber(ReqStats(AttackCases)) = 0
           /\ ResolvedRequestsNumber(ReqStats(FalseCases)) = 0
  <2>1. \A S \in {ApiCases, App} :
          x(S) = NA <=> /\ n(AttackCases \cap S, "blocked") + n(AttackCases \cap S, "bypassed") = 0
                        /\ n(FalseCases \cap S, "blocked") + n(FalseCases \cap S, "bypassed") = 0
    <3> SUFFICES ASSUME NEW S \in {ApiCases, App}
                 PROVE  x(S) = NA <=> /\ n(AttackCases \cap S, "blocked") + n(AttackCases \cap S, "bypassed") = 0
                                      /\ n(FalseCases \cap S, "blocked") + n(FalseCases \cap S, "bypassed") = 0
      OBVIOUS
    <3>1. /\ n(AttackCases \cap S, "blocked") \in Nat /\ n(AttackCases \cap S, "bypassed") \in Nat
          /\ n(FalseCases \cap S, "blocked") \in Nat /\ n(FalseCases \cap S, "bypassed") \in Nat
      BY <1>7
    <3>2. x(S) = NA <=>
            /\ SecReqStats(S \ FalseCases).blocked + SecReqStats(S \ FalseCases).bypassed = 0
            /\ SecReqStats(S \cap FalseCases).blocked + SecReqStats(S \cap FalseCases).bypassed = 0
      BY <1>2
    <3>3. /\ SecReqStats(S \ FalseCases).blocked = n(AttackCases \cap S, "blocked")
          /\ SecReqStats(S \ FalseCases).bypassed = n(AttackCases \cap S, "bypassed")
          /\ SecReqStats(S \cap FalseCases).blocked = n(FalseCases \cap S, "blocked")
          /\ SecReqStats(S \cap FalseCases).bypassed = n(FalseCases \cap S, "bypassed")
      BY <1>6
    <3> HIDE DEF n, x, App
    <3> QED BY <3>2, <3>3
  <2> HIDE DEF n, x, App
  <2> QED BY <1>4, <1>5, <2>1
<1>9. ScoreAverage # NA => ScoreAverage \in 0 .. 10000
  <2>1. ScoreAverage # NA => ScoreAverage \in Percentages
    BY <1>4, ScoreValues
  <2> QED BY <2>1 DEF Percentages
<1> QED BY <1>2, <1>4, <1>8, <1>9 DEF ScoreExtremes

\* The rows of the tables count what was sent, with or without the column of the
\* unresolved requests.
LEMMA OutputsFromBookkeeping ==
  ASSUME TypeOK, CountersMatchLists, RowsAgreeWithLists
  PROVE  OutputsAccountForSent
<1> SUFFICES ASSUME NEW c \in Cases
             PROVE  LET row == SummaryTableRow(c)
                    IN /\ ConsoleShows(c) = row.sent
                       /\ JsonPayloads(c) = row.sent - (IF c \in FalseCases THEN row.bypassed ELSE row.blocked)
                       /\ ExportPayloads(c) = row.sent - row.failed
  BY DEF OutputsAccountForSent
<1> DEFINE row == SummaryTableRow(c)
<1>1. /\ row.blocked = Listed(c).blocked /\ row.blocked \in Nat
      /\ row.bypassed = Listed(c).bypassed /\ row.bypassed \in Nat
      /\ row.unresolved = Listed(c).unresolved /\ row.unresolved \in Nat
      /\ row.failed = Listed(c).failed /\ row.failed \in Nat
  BY ListedType DEF RowsAgreeWithLists, Columns
<1>2. /\ passedTests[c] \in Nat /\ blockedTests[c] \in Nat
      /\ naTests[c] \in Nat /\ failedTests[c] \in Nat
  BY DEF TypeOK
<1>3. row.sent = passedTests[c] + blockedTests[c] + naTests[c] + failedTests[c]
  <2>1. /\ counters[c].passed = passedTests[c] + TakenBy("passed", c)
        /\ counters[c].blocked = blockedTests[c] + TakenBy("blocked", c)
        /\ counters[c].failed = failedTests[c]
    BY DEF CountersMatchLists
  <2>2. TakenBy("passed", c) + TakenBy("blocked", c) = naTests[c]
    BY <1>2, CounterOfUnresolved DEF TakenBy
  <2>3. TakenBy("passed", c) \in Nat /\ TakenBy("blocked", c) \in Nat
    BY <1>2 DEF TakenBy
  <2>4. row.sent = counters[c].passed + counters[c].blocked + counters[c].failed
    BY DEF SummaryTableRow
  <2> QED BY <1>2, <2>1, <2>2, <2>3, <2>4
<1>4. /\ row.blocked + row.bypassed + row.unresolved + row.failed = row.sent
      /\ ignoreUnresolved => row.unresolved = 0
  <2>1. ListedAs(c) \in {"unresolved", "blocked", "bypassed"}
    BY ListedType
  <2>2. ignoreUnresolved => ListedAs(c) # "unresolved"
    BY DEF ListedAs
  <2> HIDE DEF row
  <2> QED BY <1>1, <1>2, <1>3, <2>1, <2>2 DEF Listed
<1>5. ConsoleShows(c) = row.sent
  <2> DEFINE three == {"blocked", "bypassed", "failed"}
  <2>1. /\ row["blocked"] \in Nat /\ row["bypassed"] \in Nat
        /\ row["unresolved"] \in Nat /\ row["failed"] \in Nat
    BY <1>1
  <2>2. /\ IsFiniteSet(three)
        /\ SumOver(row, three) = row.blocked + row.bypassed + row.failed
    <3> DEFINE p == "blocked"
               q == "bypassed"
               r == "failed"
    <3>1. p # q /\ p # r /\ q # r /\ three = {p, q, r}
      OBVIOUS
    <3>2. row[p] \in Int /\ row[q] \in Int /\ row[r] \in Int
      BY <2>1
    <3> HIDE DEF row, p, q, r, three
    <3>3. IsFiniteSet(three) /\ SumOver(row, three) = row[p] + row[q] + row[r]
      BY <3>1, <3>2, SumOfThree, Zenon
    <3> QED BY <3>3 DEF p, q, r
  <2>3. CASE ignoreUnresolved
    <3>1. ConsoleColumns = three
      BY <2>3 DEF ConsoleColumns
    <3>2. ConsoleShows(c) = row.blocked + row.bypassed + row.failed
      BY <2>2, <3>1 DEF ConsoleShows
    <3> HIDE DEF row
    <3> QED BY <1>1, <1>4, <2>3, <3>2
  <2>4. CASE ~ignoreUnresolved
    <3> DEFINE four == three \cup {"unresolved"}
    <3>1. ConsoleColumns = four
      BY <2>4 DEF ConsoleColumns
    <3>2. IsFiniteSet(four)
      BY <2>2, FS_AddElement
    <3>3. \A col \in four : row[col] \in Int
      BY <2>1
    <3>4. four \ {"unresolved"} = three /\ "unresolved" \in four
      OBVIOUS
    <3>5. SumOver(row, four) = row["unresolved"] + SumOver(row, three)
      <4> HIDE DEF row, four, three
      <4> QED BY <3>2, <3>3, <3>4, SumSplit
    <3>6. ConsoleShows(c) = SumOver(row, four)
      BY <3>1 DEF ConsoleShows
    <3> HIDE DEF row, four, three
    <3> QED BY <1>1, <1>4, <2>2, <3>5, <3>6
  <2> QED BY <2>3, <2>4
<1>6. JsonPayloads(c) = row.sent - (IF c \in FalseCases THEN row.bypassed ELSE row.blocked)
  <2> HIDE DEF row
  <2> QED BY <1>1, <1>4 DEF JsonPayloads
<1>7. ExportPayloads(c) = row.sent - row.failed
  <2>1. row.failed = failedTests[c]
    BY <1>1 DEF Listed
  <2> HIDE DEF row
  <2> QED BY <1>2, <1>3, <2>1 DEF ExportPayloads
<1> QED BY <1>5, <1>6, <1>7

-----------------------------------------------------------------------------
(* The HTML report.                                                        *)

\* The mark of a larger percentage is better, or the same.
LEMMA MarkMonotone ==
  ASSUME NEW p \in Int, NEW q \in Int, p <= q
  PROVE  MarkOf(p) <= MarkOf(q)
<1> DEFINE below(r) == {t \in Thresholds : t <= r}
<1>1. IsFiniteSet(below(q))
  <2>1. IsFiniteSet(Percentages)
    <3> DEFINE a == 0
               b == 10000
    <3>1. a \in Int /\ b \in Int
      OBVIOUS
    <3> HIDE DEF a, b
    <3>2. IsFiniteSet(a .. b)
      BY <3>1, FS_Interval
    <3> QED BY <3>2 DEF a, b, Percentages
  <2>2. below(q) \in SUBSET Percentages
    BY DEF Thresholds, Percentages
  <2> HIDE DEF below
  <2> QED BY <2>1, <2>2, FS_Subset
<1>2. below(p) \in SUBSET below(q)
  BY DEF Thresholds
<1>3. MarkOf(p) = Cardinality(below(p)) /\ MarkOf(q) = Cardinality(below(q))
  BY DEF MarkOf
<1> HIDE DEF below
<1> QED BY <1>1, <1>2, <1>3, FS_Subset

\* Where a grade comes from.
LEMMA GradesAre ==
  ASSUME TypeOK, NEW g \in Grades
  PROVE  /\ g.score \in Scores
         /\ \/ g.grade = SectorGrade(g.score)
            \/ g.score = ScoreAverage /\ g.grade = getGrade(g.score)
         /\ ScoreAverage = NA => g.score = NA
<1>1. ApiCases \in SUBSET Cases /\ Cases \ ApiCases \in SUBSET Cases
  BY ApiCasesAssumption
<1>2. ASSUME NEW S \in Sectors
      PROVE  /\ Score(S).truePositive \in Scores
             /\ Score(S).trueNegative \in Scores
             /\ Score(S).average \in Scores
             /\ Score(S).average = NA => Score(S).truePositive = NA /\ Score(S).trueNegative = NA
  <2> DEFINE ab == SecReqStats(S \ FalseCases).blocked
             ap == SecReqStats(S \ FalseCases).bypassed
             bb == SecReqStats(S \cap FalseCases).blocked
             bp == SecReqStats(S \cap FalseCases).bypassed
  <2>1. /\ ab \in Nat /\ ap \in Nat /\ bb \in Nat /\ bp \in Nat
        /\ Score(S).average = SectorAverage(ab, ap, bb, bp)
        /\ Score(S).truePositive = Part(ab, ap)
        /\ Score(S).trueNegative = Part(bp, bb)
    BY <1>1, <1>2, SectorScore DEF Sectors
  <2> HIDE DEF ab, ap, bb, bp
  <2>2. Part(ab, ap) \in Scores /\ (Part(ab, ap) = NA <=> ab + ap = 0)
    BY <2>1, PartRange
  <2>3. Part(bp, bb) \in Scores /\ (Part(bp, bb) = NA <=> bp + bb = 0)
    BY <2>1, PartRange
  <2>4. SectorAverage(ab, ap, bb, bp) \in Scores
    BY <2>1, SectorRange
  <2>5. SectorAverage(ab, ap, bb, bp) = NA <=> ab + ap = 0 /\ bp + bb = 0
    BY <2>1, SectorRange
  <2> QED BY <2>1, <2>2, <2>3, <2>4, <2>5
<1>3. /\ ScoreAverage \in Scores
      /\ ScoreAverage = NA => \A S \in Sectors : Score(S).average = NA
  <2>1. ScoreAverage = AverageOf(Score(ApiCases).average, Score(Cases \ ApiCases).average)
    BY DEF ScoreAverage
  <2>2. Score(ApiCases).average \in Scores /\ Score(Cases \ ApiCases).average \in Scores
    BY <1>2 DEF Sectors
  <2> QED BY <2>1, <2>2, AverageRange DEF Sectors
<1>4. CASE g \in {[score |-> Score(S)[part], grade |-> SectorGrade(Score(S)[part])] :
                    S \in Sectors, part \in {"truePositive", "trueNegative", "average"}}
  <2>1. PICK S \in Sectors, part \in {"truePositive", "trueNegative", "average"} :
          g = [score |-> Score(S)[part], grade |-> SectorGrade(Score(S)[part])]
    BY <1>4
  <2>2. g.score = Score(S)[part] /\ g.grade = SectorGrade(g.score)
    BY <2>1
  <2>3. Score(S)[part] \in Scores /\ (Score(S).average = NA => Score(S)[part] = NA)
    BY <1>2
  <2> QED BY <1>3, <2>2, <2>3
<1>5. CASE g = [score |-> ScoreAverage, grade |-> getGrade(ScoreAverage)]
  BY <1>3, <1>5
<1> QED BY <1>4, <1>5 DEF Grades

\* Scores that are shown as they are get marks in their order.
LEMMA GradesFromScores ==
  ASSUME TypeOK
  PROVE  GradesFollowScores
<1> DEFINE proper(g) == g.score = 0 \/ g.score > 100
<1>1. ASSUME NEW g \in Grades
      PROVE  g.score \in Int /\ (g.score = NA \/ g.score \in Percentages)
  BY <1>1, GradesAre, ScoreValues
<1>2. ASSUME NEW g \in Grades, proper(g)
      PROVE  g.grade.percentage = g.score /\ g.grade.mark = MarkOf(g.score)
  <2>1. g.grade = getGrade(g.score)
    BY <1>1, <1>2, GradesAre, ScoreValues DEF SectorGrade
  <2>2. (IF g.score <= 100 THEN g.score * 100 ELSE g.score) = g.score
    BY <1>1, <1>2, ScoreValues
  <2> QED BY <2>1, <2>2 DEF getGrade
<1>3. ASSUME NEW g \in Grades, NEW h \in Grades, proper(g), proper(h), g.score <= h.score
      PROVE  g.grade.mark <= h.grade.mark
  <2>1. g.grade.mark = MarkOf(g.score) /\ h.grade.mark = MarkOf(h.score)
    BY <1>2, <1>3
  <2>2. MarkOf(g.score) <= MarkOf(h.score)
    BY <1>1, <1>3, MarkMonotone
  <2> QED BY <2>1, <2>2
<1>4. ASSUME NEW g \in Grades, g.grade.percentage < 0
      PROVE  g.score = NA /\ \A h \in Grades : h.grade \in {g.grade, NoGrade}
  <2>1. \A s \in Percentages : getGrade(s).percentage \in Nat
    BY ScoreValues DEF getGrade
  <2>2. \A s \in Percentages : SectorGrade(s).percentage \in Nat
    BY <2>1, ScoreValues DEF SectorGrade
  <2>3. NA < 0 /\ SectorGrade(NA) = NoGrade /\ NoGrade.percentage \in Nat
    BY DEF NA, SectorGrade, NoGrade
  <2>4. g.score = NA /\ g.grade = getGrade(NA) /\ ScoreAverage = NA
    <3>1. g.score = NA \/ g.score \in Percentages
      BY <1>1
    <3>2. g.grade # SectorGrade(g.score)
      BY <1>4, <2>2, <2>3, <3>1
    <3>3. g.score = ScoreAverage /\ g.grade = getGrade(g.score)
      BY <3>2, GradesAre
    <3>4. g.score \notin Percentages
      BY <1>4, <2>1, <3>3
    <3> QED BY <3>1, <3>3, <3>4
  <2>5. \A h \in Grades : h.score = NA
    BY <2>4, GradesAre
  <2>6. \A h \in Grades : h.grade = SectorGrade(NA) \/ h.grade = getGrade(NA)
    BY <2>5, GradesAre
  <2> QED BY <2>3, <2>4, <2>6
<1> QED BY <1>2, <1>3, <1>4 DEF GradesFollowScores

\* The rounded mean of whole numbers is between two of them.
LEMMA MeanBetween ==
  ASSUME NEW f, NEW R, IsFiniteSet(R), R # {}, \A x \in R : f[x] \in Nat
  PROVE  LET n == Cardinality(R)
             mean == (2 * SumOver(f, R) + n) \div (2 * n)
         IN  /\ n > 0
             /\ \E l \in R : f[l] <= mean
             /\ \E h \in R : mean <= f[h]
<1> DEFINE n == Cardinality(R)
           s == SumOver(f, R)
           mean == (2 * s + n) \div (2 * n)
<1>1. n \in Nat /\ n > 0
  BY FS_CardinalityType, FS_EmptySet
<1>2. s \in Nat
  BY SumNat
<1>3. \A x \in R : f[x] \in Int
  OBVIOUS
<1>4. mean \in Nat /\ 2 * n * mean <= 2 * s + n /\ 2 * s + n < 2 * n * mean + 2 * n
  <2> HIDE DEF n, s
  <2> QED BY <1>1, <1>2, Quotient
<1>5. \A k \in Int : /\ (\A x \in R : k <= f[x]) => k * n <= s
                     /\ (\A x \in R : f[x] <= k) => s <= k * n
  BY <1>3, SumBound
<1> HIDE DEF n, s, mean
<1>6. n * mean \in Nat /\ 2 * n * mean = 2 * (n * mean) /\ mean * n = n * mean
      /\ (mean + 1) * n = n * mean + n /\ (mean - 1) * n = n * mean - n
  BY <1>1, <1>4
<1>7. ASSUME \A x \in R : ~ (f[x] <= mean)
      PROVE  FALSE
  <2>1. \A x \in R : mean + 1 <= f[x]
    BY <1>3, <1>4, <1>7
  <2>2. (mean + 1) * n <= s
    BY <1>4, <1>5, <2>1
  <2> QED BY <1>1, <1>2, <1>4, <1>6, <2>2
<1>8. ASSUME \A x \in R : ~ (mean <= f[x])
      PROVE  FALSE
  <2>1. \A x \in R : f[x] <= mean - 1
    BY <1>3, <1>4, <1>8
  <2>2. s <= (mean - 1) * n
    BY <1>4, <1>5, <2>1
  <2> QED BY <1>1, <1>2, <1>4, <1>6, <2>2
<1>9. n > 0 /\ (\E l \in R : f[l] <= mean) /\ (\E h \in R : mean <= f[h])
  BY <1>1, <1>7, <1>8
<1> QED BY <1>9 DEF n, s, mean

\* The percentage of all is between those of two parts.
LEMMA Mediant ==
  ASSUME NEW T, IsFiniteSet(T), T # {}, NEW b, NEW n,
         \A t \in T : b[t] \in Nat /\ n[t] \in Nat /\ n[t] > 0
  PROVE  LET all == CalculatePercentage(SumOver(b, T), SumOver(n, T))
         IN  /\ \E t \in T : CalculatePercentage(b[t], n[t]) <= all
             /\ \E t \in T : all <= CalculatePercentage(b[t], n[t])
<1> DEFINE B == SumOver(b, T)
           N == SumOver(n, T)
           f == [t \in T |-> N * b[t]]
           g == [t \in T |-> B * n[t]]
<1>1. /\ \A t \in T : b[t] \in Nat
      /\ \A t \in T : n[t] \in Nat
      /\ \A t \in T : b[t] \in Int
      /\ \A t \in T : n[t] \in Int
  OBVIOUS
<1>2. B \in Nat /\ N \in Nat
  BY <1>1, SumNat
<1>3. N > 0
  <2>1. \A t \in T : n[t] <= N
    BY <1>1, SumNat
  <2> QED BY <1>2, <2>1
<1> HIDE DEF B, N
<1>4. SumOver(f, T) = N * B
  BY <1>1, <1>2, SumScale DEF B
<1>5. SumOver(g, T) = B * N
  BY <1>1, <1>2, SumScale DEF N
<1>6. \A t \in T : f[t] \in Int /\ g[t] \in Int /\ f[t] = b[t] * N /\ g[t] = B * n[t]
  BY <1>1, <1>2
<1> HIDE DEF f, g
<1>7. \A t \in T : /\ ~ (CalculatePercentage(b[t], n[t]) <= CalculatePercentage(B, N)) => g[t] < f[t]
                   /\ ~ (CalculatePercentage(B, N) <= CalculatePercentage(b[t], n[t])) => f[t] < g[t]
  <2> SUFFICES ASSUME NEW t \in T
               PROVE  /\ f[t] <= g[t] => CalculatePercentage(b[t], n[t]) <= CalculatePercentage(B, N)
                      /\ g[t] <= f[t] => CalculatePercentage(B, N) <= CalculatePercentage(b[t], n[t])
    BY <1>6
  <2>1. b[t] \in Nat /\ n[t] \in Nat /\ n[t] > 0
    OBVIOUS
  <2>2. b[t] * N <= B * n[t] => CalculatePercentage(b[t], n[t]) <= CalculatePercentage(B, N)
    BY <1>2, <1>3, <2>1, PercentageMonotone
  <2>3. B * n[t] <= b[t] * N => CalculatePercentage(B, N) <= CalculatePercentage(b[t], n[t])
    BY <1>2, <1>3, <2>1, PercentageMonotone
  <2> QED BY <1>6, <2>2, <2>3
<1>8. N * B = B * N
  BY <1>2
<1>9. ASSUME \A t \in T : g[t] < f[t]
      PROVE  FALSE
  <2>1. \A t \in T : g[t] \in Int /\ f[t] \in Int /\ g[t] <= f[t]
    BY <1>6, <1>9
  <2>2. SumOver(g, T) < SumOver(f, T)
    BY <1>9, <2>1, SumMonotone
  <2> QED BY <1>2, <1>4, <1>5, <1>8, <2>2
<1>10. ASSUME \A t \in T : f[t] < g[t]
       PROVE  FALSE
  <2>1. \A t \in T : f[t] \in Int /\ g[t] \in Int /\ f[t] <= g[t]
    BY <1>6, <1>10
  <2>2. SumOver(f, T) < SumOver(g, T)
    BY <1>10, <2>1, SumMonotone
  <2> QED BY <1>2, <1>4, <1>5, <1>8, <2>2
<1>11. /\ \E t \in T : CalculatePercentage(b[t], n[t]) <= CalculatePercentage(B, N)
       /\ \E t \in T : CalculatePercentage(B, N) <= CalculatePercentage(b[t], n[t])
  BY <1>7, <1>9, <1>10
<1> QED BY <1>11 DEF B, N

\* The row of a case, with the types that sums and percentages need.
LEMMA RowType ==
  ASSUME TypeOK, RowsAgreeWithLists, NEW c \in Cases
  PROVE  /\ \A col \in Columns : /\ SummaryTableRow(c)[col] = Listed(c)[col]
                                 /\ SummaryTableRow(c)[col] \in Nat
         /\ Resolved(c) = Listed(c).blocked + Listed(c).bypassed
         /\ Resolved(c) \in Nat
         /\ Resolved(c) # 0 => RowPercentage(c) \in Percentages
<1> DEFINE row == SummaryTableRow(c)
<1>1. ASSUME NEW col \in Columns
      PROVE  row[col] = Listed(c)[col] /\ row[col] \in Nat
  BY ListedType DEF RowsAgreeWithLists, Columns
<1>2. row.blocked \in Nat /\ row.bypassed \in Nat
  BY <1>1 DEF Columns
<1>3. Resolved(c) = Listed(c).blocked + Listed(c).bypassed
  BY <1>1 DEF Resolved, Columns
<1>4. Resolved(c) = row.blocked + row.bypassed /\ Resolved(c) \in Nat
  BY <1>2 DEF Resolved
<1>5. ASSUME Resolved(c) # 0
      PROVE  RowPercentage(c) \in Percentages
  <2> DEFINE n == IF c \in FalseCases THEN row.bypassed ELSE row.blocked
  <2>1. n \in Nat /\ n <= Resolved(c) /\ Resolved(c) > 0
    BY <1>2, <1>4, <1>5
  <2>2. RowPercentage(c) = CalculatePercentage(n, Resolved(c))
    BY DEF RowPercentage
  <2> HIDE DEF n
  <2>3. CalculatePercentage(n, Resolved(c)) \in Percentages
    BY <1>4, <2>1, PercentageRange
  <2> QED BY <2>2, <2>3
<1> QED BY <1>1, <1>3, <1>4, <1>5

\* The cases of one set are on the same side, so the totals of a table are the
\* sums by sets.
LEMMA TotalsBySet ==
  ASSUME TypeOK, RowsAgreeWithLists,
         NEW S \in {AttackCases, FalseCases}, NEW col \in Columns,
         NEW h, \A s \in {TestSet[c] : c \in Cases} : h[s] = TestSetSummary(s).sums[col]
  PROVE  ReqStats(S)[col] = SumOver(h, {TestSet[c] : c \in S})
<1> DEFINE f == [c \in Cases |-> SummaryTableRow(c)[col]]
<1>1. S \in SUBSET Cases /\ IsFiniteSet(S)
  BY CasesAssumption, FS_Subset DEF AttackCases
<1>2. \A c \in S : f[c] \in Int
  BY <1>1, RowType
<1>3. ASSUME NEW s \in {TestSet[c] : c \in S}
      PROVE  h[s] = SumOver(f, {c \in S : TestSet[c] = s})
  <2>1. CasesOf(s) = {c \in S : TestSet[c] = s}
    BY <1>1, TestSetAssumption, CasesAssumption DEF CasesOf, AttackCases
  <2>2. h[s] = TestSetSummary(s).sums[col]
    BY <1>1
  <2>3. TestSetSummary(s).sums[col] = SumOver(f, CasesOf(s))
    BY DEF TestSetSummary, Columns
  <2> QED BY <2>1, <2>2, <2>3
<1>4. ReqStats(S)[col] = SumOver(f, S)
  BY DEF ReqStats, Columns
<1> DEFINE K == {TestSet[c] : c \in S}
           group == [s \in K |-> {c \in S : TestSet[c] = s}]
<1>5. Groups(S, TestSet, K, group)
  BY DEF Groups
<1>6. \A s \in K : h[s] = SumOver(f, group[s])
  BY <1>3
<1> HIDE DEF f, K, group
<1>7. SumOver(h, K) = SumOver(f, S)
  BY <1>1, <1>2, <1>5, <1>6, SumGroups
<1> QED BY <1>4, <1>7 DEF K

\* The summaries of the sets, from the rows of their cases.
LEMMA SetsFromRows ==
  ASSUME TypeOK, RowsAgreeWithLists
  PROVE  SetsShareOutTotals
<1> DEFINE sets == {TestSet[c] : c \in Cases}
           summary == [s \in sets |-> TestSetSummary(s)]
<1>1. ASSUME NEW S \in {AttackCases, FalseCases}, NEW col \in DOMAIN ReqStats(S)
      PROVE  ReqStats(S)[col] =
               SumOver([s \in sets |-> summary[s].sums[col]], {TestSet[c] : c \in S})
  <2>1. col \in Columns
    BY DEF ReqStats, Columns
  <2> DEFINE h == [s \in sets |-> summary[s].sums[col]]
  <2>2. \A s \in sets : h[s] = TestSetSummary(s).sums[col]
    OBVIOUS
  <2> HIDE DEF h
  <2>3. ReqStats(S)[col] = SumOver(h, {TestSet[c] : c \in S})
    BY <2>1, <2>2, TotalsBySet
  <2> QED BY <2>3 DEF h
<1>2. ASSUME NEW s \in sets
      PROVE  LET resolved == {c \in CasesOf(s) : Resolved(c) # 0}
             IN  IF resolved = {} THEN summary[s].percentage = 0
                 ELSE \E lowest, highest \in resolved :
                        RowPercentage(lowest) <= summary[s].percentage
                        /\ summary[s].percentage <= RowPercentage(highest)
  <2> DEFINE resolved == {c \in CasesOf(s) : Resolved(c) # 0}
             f == [c \in Cases |-> RowPercentage(c)]
             total == SumOver(f, resolved)
             n == Cardinality(resolved)
             mean == (2 * total + n) \div (2 * n)
  <2>1. resolved \in SUBSET Cases /\ IsFiniteSet(resolved)
    BY CasesAssumption, FS_Subset DEF CasesOf
  <2>2. \A c \in resolved : f[c] \in Nat /\ f[c] = RowPercentage(c)
    <3>1. \A c \in resolved : c \in Cases /\ RowPercentage(c) \in Percentages
      BY RowType DEF CasesOf
    <3>2. \A p \in Percentages : p \in Nat
      BY DEF Percentages
    <3> HIDE DEF resolved
    <3> QED BY <3>1, <3>2
  <2>3. summary[s].percentage = IF n = 0 THEN 0 ELSE mean
    BY DEF TestSetSummary
  <2>4. n = 0 <=> resolved = {}
    BY <2>1, FS_EmptySet
  <2>5. ASSUME resolved # {}
        PROVE  /\ \E l \in resolved : f[l] <= mean
               /\ \E h \in resolved : mean <= f[h]
    <3> HIDE DEF resolved, f
    <3> QED BY <2>1, <2>2, <2>5, MeanBetween
  <2> HIDE DEF f, mean, n, total, summary
  <2>6. CASE resolved = {}
    BY <2>3, <2>4, <2>6
  <2>7. CASE resolved # {}
    BY <2>2, <2>3, <2>4, <2>5, <2>7
  <2> QED BY <2>6, <2>7
<1> QED BY <1>1, <1>2 DEF SetsShareOutTotals

\* Only the function on nothing is the empty one.
LEMMA EmptyFunction ==
  ASSUME NEW D, NEW e
  PROVE  ([x \in D |-> e[x]] = <<>>) <=> D = {}
OBVIOUS

\* What a sector shows in its chart, and the sums that its score is made of.
LEMMA ChartSums ==
  ASSUME TypeOK, RowsAgreeWithLists, NEW S \in SUBSET Cases,
         NEW shown, shown = {c \in S \ FalseCases : Resolved(c) > 0},
         NEW col \in {"blocked", "bypassed"}
  PROVE  /\ shown = {c \in S \ FalseCases : Listed(c).blocked + Listed(c).bypassed > 0}
         /\ IsFiniteSet(shown) /\ shown \in SUBSET Cases
         /\ SumOver(ListedIn(col), S \ FalseCases) = SumOver(ListedIn(col), shown)
<1> DEFINE rest == (S \ FalseCases) \ shown
           f == ListedIn(col)
<1>1. \A c \in S : Resolved(c) = Listed(c).blocked + Listed(c).bypassed
  BY RowType
<1>2. shown = {c \in S \ FalseCases : Listed(c).blocked + Listed(c).bypassed > 0}
  BY <1>1
<1>3. /\ IsFiniteSet(shown) /\ shown \in SUBSET Cases
      /\ IsFiniteSet(rest) /\ rest \in SUBSET Cases
  BY CasesAssumption, FS_Subset
<1>4. \A c \in Cases : f[c] \in Int
  BY ListedType DEF ListedIn, Columns
<1>5. \A c \in rest : f[c] = 0
  <2> SUFFICES ASSUME NEW c \in rest PROVE f[c] = 0
    OBVIOUS
  <2>1. c \in S /\ c \in Cases /\ ~ (Resolved(c) > 0)
    OBVIOUS
  <2>2. Listed(c)["blocked"] \in Nat /\ Listed(c)["bypassed"] \in Nat
    BY <2>1, ListedType DEF Columns
  <2>3. Listed(c)["blocked"] = 0 /\ Listed(c)["bypassed"] = 0
    BY <1>1, <2>1, <2>2
  <2> QED BY <2>1, <2>3 DEF ListedIn
<1>6. shown \cup rest = S \ FalseCases /\ shown \cap rest = {}
  OBVIOUS
<1> HIDE DEF rest, f
<1>7. SumOver(f, shown \cup rest) = SumOver(f, shown) + SumOver(f, rest)
  <2>1. \A c \in shown \cup rest : f[c] \in Int
    BY <1>3, <1>4
  <2> QED BY <1>3, <1>6, <2>1, SumUnion
<1>8. SumOver(f, rest) = 0
  <2>1. \A c \in rest : f[c] \in Int /\ 0 <= f[c] /\ f[c] <= 0
    BY <1>5
  <2>2. 0 * Cardinality(rest) = 0
    BY <1>3, FS_CardinalityType
  <2>3. \A k \in Int : /\ (\A c \in rest : k <= f[c]) => k * Cardinality(rest) <= SumOver(f, rest)
                       /\ (\A c \in rest : f[c] <= k) => SumOver(f, rest) <= k * Cardinality(rest)
    BY <1>3, <2>1, SumBound
  <2>4. 0 <= SumOver(f, rest) /\ SumOver(f, rest) <= 0
    BY <2>1, <2>2, <2>3
  <2>5. SumOver(f, rest) \in Int
    BY <1>3, <2>1, SumSplit
  <2> QED BY <2>4, <2>5
<1>9. SumOver(f, shown) \in Int
  <2>1. \A c \in shown : f[c] \in Int
    BY <1>3, <1>4
  <2> QED BY <1>3, <2>1, SumSplit
<1>10. SumOver(f, S \ FalseCases) = SumOver(f, shown)
  <2>1. SumOver(f, shown \cup rest) = SumOver(f, shown)
    BY <1>7, <1>8, <1>9
  <2> QED BY <1>6, <2>1
<1> QED BY <1>2, <1>3, <1>10 DEF f

\* The chart and the score of a sector are made from the same lists; the score is the
\* mediant of the chart's items.
LEMMA ChartFromLists ==
  ASSUME TypeOK, RowsAgreeWithLists
  PROVE  ChartAgreesWithScore
<1> SUFFICES ASSUME NEW S \in Sectors
             PROVE  LET items == generateChartData(S)
                        sent == {Type[c] : c \in {d \in S \ FalseCases : Resolved(d) > 0}}
                        score == Score(S).truePositive
                    IN  /\ (items = <<>>) <=> (score = NA)
                        /\ score # NA /\ sent \cap Unavailable(S) = {} =>
                             /\ \E t \in sent : items[t] <= score
                             /\ \E t \in sent : score <= items[t]
  BY DEF ChartAgreesWithScore
<1> DEFINE shown == {c \in S \ FalseCases : Resolved(c) > 0}
           sent == {Type[c] : c \in shown}
           of == [t \in sent |-> {c \in shown : Type[c] = t}]
           f == ListedIn("blocked")
           g == ListedIn("bypassed")
           b == [t \in sent |-> SumOver(f, of[t])]
           p == [t \in sent |-> SumOver(g, of[t])]
           n == [t \in sent |-> b[t] + p[t]]
           counted == ChartCounters(S)
           items == generateChartData(S)
           score == Score(S).truePositive
<1>1. S \in SUBSET Cases
  BY ApiCasesAssumption DEF Sectors
<1>2. /\ shown = {c \in S \ FalseCases : Listed(c).blocked + Listed(c).bypassed > 0}
      /\ IsFiniteSet(shown) /\ shown \in SUBSET Cases
      /\ SumOver(f, S \ FalseCases) = SumOver(f, shown)
      /\ SumOver(g, S \ FalseCases) = SumOver(g, shown)
  BY <1>1, ChartSums
<1>3. \A c \in Cases : f[c] \in Nat /\ g[c] \in Nat
  BY ListedType DEF ListedIn, Columns
<1>4. counted = [t \in sent |-> [blocked |-> b[t], bypassed |-> p[t]]]
  <2>1. \A t \in sent : of[t] = {c \in shown : Type[c] = t}
    OBVIOUS
  <2> HIDE DEF shown
  <2> QED BY <1>2, <2>1 DEF ChartCounters, ListedIn
<1>5. Groups(shown, Type, sent, of)
  BY DEF Groups
<1>6. \A t \in sent : b[t] \in Nat /\ p[t] \in Nat /\ n[t] \in Nat /\ n[t] > 0
  <2> SUFFICES ASSUME NEW t \in sent
               PROVE  b[t] \in Nat /\ p[t] \in Nat /\ n[t] \in Nat /\ n[t] > 0
    OBVIOUS
  <2> DEFINE group == of[t]
  <2>1. group \in SUBSET shown /\ \E c \in group : TRUE
    OBVIOUS
  <2>2. PICK c \in group : TRUE
    BY <2>1
  <2>3. IsFiniteSet(group) /\ group \in SUBSET Cases
    BY <1>2, <2>1, FS_Subset
  <2>4. f[c] + g[c] > 0
    <3>1. c \in shown
      BY <2>1, <2>2
    <3> QED BY <1>2, <3>1 DEF ListedIn
  <2>5. b[t] = SumOver(f, group) /\ p[t] = SumOver(g, group) /\ n[t] = b[t] + p[t]
    OBVIOUS
  <2> HIDE DEF group, f, g, b, p, n
  <2>6. SumOver(f, group) \in Nat /\ f[c] <= SumOver(f, group)
    <3>1. \A d \in group : f[d] \in Nat
      BY <1>3, <2>3
    <3> QED BY <2>3, <3>1, SumNat
  <2>7. SumOver(g, group) \in Nat /\ g[c] <= SumOver(g, group)
    <3>1. \A d \in group : g[d] \in Nat
      BY <1>3, <2>3
    <3> QED BY <2>3, <3>1, SumNat
  <2>8. f[c] \in Nat /\ g[c] \in Nat
    BY <1>3, <2>3
  <2> QED BY <2>4, <2>5, <2>6, <2>7, <2>8
<1>7. /\ IsFiniteSet(sent)
      /\ SumOver(b, sent) = SumOver(f, shown)
      /\ SumOver(p, sent) = SumOver(g, shown)
  <2>1. \A t \in sent : b[t] = SumOver(f, of[t])
    OBVIOUS
  <2>2. \A t \in sent : p[t] = SumOver(g, of[t])
    OBVIOUS
  <2>3. \A c \in shown : f[c] \in Int
    BY <1>2, <1>3
  <2>4. \A c \in shown : g[c] \in Int
    BY <1>2, <1>3
  <2> HIDE DEF b, p, f, g, of, sent, shown
  <2>5. IsFiniteSet(sent) /\ SumOver(b, sent) = SumOver(f, shown)
    BY <1>2, <1>5, <2>1, <2>3, SumGroups
  <2>6. SumOver(p, sent) = SumOver(g, shown)
    BY <1>2, <1>5, <2>2, <2>4, SumGroups
  <2> QED BY <2>5, <2>6
<1>8. SumOver(n, sent) = SumOver(b, sent) + SumOver(p, sent)
  <2> HIDE DEF b, p, sent
  <2>1. \A t \in sent : b[t] \in Int /\ p[t] \in Int
    BY <1>6
  <2> QED BY <1>7, <2>1, SumPlus
<1> DEFINE B == SumOver(b, sent)
           N == SumOver(n, sent)
<1>9. B \in Nat /\ N \in Nat /\ SumOver(p, sent) \in Nat /\ N = B + SumOver(p, sent)
  <2>1. /\ \A t \in sent : b[t] \in Nat
        /\ \A t \in sent : p[t] \in Nat
        /\ \A t \in sent : n[t] \in Nat
    BY <1>6
  <2> HIDE DEF b, p, n, sent
  <2> QED BY <1>7, <1>8, <2>1, SumNat
<1>10. score = Part(B, SumOver(p, sent))
  <2>1. /\ score = Part(SecReqStats(S \ FalseCases).blocked, SecReqStats(S \ FalseCases).bypassed)
    BY <1>1, SectorScore
  <2>2. /\ SecReqStats(S \ FalseCases).blocked = SumOver(f, S \ FalseCases)
        /\ SecReqStats(S \ FalseCases).bypassed = SumOver(g, S \ FalseCases)
    BY <1>1, SecReqStatsSums DEF Columns
  <2> HIDE DEF b, p, f, g, sent, shown
  <2> QED BY <1>2, <1>7, <2>1, <2>2
<1>11. (score = NA <=> N = 0) /\ (score # NA => score = CalculatePercentage(B, N))
  <2> HIDE DEF b, p, n, sent, score
  <2>1. Part(B, SumOver(p, sent)) = NA <=> B + SumOver(p, sent) = 0
    BY <1>9, PartRange
  <2> QED BY <1>9, <1>10, <2>1 DEF Part
<1>12. N = 0 <=> sent = {}
  <2>1. sent = {} => N = 0
    <3> HIDE DEF n, sent
    <3> QED BY SumEmpty
  <2>2. ASSUME NEW t \in sent
        PROVE  N # 0
    <3>1. n[t] <= N
      <4>1. \A u \in sent : n[u] \in Nat
        BY <1>6
      <4> HIDE DEF n, sent
      <4> QED BY <1>7, <4>1, SumNat
    <3>2. n[t] \in Nat /\ n[t] > 0
      BY <1>6
    <3> HIDE DEF n, sent
    <3> QED BY <1>9, <3>1, <3>2
  <2> HIDE DEF N, sent
  <2> QED BY <2>1, <2>2
<1> DEFINE zeros == IF counted = <<>> THEN {} ELSE Unavailable(S)
<1>13. /\ counted = <<>> <=> sent = {}
       /\ DOMAIN counted = sent
       /\ \A t \in sent : counted[t].blocked = b[t] /\ counted[t].bypassed = p[t]
  <2> DEFINE e == [t \in sent |-> [blocked |-> b[t], bypassed |-> p[t]]]
  <2> HIDE DEF b, p, sent, counted
  <2>1. counted = e
    BY <1>4
  <2>2. DOMAIN e = sent /\ \A t \in sent : e[t].blocked = b[t] /\ e[t].bypassed = p[t]
    OBVIOUS
  <2>3. ([t \in sent |-> e[t]] = <<>>) <=> sent = {}
    BY EmptyFunction
  <2>4. e = [t \in sent |-> e[t]]
    OBVIOUS
  <2> HIDE DEF e
  <2> QED BY <2>1, <2>2, <2>3, <2>4
<1>14. items = [t \in sent \cup zeros |->
                  IF t \in zeros THEN 0 ELSE CalculatePercentage(counted[t].blocked,
                                               counted[t].blocked + counted[t].bypassed)]
  <2> HIDE DEF sent, counted
  <2> QED BY <1>13 DEF generateChartData, counted
<1>15. (items = <<>>) <=> (score = NA)
  <2>1. sent \cup zeros = {} <=> sent = {}
    BY <1>13
  <2>2. (items = <<>>) <=> (sent \cup zeros = {})
    <3> HIDE DEF sent, zeros, items, counted
    <3> QED BY <1>14
  <2> HIDE DEF items, score, N, sent
  <2> QED BY <1>11, <1>12, <2>1, <2>2
<1>16. ASSUME score # NA, sent \cap Unavailable(S) = {}
       PROVE  /\ \E t \in sent : items[t] <= score
              /\ \E t \in sent : score <= items[t]
  <2>1. sent # {} /\ score = CalculatePercentage(B, N)
    <3> HIDE DEF score, sent, B, N
    <3> QED BY <1>11, <1>12, <1>16
  <2>2. sent \cap zeros = {}
    <3> HIDE DEF sent, counted
    <3> QED BY <1>16
  <2>3. \A t \in sent : items[t] = CalculatePercentage(b[t], n[t])
    <3>1. \A t \in sent : n[t] = b[t] + p[t]
      OBVIOUS
    <3> HIDE DEF items, zeros, sent, counted, b, p, n
    <3> QED BY <1>13, <1>14, <2>2, <3>1
  <2>4. /\ \E t \in sent : CalculatePercentage(b[t], n[t]) <= CalculatePercentage(B, N)
        /\ \E t \in sent : CalculatePercentage(B, N) <= CalculatePercentage(b[t], n[t])
    <3>1. \A t \in sent : b[t] \in Nat /\ n[t] \in Nat /\ n[t] > 0
      BY <1>6
    <3> HIDE DEF sent, b, n
    <3> QED BY <1>7, <2>1, <3>1, Mediant
  <2> HIDE DEF items, score, sent, b, n, B, N
  <2> QED BY <2>1, <2>3, <2>4
<1> QED BY <1>15, <1>16

-----------------------------------------------------------------------------
(* Theorems.                                                               *)

\* The counters match the lists in every reachable state.
THEOREM Bookkeeping == Spec => [](TypeOK /\ CountersMatchLists)
<1>1. Init => IInv BY InitIInv
<1>2. IInv /\ [Next]_dbVars => IInv' BY NextIInv
<1>3. IInv => TypeOK /\ CountersMatchLists BY DEF IInv
<1> QED BY <1>1, <1>2, <1>3, PTL DEF Spec

\* The same while the data of the HTML report are made, from the start of a scan
\* or far along in one.
THEOREM HtmlBookkeeping == HtmlSpec => [](TypeOK /\ CountersMatchLists)
<1>1. HtmlInit => IInv BY HtmlInitIInv
<1>2. IInv /\ [HtmlNext]_htmlVars => IInv'
  <2>1. [HtmlNext]_htmlVars => [Next]_dbVars
    BY DEF HtmlNext, htmlVars, Next
  <2> QED BY <2>1, NextIInv
<1>3. IInv => TypeOK /\ CountersMatchLists BY DEF IInv
<1> QED BY <1>1, <1>2, <1>3, PTL DEF HtmlSpec

\* The summary table and the detail lists agree on every test case.
THEOREM TablesAgree ==
  /\ Spec => []RowsAgreeWithLists
  /\ HtmlSpec => []RowsAgreeWithLists
<1>1. TypeOK /\ CountersMatchLists => RowsAgreeWithLists
  BY RowsFromBookkeeping
<1> QED BY <1>1, Bookkeeping, HtmlBookkeeping, PTL

\* The console, the JSON report and the CSV account for every request sent.
THEOREM OutputsAccount ==
  /\ Spec => []OutputsAccountForSent
  /\ HtmlSpec => []OutputsAccountForSent
<1>1. TypeOK /\ CountersMatchLists => OutputsAccountForSent
  BY RowsFromBookkeeping, OutputsFromBookkeeping
<1> QED BY <1>1, Bookkeeping, HtmlBookkeeping, PTL

\* The overall score is a percentage, missing exactly when nothing was resolved
\* and full when nothing went wrong.
THEOREM ScoreRange ==
  /\ Spec => []ScoreExtremes
  /\ HtmlSpec => []ScoreExtremes
<1>1. TypeOK /\ CountersMatchLists => ScoreExtremes
  BY RowsFromBookkeeping, ScoreExtremesFromLists
<1> QED BY <1>1, Bookkeeping, HtmlBookkeeping, PTL

\* The overall score moves the way the verdict on one more request says.
THEOREM ScoreFollows ==
  /\ Spec => ScoreFollowsVerdicts
  /\ HtmlSpec => ScoreFollowsVerdicts
<1>1. TypeOK /\ TypeOK' /\ [Next]_dbVars => [VerdictMove]_dbVars
  <2> SUFFICES ASSUME TypeOK, TypeOK', Next
               PROVE  VerdictMove \/ UNCHANGED dbVars
    OBVIOUS
  <2>1. ASSUME NEW c \in Cases, Update(c)
        PROVE  VerdictMove
    BY <2>1, UpdateMoves
  <2>2. ASSUME NEW p \in Paths, AddToScannedPaths(p)
        PROVE  VerdictMove
    <3>1. UNCHANGED lists
      BY <2>2 DEF AddToScannedPaths
    <3>2. \A c \in Cases : /\ passedTests[c] \in Int /\ blockedTests[c] \in Int
                           /\ naTests[c] \in Int /\ failedTests[c] \in Int
      BY DEF TypeOK
    <3>3. \A c \in Cases : /\ ~ (passedTests'[c] > passedTests[c])
                           /\ ~ (blockedTests'[c] > blockedTests[c])
                           /\ ~ (naTests'[c] > naTests[c])
                           /\ ~ (failedTests'[c] > failedTests[c])
      BY <3>1, <3>2 DEF lists
    <3> QED BY <3>3 DEF VerdictMove
  <2> QED BY <2>1, <2>2 DEF Next
<1>2. [HtmlNext]_htmlVars => [Next]_dbVars
  BY DEF HtmlNext, htmlVars, Next
<1>3. Spec => [][VerdictMove]_dbVars
  BY <1>1, Bookkeeping, PTL DEF Spec
<1>4. HtmlSpec => [][VerdictMove]_dbVars
  BY <1>1, <1>2, HtmlBookkeeping, PTL DEF HtmlSpec
<1> QED BY <1>3, <1>4 DEF ScoreFollowsVerdicts, VerdictMove

\* The grades of the report are in the order of the scores.
THEOREM GradesFollow == HtmlSpec => []GradesFollowScores
<1>1. TypeOK => GradesFollowScores
  BY GradesFromScores
<1> QED BY <1>1, HtmlBookkeeping, PTL

\* The summaries of the test sets share out the totals.
THEOREM SetsShareOut == HtmlSpec => []SetsShareOutTotals
<1>1. TypeOK /\ CountersMatchLists => SetsShareOutTotals
  BY RowsFromBookkeeping, SetsFromRows
<1> QED BY <1>1, HtmlBookkeeping, PTL

\* The chart of a sector agrees with its score.
THEOREM ChartAgrees == HtmlSpec => []ChartAgreesWithScore
<1>1. TypeOK /\ CountersMatchLists => ChartAgreesWithScore
  BY RowsFromBookkeeping, ChartFromLists
<1> QED BY <1>1, HtmlBookkeeping, PTL
=============================================================================
