----------------------------- MODULE FoldLemmas -----------------------------
(***************************************************************************)
(* What the folds of the community modules compute, MapThenSumSet for      *)
(* every finite set and FoldLeft for every sequence.  The library's        *)
(* theorems about induction and folds take operators; these take sets and  *)
(* functions.                                                              *)
(***************************************************************************)
EXTENDS Integers, FiniteSets, FiniteSetsExt, FiniteSetTheorems,
        WellFoundedInduction, Sequences, SequenceTheorems, TLAPS

-----------------------------------------------------------------------------
(***************************************************************************)
(* Induction.                                                              *)
(***************************************************************************)

\* A set of natural numbers has a least one.
LEMMA LeastNumber ==
  ASSUME NEW T \in SUBSET Nat, T # {}
  PROVE  \E x \in T : \A y \in T : ~(y < x)
<1> DEFINE R == {p \in Nat \X Nat : p[1] < p[2]}
<1>1. IsWellFoundedOn(R, Nat)
  BY NatLessThanWellFounded DEF OpToRel
<1>2. \E x \in T : \A y \in T : ~(<<y, x>> \in R)
  BY <1>1, WFMin
<1> QED BY <1>2

\* A set with 0 and every next number has all numbers.
LEMMA NumberInduction ==
  ASSUME NEW G, 0 \in G, \A n \in Nat : n \in G => n + 1 \in G
  PROVE  Nat \subseteq G
<1>1. SUFFICES ASSUME Nat \ G # {} PROVE FALSE
  OBVIOUS
<1>2. PICK x \in Nat \ G : \A y \in Nat \ G : ~(y < x)
  <2>1. Nat \ G \in SUBSET Nat
    OBVIOUS
  <2> QED BY <1>1, <2>1, LeastNumber
<1>3. x - 1 \in Nat /\ x - 1 < x
  BY <1>2
<1>4. x - 1 \in G
  BY <1>2, <1>3
<1>5. (x - 1) + 1 \in G
  BY <1>3, <1>4
<1> QED BY <1>2, <1>5

\* What holds of no element and is kept by one more holds of a finite set.
LEMMA SubsetInduction ==
  ASSUME NEW S, IsFiniteSet(S), NEW G, {} \in G,
         \A s \in SUBSET S : \A x \in S \ s : s \in G => s \union {x} \in G
  PROVE  S \in G
<1> DEFINE N == {n \in Nat : \A s \in SUBSET S : Cardinality(s) = n => s \in G}
<1>1. \A s \in SUBSET S : IsFiniteSet(s) /\ Cardinality(s) \in Nat
  BY FS_Subset, FS_CardinalityType
<1>2. 0 \in N
  BY <1>1, FS_EmptySet
<1>3. ASSUME NEW n \in Nat, n \in N, NEW s \in SUBSET S, Cardinality(s) = n + 1
      PROVE  s \in G
  <2>1. s # {}
    BY <1>3, FS_EmptySet
  <2>2. PICK x \in s : TRUE
    BY <2>1
  <2>3. Cardinality(s \ {x}) = Cardinality(s) - 1
    BY <1>1, FS_RemoveElement
  <2>4. s \ {x} \in SUBSET S /\ Cardinality(s \ {x}) = n
    BY <1>3, <2>3
  <2>5. s \ {x} \in G
    BY <1>3, <2>4
  <2>6. (s \ {x}) \union {x} \in G
    BY <2>4, <2>5
  <2>7. (s \ {x}) \union {x} = s
    OBVIOUS
  <2> QED BY <2>6, <2>7
<1>4. Nat \subseteq N
  <2>1. \A n \in Nat : n \in N => n + 1 \in N
    BY <1>3
  <2> HIDE DEF N
  <2> QED BY <1>2, <2>1, NumberInduction
<1> QED BY <1>1, <1>4

-----------------------------------------------------------------------------
(***************************************************************************)
(* Sums.                                                                   *)
(***************************************************************************)
SumOver(F, S) == MapThenSumSet(LAMBDA x : F[x], S)

Choice(s) == CHOOSE x \in s : TRUE

\* g has the sum of every part of S.
Folding(F, S, g) ==
    g = [s \in SUBSET S |->
            IF s = {} THEN 0 ELSE F[Choice(s)] + g[s \ {Choice(s)}]]

\* What CHOOSE takes from a part of a finite set leaves a smaller part.
LEMMA ChoiceTypes ==
  ASSUME NEW S, IsFiniteSet(S), NEW s \in SUBSET S, s # {}
  PROVE  /\ Choice(s) \in s /\ Choice(s) \in S
         /\ s \ {Choice(s)} \in SUBSET S
         /\ Cardinality(s) \in Nat /\ Cardinality(s \ {Choice(s)}) \in Nat
         /\ Cardinality(s \ {Choice(s)}) = Cardinality(s) - 1
<1>1. Choice(s) \in s
  BY DEF Choice
<1>2. IsFiniteSet(s)
  BY FS_Subset
<1> QED BY <1>1, <1>2, FS_RemoveElement, FS_CardinalityType

\* The recursion of the fold has a solution.
LEMMA FoldExists ==
  ASSUME NEW S, IsFiniteSet(S), NEW F, \A x \in S : F[x] \in Int
  PROVE  \E g \in [SUBSET S -> Int] : Folding(F, S, g)
<1> DEFINE Step(g) == [s \in SUBSET S |->
                          IF s = {} THEN 0 ELSE F[Choice(s)] + g[s \ {Choice(s)}]]
           Good(n, g) == \A s \in SUBSET S :
                            Cardinality(s) <= n => g[s] = Step(g)[s]
           N == {n \in Nat : \E g \in [SUBSET S -> Int] : Good(n, g)}
<1>1. \A g \in [SUBSET S -> Int] : Step(g) \in [SUBSET S -> Int]
  BY ChoiceTypes
<1>2. \A s \in SUBSET S : /\ IsFiniteSet(s) /\ Cardinality(s) \in Nat
                          /\ Cardinality(s) <= Cardinality(S)
                          /\ Cardinality(s) = 0 <=> s = {}
  BY FS_Subset, FS_CardinalityType, FS_EmptySet
<1>3. 0 \in N
  <2> DEFINE z == [s \in SUBSET S |-> 0]
  <2>1. z \in [SUBSET S -> Int] /\ Good(0, z)
    BY <1>2
  <2> QED BY <2>1
<1>4. ASSUME NEW n \in Nat, n \in N
      PROVE  n + 1 \in N
  <2>1. PICK g \in [SUBSET S -> Int] : Good(n, g)
    BY <1>4
  <2>2. PICK h \in [SUBSET S -> Int] : h = Step(g)
    BY <1>1
  <2>3. ASSUME NEW s \in SUBSET S, Cardinality(s) <= n + 1
        PROVE  h[s] = Step(h)[s]
    <3>1. CASE s = {}
      BY <2>2, <3>1
    <3>2. CASE s # {}
      <4> DEFINE t == s \ {Choice(s)}
      <4>1. t \in SUBSET S /\ Cardinality(t) <= n
        BY <2>3, <3>2, ChoiceTypes
      <4> HIDE DEF t
      <4>2. g[t] = Step(g)[t]
        BY <2>1, <4>1
      <4>3. g[t] = h[t]
        BY <2>2, <4>2
      <4>4. h[s] = F[Choice(s)] + g[t]
        BY <2>2, <3>2 DEF t
      <4>5. Step(h)[s] = F[Choice(s)] + h[t]
        BY <3>2 DEF t
      <4> QED BY <4>3, <4>4, <4>5
    <3> QED BY <3>1, <3>2
  <2>4. Good(n + 1, h)
    BY <2>3
  <2> HIDE DEF Good
  <2> QED BY <2>4
<1>5. Cardinality(S) \in N
  <2>1. Nat \subseteq N
    <3> HIDE DEF N
    <3> QED BY <1>3, <1>4, NumberInduction
  <2>2. Cardinality(S) \in Nat
    BY FS_CardinalityType
  <2> HIDE DEF N
  <2> QED BY <2>1, <2>2
<1>6. PICK g \in [SUBSET S -> Int] : Good(Cardinality(S), g)
  BY <1>5
<1>7. \A s \in SUBSET S : g[s] = Step(g)[s]
  BY <1>2, <1>6
<1>8. g = Step(g)
  BY <1>1, <1>7
<1> QED BY <1>8 DEF Folding

\* There is one sum of every part, whatever it is a part of.
LEMMA FoldsAgree ==
  ASSUME NEW S, IsFiniteSet(S), NEW T \in SUBSET S, NEW F,
         NEW g, Folding(F, S, g), NEW h, Folding(F, T, h)
  PROVE  \A s \in SUBSET T : g[s] = h[s]
<1> DEFINE N == {n \in Nat : \A s \in SUBSET T : Cardinality(s) = n => g[s] = h[s]}
<1>1. /\ IsFiniteSet(T)
      /\ \A s \in SUBSET T : /\ IsFiniteSet(s) /\ Cardinality(s) \in Nat
                             /\ Cardinality(s) = 0 <=> s = {}
  BY FS_Subset, FS_CardinalityType, FS_EmptySet
<1>2. \A s \in SUBSET T :
        /\ g[s] = IF s = {} THEN 0 ELSE F[Choice(s)] + g[s \ {Choice(s)}]
        /\ h[s] = IF s = {} THEN 0 ELSE F[Choice(s)] + h[s \ {Choice(s)}]
  BY DEF Folding
<1>3. 0 \in N
  BY <1>1, <1>2
<1>4. ASSUME NEW n \in Nat, n \in N, NEW s \in SUBSET T, Cardinality(s) = n + 1
      PROVE  g[s] = h[s]
  <2>1. s # {}
    BY <1>1, <1>4
  <2>2. /\ s \ {Choice(s)} \in SUBSET T
        /\ Cardinality(s \ {Choice(s)}) = n
    BY <1>1, <1>4, <2>1, ChoiceTypes
  <2>3. g[s \ {Choice(s)}] = h[s \ {Choice(s)}]
    BY <1>4, <2>2
  <2> QED BY <1>2, <2>1, <2>3
<1>5. Nat \subseteq N
  <2>1. \A n \in Nat : n \in N => n + 1 \in N
    BY <1>4
  <2> HIDE DEF N
  <2> QED BY <1>3, <2>1, NumberInduction
<1> QED BY <1>1, <1>5

\* The fold of the library is one of these.
LEMMA SumIsFold ==
  ASSUME NEW S, IsFiniteSet(S), NEW F, \A x \in S : F[x] \in Int,
         NEW g, Folding(F, S, g)
  PROVE  \A s \in SUBSET S : g[s] \in Int /\ SumOver(F, s) = g[s]
<1>1. ASSUME NEW s \in SUBSET S
      PROVE  g[s] \in Int /\ SumOver(F, s) = g[s]
  <2> DEFINE h == CHOOSE h : Folding(F, s, h)
  <2>1. IsFiniteSet(s) /\ \A x \in s : F[x] \in Int
    BY FS_Subset
  <2>2. PICK f \in [SUBSET s -> Int] : Folding(F, s, f)
    BY <2>1, FoldExists
  <2>3. Folding(F, s, h)
    BY <2>2
  <2>4. SumOver(F, s) = h[s]
    BY DEF SumOver, MapThenSumSet, MapThenFoldSet, Folding, Choice
  <2> HIDE DEF h
  <2>5. s \in SUBSET s
    OBVIOUS
  <2>6. g[s] = f[s]
    BY <2>2, <2>5, FoldsAgree
  <2>7. g[s] = h[s]
    BY <2>3, <2>5, FoldsAgree
  <2> QED BY <2>2, <2>4, <2>6, <2>7
<1> QED BY <1>1

\* It does not matter which element is added last.
LEMMA AnyLast ==
  ASSUME NEW S, IsFiniteSet(S), NEW F, \A x \in S : F[x] \in Int,
         NEW g, Folding(F, S, g)
  PROVE  \A s \in SUBSET S : \A x \in s : g[s] = g[s \ {x}] + F[x]
<1> DEFINE N == {n \in Nat : \A s \in SUBSET S : Cardinality(s) = n =>
                                \A x \in s : g[s] = g[s \ {x}] + F[x]}
<1>1. \A s \in SUBSET S : /\ IsFiniteSet(s) /\ Cardinality(s) \in Nat
                          /\ Cardinality(s) = 0 <=> s = {}
  BY FS_Subset, FS_CardinalityType, FS_EmptySet
<1>2. \A s \in SUBSET S : s # {} => g[s] = F[Choice(s)] + g[s \ {Choice(s)}]
  BY DEF Folding
<1>3. \A s \in SUBSET S : g[s] \in Int
  BY SumIsFold
<1>4. 0 \in N
  BY <1>1
<1>5. ASSUME NEW n \in Nat, n \in N, NEW s \in SUBSET S, Cardinality(s) = n + 1,
             NEW x \in s
      PROVE  g[s] = g[s \ {x}] + F[x]
  <2> DEFINE c == Choice(s)
  <2>1. /\ c \in s
        /\ Cardinality(s \ {c}) = Cardinality(s) - 1
        /\ g[s] = F[c] + g[s \ {c}]
    BY <1>2, ChoiceTypes
  <2> HIDE DEF c, N
  <2>2. /\ c \in s /\ s \ {c} \in SUBSET S /\ s \ {x} \in SUBSET S
        /\ (s \ {c}) \ {x} \in SUBSET S
        /\ Cardinality(s \ {c}) = n
        /\ g[s] = F[c] + g[s \ {c}]
    BY <1>5, <2>1
  <2>3. /\ g[s] \in Int /\ g[s \ {c}] \in Int /\ g[s \ {x}] \in Int
        /\ g[(s \ {c}) \ {x}] \in Int /\ F[c] \in Int /\ F[x] \in Int
    BY <1>3, <2>2
  <2>4. CASE x = c
    BY <2>2, <2>3, <2>4
  <2>5. CASE x # c
    <3>1. g[s \ {c}] = g[(s \ {c}) \ {x}] + F[x]
      BY <1>5, <2>2, <2>5 DEF N
    <3>2. /\ Cardinality(s \ {x}) = n /\ c \in s \ {x}
      BY <1>1, <1>5, <2>2, <2>5, FS_RemoveElement
    <3>3. g[s \ {x}] = g[(s \ {x}) \ {c}] + F[c]
      BY <1>5, <2>2, <3>2 DEF N
    <3>4. (s \ {x}) \ {c} = (s \ {c}) \ {x}
      OBVIOUS
    <3>5. PICK r \in Int : r = g[(s \ {c}) \ {x}]
      BY <2>3
    <3>6. /\ g[s \ {c}] = r + F[x] /\ g[s \ {x}] = r + F[c]
          /\ g[s] = F[c] + g[s \ {c}]
      BY <2>2, <3>1, <3>3, <3>4, <3>5
    <3> QED BY <2>3, <3>6
  <2> QED BY <2>4, <2>5
<1>6. Nat \subseteq N
  <2>1. ASSUME NEW n \in Nat, n \in N
        PROVE  n + 1 \in N
    <3>1. \A s \in SUBSET S : Cardinality(s) = n + 1 =>
             \A x \in s : g[s] = g[s \ {x}] + F[x]
      BY <1>5, <2>1
    <3> QED BY <3>1
  <2> HIDE DEF N
  <2> QED BY <1>4, <2>1, NumberInduction
<1> QED BY <1>1, <1>6

-----------------------------------------------------------------------------
(***************************************************************************)
(* What the proofs use.                                                    *)
(***************************************************************************)
LEMMA SumOfNone ==
  ASSUME NEW F
  PROVE  SumOver(F, {}) = 0
<1>1. IsFiniteSet({})
  BY FS_EmptySet
<1>2. PICK g \in [SUBSET {} -> Int] : Folding(F, {}, g)
  BY <1>1, FoldExists
<1>3. SumOver(F, {}) = g[{}]
  BY <1>1, <1>2, SumIsFold
<1>4. g[{}] = 0
  BY <1>2 DEF Folding
<1> QED BY <1>3, <1>4

\* A sum of integers is an integer.
LEMMA SumType ==
  ASSUME NEW S, IsFiniteSet(S), NEW F, \A x \in S : F[x] \in Int
  PROVE  SumOver(F, S) \in Int
<1>1. PICK g \in [SUBSET S -> Int] : Folding(F, S, g)
  BY FoldExists
<1> QED BY <1>1, SumIsFold

\* A sum grows by what is added to it.
LEMMA SumOfOneMore ==
  ASSUME NEW S, IsFiniteSet(S), NEW x, x \notin S,
         NEW F, \A y \in S \union {x} : F[y] \in Int
  PROVE  SumOver(F, S \union {x}) = SumOver(F, S) + F[x]
<1> DEFINE T == S \union {x}
<1>1. IsFiniteSet(T)
  BY FS_AddElement
<1>2. PICK g \in [SUBSET T -> Int] : Folding(F, T, g)
  BY <1>1, FoldExists
<1>3. /\ T \in SUBSET T /\ S \in SUBSET T /\ x \in T /\ T \ {x} = S
      /\ \A y \in T : F[y] \in Int
  OBVIOUS
<1> HIDE DEF T
<1>4. SumOver(F, T) = g[T] /\ SumOver(F, S) = g[S]
  BY <1>1, <1>2, <1>3, SumIsFold
<1>5. g[T] = g[T \ {x}] + F[x]
  BY <1>1, <1>2, <1>3, AnyLast
<1> QED BY <1>3, <1>4, <1>5 DEF T

\* A sum only depends on what is summed.
LEMMA SumEqual ==
  ASSUME NEW S, IsFiniteSet(S), NEW F, NEW G,
         \A x \in S : F[x] \in Int /\ F[x] = G[x]
  PROVE  SumOver(F, S) = SumOver(G, S)
<1> DEFINE P == {s \in SUBSET S : SumOver(F, s) = SumOver(G, s)}
<1>1. {} \in P
  BY SumOfNone
<1>2. ASSUME NEW s \in SUBSET S, NEW x \in S \ s, s \in P
      PROVE  s \union {x} \in P
  <2>1. IsFiniteSet(s)
    BY FS_Subset
  <2>2. \A y \in s \union {x} : F[y] \in Int /\ G[y] \in Int
    BY <1>2
  <2>3. /\ SumOver(F, s \union {x}) = SumOver(F, s) + F[x]
        /\ SumOver(G, s \union {x}) = SumOver(G, s) + G[x]
    BY <2>1, <2>2, SumOfOneMore
  <2> QED BY <1>2, <2>3
<1>3. S \in P
  <2> HIDE DEF P
  <2> QED BY <1>1, <1>2, SubsetInduction
<1> QED BY <1>3

\* What is summed in two parts is summed.
LEMMA SumOfUnion ==
  ASSUME NEW S, IsFiniteSet(S), NEW T, IsFiniteSet(T), S \intersect T = {},
         NEW F, \A x \in S \union T : F[x] \in Int
  PROVE  SumOver(F, S \union T) = SumOver(F, S) + SumOver(F, T)
<1> DEFINE P == {t \in SUBSET T :
                    SumOver(F, S \union t) = SumOver(F, S) + SumOver(F, t)}
<1>1. {} \in P
  <2>1. S \union {} = S /\ SumOver(F, S) \in Int
    BY SumType
  <2> QED BY <2>1, SumOfNone
<1>2. ASSUME NEW t \in SUBSET T, NEW x \in T \ t, t \in P
      PROVE  t \union {x} \in P
  <2>1. IsFiniteSet(t) /\ IsFiniteSet(S \union t)
    <3>1. IsFiniteSet(t)
      BY FS_Subset
    <3> QED BY <3>1, FS_Union
  <2>2. S \union (t \union {x}) = (S \union t) \union {x} /\ x \notin S \union t
    OBVIOUS
  <2>3. /\ \A y \in t \union {x} : F[y] \in Int
        /\ \A y \in (S \union t) \union {x} : F[y] \in Int
    OBVIOUS
  <2>4. SumOver(F, (S \union t) \union {x}) = SumOver(F, S \union t) + F[x]
    BY <2>1, <2>2, <2>3, SumOfOneMore
  <2>5. SumOver(F, t \union {x}) = SumOver(F, t) + F[x]
    BY <2>1, <2>3, SumOfOneMore
  <2>6. SumOver(F, S) \in Int /\ SumOver(F, t) \in Int /\ F[x] \in Int
    BY <2>1, SumType
  <2>7. SumOver(F, S \union t) = SumOver(F, S) + SumOver(F, t)
    BY <1>2
  <2>8. SumOver(F, (S \union t) \union {x})
        = SumOver(F, S) + SumOver(F, t \union {x})
    BY <2>4, <2>5, <2>6, <2>7
  <2>9. t \union {x} \in SUBSET T
    BY <1>2
  <2> QED BY <2>2, <2>8, <2>9
<1>3. T \in P
  <2> HIDE DEF P
  <2> QED BY <1>1, <1>2, SubsetInduction
<1> QED BY <1>3

\* What is summed by groups is summed, if every element is in a group.
LEMMA SumOfGroups ==
  ASSUME NEW S, IsFiniteSet(S), NEW T, IsFiniteSet(T), NEW key,
         \A x \in S : key[x] \in T,
         NEW F, \A x \in S : F[x] \in Int
  PROVE  SumOver([t \in T |-> SumOver(F, {x \in S : key[x] = t})], T)
         = SumOver(F, S)
<1> DEFINE Group(t) == {x \in S : key[x] = t}
           In(U) == {x \in S : key[x] \in U}
           G == [t \in T |-> SumOver(F, Group(t))]
           P == {U \in SUBSET T : SumOver(G, U) = SumOver(F, In(U))}
<1>1. ASSUME NEW U
      PROVE  IsFiniteSet(In(U)) /\ SumOver(F, In(U)) \in Int
  <2>1. In(U) \in SUBSET S
    OBVIOUS
  <2>2. IsFiniteSet(In(U)) /\ \A x \in In(U) : F[x] \in Int
    BY <2>1, FS_Subset
  <2> HIDE DEF In
  <2> QED BY <2>2, SumType
<1>2. ASSUME NEW t
      PROVE  IsFiniteSet(Group(t)) /\ SumOver(F, Group(t)) \in Int
  <2>1. Group(t) = In({t})
    OBVIOUS
  <2> HIDE DEF Group, In
  <2> QED BY <1>1, <2>1
<1>3. \A t \in T : G[t] \in Int /\ G[t] = SumOver(F, Group(t))
  BY <1>2
<1>4. {} \in P
  <2>1. In({}) = {}
    OBVIOUS
  <2> HIDE DEF In, G
  <2> QED BY <2>1, SumOfNone
<1>5. ASSUME NEW U \in SUBSET T, NEW t \in T \ U, U \in P
      PROVE  U \union {t} \in P
  <2>1. /\ In(U \union {t}) = In(U) \union Group(t)
        /\ In(U) \intersect Group(t) = {}
        /\ \A x \in In(U) \union Group(t) : F[x] \in Int
    OBVIOUS
  <2>2. IsFiniteSet(U) /\ \A u \in U \union {t} : G[u] \in Int
    BY <1>3, FS_Subset
  <2> HIDE DEF In, Group, G
  <2>3. SumOver(F, In(U \union {t})) = SumOver(F, In(U)) + SumOver(F, Group(t))
    BY <1>1, <1>2, <2>1, SumOfUnion
  <2>4. SumOver(G, U \union {t}) = SumOver(G, U) + G[t]
    BY <2>2, SumOfOneMore
  <2> QED BY <1>3, <1>5, <2>3, <2>4
<1>6. T \in P
  <2> HIDE DEF P
  <2> QED BY <1>4, <1>5, SubsetInduction
<1>7. In(T) = S
  OBVIOUS
<1> QED BY <1>6, <1>7

\* A sum over other names.
LEMMA SumOfRenamed ==
  ASSUME NEW S, IsFiniteSet(S), NEW name,
         \A x, y \in S : name[x] = name[y] => x = y,
         NEW F, \A x \in S : F[name[x]] \in Int
  PROVE  /\ IsFiniteSet({name[x] : x \in S})
         /\ SumOver(F, {name[x] : x \in S}) = SumOver([x \in S |-> F[name[x]]], S)
<1> DEFINE Names(s) == {name[x] : x \in s}
           G == [x \in S |-> F[name[x]]]
           P == {s \in SUBSET S : /\ IsFiniteSet(Names(s))
                                  /\ SumOver(F, Names(s)) = SumOver(G, s)}
<1>1. {} \in P
  <2>1. Names({}) = {}
    OBVIOUS
  <2> HIDE DEF Names, G
  <2> QED BY <2>1, SumOfNone, FS_EmptySet
<1>2. ASSUME NEW s \in SUBSET S, NEW x \in S \ s, s \in P
      PROVE  s \union {x} \in P
  <2>1. /\ Names(s \union {x}) = Names(s) \union {name[x]}
        /\ name[x] \notin Names(s)
        /\ \A y \in Names(s) \union {name[x]} : F[y] \in Int
    OBVIOUS
  <2>2. /\ IsFiniteSet(s) /\ \A y \in s \union {x} : G[y] \in Int
        /\ G[x] = F[name[x]]
    BY FS_Subset
  <2> HIDE DEF Names, G
  <2>3. SumOver(F, Names(s) \union {name[x]}) = SumOver(F, Names(s)) + F[name[x]]
    BY <1>2, <2>1, SumOfOneMore
  <2>4. SumOver(G, s \union {x}) = SumOver(G, s) + G[x]
    BY <2>2, SumOfOneMore
  <2>5. IsFiniteSet(Names(s) \union {name[x]})
    BY <1>2, FS_AddElement
  <2> QED BY <1>2, <2>1, <2>2, <2>3, <2>4, <2>5
<1>3. S \in P
  <2> HIDE DEF P
  <2> QED BY <1>1, <1>2, SubsetInduction
<1> QED BY <1>3

\* A set has as many elements as there are ones to add.
LEMMA SumOfOnes ==
  ASSUME NEW S, IsFiniteSet(S), NEW F, \A x \in S : F[x] = 1
  PROVE  SumOver(F, S) = Cardinality(S)
<1> DEFINE P == {s \in SUBSET S : SumOver(F, s) = Cardinality(s)}
<1>1. {} \in P
  BY SumOfNone, FS_EmptySet
<1>2. ASSUME NEW s \in SUBSET S, NEW x \in S \ s, s \in P
      PROVE  s \union {x} \in P
  <2>1. IsFiniteSet(s) /\ \A y \in s \union {x} : F[y] \in Int
    BY FS_Subset
  <2>2. SumOver(F, s \union {x}) = SumOver(F, s) + F[x]
    BY <2>1, SumOfOneMore
  <2>3. Cardinality(s \union {x}) = Cardinality(s) + 1
    BY <2>1, FS_AddElement
  <2> QED BY <1>2, <2>2, <2>3
<1>3. S \in P
  <2> HIDE DEF P
  <2> QED BY <1>1, <1>2, SubsetInduction
<1> QED BY <1>3

\* More that is not negative adds up to no less.
LEMMA SumOfMore ==
  ASSUME NEW T, IsFiniteSet(T), NEW S \in SUBSET T,
         NEW F, \A x \in T : F[x] \in Nat
  PROVE  SumOver(F, S) <= SumOver(F, T)
<1> DEFINE P == {t \in SUBSET (T \ S) : SumOver(F, S) <= SumOver(F, S \union t)}
<1>1. /\ IsFiniteSet(S) /\ IsFiniteSet(T \ S)
      /\ SumOver(F, S) \in Int
  <2>1. IsFiniteSet(S) /\ IsFiniteSet(T \ S) /\ \A x \in S : F[x] \in Int
    BY FS_Subset
  <2> QED BY <2>1, SumType
<1>2. {} \in P
  <2>1. S \union {} = S
    OBVIOUS
  <2> QED BY <1>1, <2>1
<1>3. ASSUME NEW t \in SUBSET (T \ S), NEW x \in (T \ S) \ t, t \in P
      PROVE  t \union {x} \in P
  <2>1. /\ S \union t \in SUBSET T /\ x \notin S \union t
        /\ S \union (t \union {x}) = (S \union t) \union {x}
    OBVIOUS
  <2>2. IsFiniteSet(S \union t) /\ \A y \in (S \union t) \union {x} : F[y] \in Int
    BY <2>1, FS_Subset
  <2>3. SumOver(F, (S \union t) \union {x}) = SumOver(F, S \union t) + F[x]
    BY <2>1, <2>2, SumOfOneMore
  <2>4. SumOver(F, S \union t) \in Int
    BY <2>2, SumType
  <2>5. SumOver(F, S) <= SumOver(F, (S \union t) \union {x})
    <3>1. F[x] \in Nat /\ SumOver(F, S) <= SumOver(F, S \union t)
      BY <1>3
    <3> QED BY <1>1, <2>3, <2>4, <3>1
  <2> QED BY <2>1, <2>5
<1>4. T \ S \in P
  <2> HIDE DEF P
  <2> QED BY <1>1, <1>2, <1>3, SubsetInduction
<1>5. S \union (T \ S) = T
  OBVIOUS
<1> QED BY <1>4, <1>5

\* The fold of the library, of whatever it was made, is the sum over a
\* function.
LEMMA SumIsChosen ==
  ASSUME NEW S, IsFiniteSet(S), NEW F, \A x \in S : F[x] \in Int,
         NEW h, (\E g : Folding(F, S, g)) => Folding(F, S, h)
  PROVE  h[S] = SumOver(F, S)
<1>1. Folding(F, S, h)
  BY FoldExists
<1> QED BY <1>1, SumIsFold

\* A sum over at most two, of which each may be missing.
LEMMA SumOfTwo ==
    ASSUME NEW a, NEW b, NEW S, S \subseteq {a, b}, a # b \/ a \notin S,
           NEW F, \A x \in S : F[x] \in Int
    PROVE  /\ IsFiniteSet(S)
           /\ SumOver(F, S) = (IF a \in S THEN F[a] ELSE 0)
                              + (IF b \in S THEN F[b] ELSE 0)
<1>1. IsFiniteSet(S)
  <2>1. IsFiniteSet({a}) /\ {a, b} = {a} \union {b}
    BY FS_Singleton
  <2>2. IsFiniteSet({a} \union {b})
    BY <2>1, FS_AddElement
  <2> QED BY <2>1, <2>2, FS_Subset
<1>2. SumOver(F, {}) = 0
  BY SumOfNone
<1>3. ASSUME NEW x \in S
      PROVE  SumOver(F, {x}) = F[x] /\ F[x] \in Int
  <2>1. \A y \in {} \union {x} : F[y] \in Int
    OBVIOUS
  <2>2. SumOver(F, {} \union {x}) = SumOver(F, {}) + F[x]
    BY <2>1, SumOfOneMore, FS_EmptySet
  <2>3. {} \union {x} = {x}
    OBVIOUS
  <2> QED BY <1>2, <2>1, <2>2, <2>3
<1>4. CASE a \in S /\ b \in S
  <2>1. \A y \in {a} \union {b} : F[y] \in Int
    BY <1>3, <1>4
  <2>2. IsFiniteSet({a}) /\ b \notin {a}
    BY <1>4, FS_Singleton
  <2>3. SumOver(F, {a} \union {b}) = SumOver(F, {a}) + F[b]
    BY <2>1, <2>2, SumOfOneMore
  <2>4. S = {a} \union {b}
    BY <1>4
  <2> QED BY <1>1, <1>3, <1>4, <2>3, <2>4
<1>5. CASE a \in S /\ b \notin S
  <2>1. S = {a}
    BY <1>5
  <2> QED BY <1>1, <1>3, <1>5, <2>1
<1>6. CASE a \notin S /\ b \in S
  <2>1. S = {b}
    BY <1>6
  <2> QED BY <1>1, <1>3, <1>6, <2>1
<1>7. CASE a \notin S /\ b \notin S
  <2>1. S = {}
    BY <1>7
  <2> QED BY <1>1, <1>2, <1>7, <2>1
<1> QED BY <1>4, <1>5, <1>6, <1>7

\* FS_Image of the library for a function instead of an operator.
LEMMA ImageIsFinite ==
    ASSUME NEW S, IsFiniteSet(S), NEW f, NEW T, T = {f[x] : x \in S}
    PROVE  IsFiniteSet(T)
<1> DEFINE g == [x \in S |-> f[x]]
<1>1. g \in Surjection(S, T)
  BY DEF Surjection
<1> HIDE DEF g
<1> QED BY <1>1, FS_Surjection

-----------------------------------------------------------------------------
(***************************************************************************)
(* Folds over a sequence.                                                  *)
(***************************************************************************)
\* g has what every part of the sequence s folds to, from the left.
Gathering(Op, base, s, g) ==
    g = [p \in SUBSET DOMAIN s |->
            IF p = {} THEN base ELSE Op[<<g[p \ {Max(p)}], s[Max(p)]>>]]

\* What s folds to.
Gathered(Op, base, s) ==
    (CHOOSE g : Gathering(Op, base, s, g))[DOMAIN s]

\* The steps of the fold have the type T.
StepsIn(Op, base, T, X, s) ==
    s \in Seq(X) /\ base \in T /\ Op \in [T \X X -> T]

\* h takes the steps of the fold wherever its values have the type T.
StepsBy(Op, base, T, s, h) ==
    /\ h[{}] = base
    /\ \A p \in SUBSET DOMAIN s :
          p # {} /\ h[p \ {Max(p)}] \in T =>
             h[p] = Op[<<h[p \ {Max(p)}], s[Max(p)]>>]

\* A part of a sequence has a last place, and a smaller part before it.
LEMMA LastPlace ==
  ASSUME NEW n \in Nat, NEW p \in SUBSET (1 .. n), p # {}
  PROVE  /\ Max(p) \in p /\ Max(p) \in 1 .. n /\ \A i \in p : i <= Max(p)
         /\ p \ {Max(p)} \in SUBSET (1 .. n)
         /\ Cardinality(p) \in Nat /\ Cardinality(p \ {Max(p)}) \in Nat
         /\ Cardinality(p \ {Max(p)}) = Cardinality(p) - 1
<1>1. IsFiniteSet(p)
  <2>1. IsFiniteSet(1 .. n)
    BY FS_Interval
  <2> QED BY <2>1, FS_Subset
<1>2. \E m \in p : \A i \in p : m >= i
  <2> DEFINE T == {n - i : i \in p}
  <2>1. T \in SUBSET Nat /\ T # {}
    <3>1. \A i \in p : n - i \in Nat
      OBVIOUS
    <3> QED BY <3>1
  <2>2. PICK x \in T : \A y \in T : ~(y < x)
    BY <2>1, LeastNumber
  <2>3. PICK m \in p : x = n - m
    BY <2>2
  <2>4. ASSUME NEW i \in p
        PROVE  m >= i
    <3>1. ~(n - i < n - m)
      BY <2>2, <2>3
    <3> QED BY <3>1
  <2> QED BY <2>4
<1>3. Max(p) \in p /\ \A i \in p : Max(p) >= i
  BY <1>2 DEF Max
<1> QED BY <1>1, <1>3, FS_RemoveElement, FS_CardinalityType

\* The same of the places of a sequence, and what is there.
LEMMA LastElement ==
  ASSUME NEW X, NEW s \in Seq(X), NEW p \in SUBSET DOMAIN s, p # {}
  PROVE  /\ p \ {Max(p)} \in SUBSET DOMAIN s /\ Max(p) \in DOMAIN s
         /\ s[Max(p)] \in X
<1>1. DOMAIN s = 1 .. Len(s) /\ Len(s) \in Nat
  OBVIOUS
<1>2. p \ {Max(p)} \in SUBSET (1 .. Len(s)) /\ Max(p) \in 1 .. Len(s)
  BY <1>1, LastPlace
<1> QED BY <1>1, <1>2

\* The recursion of the fold has a solution.
LEMMA GatheringExists ==
  ASSUME NEW X, NEW s \in Seq(X), NEW T, NEW base \in T,
         NEW Op \in [T \X X -> T]
  PROVE  \E g \in [SUBSET DOMAIN s -> T] : Gathering(Op, base, s, g)
<1> DEFINE D == DOMAIN s
           Step(g) == [p \in SUBSET D |->
                 IF p = {} THEN base ELSE Op[<<g[p \ {Max(p)}], s[Max(p)]>>]]
           Good(n, g) == \A p \in SUBSET D :
                            Cardinality(p) <= n => g[p] = Step(g)[p]
           N == {n \in Nat : \E g \in [SUBSET D -> T] : Good(n, g)}
<1>1. /\ D = 1 .. Len(s) /\ Len(s) \in Nat /\ IsFiniteSet(D)
      /\ \A i \in D : s[i] \in X
  BY FS_Interval
<1>2. \A g \in [SUBSET D -> T] : Step(g) \in [SUBSET D -> T]
  <2> SUFFICES ASSUME NEW g \in [SUBSET D -> T], NEW p \in SUBSET D
               PROVE  (IF p = {} THEN base ELSE Op[<<g[p \ {Max(p)}], s[Max(p)]>>]) \in T
    OBVIOUS
  <2>1. CASE p # {}
    <3>1. p \ {Max(p)} \in SUBSET D /\ Max(p) \in D
      BY <1>1, <2>1, LastPlace
    <3>2. g[p \ {Max(p)}] \in T /\ s[Max(p)] \in X
      BY <1>1, <3>1
    <3> QED BY <3>2, <2>1
  <2> QED BY <2>1
<1>3. \A p \in SUBSET D : /\ IsFiniteSet(p) /\ Cardinality(p) \in Nat
                          /\ Cardinality(p) <= Cardinality(D)
                          /\ Cardinality(p) = 0 <=> p = {}
  BY <1>1, FS_Subset, FS_CardinalityType, FS_EmptySet
<1>4. 0 \in N
  <2> DEFINE z == [p \in SUBSET D |-> base]
  <2>1. z \in [SUBSET D -> T] /\ Good(0, z)
    BY <1>3
  <2> QED BY <2>1
<1>5. ASSUME NEW n \in Nat, n \in N
      PROVE  n + 1 \in N
  <2>1. PICK g \in [SUBSET D -> T] : Good(n, g)
    BY <1>5
  <2>2. PICK h \in [SUBSET D -> T] : h = Step(g)
    BY <1>2
  <2>3. ASSUME NEW p \in SUBSET D, Cardinality(p) <= n + 1
        PROVE  h[p] = Step(h)[p]
    <3>1. CASE p = {}
      BY <2>2, <3>1
    <3>2. CASE p # {}
      <4> DEFINE q == p \ {Max(p)}
      <4>1. q \in SUBSET D /\ Cardinality(q) <= n
        <5>1. /\ q \in SUBSET D /\ Cardinality(p) \in Nat
              /\ Cardinality(q) = Cardinality(p) - 1
          BY <1>1, <3>2, LastPlace
        <5> QED BY <2>3, <5>1
      <4> HIDE DEF q
      <4>2. g[q] = Step(g)[q]
        BY <2>1, <4>1
      <4>3. g[q] = h[q]
        BY <2>2, <4>2
      <4>4. h[p] = Op[<<g[q], s[Max(p)]>>]
        BY <2>2, <3>2 DEF q
      <4>5. Step(h)[p] = Op[<<h[q], s[Max(p)]>>]
        BY <3>2 DEF q
      <4> QED BY <4>3, <4>4, <4>5
    <3> QED BY <3>1, <3>2
  <2>4. Good(n + 1, h)
    BY <2>3
  <2> HIDE DEF Good
  <2> QED BY <2>4
<1>6. Cardinality(D) \in N
  <2>1. Nat \subseteq N
    <3> HIDE DEF N
    <3> QED BY <1>4, <1>5, NumberInduction
  <2>2. Cardinality(D) \in Nat
    BY <1>1, FS_CardinalityType
  <2> HIDE DEF N
  <2> QED BY <2>1, <2>2
<1>7. PICK g \in [SUBSET D -> T] : Good(Cardinality(D), g)
  BY <1>6
<1>8. \A p \in SUBSET D : g[p] = Step(g)[p]
  BY <1>3, <1>7
<1>9. g = Step(g)
  BY <1>2, <1>8
<1> QED BY <1>9 DEF Gathering

\* What is gathered of the places of both of two sequences is the same.
LEMMA GatheringsAgree ==
  ASSUME NEW s, NEW n \in Nat, DOMAIN s = 1 .. n,
         NEW t, NEW m \in 0 .. n, DOMAIN t = 1 .. m,
         \A i \in 1 .. m : s[i] = t[i], NEW base, NEW Op,
         NEW g, Gathering(Op, base, s, g), NEW h, Gathering(Op, base, t, h)
  PROVE  \A p \in SUBSET (1 .. m) : g[p] = h[p]
<1> DEFINE N == {k \in Nat : \A p \in SUBSET (1 .. m) :
                                Cardinality(p) = k => g[p] = h[p]}
<1>1. \A p \in SUBSET (1 .. m) : /\ IsFiniteSet(p) /\ Cardinality(p) \in Nat
                                 /\ Cardinality(p) = 0 <=> p = {}
  <2>1. IsFiniteSet(1 .. m)
    BY FS_Interval
  <2> QED BY <2>1, FS_Subset, FS_CardinalityType, FS_EmptySet
<1>2. SUBSET (1 .. m) \subseteq SUBSET (1 .. n)
  OBVIOUS
<1>3. \A p \in SUBSET (1 .. m) :
        /\ g[p] = IF p = {} THEN base ELSE Op[<<g[p \ {Max(p)}], s[Max(p)]>>]
        /\ h[p] = IF p = {} THEN base ELSE Op[<<h[p \ {Max(p)}], t[Max(p)]>>]
  BY <1>2 DEF Gathering
<1>4. 0 \in N
  BY <1>1, <1>3
<1>5. ASSUME NEW k \in Nat, k \in N, NEW p \in SUBSET (1 .. m),
             Cardinality(p) = k + 1
      PROVE  g[p] = h[p]
  <2>1. p # {}
    BY <1>1, <1>5
  <2>2. /\ p \ {Max(p)} \in SUBSET (1 .. m) /\ Max(p) \in 1 .. m
        /\ Cardinality(p \ {Max(p)}) = k
    <3>1. m \in Nat
      OBVIOUS
    <3>2. /\ p \ {Max(p)} \in SUBSET (1 .. m) /\ Max(p) \in 1 .. m
          /\ Cardinality(p \ {Max(p)}) = Cardinality(p) - 1
      BY <2>1, <3>1, LastPlace
    <3> QED BY <1>5, <3>2
  <2>3. g[p \ {Max(p)}] = h[p \ {Max(p)}] /\ s[Max(p)] = t[Max(p)]
    BY <1>5, <2>2
  <2> QED BY <1>3, <2>1, <2>3
<1>6. Nat \subseteq N
  <2>1. ASSUME NEW k \in Nat, k \in N
        PROVE  k + 1 \in N
    <3>1. \A p \in SUBSET (1 .. m) : Cardinality(p) = k + 1 => g[p] = h[p]
      BY <1>5, <2>1
    <3> QED BY <3>1
  <2> HIDE DEF N
  <2> QED BY <1>4, <2>1, NumberInduction
<1> QED BY <1>1, <1>6

\* Nothing folds to where the fold begins.
LEMMA GatheredOfNone ==
  ASSUME NEW X, NEW T, NEW base \in T, NEW Op \in [T \X X -> T]
  PROVE  Gathered(Op, base, <<>>) = base
<1> DEFINE h == CHOOSE g : Gathering(Op, base, <<>>, g)
<1>1. Gathering(Op, base, <<>>, h)
  <2>1. <<>> \in Seq(X)
    OBVIOUS
  <2> QED BY <2>1, GatheringExists
<1>2. DOMAIN <<>> = {}
  OBVIOUS
<1>3. h[{}] = base
  BY <1>1, <1>2 DEF Gathering
<1> QED BY <1>2, <1>3 DEF Gathered

\* A fold of the library, whose steps are these as long as the types are
\* right, is what is gathered.
LEMMA GatheredIsChosen ==
  ASSUME NEW X, NEW T, NEW Op, NEW base, NEW s, StepsIn(Op, base, T, X, s),
         NEW h, StepsBy(Op, base, T, s, h)
  PROVE  h[DOMAIN s] = Gathered(Op, base, s) /\ h[DOMAIN s] \in T
<1>1. s \in Seq(X) /\ base \in T /\ Op \in [T \X X -> T]
  BY DEF StepsIn
<1> DEFINE D == DOMAIN s
           k == CHOOSE g : Gathering(Op, base, s, g)
           N == {n \in Nat : \A p \in SUBSET D :
                                Cardinality(p) = n => k[p] = h[p] /\ h[p] \in T}
<1>2. /\ D = 1 .. Len(s) /\ Len(s) \in Nat /\ IsFiniteSet(D)
      /\ \A i \in D : s[i] \in X
  BY <1>1, FS_Interval
<1>3. \A p \in SUBSET D : /\ IsFiniteSet(p) /\ Cardinality(p) \in Nat
                          /\ Cardinality(p) = 0 <=> p = {}
  BY <1>2, FS_Subset, FS_CardinalityType, FS_EmptySet
<1>4. Gathering(Op, base, s, k)
  BY <1>1, GatheringExists
<1>5. \A p \in SUBSET D :
        k[p] = IF p = {} THEN base ELSE Op[<<k[p \ {Max(p)}], s[Max(p)]>>]
  BY <1>4 DEF Gathering
<1>6. 0 \in N
  BY <1>1, <1>3, <1>5 DEF StepsBy
<1>7. ASSUME NEW n \in Nat, n \in N, NEW p \in SUBSET D, Cardinality(p) = n + 1
      PROVE  k[p] = h[p] /\ h[p] \in T
  <2>1. p # {}
    BY <1>3, <1>7
  <2>2. /\ p \ {Max(p)} \in SUBSET D /\ Max(p) \in D
        /\ Cardinality(p \ {Max(p)}) = n
    <3>1. /\ p \ {Max(p)} \in SUBSET D /\ Max(p) \in D
          /\ Cardinality(p \ {Max(p)}) = Cardinality(p) - 1
      BY <1>2, <2>1, LastPlace
    <3> QED BY <1>7, <3>1
  <2>3. k[p \ {Max(p)}] = h[p \ {Max(p)}] /\ h[p \ {Max(p)}] \in T
    BY <1>7, <2>2
  <2>4. h[p] = Op[<<h[p \ {Max(p)}], s[Max(p)]>>] /\ s[Max(p)] \in X
    BY <1>1, <1>2, <2>1, <2>2, <2>3 DEF StepsBy
  <2>5. k[p] = Op[<<k[p \ {Max(p)}], s[Max(p)]>>]
    BY <1>5, <2>1
  <2> QED BY <1>1, <2>3, <2>4, <2>5
<1>8. Nat \subseteq N
  <2>1. ASSUME NEW n \in Nat, n \in N
        PROVE  n + 1 \in N
    <3>1. \A p \in SUBSET D : Cardinality(p) = n + 1 => k[p] = h[p] /\ h[p] \in T
      BY <1>7, <2>1
    <3> QED BY <3>1
  <2> HIDE DEF N
  <2> QED BY <1>6, <2>1, NumberInduction
<1>9. D \in SUBSET D /\ Cardinality(D) \in Nat
  BY <1>3
<1>10. k[D] = h[D] /\ h[D] \in T
  BY <1>8, <1>9
<1> QED BY <1>10 DEF Gathered

\* One more element is one more step, and what is gathered keeps its type.
LEMMA GatheredOfOneMore ==
  ASSUME NEW X, NEW T, NEW Op, NEW base, NEW s, StepsIn(Op, base, T, X, s),
         NEW x \in X
  PROVE  /\ Gathered(Op, base, s) \in T
         /\ Gathered(Op, base, Append(s, x)) = Op[<<Gathered(Op, base, s), x>>]
<1> DEFINE t == Append(s, x)
           n == Len(s)
           h == CHOOSE g : Gathering(Op, base, s, g)
           k == CHOOSE g : Gathering(Op, base, t, g)
<1>1. s \in Seq(X) /\ base \in T /\ Op \in [T \X X -> T]
  BY DEF StepsIn
<1>2. /\ t \in Seq(X) /\ n \in Nat /\ DOMAIN s = 1 .. n
      /\ DOMAIN t = 1 .. n + 1 /\ t[n + 1] = x
      /\ \A i \in 1 .. n : t[i] = s[i]
  BY <1>1
<1>3. Gathering(Op, base, s, h)
  BY <1>1, GatheringExists
<1>4. Gathering(Op, base, t, k)
  BY <1>1, <1>2, GatheringExists
<1> HIDE DEF t, n, h, k
<1>5. n \in 0 .. n + 1 /\ n \in 0 .. n /\ n + 1 \in Nat
  BY <1>2
<1>6. k[1 .. n] = h[1 .. n]
  <2>1. \A p \in SUBSET (1 .. n) : k[p] = h[p]
    BY <1>2, <1>3, <1>4, <1>5, GatheringsAgree
  <2> QED BY <2>1
<1>7. Max(1 .. n + 1) = n + 1 /\ (1 .. n + 1) \ {n + 1} = 1 .. n
      /\ 1 .. n + 1 # {}
  <2>1. 1 .. n + 1 \in SUBSET (1 .. n + 1) /\ n + 1 \in 1 .. n + 1
    BY <1>2
  <2>2. Max(1 .. n + 1) \in 1 .. n + 1 /\ n + 1 <= Max(1 .. n + 1)
    BY <1>5, <2>1, LastPlace
  <2> QED BY <1>2, <2>1, <2>2
<1>8. k[1 .. n + 1] = Op[<<k[1 .. n], x>>]
  <2>1. k[1 .. n + 1] = Op[<<k[(1 .. n + 1) \ {Max(1 .. n + 1)}], t[Max(1 .. n + 1)]>>]
    BY <1>2, <1>4, <1>7 DEF Gathering
  <2> QED BY <1>2, <1>7, <2>1
<1>9. Gathered(Op, base, s) = h[1 .. n] /\ Gathered(Op, base, t) = k[1 .. n + 1]
  BY <1>2 DEF Gathered, h, k
<1>10. Gathered(Op, base, s) \in T
  <2>1. StepsBy(Op, base, T, s, h)
    BY <1>3 DEF Gathering, StepsBy
  <2>2. h[DOMAIN s] = Gathered(Op, base, s) /\ h[DOMAIN s] \in T
    BY <2>1, GatheredIsChosen
  <2> QED BY <1>2, <1>9, <2>2
<1> QED BY <1>6, <1>8, <1>9, <1>10 DEF t

-----------------------------------------------------------------------------
(***************************************************************************)
(* Sequences.                                                              *)
(***************************************************************************)
\* What holds of the empty sequence and is kept by one more element holds of
\* every sequence.
LEMMA SequenceInduction ==
  ASSUME NEW X, NEW G, <<>> \in G,
         \A s \in Seq(X) : \A x \in X : s \in G => Append(s, x) \in G
  PROVE  Seq(X) \subseteq G
<1> DEFINE N == {n \in Nat : \A s \in Seq(X) : Len(s) = n => s \in G}
<1>1. 0 \in N
  BY EmptySeq
<1>2. ASSUME NEW n \in Nat, n \in N, NEW s \in Seq(X), Len(s) = n + 1
      PROVE  s \in G
  <2> DEFINE t == SubSeq(s, 1, n)
             x == s[n + 1]
  <2>1. t \in Seq(X) /\ x \in X /\ Len(t) = n
    BY <1>2
  <2>2. s = Append(t, x)
    BY <1>2
  <2> HIDE DEF t, x
  <2>3. t \in G
    BY <1>2, <2>1
  <2> QED BY <2>1, <2>2, <2>3
<1>3. Nat \subseteq N
  <2>1. ASSUME NEW n \in Nat, n \in N
        PROVE  n + 1 \in N
    <3>1. \A s \in Seq(X) : Len(s) = n + 1 => s \in G
      BY <1>2, <2>1
    <3> QED BY <3>1
  <2> HIDE DEF N
  <2> QED BY <1>1, <2>1, NumberInduction
<1> QED BY <1>3

\* One more element after two sequences is one more after the second.
LEMMA JoinedOneMore ==
  ASSUME NEW X, NEW a \in Seq(X), NEW b \in Seq(X), NEW x \in X
  PROVE  /\ a \o b \in Seq(X) /\ Append(b, x) \in Seq(X)
         /\ Append(a, x) = a \o <<x>>
         /\ a \o Append(b, x) = Append(a \o b, x)
<1>1. ASSUME NEW s \in Seq(X)
      PROVE  Append(s, x) \in Seq(X) /\ Append(s, x) = s \o <<x>>
  OBVIOUS
<1>2. a \o b \in Seq(X) /\ <<x>> \in Seq(X)
  OBVIOUS
<1>3. (a \o b) \o <<x>> = a \o (b \o <<x>>)
  BY <1>2, ConcatAssociative
<1> QED BY <1>1, <1>2, <1>3

\* So is another last element.
LEMMA JoinedOtherLast ==
  ASSUME NEW X, NEW a \in Seq(X), NEW b \in Seq(X), b # <<>>, NEW x \in X
  PROVE  /\ (a \o b)[Len(a \o b)] = b[Len(b)]
         /\ [a \o b EXCEPT ![Len(a \o b)] = x]
            = a \o [b EXCEPT ![Len(b)] = x]
<1> DEFINE ab == a \o b
           y == [ab EXCEPT ![Len(ab)] = x]
           z == [b EXCEPT ![Len(b)] = x]
<1>1. /\ Len(a) \in Nat /\ Len(b) \in Nat \ {0}
      /\ ab \in Seq(X) /\ Len(ab) = Len(a) + Len(b)
      /\ \A i \in 1 .. Len(a) + Len(b) :
            ab[i] = IF i <= Len(a) THEN a[i] ELSE b[i - Len(a)]
  BY EmptySeq, ConcatProperties
<1> HIDE DEF ab
<1>2. /\ y \in Seq(X) /\ Len(y) = Len(ab)
      /\ \A i \in 1 .. Len(ab) : y[i] = IF i = Len(ab) THEN x ELSE ab[i]
  BY <1>1, ExceptSeq
<1>3. /\ z \in Seq(X) /\ Len(z) = Len(b)
      /\ \A i \in 1 .. Len(b) : z[i] = IF i = Len(b) THEN x ELSE b[i]
  BY <1>1, ExceptSeq
<1> HIDE DEF y, z
<1>4. /\ a \o z \in Seq(X) /\ Len(a \o z) = Len(a) + Len(z)
      /\ \A i \in 1 .. Len(a) + Len(z) :
            (a \o z)[i] = IF i <= Len(a) THEN a[i] ELSE z[i - Len(a)]
  BY <1>3, ConcatProperties
<1>5. \A i \in 1 .. Len(y) : y[i] = (a \o z)[i]
  <2>1. Len(y) = Len(a) + Len(b) /\ Len(y) \in Nat /\ Len(z) = Len(b)
    BY <1>1, <1>2, <1>3
  <2>2. ASSUME NEW i \in 1 .. Len(y), i <= Len(a)
        PROVE  y[i] = (a \o z)[i]
    <3>1. i # Len(ab) /\ i \in 1 .. Len(ab) /\ i \in 1 .. Len(a) + Len(b)
      BY <1>1, <2>1, <2>2
    <3>2. y[i] = a[i]
      BY <1>1, <1>2, <2>2, <3>1
    <3>3. (a \o z)[i] = a[i]
      BY <1>4, <2>1, <2>2, <3>1
    <3> QED BY <3>2, <3>3
  <2>3. ASSUME NEW i \in 1 .. Len(y), ~(i <= Len(a))
        PROVE  y[i] = (a \o z)[i]
    <3>1. PICK j \in 1 .. Len(b) : j = i - Len(a)
      <4>1. /\ i \in Nat /\ i <= Len(a) + Len(b) /\ ~(i <= Len(a))
            /\ Len(a) \in Nat /\ Len(b) \in Nat
        BY <1>1, <2>1, <2>3
      <4>2. i - Len(a) \in 1 .. Len(b)
        BY <4>1
      <4> QED BY <4>2
    <3>2. /\ i \in 1 .. Len(ab) /\ i \in 1 .. Len(a) + Len(b)
          /\ i = Len(ab) <=> j = Len(b)
      BY <1>1, <2>1, <3>1
    <3>3. y[i] = IF j = Len(b) THEN x ELSE b[j]
      BY <1>1, <1>2, <2>3, <3>1, <3>2
    <3>4. (a \o z)[i] = z[j]
      BY <1>4, <2>1, <2>3, <3>1, <3>2
    <3> QED BY <1>3, <3>1, <3>3, <3>4
  <2> QED BY <2>2, <2>3
<1>6. y = a \o z
  <2>1. PICK v : v = a \o z
    OBVIOUS
  <2>2. /\ v \in Seq(X) /\ Len(y) = Len(v)
        /\ \A i \in 1 .. Len(y) : y[i] = v[i]
    BY <1>1, <1>2, <1>3, <1>4, <1>5, <2>1
  <2>3. y = v
    BY <1>2, <2>2, SeqEqual
  <2> QED BY <2>1, <2>3
<1>7. ab[Len(ab)] = b[Len(b)]
  BY <1>1
<1> QED BY <1>6, <1>7 DEF ab, y, z
=============================================================================
