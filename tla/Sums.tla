-------------------------------- MODULE Sums --------------------------------
(***************************************************************************)
(* Lemmas about sums over finite sets.  MapThenSumSet of the library is    *)
(* defined by a function on the subsets of the set that takes away one     *)
(* element after the other; what it adds up does not depend on the order.  *)
(*                                                                         *)
(* The lemmas are about a function `w` of weights and the function `g` of  *)
(* the sums; an induction is an argument about the least number of         *)
(* elements of a set for which a claim fails.                              *)
(***************************************************************************)
EXTENDS Integers, FiniteSetsExt, FiniteSetTheorems, WellFoundedInduction, TLAPS

LEMMA LeastNumber ==
    ASSUME NEW T \in SUBSET Nat, T # {}
    PROVE  \E x \in T : \A y \in T : x <= y
  <1>1. \E x \in T : \A y \in T : ~ (<<y, x>> \in OpToRel(<, Nat))
    BY WFMin, NatLessThanWellFounded, Zenon
  <1>2. PICK x \in T : \A y \in T : ~ (<<y, x>> \in OpToRel(<, Nat))
    BY <1>1
  <1>3. ASSUME NEW y \in T PROVE x <= y
    <2>1. x \in Nat /\ y \in Nat
      OBVIOUS
    <2>2. ~ (y < x)
      BY <1>2, <2>1, Zenon DEF OpToRel
    <2>. QED  BY <2>1, <2>2
  <1>. QED  BY <1>3

\* Of the subsets of a finite set for which a claim fails, one that has the fewest
\* elements.
LEMMA SmallestSubset ==
    ASSUME NEW S, IsFiniteSet(S), NEW F \in SUBSET SUBSET S, F # {}
    PROVE  \E s \in F : \A t \in SUBSET S : Cardinality(t) < Cardinality(s) => t \notin F
  <1> DEFINE T == {Cardinality(s) : s \in F}
  <1>1. \A s \in SUBSET S : Cardinality(s) \in Nat
    BY FS_Subset, FS_CardinalityType
  <1>2. T \in SUBSET Nat /\ T # {}
    BY <1>1
  <1>3. PICK n \in T : \A k \in T : n <= k
    BY <1>2, LeastNumber
  <1>4. PICK s \in F : n = Cardinality(s)
    BY <1>3
  <1>5. ASSUME NEW t \in F PROVE ~ (Cardinality(t) < Cardinality(s))
    BY <1>1, <1>3, <1>4, <1>5
  <1>. QED  BY <1>5

-----------------------------------------------------------------------------
\* `c` says which element is taken away first.
Chooses(c, S) == \A s \in SUBSET S : s # {} => c[s] \in s

\* `g` gives the sum of the weights of each subset.
SumsUp(g, w, c, S) ==
    /\ g[{}] = 0
    /\ \A s \in SUBSET S : s # {} => g[s] = w[c[s]] + g[s \ {c[s]}]

LEMMA SumsUpAt ==
    ASSUME NEW S, NEW c, NEW w, NEW g, SumsUp(g, w, c, S), NEW s \in SUBSET S, s # {}
    PROVE  g[s] = w[c[s]] + g[s \ {c[s]}]
  BY DEF SumsUp

LEMMA OneLess ==
    ASSUME NEW S, IsFiniteSet(S), NEW s \in SUBSET S, NEW x \in s
    PROVE  /\ s \ {x} \in SUBSET S /\ IsFiniteSet(s)
           /\ Cardinality(s) \in Nat /\ Cardinality(s \ {x}) \in Nat
           /\ Cardinality(s \ {x}) = Cardinality(s) - 1
  <1>1. IsFiniteSet(s) /\ IsFiniteSet(s \ {x})
    BY FS_Subset
  <1>. QED  BY <1>1, FS_RemoveElement, FS_CardinalityType

LEMMA SumExists ==
    ASSUME NEW S, IsFiniteSet(S), NEW c, Chooses(c, S), NEW w, \A x \in S : w[x] \in Int
    PROVE  \E g \in [SUBSET S -> Int] : SumsUp(g, w, c, S)
  <1> DEFINE UpTo(g, n) == \A s \in SUBSET S : s # {} /\ Cardinality(s) <= n =>
                               g[s] = w[c[s]] + g[s \ {c[s]}]
             OK(n) == \E g \in [SUBSET S -> Int] : g[{}] = 0 /\ UpTo(g, n)
             Bad == {n \in Nat : ~ OK(n)}
  <1>1. \A s \in SUBSET S : IsFiniteSet(s) /\ Cardinality(s) \in Nat
    BY FS_Subset, FS_CardinalityType
  <1>2. \A s \in SUBSET S : s # {} => c[s] \in s /\ s \ {c[s]} \in SUBSET S
           /\ Cardinality(s) # 0 /\ Cardinality(s \ {c[s]}) = Cardinality(s) - 1
    BY <1>1, OneLess, FS_EmptySet DEF Chooses
  <1>3. Bad = {}
    <2> SUFFICES ASSUME Bad # {} PROVE FALSE
      OBVIOUS
    <2>1. PICK n \in Bad : \A k \in Bad : n <= k
      BY LeastNumber
    <2>2. n \in Nat /\ ~ OK(n)
      BY <2>1
    <2>3. CASE n = 0
      <3> DEFINE g == [s \in SUBSET S |-> 0]
      <3>1. g \in [SUBSET S -> Int] /\ g[{}] = 0 /\ UpTo(g, n)
        <4>1. g \in [SUBSET S -> Int] /\ g[{}] = 0
          OBVIOUS
        <4>2. ASSUME NEW s \in SUBSET S, s # {} PROVE ~ (Cardinality(s) <= n)
          <5>1. Cardinality(s) \in Nat /\ Cardinality(s) # 0
            BY <1>1, <1>2, <4>2
          <5>. QED  BY ONLY <5>1, <2>3
        <4>. QED  BY <4>1, <4>2
      <3>. QED  BY <2>2, <3>1
    <2>4. CASE n # 0
      <3>1. n - 1 \in Nat /\ n - 1 \notin Bad
        <4> HIDE DEF Bad
        <4>. QED  BY <2>1, <2>2, <2>4
      <3>2. PICK g \in [SUBSET S -> Int] : g[{}] = 0 /\ UpTo(g, n - 1)
        BY <3>1
      <3> DEFINE h == [s \in SUBSET S |-> IF s # {} /\ Cardinality(s) = n
                                          THEN w[c[s]] + g[s \ {c[s]}] ELSE g[s]]
      <3>3. h \in [SUBSET S -> Int] /\ h[{}] = 0
        BY <1>2, <3>2
      <3>4. ASSUME NEW s \in SUBSET S, s # {}, Cardinality(s) <= n
            PROVE  h[s] = w[c[s]] + h[s \ {c[s]}]
        <4>1. h[s \ {c[s]}] = g[s \ {c[s]}]
          BY <1>1, <1>2, <2>2, <3>4
        <4>2. CASE Cardinality(s) = n
          BY <3>4, <4>1, <4>2
        <4>3. CASE Cardinality(s) # n
          <5>1. Cardinality(s) <= n - 1
            BY <1>1, <2>2, <3>4, <4>3
          <5>. QED  BY <3>2, <3>4, <4>1, <4>3, <5>1
        <4>. QED  BY <4>2, <4>3
      <3> HIDE DEF h
      <3>5. OK(n)
        BY <3>3, <3>4
      <3>. QED  BY <2>2, <3>5
    <2>. QED  BY <2>3, <2>4
  <1>4. Cardinality(S) \in Nat /\ \A s \in SUBSET S : Cardinality(s) <= Cardinality(S)
    BY <1>1, FS_Subset
  <1>5. PICK g \in [SUBSET S -> Int] : g[{}] = 0 /\ UpTo(g, Cardinality(S))
    BY <1>3, <1>4
  <1>6. SumsUp(g, w, c, S)
    BY <1>4, <1>5 DEF SumsUp
  <1>. QED  BY <1>6

\* Two functions of the subsets are the same if each step down says so.
StepsAgree(f, g, c, S) ==
    \A s \in SUBSET S : s = {} \/ f[s \ {c[s]}] = g[s \ {c[s]}] => f[s] = g[s]

LEMMA SameByRemoval ==
    ASSUME NEW S, IsFiniteSet(S), NEW c, Chooses(c, S), NEW f, NEW g, StepsAgree(f, g, c, S)
    PROVE  \A s \in SUBSET S : f[s] = g[s]
  <1> DEFINE F == {s \in SUBSET S : f[s] # g[s]}
  <1> SUFFICES ASSUME F # {} PROVE FALSE
    OBVIOUS
  <1>1. PICK s \in F : \A t \in SUBSET S : Cardinality(t) < Cardinality(s) => t \notin F
    <2>1. F \in SUBSET SUBSET S
      OBVIOUS
    <2> HIDE DEF F
    <2>. QED  BY <2>1, SmallestSubset
  <1>2. s \in SUBSET S /\ s # {} /\ f[s] # g[s]
    BY DEF StepsAgree
  <1>3. c[s] \in s
    BY <1>2 DEF Chooses
  <1>4. s \ {c[s]} \in SUBSET S /\ Cardinality(s \ {c[s]}) < Cardinality(s)
    <2>1. /\ Cardinality(s) \in Nat /\ Cardinality(s \ {c[s]}) \in Nat
          /\ Cardinality(s \ {c[s]}) = Cardinality(s) - 1
      BY <1>2, <1>3, OneLess
    <2>. QED  BY <1>2, <2>1
  <1>5. f[s \ {c[s]}] = g[s \ {c[s]}]
    BY <1>1, <1>4
  <1>. QED  BY <1>2, <1>5 DEF StepsAgree

\* There is one function of the sums only, even for a larger set.
Agree(v, w, S) == \A x \in S : v[x] = w[x]

LEMMA SumUnique ==
    ASSUME NEW S, NEW T, S \subseteq T, IsFiniteSet(S), NEW c, Chooses(c, S), NEW v, NEW w, Agree(v, w, S),
           NEW g, SumsUp(g, v, c, S), NEW h, SumsUp(h, w, c, T)
    PROVE  \A s \in SUBSET S : g[s] = h[s]
  <1>1. ASSUME NEW s \in SUBSET S, s = {} \/ g[s \ {c[s]}] = h[s \ {c[s]}] PROVE g[s] = h[s]
    BY <1>1 DEF SumsUp, Chooses, Agree
  <1>2. StepsAgree(g, h, c, S)
    BY <1>1 DEF StepsAgree
  <1>. QED  BY <1>2, SameByRemoval

\* Whatever is taken away first.
Whole(g, S) == \A s \in SUBSET S : g[s] \in Int

LEMMA SumAnyOrder ==
    ASSUME NEW S, IsFiniteSet(S), NEW c, Chooses(c, S), NEW w,
           \A x \in S : w[x] \in Int, NEW g, Whole(g, S), SumsUp(g, w, c, S),
           NEW s \in SUBSET S, NEW x \in s
    PROVE  g[s] = w[x] + g[s \ {x}]
  <1> DEFINE F == {r \in SUBSET S : \E y \in r : g[r] # w[y] + g[r \ {y}]}
  <1> SUFFICES ASSUME F # {} PROVE FALSE
    OBVIOUS
  <1>1. PICK q \in F : \A t \in SUBSET S : Cardinality(t) < Cardinality(q) => t \notin F
    <2>1. F \in SUBSET SUBSET S
      OBVIOUS
    <2> HIDE DEF F
    <2>. QED  BY <2>1, SmallestSubset
  <1>2. PICK y \in q : g[q] # w[y] + g[q \ {y}]
    BY <1>1
  <1> DEFINE d == c[q]
             r == q \ {d, y}
  <1>3. q \in SUBSET S /\ d \in q /\ g[q] = w[d] + g[q \ {d}]
    BY <1>2 DEF SumsUp, Chooses
  <1>4. y # d
    BY <1>2, <1>3
  <1>5. /\ q \ {d} \in SUBSET S /\ Cardinality(q \ {d}) < Cardinality(q)
        /\ q \ {y} \in SUBSET S /\ Cardinality(q \ {y}) < Cardinality(q)
    <2>1. ASSUME NEW z \in q PROVE q \ {z} \in SUBSET S /\ Cardinality(q \ {z}) < Cardinality(q)
      <3>1. /\ Cardinality(q) \in Nat /\ Cardinality(q \ {z}) \in Nat
            /\ Cardinality(q \ {z}) = Cardinality(q) - 1
        BY <1>3, OneLess
      <3>. QED  BY <1>3, <3>1
    <2>. QED  BY <1>2, <1>3, <2>1
  <1>6. g[q \ {d}] = w[y] + g[r]
    <2>1. (q \ {d}) \ {y} = r /\ y \in q \ {d}
      BY <1>2, <1>4
    <2>2. g[q \ {d}] = w[y] + g[(q \ {d}) \ {y}]
      BY <1>1, <1>5, <2>1
    <2>. QED  BY <2>1, <2>2
  <1>7. g[q \ {y}] = w[d] + g[r]
    <2>1. (q \ {y}) \ {d} = r /\ d \in q \ {y}
      BY <1>3, <1>4
    <2>2. g[q \ {y}] = w[d] + g[(q \ {y}) \ {d}]
      BY <1>1, <1>5, <2>1
    <2>. QED  BY <2>1, <2>2
  <1>8. w[y] \in Int /\ w[d] \in Int /\ g[r] \in Int
    BY <1>2, <1>3 DEF Whole
  <1> HIDE DEF d, r
  <1>. QED  BY <1>2, <1>3, <1>6, <1>7, <1>8
-----------------------------------------------------------------------------
SumOf(w, S) == MapThenSumSet(LAMBDA x : w[x], S)

\* MapThenSumSet takes away first whatever CHOOSE chooses.
AnyFirst(S) == [s \in SUBSET S |-> CHOOSE x \in s : TRUE]

LEMMA AnyFirstChooses ==
    ASSUME NEW S
    PROVE  Chooses(AnyFirst(S), S)
  BY DEF Chooses, AnyFirst

LEMMA SumOfWeights ==
    ASSUME NEW S, IsFiniteSet(S), NEW w, \A x \in S : w[x] \in Int,
           NEW g, SumsUp(g, w, AnyFirst(S), S)
    PROVE  SumOf(w, S) = g[S]
  <1> DEFINE First(s) == CHOOSE x \in s : TRUE
             Step(f) == [s \in SUBSET S |->
                            IF s = {} THEN 0 ELSE w[First(s)] + f[s \ {First(s)}]]
             iter == CHOOSE f : f = Step(f)
             c == AnyFirst(S)
  <1>1. SumOf(w, S) = iter[S]
    BY DEF SumOf, MapThenSumSet, MapThenFoldSet
  <1>2. PICK f \in [SUBSET S -> Int] : SumsUp(f, w, c, S)
    BY SumExists, AnyFirstChooses
  <1>3. f = Step(f)
    BY <1>2 DEF SumsUp, AnyFirst
  <1>4. iter = Step(iter)
    BY <1>3, Zenon
  <1> HIDE DEF iter
  <1>5. SumsUp(iter, w, c, S)
    <2>1. \A s \in SUBSET S : iter[s] = IF s = {} THEN 0
                                       ELSE w[First(s)] + iter[s \ {First(s)}]
      BY <1>4
    <2>2. \A s \in SUBSET S : c[s] = First(s)
      BY DEF AnyFirst
    <2> HIDE DEF First, c
    <2>. QED  BY <2>1, <2>2 DEF SumsUp
  <1>6. \A s \in SUBSET S : iter[s] = g[s]
    <2>1. Agree(w, w, S) /\ S \subseteq S
      BY DEF Agree
    <2>. QED  BY <1>5, <2>1, SumUnique, AnyFirstChooses
  <1>. QED  BY <1>1, <1>6

LEMMA SumAdds ==
    ASSUME NEW S, IsFiniteSet(S), NEW w, \A x \in S : w[x] \in Int
    PROVE  /\ SumOf(w, S) \in Int
           /\ S = {} => SumOf(w, S) = 0
           /\ \A x \in S : SumOf(w, S) = w[x] + SumOf(w, S \ {x})
  <1>1. PICK g \in [SUBSET S -> Int] : SumsUp(g, w, AnyFirst(S), S)
    BY SumExists, AnyFirstChooses
  <1>2. SumOf(w, S) = g[S]
    BY <1>1, SumOfWeights
  <1>3. ASSUME NEW x \in S PROVE SumOf(w, S \ {x}) = g[S \ {x}]
    <2>1. IsFiniteSet(S \ {x}) /\ SumsUp(g, w, AnyFirst(S \ {x}), S \ {x})
      BY <1>1, FS_Subset DEF SumsUp, AnyFirst
    <2>. QED  BY <2>1, SumOfWeights
  <1>4. ASSUME NEW x \in S PROVE g[S] = w[x] + g[S \ {x}]
    <2> DEFINE c == AnyFirst(S)
    <2>1. Chooses(c, S) /\ SumsUp(g, w, c, S) /\ S \in SUBSET S
      BY <1>1, AnyFirstChooses
    <2> HIDE DEF c
    <2>2. Whole(g, S)
      BY DEF Whole
    <2>. QED  BY <2>1, <2>2, SumAnyOrder
  <1>5. g[S] \in Int /\ g[{}] = 0
    BY <1>1 DEF SumsUp
  <1>. QED  BY <1>2, <1>3, <1>4, <1>5

LEMMA SumOfOneMore ==
    ASSUME NEW S, IsFiniteSet(S), NEW x, x \notin S, NEW w, \A y \in S \cup {x} : w[y] \in Int
    PROVE  SumOf(w, S \cup {x}) = SumOf(w, S) + w[x] /\ IsFiniteSet(S \cup {x})
  <1>1. IsFiniteSet(S \cup {x}) /\ (S \cup {x}) \ {x} = S
    BY FS_AddElement
  <1>2. SumOf(w, S \cup {x}) = w[x] + SumOf(w, S) /\ SumOf(w, S) \in Int
    BY <1>1, SumAdds
  <1>3. w[x] \in Int /\ SumOf(w, S) \in Int
    BY SumAdds
  <1>. QED  BY <1>1, <1>2, <1>3

LEMMA SumOfSame ==
    ASSUME NEW S, IsFiniteSet(S), NEW v, NEW w,
           \A x \in S : v[x] \in Int /\ v[x] = w[x]
    PROVE  SumOf(v, S) = SumOf(w, S)
  <1>1. PICK g \in [SUBSET S -> Int] : SumsUp(g, v, AnyFirst(S), S)
    BY SumExists, AnyFirstChooses
  <1>2. SumsUp(g, w, AnyFirst(S), S)
    BY <1>1, AnyFirstChooses DEF SumsUp, Chooses
  <1>. QED  BY <1>1, <1>2, SumOfWeights

LEMMA SumOfZeros ==
    ASSUME NEW S, IsFiniteSet(S), NEW w, \A x \in S : w[x] = 0
    PROVE  SumOf(w, S) = 0
  <1> DEFINE g == [s \in SUBSET S |-> 0]
  <1>1. \A x \in S : w[x] \in Int
    OBVIOUS
  <1>2. SumsUp(g, w, AnyFirst(S), S)
    <2> DEFINE c == AnyFirst(S)
    <2>1. Chooses(c, S)
      BY AnyFirstChooses
    <2> HIDE DEF c
    <2>2. \A s \in SUBSET S : g[s] = 0
      OBVIOUS
    <2>3. ASSUME NEW s \in SUBSET S, s # {} PROVE w[c[s]] = 0 /\ s \ {c[s]} \in SUBSET S
      BY <2>1, <2>3 DEF Chooses
    <2> HIDE DEF g
    <2>4. g[{}] = 0
      BY <2>2
    <2>5. ASSUME NEW s \in SUBSET S, s # {} PROVE g[s] = w[c[s]] + g[s \ {c[s]}]
      BY <2>2, <2>3, <2>5
    <2>6. SumsUp(g, w, c, S)
      BY <2>4, <2>5 DEF SumsUp
    <2>. QED  BY <2>6 DEF c
  <1>3. g[S] = 0
    OBVIOUS
  <1> HIDE DEF g
  <1>. QED  BY <1>1, <1>2, <1>3, SumOfWeights

\* One weight has changed.
LEMMA SumOfChanged ==
    ASSUME NEW S, IsFiniteSet(S), NEW x \in S, NEW v, NEW w,
           \A y \in S : v[y] \in Int /\ w[y] \in Int,
           \A y \in S \ {x} : v[y] = w[y]
    PROVE  SumOf(w, S) = SumOf(v, S) + (w[x] - v[x])
  <1>1. IsFiniteSet(S \ {x})
    BY FS_RemoveElement
  <1>2. SumOf(v, S \ {x}) = SumOf(w, S \ {x}) /\ SumOf(v, S \ {x}) \in Int
    <2> DEFINE R == S \ {x}
    <2>1. IsFiniteSet(R) /\ \A y \in R : v[y] \in Int /\ v[y] = w[y]
      BY <1>1
    <2> HIDE DEF R
    <2>2. SumOf(v, R) = SumOf(w, R) /\ SumOf(v, R) \in Int
      BY <2>1, SumOfSame, SumAdds
    <2>. QED  BY <2>2 DEF R
  <1>3. SumOf(v, S) = v[x] + SumOf(v, S \ {x}) /\ SumOf(w, S) = w[x] + SumOf(w, S \ {x})
    BY SumAdds
  <1>4. v[x] \in Int /\ w[x] \in Int
    OBVIOUS
  <1>. QED  BY <1>2, <1>3, <1>4
=============================================================================
