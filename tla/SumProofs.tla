------------------------------ MODULE SumProofs ------------------------------
(***************************************************************************)
(* What a sum over a finite set is, for SumFunctionOnSet.  The fold behind *)
(* it is a recursive function on the subsets of the set; a set for which a *)
(* claim about it fails would have a smallest such subset (Smallest), and  *)
(* that one never exists.                                                  *)
(***************************************************************************)
EXTENDS Integers, FiniteSets, Functions, FiniteSetTheorems, WellFoundedInduction, TLAPS

\* The element the fold takes next.
Pick(s) == CHOOSE x \in s : TRUE

\* h is the fold of w over the subsets of S.
IsSum(w, S, h) ==
    h = [s \in SUBSET S |-> IF s = {} THEN 0 ELSE w[Pick(s)] + h[s \ {Pick(s)}]]

\* A family of subsets of a finite set has a smallest member.
LEMMA Smallest ==
    ASSUME NEW S, IsFiniteSet(S), NEW B, B \subseteq SUBSET S, B # {}
    PROVE  \E s \in B : \A t \in B : t \subseteq s => t = s
<1>1. IsWellFoundedOn(StrictSubsetOrdering(S), SUBSET S)
  BY FS_StrictSubsetOrderingWellFounded, FS_FiniteSubsetsOfFinite
<1>2. PICK s \in B : \A t \in B : <<t, s>> \notin StrictSubsetOrdering(S)
  BY <1>1, WFMin
<1> QED
  BY <1>2 DEF StrictSubsetOrdering

\* A finite set has an element that nothing of it is above.
LEMMA HasTop ==
    ASSUME NEW S, IsFiniteSet(S), S # {}, NEW R,
           \A x \in S : <<x, x>> \notin R,
           \A x, y, z \in S : <<x, y>> \in R /\ <<y, z>> \in R => <<x, z>> \in R
    PROVE  \E x \in S : \A y \in S : <<y, x>> \notin R
<1> DEFINE Above(x) == {y \in S : <<y, x>> \in R}
           B == {Above(x) : x \in S}
<1>1. PICK s \in B : \A t \in B : t \subseteq s => t = s
  <2>1. B \subseteq SUBSET S
    OBVIOUS
  <2>2. PICK x \in S : TRUE
    OBVIOUS
  <2>3. Above(x) \in B
    OBVIOUS
  <2> HIDE DEF B
  <2> QED
    BY <2>1, <2>3, Smallest
<1>2. PICK x \in S : s = Above(x)
  BY <1>1
<1>3. ASSUME NEW y \in S, <<y, x>> \in R
      PROVE  FALSE
  <2>1. Above(y) \subseteq s /\ y \in s /\ y \notin Above(y)
    BY <1>2, <1>3
  <2>2. Above(y) \in B
    OBVIOUS
  <2> QED
    BY <1>1, <2>1, <2>2
<1> QED
  BY <1>3

\* In particular, a set of numbers has a greatest.
LEMMA HasGreatest ==
    ASSUME NEW S, IsFiniteSet(S), S # {}, S \subseteq Int
    PROVE  \E m \in S : \A y \in S : y <= m
<1> DEFINE R == {p \in Int \X Int : p[1] > p[2]}
<1>1. \A x, y \in S : <<x, y>> \in R <=> x > y
  OBVIOUS
<1>2. \A x \in S : <<x, x>> \notin R
  BY <1>1
<1>3. \A x, y, z \in S : <<x, y>> \in R /\ <<y, z>> \in R => <<x, z>> \in R
  BY <1>1
<1> HIDE DEF R
<1>4. \E x \in S : \A y \in S : <<y, x>> \notin R
  BY <1>2, <1>3, HasTop, Zenon
<1>5. PICK x \in S : \A y \in S : ~(y > x)
  BY <1>1, <1>4
<1> QED
  BY <1>5

\* The library computes the fold of w over the subsets of S, at S.
LEMMA SumIsFold ==
    ASSUME NEW w, NEW S
    PROVE  SumFunctionOnSet(w, S) = (CHOOSE h : IsSum(w, S, h))[S]
BY DEF SumFunctionOnSet, FoldFunctionOnSet, MapThenFoldSet, IsSum, Pick

\* The fold takes an element that is there.
LEMMA PickIsIn ==
    ASSUME NEW s, s # {}
    PROVE  Pick(s) \in s
BY DEF Pick

\* Two folds agree where both are defined.
LEMMA SumUnique ==
    ASSUME NEW w, NEW S, NEW g, IsSum(w, S, g), NEW T, NEW h, IsSum(w, T, h),
           NEW U, IsFiniteSet(U), U \subseteq S, U \subseteq T
    PROVE  g[U] = h[U]
<1> DEFINE B == {s \in SUBSET U : g[s] # h[s]}
<1> SUFFICES ASSUME B # {}
             PROVE  FALSE
  OBVIOUS
<1>1. PICK s \in B : \A t \in B : t \subseteq s => t = s
  <2>1. B \subseteq SUBSET U
    OBVIOUS
  <2> HIDE DEF B
  <2> QED
    BY <2>1, Smallest
<1>2. /\ s \subseteq U /\ g[s] # h[s]
      /\ g[s] = (IF s = {} THEN 0 ELSE w[Pick(s)] + g[s \ {Pick(s)}])
      /\ h[s] = (IF s = {} THEN 0 ELSE w[Pick(s)] + h[s \ {Pick(s)}])
  BY <1>1 DEF IsSum
<1>3. s # {}
  BY <1>2
<1>4. s \ {Pick(s)} # s /\ s \ {Pick(s)} \subseteq U
  BY <1>2, <1>3, PickIsIn
<1>5. g[s \ {Pick(s)}] = h[s \ {Pick(s)}]
  BY <1>1, <1>4
<1> QED
  BY <1>2, <1>5

\* There is such a fold over every finite set.
LEMMA SumExists ==
    ASSUME NEW w, NEW S, IsFiniteSet(S)
    PROVE  \E h : IsSum(w, S, h)
<1> DEFINE Some(T) == \E h : IsSum(w, T, h)
           B == {T \in SUBSET S : ~Some(T)}
<1> SUFFICES ASSUME B # {}
             PROVE  FALSE
  OBVIOUS
<1>1. PICK T \in B : \A t \in B : t \subseteq T => t = T
  <2>1. B \subseteq SUBSET S
    OBVIOUS
  <2> HIDE DEF B
  <2> QED
    BY <2>1, Smallest
<1>2. \A t \in SUBSET T : t # T => Some(t)
  BY <1>1
<1> DEFINE H(t) == CHOOSE h : IsSum(w, t, h)
           g == [s \in SUBSET T |-> IF s = {} THEN 0
                                    ELSE w[Pick(s)] + H(s \ {Pick(s)})[s \ {Pick(s)}]]
<1>3. \A t \in SUBSET T : t # T => IsSum(w, t, H(t))
  BY <1>2
<1>4. IsFiniteSet(T)
  BY <1>1, FS_Subset
<1> HIDE DEF H
<1>5. ASSUME NEW s \in SUBSET T, s # T
      PROVE  g[s] = H(s)[s]
  <2>1. H(s)[s] = (IF s = {} THEN 0 ELSE w[Pick(s)] + H(s)[s \ {Pick(s)}])
    <3>1. IsSum(w, s, H(s))
      BY <1>3, <1>5
    <3> QED
      BY <3>1 DEF IsSum
  <2>2. CASE s = {}
    BY <2>1, <2>2
  <2>3. CASE s # {}
    <3> DEFINE t == s \ {Pick(s)}
    <3>1. t \in SUBSET T /\ t # T /\ t \subseteq s
      BY <1>5, <2>3, PickIsIn
    <3>2. IsFiniteSet(t)
      BY <3>1, <1>4, FS_Subset
    <3>3. IsSum(w, s, H(s)) /\ IsSum(w, t, H(t))
      BY <1>3, <1>5, <3>1
    <3>4. H(s)[t] = H(t)[t]
      BY <3>1, <3>2, <3>3, SumUnique
    <3> QED
      BY <2>1, <2>3, <3>4
  <2> QED
    BY <2>2, <2>3
<1>6. \A s \in SUBSET T : g[s] = (IF s = {} THEN 0 ELSE w[Pick(s)] + g[s \ {Pick(s)}])
  <2> SUFFICES ASSUME NEW s \in SUBSET T, s # {}
               PROVE  g[s] = w[Pick(s)] + g[s \ {Pick(s)}]
    OBVIOUS
  <2>1. s \ {Pick(s)} \in SUBSET T /\ s \ {Pick(s)} # T
    BY PickIsIn
  <2> QED
    BY <2>1, <1>5
<1>7. IsSum(w, T, g)
  <2> DEFINE f == [s \in SUBSET T |-> IF s = {} THEN 0 ELSE w[Pick(s)] + g[s \ {Pick(s)}]]
  <2>1. \A s \in SUBSET T : g[s] = f[s]
    BY <1>6
  <2>2. g = f
    BY <2>1
  <2> QED
    BY <2>2 DEF IsSum
<1> QED
  BY <1>1, <1>7

\* One step of the fold.
LEMMA SumStep ==
    ASSUME NEW w, NEW S, IsFiniteSet(S)
    PROVE  /\ SumFunctionOnSet(w, {}) = 0
           /\ S # {} => SumFunctionOnSet(w, S) = w[Pick(S)] + SumFunctionOnSet(w, S \ {Pick(S)})
<1> DEFINE H(t) == CHOOSE h : IsSum(w, t, h)
<1>1. \A t : IsFiniteSet(t) => IsSum(w, t, H(t))
  BY SumExists
<1>2. \A t : SumFunctionOnSet(w, t) = H(t)[t]
  BY SumIsFold
<1> HIDE DEF H
<1>3. SumFunctionOnSet(w, {}) = 0
  <2>1. IsSum(w, {}, H({}))
    BY <1>1, FS_EmptySet
  <2> QED
    BY <2>1, <1>2 DEF IsSum
<1>4. ASSUME S # {}
      PROVE  SumFunctionOnSet(w, S) = w[Pick(S)] + SumFunctionOnSet(w, S \ {Pick(S)})
  <2> DEFINE t == S \ {Pick(S)}
  <2>1. IsFiniteSet(t) /\ t \subseteq S
    BY FS_Subset
  <2>2. H(S)[t] = H(t)[t]
    BY <1>1, <2>1, SumUnique
  <2>3. H(S)[S] = w[Pick(S)] + H(S)[t]
    <3>1. IsSum(w, S, H(S))
      BY <1>1
    <3> QED
      BY <3>1, <1>4 DEF IsSum
  <2> QED
    BY <1>2, <2>2, <2>3
<1> QED
  BY <1>3, <1>4

-----------------------------------------------------------------------------
\* A sum of integers is one, and a sum of naturals too.
LEMMA SumType ==
    ASSUME NEW w, NEW S, IsFiniteSet(S), NEW D \in {Nat, Int}, \A x \in S : w[x] \in D
    PROVE  SumFunctionOnSet(w, S) \in D
<1> DEFINE B == {T \in SUBSET S : SumFunctionOnSet(w, T) \notin D}
<1> SUFFICES ASSUME B # {}
             PROVE  FALSE
  OBVIOUS
<1>1. PICK T \in B : \A t \in B : t \subseteq T => t = T
  <2>1. B \subseteq SUBSET S
    OBVIOUS
  <2> HIDE DEF B
  <2> QED
    BY <2>1, Smallest
<1>2. IsFiniteSet(T)
  BY <1>1, FS_Subset
<1>3. T # {}
  <2>1. SumFunctionOnSet(w, {}) = 0
    BY FS_EmptySet, SumStep
  <2>2. 0 \in D
    OBVIOUS
  <2> QED
    BY <1>1, <2>1, <2>2
<1>4. Pick(T) \in T /\ T \ {Pick(T)} # T /\ T \ {Pick(T)} \in SUBSET S
  BY <1>1, <1>3, PickIsIn
<1>5. SumFunctionOnSet(w, T \ {Pick(T)}) \in D /\ w[Pick(T)] \in D
  BY <1>1, <1>4
<1>6. SumFunctionOnSet(w, T) = w[Pick(T)] + SumFunctionOnSet(w, T \ {Pick(T)})
  BY <1>2, <1>3, SumStep
<1>7. \A a, b \in D : a + b \in D
  OBVIOUS
<1> QED
  BY <1>1, <1>5, <1>6, <1>7

\* A sum depends on nothing but the values summed.
LEMMA SumSame ==
    ASSUME NEW w, NEW v, NEW S, IsFiniteSet(S), \A x \in S : w[x] = v[x]
    PROVE  SumFunctionOnSet(w, S) = SumFunctionOnSet(v, S)
<1> DEFINE B == {T \in SUBSET S : SumFunctionOnSet(w, T) # SumFunctionOnSet(v, T)}
<1> SUFFICES ASSUME B # {}
             PROVE  FALSE
  OBVIOUS
<1>1. PICK T \in B : \A t \in B : t \subseteq T => t = T
  <2>1. B \subseteq SUBSET S
    OBVIOUS
  <2> HIDE DEF B
  <2> QED
    BY <2>1, Smallest
<1>2. IsFiniteSet(T)
  BY <1>1, FS_Subset
<1>3. T # {}
  BY <1>1, <1>2, SumStep
<1>4. Pick(T) \in T /\ T \ {Pick(T)} # T /\ T \ {Pick(T)} \in SUBSET S
  BY <1>1, <1>3, PickIsIn
<1>5. SumFunctionOnSet(w, T \ {Pick(T)}) = SumFunctionOnSet(v, T \ {Pick(T)})
  BY <1>1, <1>4
<1>6. /\ SumFunctionOnSet(w, T) = w[Pick(T)] + SumFunctionOnSet(w, T \ {Pick(T)})
      /\ SumFunctionOnSet(v, T) = v[Pick(T)] + SumFunctionOnSet(v, T \ {Pick(T)})
  BY <1>2, <1>3, SumStep
<1> QED
  BY <1>1, <1>4, <1>5, <1>6

\* Any element may be taken first: addition commutes.
LEMMA SumTakes ==
    ASSUME NEW w, NEW S, IsFiniteSet(S), \A x \in S : w[x] \in Int, NEW y \in S
    PROVE  SumFunctionOnSet(w, S) = w[y] + SumFunctionOnSet(w, S \ {y})
<1> DEFINE Fails(T) == \E x \in T :
                          SumFunctionOnSet(w, T) # w[x] + SumFunctionOnSet(w, T \ {x})
           B == {T \in SUBSET S : Fails(T)}
<1> SUFFICES ASSUME B # {}
             PROVE  FALSE
  OBVIOUS
<1>1. PICK T \in B : \A t \in B : t \subseteq T => t = T
  <2>1. B \subseteq SUBSET S
    OBVIOUS
  <2> HIDE DEF B
  <2> QED
    BY <2>1, Smallest
<1>2. T \subseteq S /\ IsFiniteSet(T)
  BY <1>1, FS_Subset
<1>3. PICK x \in T : SumFunctionOnSet(w, T) # w[x] + SumFunctionOnSet(w, T \ {x})
  BY <1>1
<1>4. PICK z \in T : z = Pick(T)
  BY <1>3, PickIsIn
<1>5. SumFunctionOnSet(w, T) = w[z] + SumFunctionOnSet(w, T \ {z})
  BY <1>2, <1>4, SumStep
<1>6. \A t \in SUBSET T : t # T => ~Fails(t)
  BY <1>1, <1>2
<1>7. x # z
  BY <1>3, <1>5
<1>8. T \ {z} \in SUBSET T /\ T \ {z} # T /\ x \in T \ {z}
  BY <1>7
<1>9. SumFunctionOnSet(w, T \ {z}) = w[x] + SumFunctionOnSet(w, (T \ {z}) \ {x})
  BY <1>6, <1>8
<1>10. T \ {x} \in SUBSET T /\ T \ {x} # T /\ z \in T \ {x}
  BY <1>7
<1>11. SumFunctionOnSet(w, T \ {x}) = w[z] + SumFunctionOnSet(w, (T \ {x}) \ {z})
  BY <1>6, <1>10
<1> DEFINE R == (T \ {x}) \ {z}
<1>12. (T \ {z}) \ {x} = R /\ R \in SUBSET S
  BY <1>2
<1>13. w[x] \in Int /\ w[z] \in Int /\ SumFunctionOnSet(w, R) \in Int
  <2>1. IsFiniteSet(R) /\ \A r \in R : w[r] \in Int
    BY <1>2, <1>12, FS_Subset
  <2> QED
    BY <1>2, <2>1, SumType
<1> HIDE DEF R
<1> QED
  <2> DEFINE a == w[x]
             b == w[z]
             c == SumFunctionOnSet(w, R)
  <2>1. SumFunctionOnSet(w, T) = b + (a + c)
    BY <1>5, <1>9, <1>12
  <2>2. SumFunctionOnSet(w, T \ {x}) = b + c
    BY <1>11 DEF R
  <2>3. a \in Int /\ b \in Int /\ c \in Int
    BY <1>13
  <2>4. b + (a + c) = a + (b + c)
    <3> HIDE DEF a, b, c
    <3> QED
      BY <2>3
  <2> QED
    BY <1>3, <2>1, <2>2, <2>4

\* One more element adds its value.
LEMMA SumAdds ==
    ASSUME NEW w, NEW S, IsFiniteSet(S), NEW x, x \notin S, \A y \in S \cup {x} : w[y] \in Int
    PROVE  SumFunctionOnSet(w, S \cup {x}) = SumFunctionOnSet(w, S) + w[x]
<1>1. IsFiniteSet(S \cup {x})
  BY FS_AddElement
<1>2. (S \cup {x}) \ {x} = S
  OBVIOUS
<1>3. SumFunctionOnSet(w, S \cup {x}) = w[x] + SumFunctionOnSet(w, S)
  BY <1>1, <1>2, SumTakes
<1>4. SumFunctionOnSet(w, S) \in Int /\ w[x] \in Int
  BY SumType
<1> QED
  BY <1>3, <1>4

\* A part of the natural numbers summed is no more than the whole.
LEMMA SumGrows ==
    ASSUME NEW w, NEW S, IsFiniteSet(S), \A x \in S : w[x] \in Nat, NEW P, P \subseteq S
    PROVE  SumFunctionOnSet(w, P) <= SumFunctionOnSet(w, S)
<1> DEFINE B == {T \in SUBSET S : P \subseteq T /\ ~(SumFunctionOnSet(w, P) <= SumFunctionOnSet(w, T))}
<1> SUFFICES ASSUME B # {}
             PROVE  FALSE
  OBVIOUS
<1>1. PICK T \in B : \A t \in B : t \subseteq T => t = T
  <2>1. B \subseteq SUBSET S
    OBVIOUS
  <2> HIDE DEF B
  <2> QED
    BY <2>1, Smallest
<1>2. T \subseteq S /\ P \subseteq T /\ IsFiniteSet(T) /\ \A x \in T : w[x] \in Int
  BY <1>1, FS_Subset
<1>3. \A V \in SUBSET S : SumFunctionOnSet(w, V) \in Nat
  <2> SUFFICES ASSUME NEW V \in SUBSET S
               PROVE  SumFunctionOnSet(w, V) \in Nat
    OBVIOUS
  <2>1. IsFiniteSet(V) /\ \A x \in V : w[x] \in Nat
    BY FS_Subset
  <2> QED
    BY <2>1, SumType
<1>4. P # T
  BY <1>1, <1>2, <1>3
<1>5. PICK x \in T : x \notin P
  BY <1>2, <1>4
<1>6. T \ {x} \in SUBSET S /\ T \ {x} \subseteq T /\ T \ {x} # T /\ P \subseteq T \ {x}
  BY <1>2, <1>5
<1>7. SumFunctionOnSet(w, P) <= SumFunctionOnSet(w, T \ {x})
  BY <1>1, <1>6
<1>8. SumFunctionOnSet(w, T) = w[x] + SumFunctionOnSet(w, T \ {x})
  BY <1>2, SumTakes
<1>9. /\ w[x] \in Nat /\ SumFunctionOnSet(w, P) \in Nat
      /\ SumFunctionOnSet(w, T \ {x}) \in Nat
  BY <1>2, <1>3, <1>6
<1>10. SumFunctionOnSet(w, P) <= SumFunctionOnSet(w, T)
  BY <1>7, <1>8, <1>9
<1> QED
  BY <1>1, <1>10

\* Two sets summed apart.
LEMMA SumSplits ==
    ASSUME NEW w, NEW S, IsFiniteSet(S), NEW P, IsFiniteSet(P), S \cap P = {},
           \A x \in S \cup P : w[x] \in Int
    PROVE  SumFunctionOnSet(w, S \cup P) = SumFunctionOnSet(w, S) + SumFunctionOnSet(w, P)
<1> DEFINE Same(T) == SumFunctionOnSet(w, S \cup T) =
                        SumFunctionOnSet(w, S) + SumFunctionOnSet(w, T)
           B == {T \in SUBSET P : ~Same(T)}
<1> SUFFICES ASSUME B # {}
             PROVE  FALSE
  OBVIOUS
<1>1. PICK T \in B : \A t \in B : t \subseteq T => t = T
  <2>1. B \subseteq SUBSET P
    OBVIOUS
  <2> HIDE DEF B
  <2> QED
    BY <2>1, Smallest
<1>2. T \subseteq P /\ ~Same(T) /\ IsFiniteSet(T) /\ IsFiniteSet(S \cup T)
  BY <1>1, FS_Subset, FS_Union
<1>3. SumFunctionOnSet(w, S) \in Int
  BY SumType
<1>4. T # {}
  <2>1. SumFunctionOnSet(w, {}) = 0
    BY FS_EmptySet, SumStep
  <2>2. S \cup {} = S
    OBVIOUS
  <2> QED
    BY <1>2, <1>3, <2>1, <2>2
<1>5. PICK x \in T : x \in P /\ x \notin S /\ w[x] \in Int
  BY <1>2, <1>4
<1> DEFINE R == T \ {x}
<1>6. Same(R)
  <2>1. R \in SUBSET P /\ R \subseteq T /\ R # T
    BY <1>2
  <2> HIDE DEF Same
  <2> QED
    BY <1>1, <2>1
<1>7. SumFunctionOnSet(w, T) = w[x] + SumFunctionOnSet(w, R)
  BY <1>2, SumTakes
<1>8. SumFunctionOnSet(w, S \cup T) = w[x] + SumFunctionOnSet(w, S \cup R)
  <2>1. (S \cup T) \ {x} = S \cup R /\ x \in S \cup T /\ \A y \in S \cup T : w[y] \in Int
    BY <1>2, <1>5
  <2> QED
    BY <1>2, <2>1, SumTakes
<1>9. SumFunctionOnSet(w, R) \in Int
  <2>1. IsFiniteSet(R) /\ \A y \in R : w[y] \in Int
    BY <1>2, FS_Subset
  <2> QED
    BY <2>1, SumType
<1> HIDE DEF R
<1> QED
  BY <1>2, <1>3, <1>5, <1>6, <1>7, <1>8, <1>9

\* A sum of which one term changes.
LEMMA SumMoves ==
    ASSUME NEW S, IsFiniteSet(S), NEW w, \A y \in S : w[y] \in Int, NEW v, \A y \in S : v[y] \in Int,
           NEW x \in S, \A y \in S \ {x} : v[y] = w[y]
    PROVE  SumFunctionOnSet(v, S) = SumFunctionOnSet(w, S) - w[x] + v[x]
  <1>1. IsFiniteSet(S \ {x})
    BY FS_RemoveElement
  <1>2. SumFunctionOnSet(v, S \ {x}) = SumFunctionOnSet(w, S \ {x})
    BY <1>1, SumSame
  <1>3. SumFunctionOnSet(w, S \ {x}) \in Int
    BY <1>1, SumType
  <1>4. SumFunctionOnSet(w, S) = w[x] + SumFunctionOnSet(w, S \ {x})
    BY SumTakes
  <1>5. SumFunctionOnSet(v, S) = v[x] + SumFunctionOnSet(v, S \ {x})
    BY SumTakes
  <1>6. w[x] \in Int /\ v[x] \in Int
    OBVIOUS
  <1>7. QED
    BY <1>2, <1>3, <1>4, <1>5, <1>6

\* A sum of nothings.
LEMMA SumNone ==
    ASSUME NEW w, NEW S, IsFiniteSet(S), \A x \in S : w[x] = 0
    PROVE  SumFunctionOnSet(w, S) = 0
<1> DEFINE B == {T \in SUBSET S : SumFunctionOnSet(w, T) # 0}
<1> SUFFICES ASSUME B # {}
             PROVE  FALSE
  OBVIOUS
<1>1. PICK T \in B : \A t \in B : t \subseteq T => t = T
  <2>1. B \subseteq SUBSET S
    OBVIOUS
  <2> HIDE DEF B
  <2> QED
    BY <2>1, Smallest
<1>2. IsFiniteSet(T)
  BY <1>1, FS_Subset
<1>3. T # {}
  BY <1>1, <1>2, SumStep
<1>4. Pick(T) \in T /\ T \ {Pick(T)} # T /\ T \ {Pick(T)} \in SUBSET S
  BY <1>1, <1>3, PickIsIn
<1>5. SumFunctionOnSet(w, T \ {Pick(T)}) = 0 /\ w[Pick(T)] = 0
  BY <1>1, <1>4
<1>6. SumFunctionOnSet(w, T) = w[Pick(T)] + SumFunctionOnSet(w, T \ {Pick(T)})
  BY <1>2, <1>3, SumStep
<1> QED
  BY <1>1, <1>5, <1>6

\* What the proofs use of products of integers.
LEMMA Spread ==
    \A a, b, c \in Int :
        /\ a * b \in Int /\ a * b = b * a /\ a * 1 = a
        /\ a * (b + c) = a * b + a * c /\ a * (b - c) = a * b - a * c
  OBVIOUS

\* A sum of multiples is a multiple of the sum.
LEMMA SumScales ==
    ASSUME NEW w, NEW S, IsFiniteSet(S), \A x \in S : w[x] \in Int, NEW c \in Int,
           NEW v, \A x \in S : v[x] = c * w[x]
    PROVE  SumFunctionOnSet(v, S) = c * SumFunctionOnSet(w, S)
<1> DEFINE B == {T \in SUBSET S : SumFunctionOnSet(v, T) # c * SumFunctionOnSet(w, T)}
<1> SUFFICES ASSUME B # {}
             PROVE  FALSE
  OBVIOUS
<1>1. PICK T \in B : \A t \in B : t \subseteq T => t = T
  <2>1. B \subseteq SUBSET S
    OBVIOUS
  <2> HIDE DEF B
  <2> QED
    BY <2>1, Smallest
<1>2. T \subseteq S /\ IsFiniteSet(T)
  BY <1>1, FS_Subset
<1>3. T # {}
  <2>1. SumFunctionOnSet(v, {}) = 0 /\ SumFunctionOnSet(w, {}) = 0
    BY FS_EmptySet, SumStep
  <2>2. SumFunctionOnSet(v, T) # c * SumFunctionOnSet(w, T)
    BY <1>1
  <2>3. c * 0 = 0
    OBVIOUS
  <2> QED
    BY <2>1, <2>2, <2>3
<1> DEFINE p == Pick(T)
           R == T \ {p}
<1>4. p \in T /\ R # T /\ R \in SUBSET S /\ R \subseteq T
  BY <1>2, <1>3, PickIsIn
<1>5. SumFunctionOnSet(v, R) = c * SumFunctionOnSet(w, R)
  BY <1>1, <1>4
<1>6. /\ SumFunctionOnSet(v, T) = v[p] + SumFunctionOnSet(v, R)
      /\ SumFunctionOnSet(w, T) = w[p] + SumFunctionOnSet(w, R)
  BY <1>2, <1>3, SumStep
<1>7. w[p] \in Int /\ v[p] = c * w[p] /\ SumFunctionOnSet(w, R) \in Int
  <2>1. IsFiniteSet(R) /\ \A x \in R : w[x] \in Int
    BY <1>2, <1>4, FS_Subset
  <2> QED
    BY <1>2, <1>4, <2>1, SumType
<1> HIDE DEF R, p
<1>8. c * (w[p] + SumFunctionOnSet(w, R)) = c * w[p] + c * SumFunctionOnSet(w, R)
  BY <1>7, Spread
<1> QED
  BY <1>1, <1>5, <1>6, <1>7, <1>8

\* What is less term by term is less in sum.
LEMMA SumBelow ==
    ASSUME NEW w, NEW v, NEW S, IsFiniteSet(S),
           \A x \in S : w[x] \in Int /\ v[x] \in Int /\ w[x] <= v[x]
    PROVE  SumFunctionOnSet(w, S) <= SumFunctionOnSet(v, S)
<1> DEFINE B == {T \in SUBSET S : ~(SumFunctionOnSet(w, T) <= SumFunctionOnSet(v, T))}
<1> SUFFICES ASSUME B # {}
             PROVE  FALSE
  OBVIOUS
<1>1. PICK T \in B : \A t \in B : t \subseteq T => t = T
  <2>1. B \subseteq SUBSET S
    OBVIOUS
  <2> HIDE DEF B
  <2> QED
    BY <2>1, Smallest
<1>2. T \subseteq S /\ IsFiniteSet(T)
  BY <1>1, FS_Subset
<1>3. T # {}
  <2>1. SumFunctionOnSet(v, {}) = 0 /\ SumFunctionOnSet(w, {}) = 0
    BY FS_EmptySet, SumStep
  <2>2. ~(SumFunctionOnSet(w, T) <= SumFunctionOnSet(v, T))
    BY <1>1
  <2> QED
    BY <2>1, <2>2
<1> DEFINE p == Pick(T)
           R == T \ {p}
<1>4. p \in T /\ R # T /\ R \in SUBSET S /\ R \subseteq T
  BY <1>2, <1>3, PickIsIn
<1>5. SumFunctionOnSet(w, R) <= SumFunctionOnSet(v, R)
  BY <1>1, <1>4
<1>6. /\ SumFunctionOnSet(v, T) = v[p] + SumFunctionOnSet(v, R)
      /\ SumFunctionOnSet(w, T) = w[p] + SumFunctionOnSet(w, R)
  BY <1>2, <1>3, SumStep
<1>7. /\ w[p] \in Int /\ v[p] \in Int /\ w[p] <= v[p]
      /\ SumFunctionOnSet(w, R) \in Int /\ SumFunctionOnSet(v, R) \in Int
  <2>1. IsFiniteSet(R) /\ \A x \in R : w[x] \in Int /\ v[x] \in Int
    BY <1>2, <1>4, FS_Subset
  <2> QED
    BY <1>2, <1>4, <2>1, SumType
<1> HIDE DEF R, p
<1>8. SumFunctionOnSet(w, T) <= SumFunctionOnSet(v, T)
  BY <1>5, <1>6, <1>7
<1> QED
  BY <1>1, <1>8
=============================================================================
