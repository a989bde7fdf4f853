----------------------------- MODULE SumsProofs -----------------------------
(***************************************************************************)
(* What a sum over a finite set is when an element comes, goes or changes. *)
(*                                                                         *)
(* The fold of the library is a recursive function on the subsets of S.    *)
(* The induction is on the least cardinality of a counterexample.          *)
(***************************************************************************)
EXTENDS Sums, FiniteSets, FiniteSetTheorems, WellFoundedInduction, TLAPS

One(s) == CHOOSE x \in s : TRUE
Rest(s) == s \ {One(s)}

\* f is the fold of w on the subsets of S.
Folds(w, S, f) ==
    f = [s \in SUBSET S |-> IF s = {} THEN 0 ELSE w[One(s)] + f[Rest(s)]]

\* Some numbers have a least one.
LEMMA LeastNumber ==
    ASSUME NEW N \in SUBSET Nat, N # {}
    PROVE  \E n \in N : \A m \in N : n =< m
<1>1. PICK R : R = OpToRel(<, Nat)
  OBVIOUS
<1>2. IsWellFoundedOn(R, Nat)
  BY <1>1, NatLessThanWellFounded
<1>3. PICK n \in N : \A m \in N : <<m, n>> \notin R
  BY <1>2, WFMin
<1>4. \A m \in N : ~(m < n)
  BY <1>1, <1>3 DEF OpToRel
<1> QED
  BY <1>4

\* Some subsets of a finite set have one from which no element can be taken.
LEMMA Smallest ==
    ASSUME NEW S, IsFiniteSet(S), NEW Some \in SUBSET SUBSET S, Some # {}
    PROVE  \E T \in Some : \A x \in T : T \ {x} \notin Some
<1>1. PICK N : N = {Cardinality(T) : T \in Some}
  OBVIOUS
<1>2. \A T \in Some : IsFiniteSet(T) /\ Cardinality(T) \in Nat
  BY FS_Subset, FS_CardinalityType
<1>3. N \in SUBSET Nat /\ N # {}
  BY <1>1, <1>2
<1>4. PICK n \in N : \A m \in N : n =< m
  BY <1>3, LeastNumber
<1>5. PICK T \in Some : Cardinality(T) = n
  BY <1>1, <1>4
<1>6. ASSUME NEW x \in T
      PROVE  T \ {x} \notin Some
  <2>1. Cardinality(T \ {x}) = n - 1
    BY <1>2, <1>5, FS_RemoveElement
  <2>2. n \in Nat
    BY <1>3
  <2> QED
    BY <1>1, <1>4, <2>1, <2>2
<1> QED
  BY <1>6

LEMMA OneIsIn == ASSUME NEW s, s # {} PROVE One(s) \in s
BY DEF One

\* The fold is unique.
LEMMA FoldsUnique ==
    ASSUME NEW w, NEW S, IsFiniteSet(S), NEW f, NEW g, Folds(w, S, f), Folds(w, S, g)
    PROVE  f = g
<1>1. PICK Some : Some = {s \in SUBSET S : f[s] # g[s]}
  OBVIOUS
<1>2. CASE Some = {}
  BY <1>1, <1>2 DEF Folds
<1>3. CASE Some # {}
  <2>1. PICK s \in Some : \A x \in s : s \ {x} \notin Some
    BY <1>1, <1>3, Smallest
  <2>2. s # {}
    BY <1>1, <2>1 DEF Folds
  <2>3. One(s) \in s /\ Rest(s) \in SUBSET S
    BY <1>1, <2>2, OneIsIn DEF Rest
  <2>4. f[Rest(s)] = g[Rest(s)]
    BY <1>1, <2>1, <2>3 DEF Rest
  <2>5. f[s] = w[One(s)] + f[Rest(s)] /\ g[s] = w[One(s)] + g[Rest(s)]
    BY <1>1, <2>2 DEF Folds
  <2> QED
    BY <1>1, <2>4, <2>5
<1> QED
  BY <1>2, <1>3

\* A fold on the subsets of S folds those of a part of S.
LEMMA FoldsRestricted ==
    ASSUME NEW w, NEW S, NEW f, Folds(w, S, f), NEW T \in SUBSET S
    PROVE  Folds(w, T, [s \in SUBSET T |-> f[s]])
<1>1. PICK g : g = [s \in SUBSET T |-> f[s]]
  OBVIOUS
<1>2. \A s \in SUBSET T : g[s] = IF s = {} THEN 0 ELSE w[One(s)] + g[Rest(s)]
  <2>1. \A s \in SUBSET T : s # {} => Rest(s) \in SUBSET T
    BY DEF Rest
  <2>2. \A s \in SUBSET T : f[s] = IF s = {} THEN 0 ELSE w[One(s)] + f[Rest(s)]
    BY DEF Folds
  <2> QED
    BY <1>1, <2>1, <2>2
<1>3. g = [s \in SUBSET T |-> IF s = {} THEN 0 ELSE w[One(s)] + g[Rest(s)]]
  BY <1>1, <1>2
<1> QED
  BY <1>1, <1>3 DEF Folds

\* There is a fold.
LEMMA FoldsExists ==
    ASSUME NEW w, NEW S, IsFiniteSet(S)
    PROVE  \E f : Folds(w, S, f)
<1> SUFFICES ASSUME ~\E f : Folds(w, S, f)
             PROVE  FALSE
  OBVIOUS
<1>1. PICK Some : Some = {s \in SUBSET S : ~\E f : Folds(w, s, f)}
  OBVIOUS
<1>2. S \in Some
  BY <1>1
<1>3. PICK N : N = {Cardinality(s) : s \in Some}
  OBVIOUS
<1>4. \A s \in SUBSET S : IsFiniteSet(s) /\ Cardinality(s) \in Nat
  BY FS_Subset, FS_CardinalityType
<1>5. PICK n \in N : \A m \in N : n =< m
  <2>1. N \in SUBSET Nat /\ N # {}
    BY <1>1, <1>2, <1>3, <1>4
  <2> QED
    BY <2>1, LeastNumber
<1>6. PICK T \in Some : Cardinality(T) = n
  BY <1>3, <1>5
<1>7. T \in SUBSET S /\ IsFiniteSet(T)
  BY <1>1, <1>4
<1>8. \A s \in SUBSET T : s # T => \E g : Folds(w, s, g)
  <2>1. ASSUME NEW s \in SUBSET T, s # T
        PROVE  \E g : Folds(w, s, g)
    <3>1. Cardinality(s) =< n /\ Cardinality(s) # n
      BY <1>6, <1>7, <2>1, FS_Subset
    <3>2. s \in SUBSET S /\ Cardinality(s) \in Nat /\ n \in Nat
      BY <1>4, <1>6, <1>7
    <3>3. s \notin Some
      BY <1>3, <1>5, <3>1, <3>2
    <3> QED
      BY <1>1, <3>2, <3>3
  <2> QED
    BY <2>1
<1>9. PICK G : G = [s \in SUBSET T |-> CHOOSE g : Folds(w, s, g)]
  OBVIOUS
<1>10. \A s \in SUBSET T : s # T => Folds(w, s, G[s])
  BY <1>8, <1>9
<1>11. PICK f : f = [s \in SUBSET T |-> IF s = {} THEN 0 ELSE w[One(s)] + G[Rest(s)][Rest(s)]]
  OBVIOUS
<1>12. ASSUME NEW s \in SUBSET T, s # {}
       PROVE  f[Rest(s)] = G[Rest(s)][Rest(s)]
  <2>1. PICK p \in SUBSET T : p = Rest(s)
    BY DEF Rest
  <2>2. p # T
    BY <1>12, <2>1, OneIsIn DEF Rest
  <2>3. Folds(w, p, G[p])
    BY <1>10, <2>2
  <2>4. CASE p = {}
    BY <1>11, <2>1, <2>3, <2>4 DEF Folds
  <2>5. CASE p # {}
    <3>1. PICK o \in SUBSET p : o = Rest(p)
      BY DEF Rest
    <3>2. o \in SUBSET T /\ o # T
      BY <2>1, <2>2, <3>1
    <3>3. f[p] = w[One(p)] + G[o][o]
      BY <1>11, <2>1, <2>5, <3>1
    <3>4. G[p][p] = w[One(p)] + G[p][o]
      BY <2>3, <2>5, <3>1 DEF Folds
    <3>5. PICK h : h = [u \in SUBSET o |-> G[p][u]]
      OBVIOUS
    <3>6. Folds(w, o, h)
      BY <2>3, <3>1, <3>5, FoldsRestricted
    <3>7. Folds(w, o, G[o])
      BY <1>10, <3>2
    <3>8. IsFiniteSet(o)
      BY <1>4, <1>7, <3>2
    <3>9. G[o] = h
      BY <3>6, <3>7, <3>8, FoldsUnique
    <3> QED
      BY <2>1, <3>3, <3>4, <3>5, <3>9
  <2> QED
    BY <2>4, <2>5
<1>13. Folds(w, T, f)
  BY <1>11, <1>12 DEF Folds
<1> QED
  BY <1>1, <1>6, <1>13

\* The sum is the value of the fold.
LEMMA SumIsFold ==
    ASSUME NEW w, NEW S, IsFiniteSet(S), NEW f, Folds(w, S, f)
    PROVE  SumOver(w, S) = f[S]
<1>1. SumOver(w, S) = (CHOOSE g : Folds(w, S, g))[S]
  BY DEF SumOver, MapThenSumSet, MapThenFoldSet, Folds, One, Rest
<1> QED
  BY <1>1, FoldsUnique

(***************************************************************************)
(* The laws of sums.                                                       *)
(***************************************************************************)
LEMMA SumOfNone == ASSUME NEW w PROVE SumOver(w, {}) = 0
<1>1. IsFiniteSet({})
  BY FS_EmptySet
<1>2. PICK f : Folds(w, {}, f)
  BY <1>1, FoldsExists
<1> QED
  BY <1>1, <1>2, SumIsFold DEF Folds

LEMMA SumOfSome ==
    ASSUME NEW w, NEW S, IsFiniteSet(S), S # {}
    PROVE  SumOver(w, S) = w[One(S)] + SumOver(w, Rest(S))
<1>1. PICK f : Folds(w, S, f)
  BY FoldsExists
<1>2. PICK p \in SUBSET S : p = Rest(S)
  BY DEF Rest
<1>3. IsFiniteSet(p)
  BY FS_Subset
<1>4. PICK g : g = [s \in SUBSET p |-> f[s]]
  OBVIOUS
<1>5. Folds(w, p, g)
  BY <1>1, <1>4, FoldsRestricted
<1>6. SumOver(w, S) = f[S] /\ SumOver(w, p) = g[p]
  BY <1>1, <1>3, <1>5, SumIsFold
<1>7. f[S] = w[One(S)] + f[p]
  BY <1>1, <1>2 DEF Folds
<1> QED
  BY <1>2, <1>4, <1>6, <1>7

LEMMA SumIsNumber ==
    ASSUME NEW S, IsFiniteSet(S), NEW w, \A x \in S : w[x] \in Int
    PROVE  SumOver(w, S) \in Int
<1>1. PICK Some : Some = {s \in SUBSET S : SumOver(w, s) \notin Int}
  OBVIOUS
<1>2. CASE Some = {}
  BY <1>1, <1>2
<1>3. CASE Some # {}
  <2>1. PICK s \in Some : \A x \in s : s \ {x} \notin Some
    BY <1>1, <1>3, Smallest
  <2>2. s # {}
    BY <1>1, <2>1, SumOfNone
  <2>3. PICK x \in s : x = One(s)
    BY <2>2, OneIsIn
  <2>4. IsFiniteSet(s)
    BY <1>1, <2>1, FS_Subset
  <2>5. SumOver(w, s) = w[x] + SumOver(w, s \ {x})
    BY <2>2, <2>3, <2>4, SumOfSome DEF Rest
  <2>6. SumOver(w, s \ {x}) \in Int
    BY <1>1, <2>1
  <2> QED
    BY <1>1, <2>5, <2>6
<1> QED
  BY <1>2, <1>3

\* The order of the elements does not matter.
LEMMA SumTakesOut ==
    ASSUME NEW S, IsFiniteSet(S), NEW w, \A x \in S : w[x] \in Int, NEW e \in S
    PROVE  SumOver(w, S) = w[e] + SumOver(w, S \ {e})
<1>1. PICK Some : Some = {s \in SUBSET S : \E x \in s : SumOver(w, s) # w[x] + SumOver(w, s \ {x})}
  OBVIOUS
<1>2. CASE Some = {}
  BY <1>1, <1>2
<1>3. CASE Some # {}
  <2>1. PICK s \in Some : \A x \in s : s \ {x} \notin Some
    BY <1>1, <1>3, Smallest
  <2>2. PICK x \in s : SumOver(w, s) # w[x] + SumOver(w, s \ {x})
    BY <1>1, <2>1
  <2>3. PICK y \in s : y = One(s)
    BY <2>2, OneIsIn
  <2>4. s \in SUBSET S /\ IsFiniteSet(s)
    BY <1>1, <2>1, FS_Subset
  <2>5. SumOver(w, s) = w[y] + SumOver(w, s \ {y})
    BY <2>2, <2>3, <2>4, SumOfSome DEF Rest
  <2>6. x # y
    BY <2>2, <2>5
  <2>7. PICK t : t = (s \ {x}) \ {y}
    OBVIOUS
  <2>8. t = (s \ {y}) \ {x}
    BY <2>7
  <2>9. SumOver(w, s \ {y}) = w[x] + SumOver(w, t)
    BY <1>1, <2>1, <2>4, <2>6, <2>8
  <2>10. SumOver(w, s \ {x}) = w[y] + SumOver(w, t)
    BY <1>1, <2>1, <2>4, <2>6, <2>7
  <2>11. SumOver(w, t) \in Int
    <3>1. t \in SUBSET S /\ IsFiniteSet(t)
      BY <2>4, <2>7, FS_Subset
    <3> QED
      BY <3>1, SumIsNumber
  <2>12. w[x] \in Int /\ w[y] \in Int
    BY <2>4
  <2> QED
    BY <2>2, <2>5, <2>9, <2>10, <2>11, <2>12
<1> QED
  BY <1>2, <1>3

LEMMA SumTakesIn ==
    ASSUME NEW S, IsFiniteSet(S), NEW w, \A x \in S : w[x] \in Int, NEW e, e \notin S, w[e] \in Int
    PROVE  SumOver(w, S \cup {e}) = w[e] + SumOver(w, S)
<1>1. IsFiniteSet(S \cup {e}) /\ (S \cup {e}) \ {e} = S
  BY FS_AddElement
<1> QED
  BY <1>1, SumTakesOut

\* The weights outside of the set do not matter.
LEMMA SumOfSame ==
    ASSUME NEW S, IsFiniteSet(S), NEW v, NEW w, \A x \in S : v[x] = w[x]
    PROVE  SumOver(v, S) = SumOver(w, S)
<1>1. PICK Some : Some = {s \in SUBSET S : SumOver(v, s) # SumOver(w, s)}
  OBVIOUS
<1>2. CASE Some = {}
  BY <1>1, <1>2
<1>3. CASE Some # {}
  <2>1. PICK s \in Some : \A x \in s : s \ {x} \notin Some
    BY <1>1, <1>3, Smallest
  <2>2. s # {}
    BY <1>1, <2>1, SumOfNone
  <2>3. PICK x \in s : x = One(s)
    BY <2>2, OneIsIn
  <2>4. s \in SUBSET S /\ IsFiniteSet(s)
    BY <1>1, <2>1, FS_Subset
  <2>5. /\ SumOver(v, s) = v[x] + SumOver(v, s \ {x})
        /\ SumOver(w, s) = w[x] + SumOver(w, s \ {x})
    BY <2>2, <2>3, <2>4, SumOfSome DEF Rest
  <2>6. SumOver(v, s \ {x}) = SumOver(w, s \ {x})
    BY <1>1, <2>1
  <2> QED
    BY <1>1, <2>1, <2>4, <2>5, <2>6
<1> QED
  BY <1>2, <1>3

\* A weight that changes moves the sum by as much.
LEMMA SumMoves ==
    ASSUME NEW S, IsFiniteSet(S), NEW v, NEW w, \A x \in S : v[x] \in Int /\ w[x] \in Int,
           NEW e \in S, \A x \in S \ {e} : v[x] = w[x]
    PROVE  SumOver(v, S) = SumOver(w, S) + v[e] - w[e]
<1>1. IsFiniteSet(S \ {e})
  BY FS_RemoveElement
<1>2. SumOver(v, S \ {e}) = SumOver(w, S \ {e})
  BY <1>1, SumOfSame
<1>3. SumOver(v, S) = v[e] + SumOver(v, S \ {e}) /\ SumOver(w, S) = w[e] + SumOver(w, S \ {e})
  BY SumTakesOut
<1>4. SumOver(w, S \ {e}) \in Int
  BY <1>1, SumIsNumber
<1> QED
  BY <1>2, <1>3, <1>4

\* Weights that are not negative add up to what is not negative.
LEMMA SumIsNatural ==
    ASSUME NEW S, IsFiniteSet(S), NEW w, \A x \in S : w[x] \in Nat
    PROVE  SumOver(w, S) \in Nat
<1>1. PICK Some : Some = {s \in SUBSET S : SumOver(w, s) \notin Nat}
  OBVIOUS
<1>2. CASE Some = {}
  BY <1>1, <1>2
<1>3. CASE Some # {}
  <2>1. PICK s \in Some : \A x \in s : s \ {x} \notin Some
    BY <1>1, <1>3, Smallest
  <2>2. s # {}
    <3>1. SumOver(w, {}) \in Nat
      BY SumOfNone
    <3> QED
      BY <1>1, <2>1, <3>1
  <2>3. PICK x \in s : x = One(s)
    BY <2>2, OneIsIn
  <2>4. IsFiniteSet(s)
    BY <1>1, <2>1, FS_Subset
  <2>5. SumOver(w, s) = w[x] + SumOver(w, s \ {x})
    BY <2>2, <2>3, <2>4, SumOfSome DEF Rest
  <2>6. SumOver(w, s \ {x}) \in Nat
    BY <1>1, <2>1
  <2> QED
    BY <1>1, <2>5, <2>6
<1> QED
  BY <1>2, <1>3

\* The sum over a part is the sum over all, with nothing for the others.
LEMMA SumOfPart ==
    ASSUME NEW S, IsFiniteSet(S), NEW T \in SUBSET S, NEW v, NEW w,
           \A x \in S : w[x] \in Int, \A x \in S : v[x] = IF x \in T THEN w[x] ELSE 0
    PROVE  SumOver(v, S) = SumOver(w, T)
<1>1. PICK Some : Some = {s \in SUBSET S : SumOver(v, s) # SumOver(w, s \cap T)}
  OBVIOUS
<1>2. CASE Some = {}
  <2>1. S \cap T = T
    OBVIOUS
  <2> QED
    BY <1>1, <1>2, <2>1
<1>3. CASE Some # {}
  <2>1. PICK s \in Some : \A x \in s : s \ {x} \notin Some
    BY <1>1, <1>3, Smallest
  <2>2. s # {}
    <3>1. {} \cap T = {}
      OBVIOUS
    <3> QED
      BY <1>1, <2>1, <3>1, SumOfNone
  <2>3. PICK x \in s : TRUE
    BY <2>2
  <2>4. s \in SUBSET S /\ IsFiniteSet(s) /\ IsFiniteSet(s \cap T)
    BY <1>1, <2>1, FS_Subset, FS_Intersection
  <2>5. \A y \in s : v[y] \in Int /\ w[y] \in Int
    BY <2>4
  <2>6. SumOver(v, s) = v[x] + SumOver(v, s \ {x})
    BY <2>4, <2>5, SumTakesOut
  <2>7. SumOver(v, s \ {x}) = SumOver(w, (s \ {x}) \cap T)
    BY <1>1, <2>1, <2>4
  <2>8. CASE x \in T
    <3>1. (s \ {x}) \cap T = (s \cap T) \ {x} /\ x \in s \cap T
      BY <2>8
    <3>2. SumOver(w, s \cap T) = w[x] + SumOver(w, (s \cap T) \ {x})
      BY <2>4, <2>5, <3>1, SumTakesOut
    <3> QED
      BY <1>1, <2>1, <2>4, <2>6, <2>7, <2>8, <3>1, <3>2
  <2>9. CASE x \notin T
    <3>1. (s \ {x}) \cap T = s \cap T
      BY <2>9
    <3>2. SumOver(w, s \cap T) \in Int
      BY <2>4, <2>5, SumIsNumber
    <3> QED
      BY <1>1, <2>1, <2>4, <2>6, <2>7, <2>9, <3>1, <3>2
  <2> QED
    BY <2>8, <2>9
<1> QED
  BY <1>2, <1>3

\* The sum of the differences is the difference of the sums.
LEMMA SumOfDifference ==
    ASSUME NEW S, IsFiniteSet(S), NEW u, NEW v, NEW w,
           \A x \in S : u[x] \in Int /\ v[x] \in Int /\ w[x] = u[x] - v[x]
    PROVE  SumOver(w, S) = SumOver(u, S) - SumOver(v, S)
<1>1. PICK Some : Some = {s \in SUBSET S : SumOver(w, s) # SumOver(u, s) - SumOver(v, s)}
  OBVIOUS
<1>2. CASE Some = {}
  BY <1>1, <1>2
<1>3. CASE Some # {}
  <2>1. PICK s \in Some : \A x \in s : s \ {x} \notin Some
    BY <1>1, <1>3, Smallest
  <2>2. s # {}
    <3>1. SumOver(w, {}) = 0 /\ SumOver(u, {}) = 0 /\ SumOver(v, {}) = 0
      BY SumOfNone
    <3>2. SumOver(w, {}) = SumOver(u, {}) - SumOver(v, {})
      BY <3>1
    <3> QED
      BY <1>1, <2>1, <3>2
  <2>3. PICK x \in s : TRUE
    BY <2>2
  <2>4. s \in SUBSET S /\ IsFiniteSet(s) /\ IsFiniteSet(s \ {x})
    BY <1>1, <2>1, FS_Subset, FS_RemoveElement
  <2>5. \A y \in s : u[y] \in Int /\ v[y] \in Int /\ w[y] \in Int
    BY <2>4
  <2>6. /\ SumOver(u, s) = u[x] + SumOver(u, s \ {x})
        /\ SumOver(v, s) = v[x] + SumOver(v, s \ {x})
        /\ SumOver(w, s) = w[x] + SumOver(w, s \ {x})
    BY <2>4, <2>5, SumTakesOut
  <2>7. SumOver(w, s \ {x}) = SumOver(u, s \ {x}) - SumOver(v, s \ {x})
    BY <1>1, <2>1, <2>4
  <2>8. SumOver(u, s \ {x}) \in Int /\ SumOver(v, s \ {x}) \in Int
    BY <2>4, <2>5, SumIsNumber
  <2>9. w[x] = u[x] - v[x] /\ u[x] \in Int /\ v[x] \in Int
    BY <2>4
  <2> QED
    BY <1>1, <2>1, <2>6, <2>7, <2>8, <2>9
<1> QED
  BY <1>2, <1>3
=============================================================================
