---------------------------- MODULE CodeGraph_proofs ----------------------------
(***************************************************************************)
(* What the other proofs need to know of the collections the modules are   *)
(* built from: sums over sets and sequences, sorted sets, filtered and     *)
(* joined sequences; and what a traversal of CodeGraph finds.              *)
(*                                                                         *)
(* Induction is by a least counterexample: a set of numbers, or of subsets *)
(* of a finite set, that is not empty has a least member.                  *)
(***************************************************************************)
EXTENDS CodeGraph, FiniteSetTheorems, SequenceTheorems, WellFoundedInduction, TLAPS

LEMMA LeastNumber ==
    ASSUME NEW T \in SUBSET Nat, T # {}
    PROVE  \E m \in T : \A k \in T : m <= k
<1>1. PICK m \in T : \A k \in T : <<k, m>> \notin OpToRel(<, Nat)
    BY NatLessThanWellFounded, WFMin
<1>2. \A k \in T : ~(k < m)
    BY <1>1 DEF OpToRel
<1> QED BY <1>2

LEMMA LeastSubset ==
    ASSUME NEW S, IsFiniteSet(S), NEW T \in SUBSET SUBSET S, T # {}
    PROVE  \E m \in T : \A k \in T : k \subseteq m => k = m
<1>1. IsWellFoundedOn(StrictSubsetOrdering(S), SUBSET S)
    BY FS_StrictSubsetOrderingWellFounded, FS_FiniteSubsetsOfFinite
<1>2. PICK m \in T : \A k \in T : <<k, m>> \notin StrictSubsetOrdering(S)
    BY <1>1, WFMin
<1>3. \A k \in T : k \subseteq m => k = m
    BY <1>2 DEF StrictSubsetOrdering
<1> QED BY <1>3

LEMMA BijectionCounts ==
    ASSUME NEW S, IsFiniteSet(S), NEW T, NEW g \in [S -> T],
           \A x, y \in S : g[x] = g[y] => x = y, \A t \in T : \E x \in S : g[x] = t
    PROVE  IsFiniteSet(T) /\ Cardinality(T) = Cardinality(S)
<1>1. g \in Injection(S, T)
    BY DEF Injection, IsInjective
<1>2. g \in Surjection(S, T)
    BY DEF Surjection
<1>3. ExistsBijection(S, T)
    BY <1>1, <1>2 DEF ExistsBijection, Bijection
<1> QED BY <1>3, FS_Bijection

LEMMA InjectionCovers ==
    ASSUME NEW S, NEW T, IsFiniteSet(T), Cardinality(S) = Cardinality(T), NEW g \in [S -> T],
           \A x, y \in S : g[x] = g[y] => x = y
    PROVE  \A t \in T : \E x \in S : g[x] = t
<1>1. g \in Injection(S, T)
    BY DEF Injection, IsInjective
<1>2. g \in Surjection(S, T)
    BY <1>1, FS_Injection
<1> QED BY <1>2 DEF Surjection

LEMMA CountImage ==
    ASSUME NEW S, IsFiniteSet(S), NEW h, \A x, y \in S : h[x] = h[y] => x = y
    PROVE  IsFiniteSet({h[x] : x \in S}) /\ Cardinality({h[x] : x \in S}) = Cardinality(S)
<1> DEFINE g == [x \in S |-> h[x]]
           T == {h[x] : x \in S}
<1>1. g \in [S -> T] /\ (\A x, y \in S : g[x] = g[y] => x = y) /\ \A t \in T : \E x \in S : g[x] = t
    OBVIOUS
<1> HIDE DEF g, T
<1>2. IsFiniteSet(T) /\ Cardinality(T) = Cardinality(S)
    BY <1>1, BijectionCounts
<1> QED BY <1>2 DEF T

LEMMA TakeIsPrefix ==
    ASSUME NEW S, NEW s \in Seq(S), NEW n \in Nat
    PROVE  /\ Take(s, n) \in Seq(S) /\ Len(Take(s, n)) <= n /\ Len(Take(s, n)) <= Len(s)
           /\ \A i \in 1..Len(Take(s, n)) : Take(s, n)[i] = s[i]
           /\ Len(s) <= n => Take(s, n) = s
           /\ n <= Len(s) => Len(Take(s, n)) = n
           /\ ToSet(Take(s, n)) \subseteq ToSet(s)
<1>1. PICK m \in 0..Len(s) : m = Least(n, Len(s)) /\ m <= n /\ (Len(s) <= n => m = Len(s)) /\ (n <= Len(s) => m = n)
    BY DEF Least
<1>2. PICK t : t = Take(s, n)
    OBVIOUS
<1>3. t = SubSeq(s, 1, m)
    BY <1>1, <1>2 DEF Take
<1>4. t \in Seq(S) /\ Len(t) = m /\ \A i \in 1..m : t[i] = s[i]
    BY <1>3
<1>5. Len(s) <= n => t = s
    BY <1>1, <1>3, <1>4
<1>6. ToSet(t) \subseteq ToSet(s)
    BY <1>4 DEF ToSet
<1> QED BY <1>1, <1>2, <1>4, <1>5, <1>6

-----------------------------------------------------------------------------
(***************************************************************************)
(* Sums. f[x] is counted by as many tokens, so that what a sum does is     *)
(* what the size of a set does.                                            *)
(***************************************************************************)
Tokens(f, S) == UNION {{x} \X (1..f[x]) : x \in S}
Total(f, S) == Cardinality(Tokens(f, S))

LEMMA TotalType ==
    ASSUME NEW S, IsFiniteSet(S), NEW f, \A x \in S : f[x] \in Nat
    PROVE  IsFiniteSet(Tokens(f, S)) /\ Total(f, S) \in Nat
<1> DEFINE of == [x \in S |-> {x} \X (1..f[x])]
           parts == {of[x] : x \in S}
<1>1. \A x \in S : IsFiniteSet(of[x])
    <2> SUFFICES ASSUME NEW x \in S PROVE IsFiniteSet({x} \X (1..f[x]))
        OBVIOUS
    <2>1. IsFiniteSet({x})
        BY FS_Singleton
    <2>2. IsFiniteSet(1..f[x])
        BY FS_Interval
    <2> QED BY <2>1, <2>2, FS_Product
<1>2. of \in Surjection(S, parts)
    BY DEF Surjection
<1>3. IsFiniteSet(parts)
    <2> HIDE DEF of, parts
    <2> QED BY <1>2, FS_Surjection
<1>4. \A part \in parts : IsFiniteSet(part)
    BY <1>1
<1>5. Tokens(f, S) = UNION parts
    BY DEF Tokens
<1>6. IsFiniteSet(UNION parts)
    <2> HIDE DEF parts
    <2> QED BY <1>3, <1>4, FS_UNION
<1> QED BY <1>5, <1>6, FS_CardinalityType DEF Total

LEMMA TotalEmpty == \A f : Total(f, {}) = 0
<1>1. \A f : Tokens(f, {}) = {}
    BY DEF Tokens
<1> QED BY <1>1, FS_EmptySet DEF Total

LEMMA TotalUnion ==
    ASSUME NEW S, IsFiniteSet(S), NEW T, IsFiniteSet(T), S \cap T = {}, NEW f, \A x \in S \cup T : f[x] \in Nat
    PROVE  Total(f, S \cup T) = Total(f, S) + Total(f, T)
<1>1. Tokens(f, S \cup T) = Tokens(f, S) \cup Tokens(f, T)
    BY DEF Tokens
<1>2. Tokens(f, S) \cap Tokens(f, T) = {}
    <2> SUFFICES ASSUME NEW t \in Tokens(f, S), t \in Tokens(f, T) PROVE FALSE
        OBVIOUS
    <2>1. PICK x \in S : t \in {x} \X (1..f[x])
        BY DEF Tokens
    <2>2. PICK y \in T : t \in {y} \X (1..f[y])
        BY DEF Tokens
    <2> QED BY <2>1, <2>2
<1>3. IsFiniteSet(Tokens(f, S)) /\ IsFiniteSet(Tokens(f, T))
    BY TotalType
<1>4. Cardinality(Tokens(f, S) \cup Tokens(f, T)) =
          Cardinality(Tokens(f, S)) + Cardinality(Tokens(f, T)) - Cardinality(Tokens(f, S) \cap Tokens(f, T))
    BY <1>3, FS_Union
<1>5. Cardinality(Tokens(f, S)) \in Nat /\ Cardinality(Tokens(f, T)) \in Nat
    BY <1>3, FS_CardinalityType
<1>6. Cardinality(Tokens(f, S) \cap Tokens(f, T)) = 0
    BY <1>2, FS_EmptySet
<1>7. Total(f, S \cup T) = Cardinality(Tokens(f, S) \cup Tokens(f, T))
    BY <1>1 DEF Total
<1> HIDE DEF Tokens
<1> QED BY <1>4, <1>5, <1>6, <1>7 DEF Total

LEMMA TotalOne ==
    ASSUME NEW x, NEW f, f[x] \in Nat
    PROVE  Total(f, {x}) = f[x]
<1>1. Tokens(f, {x}) = {x} \X (1..f[x])
    BY DEF Tokens
<1>2. IsFiniteSet({x}) /\ Cardinality({x}) = 1
    BY FS_Singleton
<1>3. IsFiniteSet(1..f[x]) /\ Cardinality(1..f[x]) = f[x]
    BY FS_Interval
<1>4. Cardinality({x} \X (1..f[x])) = Cardinality({x}) * Cardinality(1..f[x])
    BY <1>2, <1>3, FS_Product
<1>5. Cardinality({x} \X (1..f[x])) = f[x]
    BY <1>2, <1>3, <1>4
<1> QED BY <1>1, <1>5 DEF Total

LEMMA TotalAdd ==
    ASSUME NEW S, IsFiniteSet(S), NEW x, x \notin S, NEW f, f[x] \in Nat, \A y \in S : f[y] \in Nat
    PROVE  Total(f, S \cup {x}) = Total(f, S) + f[x]
<1>1. IsFiniteSet({x}) /\ S \cap {x} = {}
    BY FS_Singleton
<1>2. Total(f, S \cup {x}) = Total(f, S) + Total(f, {x})
    BY <1>1, TotalUnion
<1> QED BY <1>2, TotalOne

LEMMA TotalSubset ==
    ASSUME NEW T, IsFiniteSet(T), NEW S \in SUBSET T, NEW f, \A x \in T : f[x] \in Nat
    PROVE  Total(f, S) <= Total(f, T)
<1>1. Tokens(f, S) \subseteq Tokens(f, T)
    BY DEF Tokens
<1>2. IsFiniteSet(Tokens(f, T))
    BY TotalType
<1> QED BY <1>1, <1>2, FS_Subset DEF Total

LEMMA TotalAgree ==
    ASSUME NEW S, NEW f, NEW g, \A x \in S : f[x] = g[x]
    PROVE  Total(f, S) = Total(g, S)
<1>1. Tokens(f, S) = Tokens(g, S)
    BY DEF Tokens
<1> QED BY <1>1 DEF Total

(* The fold of the community modules takes the elements of a set away one  *)
(* by one, as CHOOSE picks them; of a sum it does not matter which.        *)
Pick(s) == CHOOSE x \in s : TRUE
Folds(fold, f, S) == fold = [s \in SUBSET S |-> IF s = {} THEN 0 ELSE f[Pick(s)] + fold[s \ {Pick(s)}]]

LEMMA FoldIsTotal ==
    ASSUME NEW S, IsFiniteSet(S), NEW f, \A x \in S : f[x] \in Nat, NEW fold, Folds(fold, f, S)
    PROVE  fold[S] = Total(f, S)
<1> DEFINE wrong == {s \in SUBSET S : fold[s] # Total(f, s)}
<1>1. SUFFICES ASSUME wrong # {} PROVE FALSE
    OBVIOUS
<1>2. PICK s \in wrong : \A k \in wrong : k \subseteq s => k = s
    <2>1. wrong \in SUBSET SUBSET S
        OBVIOUS
    <2> HIDE DEF wrong
    <2> QED BY <1>1, <2>1, LeastSubset
<1>3. s # {}
    BY <1>2, TotalEmpty DEF Folds
<1>4. Pick(s) \in s
    BY <1>3 DEF Pick
<1>5. s \ {Pick(s)} \notin wrong
    BY <1>2, <1>4
<1>6. fold[s] = f[Pick(s)] + Total(f, s \ {Pick(s)})
    BY <1>3, <1>5 DEF Folds
<1>7. IsFiniteSet(s \ {Pick(s)}) /\ (s \ {Pick(s)}) \cup {Pick(s)} = s
    BY <1>4, FS_Subset
<1>8. Total(f, s) = Total(f, s \ {Pick(s)}) + f[Pick(s)]
    BY <1>4, <1>7, TotalAdd
<1>9. f[Pick(s)] \in Nat /\ Total(f, s \ {Pick(s)}) \in Nat
    BY <1>4, <1>7, TotalType
<1> QED BY <1>2, <1>6, <1>8, <1>9

LEMMA FoldExists ==
    ASSUME NEW S, IsFiniteSet(S), NEW f, \A x \in S : f[x] \in Nat
    PROVE  \E fold : Folds(fold, f, S)
<1> DEFINE fold == [s \in SUBSET S |-> Total(f, s)]
<1>1. ASSUME NEW s \in SUBSET S, s # {}
      PROVE  Total(f, s) = f[Pick(s)] + Total(f, s \ {Pick(s)})
    <2>1. Pick(s) \in s
        BY <1>1 DEF Pick
    <2>2. IsFiniteSet(s \ {Pick(s)}) /\ (s \ {Pick(s)}) \cup {Pick(s)} = s
        BY <2>1, FS_Subset
    <2>3. Total(f, s) = Total(f, s \ {Pick(s)}) + f[Pick(s)]
        BY <2>1, <2>2, TotalAdd
    <2>4. f[Pick(s)] \in Nat /\ Total(f, s \ {Pick(s)}) \in Nat
        BY <2>1, <2>2, TotalType
    <2> QED BY <2>3, <2>4
<1>2. Folds(fold, f, S)
    BY <1>1, TotalEmpty DEF Folds
<1> QED BY <1>2

(* A renaming of the elements changes no sum.                              *)
Renames(S, f, h, T, g) ==
    /\ \A x \in S : f[x] \in Nat /\ g[h[x]] = f[x]
    /\ T = {h[x] : x \in S} /\ \A x, y \in S : h[x] = h[y] => x = y

LEMMA TotalRenamed ==
    ASSUME NEW S, IsFiniteSet(S), NEW f, NEW h, NEW T, NEW g, Renames(S, f, h, T, g)
    PROVE  Total(g, T) = Total(f, S)
<1> USE DEF Renames
<1> DEFINE move == [t \in Tokens(f, S) |-> <<h[t[1]], t[2]>>]
<1>1. \A t \in Tokens(f, S) : t[1] \in S /\ t[2] \in 1..f[t[1]] /\ t = <<t[1], t[2]>>
    BY DEF Tokens
<1>2. \A t \in Tokens(f, S) : move[t] \in Tokens(g, T)
    <2> SUFFICES ASSUME NEW t \in Tokens(f, S) PROVE <<h[t[1]], t[2]>> \in Tokens(g, T)
        OBVIOUS
    <2>1. h[t[1]] \in T /\ t[2] \in 1..g[h[t[1]]]
        BY <1>1
    <2> QED BY <2>1 DEF Tokens
<1>3. \A t, u \in Tokens(f, S) : move[t] = move[u] => t = u
    <2> SUFFICES ASSUME NEW t \in Tokens(f, S), NEW u \in Tokens(f, S), <<h[t[1]], t[2]>> = <<h[u[1]], u[2]>>
                 PROVE  t = u
        OBVIOUS
    <2>1. h[t[1]] = h[u[1]] /\ t[2] = u[2]
        OBVIOUS
    <2>2. t[1] = u[1]
        BY <1>1, <2>1
    <2> QED BY <1>1, <2>1, <2>2
<1>4. \A v \in Tokens(g, T) : \E t \in Tokens(f, S) : move[t] = v
    <2> SUFFICES ASSUME NEW v \in Tokens(g, T) PROVE \E t \in Tokens(f, S) : move[t] = v
        OBVIOUS
    <2>1. PICK y \in T : v \in {y} \X (1..g[y])
        BY DEF Tokens
    <2>2. PICK x \in S : y = h[x]
        OBVIOUS
    <2>3. v = <<h[x], v[2]>> /\ v[2] \in 1..f[x]
        BY <2>1, <2>2
    <2>4. <<x, v[2]>> \in Tokens(f, S)
        BY <2>3 DEF Tokens
    <2>5. move[<<x, v[2]>>] = <<h[x], v[2]>>
        BY <2>4
    <2> QED BY <2>3, <2>4, <2>5
<1>5. move \in [Tokens(f, S) -> Tokens(g, T)]
    BY <1>2
<1>6. IsFiniteSet(Tokens(f, S))
    BY TotalType
<1> HIDE DEF move
<1> QED BY <1>3, <1>4, <1>5, <1>6, BijectionCounts DEF Total

-----------------------------------------------------------------------------
(***************************************************************************)
(* Sorted sets. The place of an element in a strict total order is one     *)
(* more than the number of elements before it; every place is taken once.  *)
(***************************************************************************)
Ranking(S, R, place, s) ==
    /\ \A x, y \in S : x # y => <<x, y>> \in R \/ <<y, x>> \in R
    /\ \A x \in S : place[x] \in 1..Cardinality(S)
    /\ \A x, y \in S : <<x, y>> \in R => place[x] < place[y]
    /\ \A x \in S, i \in 1..Cardinality(S) : place[x] = i => s[i] \in S /\ place[s[i]] = i

LEMMA RanksAreTaken ==
    ASSUME NEW S, IsFiniteSet(S), NEW R, NEW place, NEW s, Ranking(S, R, place, s)
    PROVE  /\ \A i \in 1..Cardinality(S) : s[i] \in S
           /\ \A i, j \in 1..Cardinality(S) : i < j => <<s[i], s[j]>> \in R
           /\ \A x \in S : \E i \in 1..Cardinality(S) : s[i] = x
<1> USE DEF Ranking
<1>0. PICK n \in Nat : n = Cardinality(S)
    BY FS_CardinalityType
<1>1. \A x \in S : place[x] \in 1..n
    BY <1>0
<1>2. \A x, y \in S : place[x] = place[y] => x = y
    <2> SUFFICES ASSUME NEW x \in S, NEW y \in S, place[x] = place[y], x # y PROVE FALSE
        OBVIOUS
    <2>1. place[x] < place[y] \/ place[y] < place[x]
        OBVIOUS
    <2> QED BY <2>1, <1>1
<1>3. \A i \in 1..n : \E x \in S : place[x] = i
    <2>1. IsFiniteSet(1..n) /\ Cardinality(1..n) = n
        BY FS_Interval
    <2>2. PICK T : T = 1..n
        OBVIOUS
    <2>3. IsFiniteSet(T) /\ Cardinality(S) = Cardinality(T)
        BY <1>0, <2>1, <2>2
    <2>4. PICK g \in [S -> T] : \A x \in S : g[x] = place[x]
        <3>1. [x \in S |-> place[x]] \in [S -> T]
            BY <1>1, <2>2
        <3> QED BY <3>1
    <2>5. \A x, y \in S : g[x] = g[y] => x = y
        BY <1>2, <2>4
    <2>6. \A t \in T : \E x \in S : g[x] = t
        BY <2>3, <2>5, InjectionCovers
    <2> QED BY <2>2, <2>4, <2>6
<1>4. \A i \in 1..n : s[i] \in S /\ place[s[i]] = i
    <2> SUFFICES ASSUME NEW i \in 1..n PROVE s[i] \in S /\ place[s[i]] = i
        OBVIOUS
    <2>1. \E x \in S : place[x] = i
        BY <1>3
    <2> QED BY <1>0, <2>1
<1>5. \A i, j \in 1..n : i < j => <<s[i], s[j]>> \in R
    <2> SUFFICES ASSUME NEW i \in 1..n, NEW j \in 1..n, i < j PROVE <<s[i], s[j]>> \in R
        OBVIOUS
    <2>1. s[i] \in S /\ s[j] \in S /\ place[s[i]] = i /\ place[s[j]] = j
        BY <1>4
    <2>2. s[i] # s[j] /\ ~(place[s[j]] < place[s[i]])
        BY <2>1
    <2> QED BY <2>1, <2>2
<1>6. \A x \in S : \E i \in 1..n : s[i] = x
    BY <1>1, <1>2, <1>4
<1> QED BY <1>0, <1>4, <1>5, <1>6

CountedBelow(S, R, below, place) ==
    /\ \A x, y \in S : <<x, y>> \in R => <<y, x>> \notin R
    /\ \A x, y, z \in S : <<x, y>> \in R /\ <<y, z>> \in R => <<x, z>> \in R
    /\ below \in [S -> SUBSET S] /\ \A x, y \in S : y \in below[x] <=> <<y, x>> \in R
    /\ \A x \in S : place[x] = Cardinality(below[x]) + 1
Placed(S, R, place) ==
    /\ \A x \in S : place[x] \in 1..Cardinality(S)
    /\ \A x, y \in S : <<x, y>> \in R => place[x] < place[y]

LEMMA RankingIsOrder ==
    ASSUME NEW S, IsFiniteSet(S), NEW R, NEW below, NEW place, CountedBelow(S, R, below, place)
    PROVE  Placed(S, R, place)
<1> USE DEF CountedBelow
<1>0. PICK n \in Nat : n = Cardinality(S)
    BY FS_CardinalityType
<1>2. \A x \in S : IsFiniteSet(below[x]) /\ Cardinality(below[x]) \in Nat
    <2> SUFFICES ASSUME NEW x \in S PROVE IsFiniteSet(below[x]) /\ Cardinality(below[x]) \in Nat
        OBVIOUS
    <2>1. below[x] \in SUBSET S
        OBVIOUS
    <2> QED BY <2>1, FS_Subset, FS_CardinalityType
<1>4. ASSUME NEW x \in S PROVE Cardinality(below[x]) < n
    <2>1. below[x] \in SUBSET S /\ x \notin below[x]
        OBVIOUS
    <2>2. below[x] # S
        BY <2>1
    <2>3. Cardinality(below[x]) <= n /\ Cardinality(below[x]) # n
        BY <2>1, <2>2, <1>0, FS_Subset
    <2> QED BY <2>3, <1>2
<1>5. ASSUME NEW x \in S, NEW y \in S, <<x, y>> \in R PROVE Cardinality(below[x]) < Cardinality(below[y])
    <2>1. below[x] \in SUBSET below[y] /\ x \notin below[x] /\ x \in below[y]
        BY <1>5
    <2>2. below[x] # below[y] /\ IsFiniteSet(below[y])
        BY <2>1, <1>2
    <2>3. Cardinality(below[x]) <= Cardinality(below[y]) /\ Cardinality(below[x]) # Cardinality(below[y])
        BY <2>1, <2>2, FS_Subset
    <2> QED BY <2>3, <1>2
<1>7. \A x \in S : place[x] \in 1..n
    BY <1>2, <1>4
<1>9. \A x, y \in S : <<x, y>> \in R => place[x] < place[y]
    <2> SUFFICES ASSUME NEW x \in S, NEW y \in S, <<x, y>> \in R PROVE place[x] < place[y]
        OBVIOUS
    <2>1. Cardinality(below[x]) < Cardinality(below[y])
        BY <1>5
    <2> QED BY <2>1, <1>2
<1> QED BY <1>0, <1>7, <1>9 DEF Placed

(* Ordered(S, <) for numbers: the increasing numbering of the set.         *)
LEMMA OrderedNumbers ==
    ASSUME NEW S \in SUBSET Int, IsFiniteSet(S)
    PROVE  /\ ById(S) \in [1..Cardinality(S) -> S]
           /\ Cardinality(S) \in Nat
           /\ \A i, j \in 1..Cardinality(S) : i < j => ById(S)[i] < ById(S)[j]
           /\ \A x \in S : \E i \in 1..Cardinality(S) : ById(S)[i] = x
<1> DEFINE R == {p \in S \X S : p[1] < p[2]}
           place == [x \in S |-> Cardinality({y \in S : y < x}) + 1]
<1>1. \A x, y \in S : <<x, y>> \in R <=> x < y
    OBVIOUS
<1> HIDE DEF R
<1>2a. \A x, y \in S : <<x, y>> \in R => <<y, x>> \notin R
    BY <1>1
<1>2b. \A x, y \in S : x # y => <<x, y>> \in R \/ <<y, x>> \in R
    BY <1>1
<1>2c. \A x, y, z \in S : <<x, y>> \in R /\ <<y, z>> \in R => <<x, z>> \in R
    BY <1>1
<1>3. PICK below \in [S -> SUBSET S] : below = [x \in S |-> {y \in S : y < x}]
    OBVIOUS
<1>3a. \A x, y \in S : y \in below[x] <=> <<y, x>> \in R
    BY <1>1, <1>3
<1>3b. \A x \in S : place[x] = Cardinality(below[x]) + 1
    BY <1>3
<1>4. ById(S) = [i \in 1..Cardinality(S) |-> CHOOSE x \in S : place[x] = i]
    BY DEF ById, Ordered
<1> HIDE DEF place
<1>5. Placed(S, R, place)
    <2>1. CountedBelow(S, R, below, place)
        BY <1>2a, <1>2c, <1>3a, <1>3b DEF CountedBelow
    <2> QED BY <2>1, RankingIsOrder
<1>6. \A x \in S, i \in 1..Cardinality(S) : place[x] = i => ById(S)[i] \in S /\ place[ById(S)[i]] = i
    BY <1>4
<1>s. PICK s : s = ById(S)
    OBVIOUS
<1>6a. \A x \in S, i \in 1..Cardinality(S) : place[x] = i => s[i] \in S /\ place[s[i]] = i
    BY <1>6, <1>s
<1>7. Ranking(S, R, place, s)
    BY <1>2b, <1>5, <1>6a DEF Ranking, Placed
<1>7a. /\ \A i \in 1..Cardinality(S) : s[i] \in S
       /\ \A i, j \in 1..Cardinality(S) : i < j => <<s[i], s[j]>> \in R
       /\ \A x \in S : \E i \in 1..Cardinality(S) : s[i] = x
    BY <1>7, RanksAreTaken
<1>8. DOMAIN ById(S) = 1..Cardinality(S) /\ ById(S) = [i \in 1..Cardinality(S) |-> ById(S)[i]]
    BY <1>4
<1>9. ById(S) \in [1..Cardinality(S) -> S]
    BY <1>7a, <1>s, <1>8
<1> QED BY <1>1, <1>7a, <1>s, <1>9, FS_CardinalityType

(* Kept: exactly the records that pass the test, once each.                *)
At(s, I) == {s[i] : i \in I}
KeptAt(s, I) == LET at == ById(I) IN [k \in DOMAIN at |-> s[at[k]]]

LEMMA KeptRecords ==
    ASSUME NEW s, NEW I \in SUBSET Int, IsFiniteSet(I), NEW kept, kept = KeptAt(s, I)
    PROVE  /\ kept \in Seq(At(s, I))
           /\ Len(kept) = Cardinality(I)
           /\ ToSet(kept) = At(s, I)
<1>1. PICK at : at = ById(I)
    OBVIOUS
<1>2. PICK n \in Nat : n = Cardinality(I)
    BY FS_CardinalityType
<1>3. at \in [1..n -> I] /\ \A x \in I : \E k \in 1..n : at[k] = x
    BY <1>1, <1>2, OrderedNumbers
<1>4. kept = [k \in 1..n |-> s[at[k]]]
    BY <1>1, <1>3 DEF KeptAt
<1>5. kept \in [1..n -> {s[i] : i \in I}]
    BY <1>3, <1>4
<1>6. kept \in Seq({s[i] : i \in I}) /\ Len(kept) = n
    BY <1>5
<1>7. ToSet(kept) = {s[i] : i \in I}
    <2>1. ToSet(kept) = {s[at[k]] : k \in 1..n}
        BY <1>4 DEF ToSet
    <2> QED BY <1>3, <2>1
<1>8. At(s, I) = {s[i] : i \in I}
    BY DEF At
<1> QED BY <1>2, <1>6, <1>7, <1>8

(* Ordered(S, before) in a strict total order R: every member once, in the *)
(* order. Sorted says it for an order that is a relation.                  *)
Sorted(S, R) ==
    LET place == [x \in S |-> Cardinality({y \in S : <<y, x>> \in R}) + 1]
    IN [i \in 1..Cardinality(S) |-> CHOOSE x \in S : place[x] = i]
StrictOrder(S, R) ==
    /\ \A x, y \in S : <<x, y>> \in R => <<y, x>> \notin R
    /\ \A x, y \in S : x # y => <<x, y>> \in R \/ <<y, x>> \in R
    /\ \A x, y, z \in S : <<x, y>> \in R /\ <<y, z>> \in R => <<x, z>> \in R
Lists(s, S, R) ==
    /\ s \in Seq(S) /\ Len(s) = Cardinality(S) /\ Cardinality(S) \in Nat /\ ToSet(s) = S
    /\ \A i, j \in 1..Len(s) : i < j => <<s[i], s[j]>> \in R
    /\ \A i, j \in 1..Len(s) : s[i] = s[j] => i = j

LEMMA SortedLists ==
    ASSUME NEW S, IsFiniteSet(S), NEW R, StrictOrder(S, R)
    PROVE  Lists(Sorted(S, R), S, R)
<1> DEFINE place == [x \in S |-> Cardinality({y \in S : <<y, x>> \in R}) + 1]
<1>1. PICK below \in [S -> SUBSET S] : below = [x \in S |-> {y \in S : <<y, x>> \in R}]
    OBVIOUS
<1>2. \A x, y \in S : y \in below[x] <=> <<y, x>> \in R
    BY <1>1
<1>3. \A x \in S : place[x] = Cardinality(below[x]) + 1
    BY <1>1
<1>4. PICK s : s = Sorted(S, R)
    OBVIOUS
<1>5. s = [i \in 1..Cardinality(S) |-> CHOOSE x \in S : place[x] = i]
    BY <1>4 DEF Sorted
<1> HIDE DEF place
<1>6a. \A x, y \in S : <<x, y>> \in R => <<y, x>> \notin R
    BY DEF StrictOrder
<1>6b. \A x, y, z \in S : <<x, y>> \in R /\ <<y, z>> \in R => <<x, z>> \in R
    BY DEF StrictOrder
<1>7. Placed(S, R, place)
    <2>1. CountedBelow(S, R, below, place)
        BY <1>1, <1>2, <1>3, <1>6a, <1>6b DEF CountedBelow
    <2> QED BY <2>1, RankingIsOrder
<1>8. \A x \in S, i \in 1..Cardinality(S) : place[x] = i => s[i] \in S /\ place[s[i]] = i
    BY <1>5
<1>9. Ranking(S, R, place, s)
    BY <1>7, <1>8 DEF Ranking, StrictOrder, Placed
<1>10. /\ \A i \in 1..Cardinality(S) : s[i] \in S
       /\ \A i, j \in 1..Cardinality(S) : i < j => <<s[i], s[j]>> \in R
       /\ \A x \in S : \E i \in 1..Cardinality(S) : s[i] = x
    BY <1>9, RanksAreTaken
<1>11. PICK n \in Nat : n = Cardinality(S)
    BY FS_CardinalityType
<1>12. s = [i \in 1..n |-> s[i]]
    BY <1>5, <1>11
<1>13. s \in [1..n -> S]
    BY <1>10, <1>11, <1>12
<1>14. s \in Seq(S) /\ Len(s) = n
    BY <1>13
<1>15. ToSet(s) = S
    BY <1>10, <1>11, <1>13 DEF ToSet
<1>16. \A i, j \in 1..n : s[i] = s[j] => i = j
    <2>1. \A x \in S : <<x, x>> \notin R
        BY <1>6a
    <2>2. \A i, j \in 1..n : i < j => s[i] # s[j]
        BY <2>1, <1>10, <1>11
    <2> QED BY <2>2
<1> QED BY <1>4, <1>10, <1>11, <1>14, <1>15, <1>16 DEF Lists

(* Orders by a number that tells the members apart.                        *)
Keyed(S, key, R) ==
    /\ \A x \in S : key[x] \in Int
    /\ \A x, y \in S : key[x] = key[y] => x = y
    /\ \A x, y \in S : <<x, y>> \in R <=> key[x] < key[y]

LEMMA KeyedIsStrict ==
    ASSUME NEW S, NEW key, NEW R, Keyed(S, key, R)
    PROVE  StrictOrder(S, R)
<1> USE DEF Keyed
<1>1. \A x, y \in S : <<x, y>> \in R => <<y, x>> \notin R
    OBVIOUS
<1>2. \A x, y \in S : x # y => <<x, y>> \in R \/ <<y, x>> \in R
    OBVIOUS
<1>3. \A x, y, z \in S : <<x, y>> \in R /\ <<y, z>> \in R => <<x, z>> \in R
    OBVIOUS
<1> QED BY <1>1, <1>2, <1>3 DEF StrictOrder

(* The node order of the in-memory store, when no two digests are equal.   *)
LEMMA DigestLists ==
    ASSUME NEW S, IsFiniteSet(S), \A n \in S : Digest[n] \in Int, \A m, n \in S : Digest[m] = Digest[n] => m = n
    PROVE  \E R : Lists(ByDigest(S), S, R)
<1>1. PICK R : R = {p \in S \X S : Digest[p[1]] < Digest[p[2]]}
    OBVIOUS
<1>2. \A x, y \in S : <<x, y>> \in R <=> Digest[x] < Digest[y]
    BY <1>1
<1>3. StrictOrder(S, R)
    BY <1>2, KeyedIsStrict DEF Keyed
<1>4. \A x \in S : {y \in S : Digest[y] < Digest[x]} = {y \in S : <<y, x>> \in R}
    BY <1>2
<1> DEFINE place == [x \in S |-> Cardinality({y \in S : Digest[y] < Digest[x]}) + 1]
           sorted == [x \in S |-> Cardinality({y \in S : <<y, x>> \in R}) + 1]
<1>5. place = sorted
    BY <1>4
<1>6. ByDigest(S) = Sorted(S, R)
    <2>1. ByDigest(S) = [i \in 1..Cardinality(S) |-> CHOOSE x \in S : place[x] = i]
        BY DEF ByDigest, Ordered
    <2>2. Sorted(S, R) = [i \in 1..Cardinality(S) |-> CHOOSE x \in S : sorted[x] = i]
        BY DEF Sorted
    <2> HIDE DEF place, sorted
    <2> QED BY <1>5, <2>1, <2>2
<1> QED BY <1>3, <1>6, SortedLists

-----------------------------------------------------------------------------
(***************************************************************************)
(* Traversals. A recursive function over 0..n is defined when its step is  *)
(* a function on a set of states, and what its step keeps holds along it.  *)
(***************************************************************************)
LEMMA HoldsUpTo ==
    ASSUME NEW n \in Nat, NEW P, 0 \in P, \A d \in 1..n : d - 1 \in P => d \in P
    PROVE  \A d \in 0..n : d \in P
<1> DEFINE T == {d \in 0..n : d \notin P}
<1>1. SUFFICES ASSUME T # {} PROVE FALSE
    OBVIOUS
<1>2. PICK m \in T : \A k \in T : m <= k
    <2>1. T \in SUBSET Nat
        OBVIOUS
    <2> HIDE DEF T
    <2> QED BY <1>1, <2>1, LeastNumber
<1>3. m \in 1..n /\ m - 1 \notin T /\ m - 1 \in 0..n
    BY <1>2
<1> QED BY <1>2, <1>3

Steps(States, start, step) == start \in States /\ step \in [States -> States]
Walks(walk, States, start, step, n) ==
    /\ walk \in [0..n -> States] /\ walk[0] = start
    /\ \A d \in 1..n : walk[d] = step[walk[d - 1]]

LEMMA WalkExists ==
    ASSUME NEW States, NEW start, NEW step, Steps(States, start, step), NEW n \in Nat
    PROVE  \E walk : Walks(walk, States, start, step, n)
<1> DEFINE P == {m \in Nat : \E walk : Walks(walk, States, start, step, m)}
<1>1. 0 \in P
    <2> DEFINE walk == [d \in 0..0 |-> start]
    <2>1. Walks(walk, States, start, step, 0)
        BY DEF Walks, Steps
    <2> QED BY <2>1
<1>2. ASSUME NEW m \in 1..n, m - 1 \in P PROVE m \in P
    <2>1. PICK walk : Walks(walk, States, start, step, m - 1)
        BY <1>2
    <2> DEFINE longer == [d \in 0..m |-> IF d = m THEN step[walk[m - 1]] ELSE walk[d]]
    <2>2. longer \in [0..m -> States]
        BY <2>1 DEF Walks, Steps
    <2>3. longer[0] = start
        BY <2>1 DEF Walks
    <2>4. ASSUME NEW d \in 1..m PROVE longer[d] = step[longer[d - 1]]
        BY <2>1 DEF Walks
    <2>5. Walks(longer, States, start, step, m)
        BY <2>2, <2>3, <2>4 DEF Walks
    <2> QED BY <2>5
<1>3. n \in P
    <2> HIDE DEF P
    <2>1. \A d \in 0..n : d \in P
        BY <1>1, <1>2, HoldsUpTo
    <2> QED BY <2>1
<1> QED BY <1>3

(* Paths, one step at a time.                                              *)
LEMMA WithinStart ==
    ASSUME NEW g, NEW q, q.roots \subseteq g.nodes
    PROVE  Within(g, q, 0) = q.roots
<1>1. ASSUME NEW n \in q.roots PROVE n \in Within(g, q, 0)
    <2> DEFINE path == [i \in 0..0 |-> n]
    <2>1. /\ path \in [0..0 -> g.nodes] /\ path[0] \in q.roots /\ path[0] = n
          /\ \A i \in 1..0 : path[i] \in Neighbours(g, q, path[i - 1])
        OBVIOUS
    <2> HIDE DEF path
    <2> QED BY <2>1 DEF Within
<1>2. ASSUME NEW n \in Within(g, q, 0) PROVE n \in q.roots
    BY DEF Within
<1> QED BY <1>1, <1>2

LEMMA WithinGrows ==
    ASSUME NEW g, NEW q, NEW k \in Nat
    PROVE  \A j \in 0..k : Within(g, q, j) \subseteq Within(g, q, k)
<1> QED BY DEF Within

LEMMA WithinNext ==
    ASSUME NEW g, NEW q, NEW k \in Nat
    PROVE  Within(g, q, k + 1) = Within(g, q, k) \cup UNION {Neighbours(g, q, n) : n \in Within(g, q, k)}
<1> DEFINE Leads(path, length, n) ==
               /\ path[0] \in q.roots /\ path[length] = n
               /\ \A i \in 1..length : path[i] \in Neighbours(g, q, path[i - 1])
<1>0. \A n, j : n \in Within(g, q, j) <=>
          n \in g.nodes /\ \E length \in 0..j : \E path \in [0..length -> g.nodes] : Leads(path, length, n)
    BY DEF Within
<1>1. ASSUME NEW n \in Within(g, q, k + 1)
      PROVE  n \in Within(g, q, k) \/ \E m \in Within(g, q, k) : n \in Neighbours(g, q, m)
    <2>1. PICK length \in 0..(k + 1) : \E path \in [0..length -> g.nodes] : Leads(path, length, n)
        BY <1>0
    <2>2. PICK path \in [0..length -> g.nodes] : Leads(path, length, n)
        BY <2>1
    <2>3. CASE length \in 0..k
        BY <1>0, <2>2, <2>3
    <2>4. CASE length = k + 1
        <3> DEFINE shorter == [i \in 0..k |-> path[i]]
                   m == path[k]
        <3>1. shorter \in [0..k -> g.nodes] /\ m \in g.nodes
            BY <2>4
        <3>2. \A i \in 1..k : i \in 0..k /\ i - 1 \in 0..k /\ i \in 1..(k + 1)
            OBVIOUS
        <3>3. Leads(shorter, k, m)
            BY <2>2, <2>4, <3>2
        <3>4. m \in Within(g, q, k)
            <4> HIDE DEF shorter, m, Leads
            <4> QED BY <1>0, <3>1, <3>3
        <3>5. n \in Neighbours(g, q, m)
            BY <2>2, <2>4
        <3> QED BY <3>4, <3>5
    <2> QED BY <2>3, <2>4
<1>2. ASSUME NEW m \in Within(g, q, k), NEW n \in Neighbours(g, q, m) PROVE n \in Within(g, q, k + 1)
    <2>1. PICK length \in 0..k : \E path \in [0..length -> g.nodes] : Leads(path, length, m)
        BY <1>0
    <2>2. PICK path \in [0..length -> g.nodes] : Leads(path, length, m)
        BY <2>1
    <2> DEFINE longer == [i \in 0..(length + 1) |-> IF i = length + 1 THEN n ELSE path[i]]
    <2>3. n \in g.nodes
        BY DEF Neighbours
    <2>4. longer \in [0..(length + 1) -> g.nodes]
        BY <2>3
    <2>5. longer[0] \in q.roots /\ longer[length + 1] = n
        BY <2>2
    <2>6. ASSUME NEW i \in 1..(length + 1) PROVE longer[i] \in Neighbours(g, q, longer[i - 1])
        <3>1. CASE i = length + 1
            <4>1. longer[i] = n /\ longer[i - 1] = m
                BY <2>2, <3>1
            <4> QED BY <4>1
        <3>2. CASE i # length + 1
            <4>1. i \in 1..length /\ longer[i] = path[i] /\ longer[i - 1] = path[i - 1]
                BY <3>2
            <4> QED BY <2>2, <4>1
        <3> QED BY <3>1, <3>2
    <2>7. Leads(longer, length + 1, n) /\ length + 1 \in 0..(k + 1)
        BY <2>5, <2>6
    <2> HIDE DEF longer, Leads
    <2> QED BY <1>0, <2>3, <2>4, <2>7
<1>3. Within(g, q, k) \subseteq Within(g, q, k + 1)
    BY WithinGrows
<1> HIDE DEF Leads
<1> QED BY <1>1, <1>2, <1>3

(* What is known of a graph when every node within d steps is seen: the    *)
(* frontier is the part of it whose neighbours have not been looked at.    *)
Level(g, q, d, seen, frontier) ==
    /\ seen = Within(g, q, d) /\ frontier \subseteq seen
    /\ \A n \in seen \ frontier : Neighbours(g, q, n) \subseteq seen

LEMMA NextLevelSeen ==
    ASSUME NEW g, NEW q, NEW d \in Nat, NEW seen, NEW frontier, Level(g, q, d, seen, frontier),
           NEW next, next = NextLevel(g, q, frontier, seen)
    PROVE  /\ Level(g, q, d + 1, seen \cup next, next)
           /\ next \cap seen = {} /\ next \subseteq g.nodes
<1>1. next = (UNION {Neighbours(g, q, n) : n \in frontier}) \ seen
    BY DEF NextLevel
<1>2. \A n : Neighbours(g, q, n) \subseteq g.nodes
    BY DEF Neighbours
<1>3. seen \cup next = Within(g, q, d + 1)
    BY <1>1, WithinNext DEF Level
<1>4. \A n \in seen : Neighbours(g, q, n) \subseteq seen \cup next
    BY <1>1 DEF Level
<1> QED BY <1>1, <1>2, <1>3, <1>4 DEF Level

(* The nodes a traversal has visited after d levels: none twice, none that *)
(* is farther than d steps, and none before everything that is nearer.     *)
Visited(g, q, d, s) ==
    /\ s \in Seq(g.nodes) /\ \A i, j \in 1..Len(s) : s[i] = s[j] => i = j
    /\ \A i \in 1..Len(s) : s[i] \in Within(g, q, d)
    /\ \A k \in 0..d : \A i \in 1..Len(s) : s[i] \notin Within(g, q, k) =>
          \A n \in Within(g, q, k) : \E j \in 1..(i - 1) : s[j] = n
Covers(s, S) == \A n \in S : \E i \in 1..Len(s) : s[i] = n
Distinct(s) == \A i, j \in 1..Len(s) : s[i] = s[j] => i = j

LEMMA VisitedFarther ==
    ASSUME NEW g, NEW q, NEW d \in Nat, NEW s, Visited(g, q, d, s)
    PROVE  Visited(g, q, d + 1, s)
<1>1. Within(g, q, d) \subseteq Within(g, q, d + 1)
    BY WithinGrows
<1>2. \A k \in 0..(d + 1) : k \in 0..d \/ k = d + 1
    OBVIOUS
<1> QED BY <1>1, <1>2 DEF Visited

LEMMA VisitedMore ==
    ASSUME NEW g, NEW q, NEW d \in Nat, NEW s, Visited(g, q, d, s), Covers(s, Within(g, q, d)),
           NEW next, next \subseteq g.nodes, next \subseteq Within(g, q, d + 1), next \cap Within(g, q, d) = {},
           NEW more \in Seq(next), Distinct(more)
    PROVE  Visited(g, q, d + 1, s \o more)
<1>1. PICK m \in Nat : /\ m = Len(s) /\ s \in Seq(g.nodes)
                       /\ \A i, j \in 1..m : s[i] = s[j] => i = j
                       /\ \A i \in 1..m : s[i] \in Within(g, q, d)
                       /\ \A k \in 0..d : \A i \in 1..m : s[i] \notin Within(g, q, k) =>
                             \A x \in Within(g, q, k) : \E j \in 1..(i - 1) : s[j] = x
    BY DEF Visited
<1>2. PICK n \in Nat : n = Len(more)
    OBVIOUS
<1>3. more \in Seq(g.nodes)
    BY SeqMonotonic
<1>4. PICK t : t = s \o more
    OBVIOUS
<1>5. /\ t \in Seq(g.nodes) /\ Len(t) = m + n
      /\ \A i \in 1..m : t[i] = s[i]
      /\ \A i \in (m + 1)..(m + n) : i - m \in 1..n /\ t[i] = more[i - m]
    BY <1>1, <1>2, <1>3, <1>4, ConcatProperties
<1>6. Within(g, q, d) \subseteq Within(g, q, d + 1)
    BY WithinGrows
<1>7. \A i \in 1..(m + n) : \/ i \in 1..m /\ t[i] \in Within(g, q, d)
                            \/ i \in (m + 1)..(m + n) /\ t[i] \in next
    BY <1>1, <1>2, <1>5
<1>8. \A i, j \in 1..(m + n) : t[i] = t[j] => i = j
    <2> SUFFICES ASSUME NEW i \in 1..(m + n), NEW j \in 1..(m + n), t[i] = t[j] PROVE i = j
        OBVIOUS
    <2>1. CASE i \in 1..m /\ j \in 1..m
        BY <1>1, <1>5, <2>1
    <2>2. CASE i \in (m + 1)..(m + n) /\ j \in (m + 1)..(m + n)
        <3>1. i - m \in 1..n /\ j - m \in 1..n /\ more[i - m] = more[j - m]
            BY <1>5, <2>2
        <3>2. i - m = j - m
            BY <1>2, <3>1 DEF Distinct
        <3> QED BY <3>2
    <2> QED BY <1>7, <2>1, <2>2
<1>9. \A i \in 1..(m + n) : t[i] \in Within(g, q, d + 1)
    BY <1>6, <1>7
<1>10. ASSUME NEW k \in 0..(d + 1), NEW i \in 1..(m + n), t[i] \notin Within(g, q, k), NEW x \in Within(g, q, k)
       PROVE  \E j \in 1..(i - 1) : t[j] = x
    <2>1. k \in 0..d /\ Within(g, q, k) \subseteq Within(g, q, d)
        BY <1>9, <1>10, WithinGrows
    <2>2. CASE i \in 1..m
        <3>1. s[i] \notin Within(g, q, k)
            BY <1>5, <1>10, <2>2
        <3>2. PICK j \in 1..(i - 1) : s[j] = x
            BY <1>1, <2>1, <2>2, <3>1
        <3>3. t[j] = x
            BY <1>5, <2>2, <3>2
        <3> QED BY <3>3
    <2>3. CASE i \in (m + 1)..(m + n)
        <3>1. PICK j \in 1..m : s[j] = x
            BY <1>1, <2>1 DEF Covers
        <3>2. j \in 1..(i - 1) /\ t[j] = x
            BY <1>5, <2>3, <3>1
        <3> QED BY <3>2
    <2> QED BY <1>7, <2>2, <2>3
<1>11. Visited(g, q, d + 1, t)
    BY <1>5, <1>8, <1>9, <1>10 DEF Visited
<1> QED BY <1>4, <1>11

LEMMA CoversMore ==
    ASSUME NEW S, NEW s \in Seq(S), NEW T, Covers(s, T), NEW N, NEW more \in Seq(N), Covers(more, N), N \subseteq S
    PROVE  Covers(s \o more, T \cup N)
<1>1. PICK m \in Nat : m = Len(s)
    OBVIOUS
<1>2. PICK n \in Nat : n = Len(more)
    OBVIOUS
<1>3. more \in Seq(S)
    BY SeqMonotonic
<1>4. PICK t : t = s \o more
    OBVIOUS
<1>5. /\ Len(t) = m + n /\ \A i \in 1..m : t[i] = s[i]
      /\ \A i \in (m + 1)..(m + n) : t[i] = more[i - m]
    BY <1>1, <1>2, <1>3, <1>4, ConcatProperties
<1>6. ASSUME NEW x \in T PROVE \E i \in 1..(m + n) : t[i] = x
    <2>1. PICK i \in 1..m : s[i] = x
        BY <1>1 DEF Covers
    <2> QED BY <1>5, <2>1
<1>7. ASSUME NEW x \in N PROVE \E i \in 1..(m + n) : t[i] = x
    <2>1. PICK i \in 1..n : more[i] = x
        BY <1>2 DEF Covers
    <2>2. m + i \in 1..(m + n) /\ m + i \in (m + 1)..(m + n) /\ (m + i) - m = i
        OBVIOUS
    <2>3. t[m + i] = x
        BY <1>5, <2>1, <2>2
    <2> QED BY <2>2, <2>3
<1> QED BY <1>4, <1>5, <1>6, <1>7 DEF Covers

Enumerates(s, S) == s \in Seq(S) /\ Distinct(s) /\ Covers(s, S)

LEMMA NumbersEnumerate ==
    ASSUME NEW S \in SUBSET Int, IsFiniteSet(S)
    PROVE  Enumerates(ById(S), S)
<1>1. PICK n \in Nat : n = Cardinality(S)
    BY FS_CardinalityType
<1>2. PICK s : s = ById(S)
    OBVIOUS
<1>3. s \in [1..n -> S] /\ (\A i, j \in 1..n : i < j => s[i] < s[j]) /\ \A x \in S : \E i \in 1..n : s[i] = x
    BY <1>1, <1>2, OrderedNumbers
<1>4. s \in Seq(S) /\ Len(s) = n
    BY <1>3
<1>5. \A i \in 1..n : s[i] \in Int
    BY <1>3
<1>6. \A i, j \in 1..n : s[i] = s[j] => i = j
    <2> SUFFICES ASSUME NEW i \in 1..n, NEW j \in 1..n, s[i] = s[j], i # j PROVE FALSE
        OBVIOUS
    <2>1. i < j \/ j < i
        OBVIOUS
    <2>2. s[i] < s[j] \/ s[j] < s[i]
        BY <1>3, <2>1
    <2> QED BY <1>5, <2>2
<1> QED BY <1>2, <1>3, <1>4, <1>6 DEF Enumerates, Distinct, Covers

(* What the two stores rely on: the numbers of the nodes tell them apart,  *)
(* and so do their digests; the roots are there and match.                 *)
Digested(g) ==
    /\ IsFiniteSet(g.nodes) /\ g.nodes \in SUBSET Int
    /\ \A n \in g.nodes : Digest[n] \in Int
    /\ \A m, n \in g.nodes : Digest[m] = Digest[n] => m = n
Traversable(g, q) ==
    Digested(g) /\ q.depth \in Nat /\ q.limit \in Nat /\ q.roots \in SUBSET g.nodes

LEMMA ByDigestEnumerates ==
    ASSUME NEW g, Digested(g), NEW S \in SUBSET g.nodes
    PROVE  Enumerates(ByDigest(S), S)
<1>1. IsFiniteSet(S)
    BY FS_Subset DEF Digested
<1>2. PICK R : Lists(ByDigest(S), S, R)
    BY <1>1, DigestLists DEF Digested
<1>3. PICK s : s = ByDigest(S)
    OBVIOUS
<1>4. s \in Seq(S) /\ ToSet(s) = S /\ \A i, j \in 1..Len(s) : s[i] = s[j] => i = j
    BY <1>2, <1>3 DEF Lists
<1>5. \A x \in S : \E i \in 1..Len(s) : s[i] = x
    BY <1>4 DEF ToSet
<1> QED BY <1>3, <1>4, <1>5 DEF Enumerates, Distinct, Covers

LEMMA ByIdEnumerates ==
    ASSUME NEW g, Digested(g), NEW S \in SUBSET g.nodes
    PROVE  Enumerates(ById(S), S)
<1>1. IsFiniteSet(S) /\ S \in SUBSET Int
    BY FS_Subset DEF Digested
<1> QED BY <1>1, NumbersEnumerate

LEMMA VisitedRoots ==
    ASSUME NEW g, NEW q, q.roots \in SUBSET g.nodes, NEW s, Enumerates(s, q.roots)
    PROVE  /\ Visited(g, q, 0, s) /\ Covers(s, Within(g, q, 0))
           /\ Level(g, q, 0, Within(g, q, 0), q.roots)
<1>1. Within(g, q, 0) = q.roots
    BY WithinStart
<1>2. s \in Seq(g.nodes)
    BY SeqMonotonic DEF Enumerates
<1>3. \A i \in 1..Len(s) : s[i] \in q.roots
    BY DEF Enumerates
<1>4. \A k \in 0..0 : k = 0
    OBVIOUS
<1>5. Visited(g, q, 0, s)
    BY <1>1, <1>2, <1>3, <1>4 DEF Visited, Enumerates, Distinct
<1>6. Level(g, q, 0, Within(g, q, 0), q.roots)
    BY <1>1 DEF Level
<1> QED BY <1>1, <1>5, <1>6 DEF Enumerates

LEMMA VisitedIsSeen ==
    ASSUME NEW g, NEW q, NEW d, NEW s, Visited(g, q, d, s), Covers(s, Within(g, q, d))
    PROVE  ToSet(s) = Within(g, q, d)
<1>1. s \in Seq(g.nodes) /\ \A i \in 1..Len(s) : s[i] \in Within(g, q, d)
    BY DEF Visited
<1>2. ToSet(s) = {s[i] : i \in 1..Len(s)}
    BY <1>1 DEF ToSet
<1> QED BY <1>1, <1>2 DEF Covers

-----------------------------------------------------------------------------
(* The in-memory store: whole levels.                                      *)
MemoryStart(q) == [visited |-> ByDigest(q.roots), frontier |-> q.roots]
MemoryStep(g, q, was) ==
    LET next == NextLevel(g, q, was.frontier, ToSet(was.visited))
    IN [visited |-> was.visited \o ByDigest(next), frontier |-> next]
MemoryWalk(walk, g, q) ==
    walk = [d \in 0..q.depth |-> IF d = 0 THEN MemoryStart(q) ELSE MemoryStep(g, q, walk[d - 1])]

LEMMA MemoryWalks ==
    ASSUME NEW g, NEW q, Traversable(g, q)
    PROVE  \E walk : MemoryWalk(walk, g, q)
<1> DEFINE States == [visited : Seq(g.nodes), frontier : SUBSET g.nodes]
           step == [was \in States |-> MemoryStep(g, q, was)]
<1>1. MemoryStart(q) \in States
    <2>1. ByDigest(q.roots) \in Seq(q.roots)
        BY ByDigestEnumerates DEF Traversable, Enumerates
    <2>2. ByDigest(q.roots) \in Seq(g.nodes)
        BY <2>1, SeqMonotonic DEF Traversable
    <2> QED BY <2>2 DEF MemoryStart, Traversable
<1>2. ASSUME NEW was \in States PROVE MemoryStep(g, q, was) \in States
    <2>1. PICK next : next = NextLevel(g, q, was.frontier, ToSet(was.visited))
        OBVIOUS
    <2>2. next \in SUBSET g.nodes
        BY <2>1 DEF NextLevel, Neighbours
    <2>3. ByDigest(next) \in Seq(next)
        BY <2>2, ByDigestEnumerates DEF Traversable, Enumerates
    <2>4. PICK more \in Seq(g.nodes) : more = ByDigest(next)
        BY <2>2, <2>3, SeqMonotonic
    <2>5. was.visited \o more \in Seq(g.nodes)
        BY ConcatProperties
    <2> QED BY <2>1, <2>2, <2>4, <2>5 DEF MemoryStep
<1>3. step \in [States -> States]
    BY <1>2
<1>4. PICK depth \in Nat : depth = q.depth
    BY DEF Traversable
<1>5. PICK start \in States : start = MemoryStart(q)
    BY <1>1
<1>6. \A was \in States : step[was] = MemoryStep(g, q, was)
    OBVIOUS
<1> HIDE DEF States, step
<1>7. PICK walk : Walks(walk, States, start, step, depth)
    <2>1. Steps(States, start, step)
        BY <1>3 DEF Steps
    <2> QED BY <2>1, WalkExists
<1>8. ASSUME NEW d \in 0..depth, d # 0 PROVE walk[d] = MemoryStep(g, q, walk[d - 1])
    <2>1. d \in 1..depth /\ d - 1 \in 0..depth
        BY <1>8
    <2> QED BY <1>6, <1>7, <2>1 DEF Walks
<1>9. walk = [d \in 0..depth |-> IF d = 0 THEN MemoryStart(q) ELSE MemoryStep(g, q, walk[d - 1])]
    BY <1>5, <1>7, <1>8 DEF Walks
<1> QED BY <1>4, <1>9 DEF MemoryWalk

LEMMA MemoryFinds ==
    ASSUME NEW g, NEW q, Traversable(g, q)
    PROVE  /\ Visited(g, q, q.depth, MemoryLevels(g, q))
           /\ Covers(MemoryLevels(g, q), Within(g, q, q.depth))
<1>1. PICK walk : walk = CHOOSE w : MemoryWalk(w, g, q)
    OBVIOUS
<1>2. MemoryWalk(walk, g, q)
    BY <1>1, MemoryWalks
<1>3. MemoryLevels(g, q) = walk[q.depth].visited
    BY <1>1 DEF MemoryLevels, MemoryWalk, MemoryStart, MemoryStep
<1>4. PICK depth \in Nat : depth = q.depth
    BY DEF Traversable
<1> DEFINE Holds(d) == /\ Visited(g, q, d, walk[d].visited) /\ Covers(walk[d].visited, Within(g, q, d))
                       /\ Level(g, q, d, Within(g, q, d), walk[d].frontier)
           P == {d \in 0..depth : Holds(d)}
<1>5. 0 \in P
    <2>1. Enumerates(ByDigest(q.roots), q.roots)
        BY ByDigestEnumerates DEF Traversable
    <2>2. walk[0] = MemoryStart(q)
        BY <1>2, <1>4 DEF MemoryWalk
    <2>3. walk[0].visited = ByDigest(q.roots) /\ walk[0].frontier = q.roots
        BY <2>2 DEF MemoryStart
    <2>4. Holds(0)
        BY <2>1, <2>3, VisitedRoots DEF Traversable
    <2> QED BY <2>4
<1>6. ASSUME NEW e \in 1..depth, e - 1 \in P PROVE e \in P
    <2>1. PICK d \in 0..depth : d = e - 1 /\ d + 1 = e
        BY <1>6
    <2>2. Holds(d)
        BY <1>6, <2>1
    <2>3. walk[e] = MemoryStep(g, q, walk[d])
        BY <1>2, <1>4, <2>1 DEF MemoryWalk
    <2>4. PICK s, frontier : s = walk[d].visited /\ frontier = walk[d].frontier
        OBVIOUS
    <2>5. PICK seen : seen = Within(g, q, d) /\ seen = ToSet(s)
        BY <2>2, <2>4, VisitedIsSeen
    <2>6. PICK next : next = NextLevel(g, q, frontier, seen)
        OBVIOUS
    <2>7. Level(g, q, d, seen, frontier)
        BY <2>2, <2>4, <2>5
    <2>8. Level(g, q, d + 1, seen \cup next, next) /\ next \cap seen = {} /\ next \subseteq g.nodes
        BY <2>6, <2>7, NextLevelSeen
    <2>9. PICK more : more = ByDigest(next)
        OBVIOUS
    <2>10. Enumerates(more, next)
        BY <2>8, <2>9, ByDigestEnumerates DEF Traversable
    <2>11. walk[e].visited = s \o more /\ walk[e].frontier = next
        <3>1. next = NextLevel(g, q, walk[d].frontier, ToSet(walk[d].visited))
            BY <2>4, <2>5, <2>6, Zenon
        <3>2. walk[e] = [visited |-> walk[d].visited \o ByDigest(next), frontier |-> next]
            BY <2>3, <3>1, Zenon DEF MemoryStep
        <3> QED BY <2>4, <2>9, <3>2
    <2>12. Within(g, q, d + 1) = seen \cup next
        BY <2>8 DEF Level
    <2>13. Visited(g, q, d + 1, s \o more)
        <3>1. next \subseteq Within(g, q, d + 1) /\ next \cap Within(g, q, d) = {}
            BY <2>5, <2>8, <2>12
        <3>2. Visited(g, q, d, s) /\ Covers(s, Within(g, q, d))
            BY <2>2, <2>4
        <3>3. more \in Seq(next) /\ Distinct(more)
            BY <2>10 DEF Enumerates
        <3> QED BY <2>1, <2>8, <3>1, <3>2, <3>3, VisitedMore
    <2>14. Covers(s \o more, seen \cup next)
        <3>1. s \in Seq(g.nodes) /\ Covers(s, seen)
            BY <2>2, <2>4, <2>5 DEF Visited
        <3> QED BY <2>8, <2>10, <3>1, CoversMore DEF Enumerates
    <2>15. Holds(e)
        BY <2>1, <2>8, <2>11, <2>12, <2>13, <2>14
    <2> QED BY <2>15
<1>7. depth \in P
    <2> HIDE DEF P
    <2>1. \A d \in 0..depth : d \in P
        BY <1>5, <1>6, HoldsUpTo
    <2> QED BY <2>1
<1> QED BY <1>3, <1>4, <1>7

-----------------------------------------------------------------------------
(* Neo4j: levels of bounded queries, until the limit or a budget is passed. *)
LimitPassed(q, s) == Len(s) > LimitOf(q)

LEMMA LimitIsPositive ==
    ASSUME NEW q, q.limit \in Nat
    PROVE  LimitOf(q) \in Nat \ {0}
BY GraphBudgets DEF LimitOf

LEMMA TakeEnumerates ==
    ASSUME NEW S, NEW s, Enumerates(s, S), NEW n \in Nat
    PROVE  /\ Take(s, n) \in Seq(S) /\ Distinct(Take(s, n))
           /\ Covers(Take(s, n), S) \/ Len(Take(s, n)) = n
<1>1. s \in Seq(S)
    BY DEF Enumerates
<1>2. PICK t : t = Take(s, n)
    OBVIOUS
<1>3. /\ t \in Seq(S) /\ Len(t) <= n /\ Len(t) <= Len(s) /\ \A i \in 1..Len(t) : t[i] = s[i]
      /\ (Len(s) <= n => t = s) /\ (n <= Len(s) => Len(t) = n)
    <2>1. /\ Take(s, n) \in Seq(S) /\ Len(Take(s, n)) <= n /\ Len(Take(s, n)) <= Len(s)
          /\ \A i \in 1..Len(Take(s, n)) : Take(s, n)[i] = s[i]
          /\ Len(s) <= n => Take(s, n) = s
          /\ n <= Len(s) => Len(Take(s, n)) = n
        BY <1>1, TakeIsPrefix
    <2> QED BY <1>2, <2>1
<1>4. PICK k \in Nat : k = Len(s)
    BY <1>1
<1>5. Covers(t, S) \/ Len(t) = n
    BY <1>3, <1>4 DEF Enumerates
<1>6. Distinct(t)
    <2> SUFFICES ASSUME NEW i \in 1..Len(t), NEW j \in 1..Len(t), t[i] = t[j] PROVE i = j
        BY DEF Distinct
    <2>1. i \in 1..Len(s) /\ j \in 1..Len(s) /\ s[i] = s[j]
        BY <1>1, <1>3
    <2> QED BY <2>1 DEF Enumerates, Distinct
<1> QED BY <1>2, <1>3, <1>5, <1>6

Neo4jStart(q) == [visited |-> ById(q.roots), frontier |-> q.roots, over |-> FALSE]
Neo4jStep(g, q, was) ==
    LET pageLimit == Least(LimitOf(q) + 1 - Len(was.visited), MaxFrontier + 1)
        next == Take(ById(NextLevel(g, q, was.frontier, ToSet(was.visited))), pageLimit)
    IN IF was.over \/ was.frontier = {} \/ Len(was.visited) > LimitOf(q) THEN was
       ELSE [visited |-> was.visited \o next, frontier |-> ToSet(next), over |-> Len(next) > MaxFrontier]
Neo4jWalk(walk, g, q) ==
    walk = [d \in 0..q.depth |-> IF d = 0 THEN Neo4jStart(q) ELSE Neo4jStep(g, q, walk[d - 1])]

(* One step: nothing more once a bound is passed or nothing is new, else   *)
(* the next level, as much of it as one page holds.                        *)
Neo4jStops(q, was) == was.over \/ was.frontier = {} \/ LimitPassed(q, was.visited)

LEMMA Neo4jStepStops ==
    ASSUME NEW g, NEW q, NEW was, Neo4jStops(q, was)
    PROVE  Neo4jStep(g, q, was) = was
BY DEF Neo4jStops, LimitPassed, Neo4jStep

LEMMA Neo4jStepGoes ==
    ASSUME NEW g, NEW q, Traversable(g, q), NEW was, ~Neo4jStops(q, was), was.visited \in Seq(g.nodes)
    PROVE  \E next, more :
              /\ next = NextLevel(g, q, was.frontier, ToSet(was.visited))
              /\ more \in Seq(next) /\ Distinct(more) /\ next \subseteq g.nodes
              /\ Neo4jStep(g, q, was) =
                    [visited |-> was.visited \o more, frontier |-> ToSet(more), over |-> Len(more) > MaxFrontier]
              /\ \/ Covers(more, next)
                 \/ Len(more) > MaxFrontier
                 \/ Len(was.visited) + Len(more) > LimitOf(q)
<1>1. PICK limit \in Nat : limit = LimitOf(q)
    BY LimitIsPositive DEF Traversable
<1>2. PICK m \in Nat : m = Len(was.visited) /\ m <= limit
    BY <1>1 DEF Neo4jStops, LimitPassed
<1>3. MaxFrontier \in Nat
    BY GraphBudgets
<1>4. PICK n \in Nat : /\ n = Least(limit + 1 - m, MaxFrontier + 1)
                       /\ n = (limit + 1) - m \/ n = MaxFrontier + 1
    <2>1. limit + 1 - m \in Nat /\ MaxFrontier + 1 \in Nat
        BY <1>1, <1>2, <1>3
    <2>2. PICK a, b \in Nat : a = limit + 1 - m /\ b = MaxFrontier + 1
        BY <2>1
    <2>3. Least(a, b) \in {a, b}
        BY DEF Least
    <2> QED BY <2>2, <2>3
<1>5. PICK next : next = NextLevel(g, q, was.frontier, ToSet(was.visited))
    OBVIOUS
<1>6. next \in SUBSET g.nodes
    BY <1>5 DEF NextLevel, Neighbours
<1>7. Enumerates(ById(next), next)
    BY <1>6, ByIdEnumerates DEF Traversable
<1>8. PICK more : more = Take(ById(next), n)
    OBVIOUS
<1>9. more \in Seq(next) /\ Distinct(more) /\ (Covers(more, next) \/ Len(more) = n)
    BY <1>7, <1>8, TakeEnumerates
<1>10. Neo4jStep(g, q, was) =
          [visited |-> was.visited \o more, frontier |-> ToSet(more), over |-> Len(more) > MaxFrontier]
    <2>1. more = Take(ById(NextLevel(g, q, was.frontier, ToSet(was.visited))),
                      Least(LimitOf(q) + 1 - Len(was.visited), MaxFrontier + 1))
        BY <1>1, <1>2, <1>4, <1>5, <1>8, Zenon
    <2> QED BY <2>1, Zenon DEF Neo4jStep, Neo4jStops, LimitPassed
<1>11. Len(more) = n => Len(more) > MaxFrontier \/ m + Len(more) > limit
    <2>1. n = (limit + 1) - m => m + n > limit
        BY <1>1, <1>2
    <2>2. n = MaxFrontier + 1 => n > MaxFrontier
        BY <1>3
    <2> QED BY <1>4, <2>1, <2>2
<1> QED BY <1>1, <1>2, <1>5, <1>6, <1>9, <1>10, <1>11

LEMMA Neo4jWalks ==
    ASSUME NEW g, NEW q, Traversable(g, q)
    PROVE  \E walk : Neo4jWalk(walk, g, q)
<1> DEFINE States == [visited : Seq(g.nodes), frontier : SUBSET g.nodes, over : BOOLEAN]
           step == [was \in States |-> Neo4jStep(g, q, was)]
<1>1. Neo4jStart(q) \in States
    <2>1. ById(q.roots) \in Seq(q.roots)
        BY ByIdEnumerates DEF Traversable, Enumerates
    <2>2. ById(q.roots) \in Seq(g.nodes)
        BY <2>1, SeqMonotonic DEF Traversable
    <2> QED BY <2>2 DEF Neo4jStart, Traversable
<1>2. ASSUME NEW was \in States PROVE Neo4jStep(g, q, was) \in States
    <2>1. CASE Neo4jStops(q, was)
        BY <2>1, Neo4jStepStops
    <2>2. CASE ~Neo4jStops(q, was)
        <3>1. PICK next, more :
                 /\ more \in Seq(next) /\ next \subseteq g.nodes
                 /\ Neo4jStep(g, q, was) =
                       [visited |-> was.visited \o more, frontier |-> ToSet(more), over |-> Len(more) > MaxFrontier]
            <4>1. was.visited \in Seq(g.nodes)
                OBVIOUS
            <4> HIDE DEF States
            <4> QED BY <2>2, <4>1, Neo4jStepGoes
        <3>2. more \in Seq(g.nodes)
            BY <3>1, SeqMonotonic
        <3>3. was.visited \o more \in Seq(g.nodes)
            BY <3>2, ConcatProperties
        <3>4. ToSet(more) \in SUBSET g.nodes
            BY <3>2 DEF ToSet
        <3> QED BY <3>1, <3>3, <3>4
    <2> QED BY <2>1, <2>2
<1>3. step \in [States -> States]
    BY <1>2
<1>4. PICK depth \in Nat : depth = q.depth
    BY DEF Traversable
<1>5. PICK start \in States : start = Neo4jStart(q)
    BY <1>1
<1>6. \A was \in States : step[was] = Neo4jStep(g, q, was)
    OBVIOUS
<1> HIDE DEF States, step
<1>7. PICK walk : Walks(walk, States, start, step, depth)
    <2>1. Steps(States, start, step)
        BY <1>3 DEF Steps
    <2> QED BY <2>1, WalkExists
<1>8. ASSUME NEW d \in 0..depth, d # 0 PROVE walk[d] = Neo4jStep(g, q, walk[d - 1])
    <2>1. d \in 1..depth /\ d - 1 \in 0..depth
        BY <1>8
    <2> QED BY <1>6, <1>7, <2>1 DEF Walks
<1>9. walk = [d \in 0..depth |-> IF d = 0 THEN Neo4jStart(q) ELSE Neo4jStep(g, q, walk[d - 1])]
    BY <1>5, <1>7, <1>8 DEF Walks
<1> QED BY <1>4, <1>9 DEF Neo4jWalk

LEMMA LevelEnds ==
    ASSUME NEW g, NEW q, NEW d \in Nat, NEW seen, Level(g, q, d, seen, {})
    PROVE  Level(g, q, d + 1, seen, {})
<1>1. NextLevel(g, q, {}, seen) = {}
    BY DEF NextLevel
<1>2. PICK next : next = {} /\ next = NextLevel(g, q, {}, seen)
    BY <1>1
<1>3. Level(g, q, d + 1, seen \cup next, next)
    BY <1>2, NextLevelSeen
<1> QED BY <1>2, <1>3

(* A walk that has passed no bound has seen every node within its depth.   *)
LEMMA Neo4jFinds ==
    ASSUME NEW g, NEW q, Traversable(g, q)
    PROVE  /\ Visited(g, q, q.depth, Neo4jLevels(g, q).visited)
           /\ \/ Neo4jLevels(g, q).over \/ LimitPassed(q, Neo4jLevels(g, q).visited)
              \/ Covers(Neo4jLevels(g, q).visited, Within(g, q, q.depth))
<1>1. PICK walk : walk = CHOOSE w : Neo4jWalk(w, g, q)
    OBVIOUS
<1>2. Neo4jWalk(walk, g, q)
    BY <1>1, Neo4jWalks
<1>3. Neo4jLevels(g, q) = walk[q.depth]
    BY <1>1 DEF Neo4jLevels, Neo4jWalk, Neo4jStart, Neo4jStep
<1>4. PICK depth \in Nat : depth = q.depth
    BY DEF Traversable
<1> DEFINE Full(d) == /\ Covers(walk[d].visited, Within(g, q, d))
                      /\ Level(g, q, d, Within(g, q, d), walk[d].frontier)
           Bound(d) == walk[d].over \/ LimitPassed(q, walk[d].visited)
           Holds(d) == Visited(g, q, d, walk[d].visited) /\ (Bound(d) \/ Full(d))
           P == {d \in 0..depth : Holds(d)}
<1>5. 0 \in P
    <2>1. Enumerates(ById(q.roots), q.roots)
        BY ByIdEnumerates DEF Traversable
    <2>2. walk[0] = Neo4jStart(q)
        BY <1>2, <1>4 DEF Neo4jWalk
    <2>3. walk[0].visited = ById(q.roots) /\ walk[0].frontier = q.roots
        BY <2>2 DEF Neo4jStart
    <2>4. Visited(g, q, 0, walk[0].visited) /\ Full(0)
        BY <2>1, <2>3, VisitedRoots DEF Traversable
    <2> QED BY <2>4
<1>6. ASSUME NEW e \in 1..depth, e - 1 \in P PROVE e \in P
    <2>1. PICK d \in 0..depth : d = e - 1 /\ d + 1 = e
        BY <1>6
    <2>2. Visited(g, q, d, walk[d].visited) /\ (Bound(d) \/ Full(d))
        BY <1>6, <2>1
    <2>3. walk[e] = Neo4jStep(g, q, walk[d])
        BY <1>2, <1>4, <2>1 DEF Neo4jWalk
    <2>4. Visited(g, q, e, walk[d].visited)
        BY <2>1, <2>2, VisitedFarther
    <2>5. CASE Bound(d)
        <3>1. walk[e] = walk[d]
            BY <2>3, <2>5, Neo4jStepStops DEF Neo4jStops
        <3>2. Holds(e)
            BY <2>4, <2>5, <3>1
        <3> QED BY <3>2
    <2>6. CASE ~Bound(d) /\ walk[d].frontier = {}
        <3>1. walk[e] = walk[d]
            BY <2>3, <2>6, Neo4jStepStops DEF Neo4jStops
        <3>2. Covers(walk[d].visited, Within(g, q, d)) /\ Level(g, q, d, Within(g, q, d), {})
            BY <2>2, <2>6
        <3>3. Level(g, q, d + 1, Within(g, q, d), {})
            BY <3>2, LevelEnds
        <3>4. Within(g, q, e) = Within(g, q, d)
            BY <2>1, <3>3 DEF Level
        <3>5. Full(e)
            BY <2>1, <2>6, <3>1, <3>2, <3>3, <3>4
        <3>6. Holds(e)
            BY <2>4, <3>1, <3>5
        <3> QED BY <3>6
    <2>7. CASE ~Bound(d) /\ walk[d].frontier # {}
        <3>1. ~Neo4jStops(q, walk[d]) /\ Full(d)
            BY <2>2, <2>7 DEF Neo4jStops
        <3>2. PICK s, frontier : s = walk[d].visited /\ frontier = walk[d].frontier
            OBVIOUS
        <3>3. Visited(g, q, d, s) /\ Covers(s, Within(g, q, d)) /\ s \in Seq(g.nodes)
            BY <2>2, <3>1, <3>2 DEF Visited
        <3>4. PICK seen : seen = Within(g, q, d) /\ seen = ToSet(s)
            BY <3>3, VisitedIsSeen
        <3>5. PICK next, more :
                 /\ next = NextLevel(g, q, frontier, seen)
                 /\ more \in Seq(next) /\ Distinct(more) /\ next \subseteq g.nodes
                 /\ walk[e] = [visited |-> s \o more, frontier |-> ToSet(more), over |-> Len(more) > MaxFrontier]
                 /\ \/ Covers(more, next) \/ Len(more) > MaxFrontier \/ Len(s) + Len(more) > LimitOf(q)
            BY <2>3, <3>1, <3>2, <3>3, <3>4, Neo4jStepGoes
        <3>6. Level(g, q, d, seen, frontier)
            BY <3>1, <3>2, <3>4
        <3>7. Level(g, q, e, seen \cup next, next) /\ next \cap seen = {}
            <4>1. d \in Nat
                OBVIOUS
            <4>2. next = NextLevel(g, q, frontier, seen)
                BY <3>5
            <4>3. Level(g, q, d + 1, seen \cup next, next) /\ next \cap seen = {}
                BY <3>6, <4>1, <4>2, NextLevelSeen
            <4> QED BY <2>1, <4>3
        <3>8. Within(g, q, e) = seen \cup next
            BY <3>7 DEF Level
        <3>9. walk[e].visited = s \o more /\ walk[e].frontier = ToSet(more) /\ walk[e].over = (Len(more) > MaxFrontier)
            BY <3>5
        <3>10. Visited(g, q, e, s \o more)
            <4>1. next \subseteq Within(g, q, d + 1) /\ next \cap Within(g, q, d) = {}
                BY <2>1, <3>4, <3>7, <3>8
            <4> QED BY <2>1, <3>3, <3>5, <4>1, VisitedMore
        <3>11. CASE Covers(more, next)
            <4>1. Covers(s \o more, seen \cup next)
                BY <3>3, <3>4, <3>5, <3>11, CoversMore
            <4>2. ToSet(more) = next
                <5>1. ToSet(more) = {more[i] : i \in 1..Len(more)} /\ \A i \in 1..Len(more) : more[i] \in next
                    BY <3>5 DEF ToSet
                <5> QED BY <3>11, <5>1 DEF Covers
            <4>3. Full(e)
                BY <3>7, <3>8, <3>9, <4>1, <4>2
            <4>4. Holds(e)
                BY <3>9, <3>10, <4>3
            <4> QED BY <4>4
        <3>12. CASE Len(more) > MaxFrontier
            <4>1. Holds(e)
                BY <3>9, <3>10, <3>12
            <4> QED BY <4>1
        <3>13. CASE Len(s) + Len(more) > LimitOf(q)
            <4>1. more \in Seq(g.nodes)
                BY <3>5, SeqMonotonic
            <4>2. Len(s \o more) = Len(s) + Len(more)
                BY <3>3, <4>1, ConcatProperties
            <4>3. LimitPassed(q, walk[e].visited)
                BY <3>9, <3>13, <4>2 DEF LimitPassed
            <4>4. Holds(e)
                BY <3>9, <3>10, <4>3
            <4> QED BY <4>4
        <3> QED BY <3>5, <3>11, <3>12, <3>13
    <2> QED BY <2>5, <2>6, <2>7
<1>7. depth \in P
    <2> HIDE DEF P
    <2>1. \A d \in 0..depth : d \in P
        BY <1>5, <1>6, HoldsUpTo
    <2> QED BY <2>1
<1> QED BY <1>3, <1>4, <1>7

-----------------------------------------------------------------------------
(* Answers. What a store has visited when it cuts: nodes the query means,  *)
(* none twice, nearest first, and all of them or more than the limit.      *)
Explored(g, q, s) ==
    /\ s \in Seq(Meant(g, q)) /\ Distinct(s)
    /\ LimitPassed(q, s) \/ Covers(s, Meant(g, q))
    /\ q.roots # {} => Visited(g, q, q.depth, s)

LEMMA DistinctCount ==
    ASSUME NEW S, NEW s \in Seq(S), Distinct(s)
    PROVE  IsFiniteSet(ToSet(s)) /\ Cardinality(ToSet(s)) = Len(s)
<1>1. PICK n \in Nat : n = Len(s) /\ DOMAIN s = 1..n
    OBVIOUS
<1>2. PICK I : I = 1..n
    OBVIOUS
<1>3. IsFiniteSet(I) /\ Cardinality(I) = n
    BY <1>2, FS_Interval
<1>4. \A i, j \in I : s[i] = s[j] => i = j
    BY <1>1, <1>2 DEF Distinct
<1>5. IsFiniteSet({s[i] : i \in I}) /\ Cardinality({s[i] : i \in I}) = Cardinality(I)
    BY <1>3, <1>4, CountImage
<1>6. ToSet(s) = {s[i] : i \in I}
    BY <1>1, <1>2 DEF ToSet
<1> QED BY <1>1, <1>3, <1>5, <1>6

LEMMA AnswerIsFaithful ==
    ASSUME NEW g, IsFiniteSet(g.nodes), NEW q, q.limit \in Nat, q.depth \in Nat, NEW s, Explored(g, q, s)
    PROVE  /\ Faithful(g, q, Answer(g, q, s))
           /\ ~Answer(g, q, s).truncated => ToSet(Answer(g, q, s).nodes) = Meant(g, q)
<1>1. PICK limit \in Nat : limit = LimitOf(q)
    BY LimitIsPositive
<1>2. PICK M : M = Meant(g, q)
    OBVIOUS
<1>3. IsFiniteSet(M) /\ Cardinality(M) \in Nat
    <2>1. M \in SUBSET g.nodes
        BY <1>2 DEF Meant, Within
    <2> QED BY <2>1, FS_Subset, FS_CardinalityType
<1>4. s \in Seq(M) /\ Distinct(s) /\ (Len(s) > limit \/ Covers(s, M))
    BY <1>1, <1>2 DEF Explored, LimitPassed
<1>5. PICK n \in Nat : n = Len(s) /\ DOMAIN s = 1..n
    BY <1>4
<1>6. PICK t : t = Take(s, limit)
    OBVIOUS
<1>7. /\ t \in Seq(M) /\ Len(t) <= n /\ (\A i \in 1..Len(t) : t[i] = s[i])
      /\ (n <= limit => t = s) /\ (limit <= n => Len(t) = limit) /\ ToSet(t) \subseteq ToSet(s)
    <2>1. /\ Take(s, limit) \in Seq(M) /\ Len(Take(s, limit)) <= Len(s)
          /\ \A i \in 1..Len(Take(s, limit)) : Take(s, limit)[i] = s[i]
          /\ Len(s) <= limit => Take(s, limit) = s
          /\ limit <= Len(s) => Len(Take(s, limit)) = limit
          /\ ToSet(Take(s, limit)) \subseteq ToSet(s)
        BY <1>4, TakeIsPrefix
    <2> QED BY <1>5, <1>6, <2>1
<1>8. PICK m \in Nat : m = Len(t) /\ DOMAIN t = 1..m /\ m <= n
    BY <1>7
<1>9. Distinct(t)
    <2> SUFFICES ASSUME NEW i \in 1..m, NEW j \in 1..m, t[i] = t[j] PROVE i = j
        BY <1>8 DEF Distinct
    <2>1. i \in 1..n /\ j \in 1..n /\ s[i] = s[j]
        BY <1>7, <1>8
    <2> QED BY <1>4, <1>5, <2>1 DEF Distinct
<1>10. Cardinality(ToSet(s)) = n /\ Cardinality(ToSet(t)) = m
    BY <1>4, <1>5, <1>7, <1>8, <1>9, DistinctCount
<1>11. ToSet(s) = {s[i] : i \in 1..n} /\ ToSet(t) = {t[i] : i \in 1..m}
    BY <1>5, <1>8 DEF ToSet
<1>12. ToSet(s) \subseteq M /\ ToSet(t) \subseteq M
    <2>1. \A i \in 1..n : s[i] \in M
        BY <1>4, <1>5
    <2>2. ToSet(s) \subseteq M
        BY <1>11, <2>1
    <2> QED BY <1>7, <2>2
<1>13. n <= limit => ToSet(s) = M
    BY <1>1, <1>4, <1>5, <1>11, <1>12 DEF Covers
<1>14. n <= Cardinality(M)
    BY <1>3, <1>10, <1>12, FS_Subset
<1>15. n > limit <=> Cardinality(M) > limit
    <2>1. n <= limit => Cardinality(M) = n
        BY <1>10, <1>13
    <2> QED BY <1>3, <1>14, <2>1
<1>16. ASSUME q.roots # {}, NEW k \in 0..q.depth, NEW x \in ToSet(t) \ Within(g, q, k), NEW y \in Within(g, q, k)
       PROVE  y \in ToSet(t)
    <2>1. PICK i \in 1..m : x = t[i]
        BY <1>11
    <2>2. i \in 1..n /\ s[i] = x
        BY <1>7, <1>8, <2>1
    <2>3. PICK j \in 1..(i - 1) : s[j] = y
        BY <1>5, <1>16, <2>2 DEF Explored, Visited
    <2>4. j \in 1..m /\ t[j] = y
        BY <1>7, <1>8, <2>1, <2>3
    <2> QED BY <1>11, <2>4
<1>17. PICK a : a = Answer(g, q, s)
    OBVIOUS
<1>18. /\ a.nodes = t /\ a.truncated = (n > limit)
       /\ a.facts = {e \in g.facts : RelationMatches(q, e) /\ {e.from, e.to} \subseteq ToSet(t)}
    BY <1>1, <1>5, <1>6, <1>17 DEF Answer
<1>19. ToSet(a.nodes) = ToSet(t) /\ Len(a.nodes) = Cardinality(ToSet(t))
    BY <1>8, <1>10, <1>18
<1>20. ~a.truncated => ToSet(t) = M
    <2>1. n <= limit => ToSet(t) = M
        BY <1>7, <1>13
    <2>2. ~(n > limit) => n <= limit
        OBVIOUS
    <2> QED BY <1>18, <2>1, <2>2
<1>21. a.truncated => Cardinality(ToSet(t)) = limit
    <2>1. n > limit => Cardinality(ToSet(t)) = limit
        BY <1>7, <1>8, <1>10
    <2> QED BY <1>18, <2>1
<1>22. q.roots # {} => \A k \in 0..q.depth : ToSet(t) \ Within(g, q, k) # {} => Within(g, q, k) \subseteq ToSet(t)
    BY <1>16
<1>23. Faithful(g, q, a)
    BY <1>1, <1>2, <1>12, <1>15, <1>18, <1>19, <1>20, <1>21, <1>22 DEF Faithful
<1> QED BY <1>2, <1>17, <1>19, <1>20, <1>23

(* Nodes of a query without roots are all entities that match.             *)
LEMMA RootsAreMeant ==
    ASSUME NEW g, NEW q, q.depth \in Nat, q.roots # {}, NEW s, Visited(g, q, q.depth, s),
           LimitPassed(q, s) \/ Covers(s, Within(g, q, q.depth))
    PROVE  Explored(g, q, s)
<1>1. Meant(g, q) = Within(g, q, q.depth)
    BY DEF Meant
<1>2. s \in Seq(Within(g, q, q.depth)) /\ Distinct(s)
    <2>1. PICK W : W = Within(g, q, q.depth)
        OBVIOUS
    <2>2. s \in Seq(g.nodes) /\ \A i \in 1..Len(s) : s[i] \in W
        BY <2>1 DEF Visited
    <2>3. s \in Seq(W)
        BY <2>2
    <2> QED BY <2>1, <2>3 DEF Distinct, Visited
<1> QED BY <1>1, <1>2 DEF Explored

LEMMA MemoryExplores ==
    ASSUME NEW g, NEW q, Traversable(g, q)
    PROVE  Explored(g, q, IF q.roots = {} THEN ByDigest({n \in g.nodes : EntityMatches(g, q, n)})
                          ELSE MemoryLevels(g, q))
<1>1. CASE q.roots = {}
    <2>1. PICK M : M = {n \in g.nodes : EntityMatches(g, q, n)}
        OBVIOUS
    <2>2. M = Meant(g, q) /\ M \in SUBSET g.nodes
        BY <1>1, <2>1 DEF Meant
    <2>3. Enumerates(ByDigest(M), M)
        BY <2>2, ByDigestEnumerates DEF Traversable
    <2>4. Explored(g, q, ByDigest(M))
        BY <1>1, <2>2, <2>3 DEF Explored, Enumerates
    <2> QED BY <1>1, <2>1, <2>4
<1>2. CASE q.roots # {}
    <2>1. Explored(g, q, MemoryLevels(g, q))
        BY <1>2, MemoryFinds, RootsAreMeant DEF Traversable
    <2> QED BY <1>2, <2>1
<1> QED BY <1>1, <1>2

LEMMA Neo4jExplores ==
    ASSUME NEW g, NEW q, Traversable(g, q), ~Neo4jNodes(g, q).over
    PROVE  Explored(g, q, Neo4jNodes(g, q).visited)
<1>1. CASE q.roots = {}
    <2>1. PICK M : M = {n \in g.nodes : EntityMatches(g, q, n)}
        OBVIOUS
    <2>2. M = Meant(g, q) /\ M \in SUBSET g.nodes
        BY <1>1, <2>1 DEF Meant
    <2>3. Enumerates(ById(M), M)
        BY <2>2, ByIdEnumerates DEF Traversable
    <2>4. PICK limit \in Nat : limit = LimitOf(q)
        BY LimitIsPositive DEF Traversable
    <2>5. PICK t : t = Take(ById(M), limit + 1)
        OBVIOUS
    <2>6. t \in Seq(M) /\ Distinct(t) /\ (Covers(t, M) \/ Len(t) = limit + 1)
        <3>1. limit + 1 \in Nat
            OBVIOUS
        <3> QED BY <2>3, <2>5, <3>1, TakeEnumerates
    <2>7. Explored(g, q, t)
        <3>1. LimitPassed(q, t) \/ Covers(t, M)
            BY <2>4, <2>6 DEF LimitPassed
        <3> QED BY <1>1, <2>2, <2>6, <3>1 DEF Explored
    <2>8. Neo4jNodes(g, q).visited = t
        BY <1>1, <2>1, <2>4, <2>5 DEF Neo4jNodes
    <2> QED BY <2>7, <2>8
<1>2. CASE q.roots # {}
    <2>1. Neo4jNodes(g, q) = Neo4jLevels(g, q)
        BY <1>2 DEF Neo4jNodes
    <2>2. PICK s : s = Neo4jLevels(g, q).visited
        OBVIOUS
    <2>3. Visited(g, q, q.depth, s) /\ (LimitPassed(q, s) \/ Covers(s, Within(g, q, q.depth)))
        BY <2>1, <2>2, Neo4jFinds
    <2> QED BY <1>2, <2>1, <2>2, <2>3, RootsAreMeant DEF Traversable
<1> QED BY <1>1, <1>2

(* The two stores, for every graph whose digests differ and every query:   *)
(* both refuse it, or both answer what it means, or Neo4j is over budget.  *)
Agree(g, q, answer, reference) ==
    answer.error # "budget" =>
        /\ answer.error = "none" <=> reference.error = "none"
        /\ answer.error = "none" => Faithful(g, q, answer) /\ Faithful(g, q, reference)
        /\ ~answer.truncated => ToSet(answer.nodes) = ToSet(reference.nodes) /\ answer.facts = reference.facts

LEMMA StoresAgree ==
    ASSUME NEW g, Digested(g), NEW q, q.limit \in Nat, q.depth \in Nat
    PROVE  Agree(g, q, Neo4jQuery(g, q), MemoryQuery(g, q))
<1>1. PICK refusal : refusal = Neo4jRefusal(g, q)
    OBVIOUS
<1>2. \A why : /\ Refused(why).error = why /\ Refused(why).nodes = <<>> /\ Refused(why).facts = {}
    BY DEF Refused
<1>3. CASE refusal = "budget"
    <2>1. Neo4jQuery(g, q) = Refused("budget")
        BY <1>1, <1>3 DEF Neo4jQuery
    <2> QED BY <1>2, <2>1 DEF Agree
<1>4. CASE refusal # "budget" /\ refusal # "none"
    <2>1. Neo4jQuery(g, q) = Refused(refusal)
        BY <1>1, <1>4 DEF Neo4jQuery
    <2>2. \/ \E n \in q.roots : ~EntityMatches(g, q, n)
          \/ Cardinality(q.roots) > LimitOf(q)
        BY <1>1, <1>4 DEF Neo4jRefusal
    <2>3. PICK other \in {"root", "invalid"} : MemoryQuery(g, q) = Refused(other)
        BY <2>2 DEF MemoryQuery
    <2> QED BY <1>2, <1>4, <2>1, <2>3 DEF Agree
<1>5. CASE refusal = "none"
    <2>1. /\ \A n \in q.roots : EntityMatches(g, q, n)
          /\ ~(Cardinality(q.roots) > LimitOf(q))
        BY <1>1, <1>5 DEF Neo4jRefusal
    <2>2. Traversable(g, q)
        BY <2>1 DEF Traversable, EntityMatches
    <2>3. PICK s : s = IF q.roots = {} THEN ByDigest({n \in g.nodes : EntityMatches(g, q, n)})
                       ELSE MemoryLevels(g, q)
        OBVIOUS
    <2>4. Explored(g, q, s)
        BY <2>2, <2>3, MemoryExplores
    <2>5. MemoryQuery(g, q) = Answer(g, q, s)
        BY <2>1, <2>3 DEF MemoryQuery
    <2>6. PICK v : v = Neo4jNodes(g, q).visited
        OBVIOUS
    <2>7. CASE Neo4jQuery(g, q) = Refused("budget")
        BY <1>2, <2>7 DEF Agree
    <2>8. CASE Neo4jQuery(g, q) # Refused("budget")
        <3>1. ~Neo4jNodes(g, q).over /\ Neo4jQuery(g, q) = Answer(g, q, v)
            BY <1>1, <1>5, <2>6, <2>8 DEF Neo4jQuery
        <3>2. Explored(g, q, v)
            BY <2>2, <2>6, <3>1, Neo4jExplores
        <3>3. PICK a, b : a = Answer(g, q, v) /\ b = Answer(g, q, s)
            OBVIOUS
        <3>4. IsFiniteSet(g.nodes)
            BY DEF Digested
        <3>5. /\ Faithful(g, q, a) /\ (~a.truncated => ToSet(a.nodes) = Meant(g, q))
            BY <3>2, <3>3, <3>4, AnswerIsFaithful
        <3>6. /\ Faithful(g, q, b) /\ (~b.truncated => ToSet(b.nodes) = Meant(g, q))
            BY <2>4, <3>3, <3>4, AnswerIsFaithful
        <3>7. a.error = "none" /\ b.error = "none" /\ a.truncated \in BOOLEAN /\ b.truncated \in BOOLEAN
            BY <3>3 DEF Answer
        <3>8. a.truncated <=> b.truncated
            BY <3>5, <3>6, <3>7 DEF Faithful
        <3>9. ~a.truncated => ToSet(a.nodes) = ToSet(b.nodes) /\ a.facts = b.facts
            <4>1. SUFFICES ASSUME ~a.truncated PROVE ToSet(a.nodes) = ToSet(b.nodes) /\ a.facts = b.facts
                OBVIOUS
            <4>2. PICK M : M = ToSet(a.nodes) /\ M = ToSet(b.nodes)
                BY <3>5, <3>6, <3>8, <4>1
            <4>3. a.facts = {e \in g.facts : RelationMatches(q, e) /\ {e.from, e.to} \subseteq M}
                BY <3>5, <4>2 DEF Faithful
            <4>4. b.facts = {e \in g.facts : RelationMatches(q, e) /\ {e.from, e.to} \subseteq M}
                BY <3>6, <4>2 DEF Faithful
            <4> QED BY <4>2, <4>3, <4>4
        <3> QED BY <2>5, <3>1, <3>3, <3>5, <3>6, <3>7, <3>9 DEF Agree
    <2> QED BY <2>7, <2>8
<1> QED BY <1>3, <1>4, <1>5


-----------------------------------------------------------------------------
(***************************************************************************)
(* Texts one after the other. The members of a sequence of sequences are   *)
(* joined one at a time; what was joined first is a prefix of the rest.    *)
(***************************************************************************)
Joins(joined, texts, W) ==
    /\ joined \in [0..Len(texts) -> Seq(W)] /\ joined[0] = <<>>
    /\ \A i \in 1..Len(texts) : joined[i] = joined[i - 1] \o texts[i]

LEMMA JoinsExist ==
    ASSUME NEW W, NEW texts \in Seq(Seq(W))
    PROVE  \E joined : Joins(joined, texts, W)
<1> DEFINE Upto(m, j) == j \in [0..m -> Seq(W)] /\ j[0] = <<>> /\ \A i \in 1..m : j[i] = j[i - 1] \o texts[i]
           P == {m \in Nat : \E j : Upto(m, j)}
<1>1. PICK n \in Nat : n = Len(texts) /\ \A i \in 1..n : texts[i] \in Seq(W)
    OBVIOUS
<1>2. 0 \in P
    <2>1. <<>> \in Seq(W)
        OBVIOUS
    <2>2. Upto(0, [i \in 0..0 |-> <<>>])
        BY <2>1
    <2> QED BY <2>2
<1>3. ASSUME NEW m \in 1..n, m - 1 \in P PROVE m \in P
    <2>1. PICK j : Upto(m - 1, j)
        BY <1>3
    <2> DEFINE longer == [i \in 0..m |-> IF i = m THEN j[m - 1] \o texts[m] ELSE j[i]]
    <2>2. j[m - 1] \in Seq(W) /\ texts[m] \in Seq(W)
        BY <1>1, <2>1
    <2>3. j[m - 1] \o texts[m] \in Seq(W)
        BY <2>2, ConcatProperties
    <2>4. longer \in [0..m -> Seq(W)]
        BY <2>1, <2>3
    <2>5. longer[0] = <<>>
        BY <2>1
    <2>6. ASSUME NEW i \in 1..m PROVE longer[i] = longer[i - 1] \o texts[i]
        <3>1. i - 1 \in 0..m /\ i - 1 # m /\ longer[i - 1] = j[i - 1]
            OBVIOUS
        <3>2. CASE i = m
            <4>1. longer[i] = j[m - 1] \o texts[m]
                <5>1. i \in 0..m
                    OBVIOUS
                <5> QED BY <3>2, <5>1, Zenon
            <4>2. longer[i - 1] = j[m - 1]
                BY <3>1, <3>2
            <4> HIDE DEF longer
            <4> QED BY <3>2, <4>1, <4>2
        <3>3. CASE i # m
            <4>1. i \in 1..m - 1 /\ longer[i] = j[i]
                BY <3>3
            <4>2. j[i] = j[i - 1] \o texts[i]
                BY <2>1, <4>1
            <4> QED BY <3>1, <4>1, <4>2
        <3> QED BY <3>2, <3>3
    <2>7. m \in Nat
        OBVIOUS
    <2> HIDE DEF longer
    <2>8. Upto(m, longer)
        BY <2>4, <2>5, <2>6
    <2> HIDE DEF Upto
    <2> QED BY <2>7, <2>8
<1>4. n \in P
    <2> HIDE DEF P
    <2>1. \A d \in 0..n : d \in P
        BY <1>2, <1>3, HoldsUpTo
    <2> QED BY <2>1
<1> QED BY <1>1, <1>4 DEF Joins

LEMMA FlattenJoins ==
    ASSUME NEW W, NEW texts \in Seq(Seq(W)), NEW joined, Joins(joined, texts, W)
    PROVE  FlattenSeq(texts) = joined[Len(texts)]
<1>1. PICK n \in Nat : n = Len(texts) /\ \A i \in 1..n : texts[i] \in Seq(W)
    OBVIOUS
<1>a. joined[0] = <<>> /\ \A i \in 1..n : joined[i] = joined[i - 1] \o texts[i]
    BY Zenon, <1>1 DEF Joins
<1> DEFINE Flattens(f) == f = [i \in 1..n |-> IF i = 1 THEN texts[i] ELSE f[i - 1] \o texts[i]]
<1>2. CASE n = 0
    <2>1. texts = <<>>
        BY <1>1, <1>2, EmptySeq
    <2>2. FlattenSeq(texts) = texts
        BY <1>1, <1>2 DEF FlattenSeq
    <2> QED BY <1>1, <1>2, <2>1, <2>2 DEF Joins
<1>3. CASE n # 0
    <2>1. FlattenSeq(texts) = (CHOOSE f : Flattens(f))[n]
        BY <1>1, <1>3 DEF FlattenSeq
    <2>2. joined[1] = texts[1]
        <3>1. joined[1] = joined[0] \o texts[1] /\ joined[0] = <<>>
            <4>1. 1 \in 1..n /\ 1 - 1 = 0
                BY <1>1, <1>3
            <4>2. joined[1] = joined[1 - 1] \o texts[1]
                BY <1>a, <4>1
            <4> QED BY <1>a, <4>1, <4>2
        <3>2. texts[1] \in Seq(W)
            BY <1>1, <1>3
        <3> QED BY <3>1, <3>2, ConcatEmptySeq
    <2>3. \E f : Flattens(f)
        <3> DEFINE g == [i \in 1..n |-> joined[i]]
        <3>1. \A i \in 1..n : i # 1 => joined[i] = joined[i - 1] \o texts[i] /\ i - 1 \in 1..n
            <4>1. \A i \in 1..n : i # 1 => i - 1 \in 1..n
                BY <1>1
            <4> QED BY <1>a, <4>1
        <3>2. \A i \in 1..n : g[i] = IF i = 1 THEN texts[i] ELSE g[i - 1] \o texts[i]
            BY <2>2, <3>1
        <3>3. Flattens(g)
            BY <3>2
        <3> QED BY <3>3
    <2>4. PICK f : f = (CHOOSE g : Flattens(g))
        OBVIOUS
    <2>5. Flattens(f)
        <3> HIDE DEF Flattens
        <3> QED BY <2>3, <2>4
    <2> DEFINE P == {i \in Nat : i = 0 \/ f[i] = joined[i]}
    <2>6. ASSUME NEW i \in 1..n, i - 1 \in P PROVE i \in P
        <3>1. joined[i] = joined[i - 1] \o texts[i]
            BY <1>a
        <3>2. f[i] = IF i = 1 THEN texts[i] ELSE f[i - 1] \o texts[i]
            BY <2>5
        <3>3. i # 1 => f[i - 1] = joined[i - 1]
            BY <2>6
        <3>4. f[i] = joined[i]
            BY <2>2, <3>1, <3>2, <3>3
        <3> QED BY <3>4
    <2>7. 0 \in P
        OBVIOUS
    <2>8. n \in P
        <3> HIDE DEF P
        <3>1. \A d \in 0..n : d \in P
            BY <2>6, <2>7, HoldsUpTo
        <3> QED BY <3>1
    <2> QED BY <1>1, <1>3, <2>1, <2>4, <2>8
<1> QED BY <1>2, <1>3

Begins(s, t) == Len(s) <= Len(t) /\ \A p \in 1..Len(s) : t[p] = s[p]

LEMMA JoinGrows ==
    ASSUME NEW W, NEW texts \in Seq(Seq(W)), NEW joined, Joins(joined, texts, W),
           NEW i \in 0..Len(texts), NEW k \in i..Len(texts)
    PROVE  Begins(joined[i], joined[k])
<1>1. PICK n \in Nat : n = Len(texts) /\ \A d \in 1..n : texts[d] \in Seq(W)
    OBVIOUS
<1>2. joined \in [0..n -> Seq(W)] /\ \A d \in 1..n : joined[d] = joined[d - 1] \o texts[d]
    BY Zenon, <1>1 DEF Joins
<1> DEFINE P == {m \in Nat : i + m <= n => Begins(joined[i], joined[i + m])}
<1>3. 0 \in P
    BY <1>1, <1>2 DEF Begins
<1>4. ASSUME NEW m \in 1..(k - i), m - 1 \in P PROVE m \in P
    <2>1. i + m \in 1..n /\ i + (m - 1) = (i + m) - 1 /\ (i + m) - 1 \in 0..n /\ m \in Nat
        BY <1>1
    <2>2. PICK s \in Seq(W) : s = joined[i]
        BY <1>1, <1>2
    <2>3. PICK t \in Seq(W) : t = joined[(i + m) - 1]
        BY <1>1, <1>2, <2>1
    <2>4. PICK u \in Seq(W) : u = texts[i + m]
        BY <1>1, <2>1
    <2>5. Begins(s, t)
        BY <1>4, <2>1, <2>2, <2>3
    <2>6. joined[i + m] = t \o u
        BY <1>2, <2>1, <2>3, <2>4
    <2>7. Begins(s, t \o u)
        <3>1. Len(t \o u) = Len(t) + Len(u) /\ \A p \in 1..Len(t) : (t \o u)[p] = t[p]
            BY ConcatProperties
        <3>2. Len(s) \in Nat /\ Len(t) \in Nat /\ Len(u) \in Nat
            OBVIOUS
        <3>3. Len(s) <= Len(t) /\ \A p \in 1..Len(s) : t[p] = s[p]
            BY <2>5 DEF Begins
        <3>4. PICK l \in Nat : l = Len(s) /\ l <= Len(t)
            BY <3>2, <3>3
        <3>5. PICK v : v = t \o u
            OBVIOUS
        <3>6. l <= Len(v) /\ \A p \in 1..l : p \in 1..Len(t) /\ v[p] = t[p] /\ t[p] = s[p]
            BY <3>1, <3>2, <3>3, <3>4, <3>5
        <3> QED BY <3>4, <3>5, <3>6 DEF Begins
    <2>8. Begins(joined[i], joined[i + m])
        BY <2>2, <2>6, <2>7
    <2> QED BY <2>1, <2>8
<1>5. k - i \in P
    <2>1. k - i \in Nat
        BY <1>1
    <2> HIDE DEF P
    <2>2. \A d \in 0..(k - i) : d \in P
        BY <1>3, <1>4, <2>1, HoldsUpTo
    <2> QED BY <2>1, <2>2
<1>6. i + (k - i) = k /\ k <= n
    BY <1>1
<1> QED BY <1>5, <1>6

LEMMA TakeBegins ==
    ASSUME NEW W, NEW s \in Seq(W), NEW t \in Seq(W), Begins(s, t), NEW m \in Nat, m <= Len(s)
    PROVE  Take(t, m) = Take(s, m)
<1>1. PICK a \in Seq(W) : a = Take(s, m) /\ Len(a) = m /\ \A p \in 1..Len(a) : a[p] = s[p]
    BY TakeIsPrefix
<1>2. m <= Len(t)
    BY DEF Begins
<1>3. PICK b \in Seq(W) : b = Take(t, m) /\ Len(b) = m /\ \A p \in 1..Len(b) : b[p] = t[p]
    BY <1>2, TakeIsPrefix
<1>4. \A p \in 1..m : b[p] = a[p]
    BY <1>1, <1>3 DEF Begins
<1>5. a = b
    BY <1>1, <1>3, <1>4, SeqEqual
<1> QED BY <1>1, <1>3, <1>5

LEMMA TakeJoined ==
    ASSUME NEW W, NEW s \in Seq(W), NEW t \in Seq(W), NEW m \in Nat, Len(s) <= m
    PROVE  Take(s \o t, m) = s \o Take(t, m - Len(s))
<1>1. PICK r \in Nat : r = m - Len(s)
    OBVIOUS
<1>2. PICK a \in Seq(W) : a = Take(t, r) /\ Len(a) <= r /\ Len(a) <= Len(t) /\ (\A p \in 1..Len(a) : a[p] = t[p])
                          /\ (Len(t) <= r => a = t) /\ (r <= Len(t) => Len(a) = r)
    BY TakeIsPrefix
<1>3. PICK u \in Seq(W) : u = s \o t
    BY ConcatProperties
<1>4. PICK b \in Seq(W) : b = Take(u, m) /\ Len(b) <= m /\ Len(b) <= Len(u) /\ (\A p \in 1..Len(b) : b[p] = u[p])
                          /\ (Len(u) <= m => b = u) /\ (m <= Len(u) => Len(b) = m)
    BY TakeIsPrefix
<1>5. PICK c \in Seq(W) : c = s \o a
    BY ConcatProperties
<1>6. /\ Len(u) = Len(s) + Len(t)
      /\ \A p \in 1..Len(s) : u[p] = s[p]
      /\ \A p \in Len(s) + 1..Len(s) + Len(t) : u[p] = t[p - Len(s)]
    BY <1>3, ConcatProperties
<1>7. /\ Len(c) = Len(s) + Len(a)
      /\ \A p \in 1..Len(s) : c[p] = s[p]
      /\ \A p \in Len(s) + 1..Len(s) + Len(a) : c[p] = a[p - Len(s)]
    BY <1>5, ConcatProperties
<1>8. Len(b) = Len(c)
    BY <1>1, <1>2, <1>4, <1>6, <1>7
<1>9. \A p \in 1..Len(c) : b[p] = c[p]
    <2> SUFFICES ASSUME NEW p \in 1..Len(c) PROVE b[p] = c[p]
        OBVIOUS
    <2>1. b[p] = u[p]
        BY <1>4, <1>8
    <2>2. CASE p <= Len(s)
        BY <1>6, <1>7, <2>1, <2>2
    <2>3. CASE p > Len(s)
        <3>1. p \in Len(s) + 1..Len(s) + Len(a) /\ p \in Len(s) + 1..Len(s) + Len(t) /\ p - Len(s) \in 1..Len(a)
            BY <1>2, <1>7, <2>3
        <3> QED BY <1>2, <1>6, <1>7, <2>1, <3>1
    <2> QED BY <2>2, <2>3
<1>10. b = c
    BY <1>8, <1>9, SeqEqual
<1> QED BY <1>1, <1>2, <1>3, <1>4, <1>5, <1>10

(* Texts cut to what is left of M, up to the first that leaves nothing,    *)
(* are together the first M tokens of all texts.                           *)
CutTo(cut, texts, joined, n, M) ==
    /\ n \in 0..Len(texts) /\ \A i \in 1..n : Len(joined[i - 1]) < M
    /\ n < Len(texts) => M <= Len(joined[n])
    /\ cut = [i \in 1..n |-> Take(texts[i], M - Len(joined[i - 1]))]

LEMMA CutIsPrefix ==
    ASSUME NEW W, NEW texts \in Seq(Seq(W)), NEW joined, Joins(joined, texts, W),
           NEW M \in Nat, NEW n, NEW cut, CutTo(cut, texts, joined, n, M)
    PROVE  FlattenSeq(cut) = Take(FlattenSeq(texts), M)
<1>1. PICK N \in Nat : N = Len(texts) /\ \A d \in 1..N : texts[d] \in Seq(W)
    OBVIOUS
<1>2. joined \in [0..N -> Seq(W)] /\ joined[0] = <<>> /\ \A d \in 1..N : joined[d] = joined[d - 1] \o texts[d]
    BY Zenon, <1>1 DEF Joins
<1>3. /\ n \in 0..N /\ \A i \in 1..n : Len(joined[i - 1]) < M
      /\ n < N => M <= Len(joined[n])
      /\ cut = [i \in 1..n |-> Take(texts[i], M - Len(joined[i - 1]))]
    BY <1>1 DEF CutTo
<1> DEFINE part == [i \in 0..n |-> Take(joined[i], M)]
<1>4. \A i \in 0..n : i \in 0..N /\ joined[i] \in Seq(W) /\ Take(joined[i], M) \in Seq(W)
    <2> SUFFICES ASSUME NEW i \in 0..n PROVE i \in 0..N /\ joined[i] \in Seq(W) /\ Take(joined[i], M) \in Seq(W)
        OBVIOUS
    <2>1. i \in 0..N
        BY <1>1, <1>3
    <2>2. PICK s \in Seq(W) : s = joined[i]
        BY <1>2, <2>1
    <2>3. Take(s, M) \in Seq(W)
        BY TakeIsPrefix
    <2> QED BY <2>1, <2>2, <2>3
<1>5. \A i \in 1..n : /\ i \in 1..N /\ i - 1 \in 0..n /\ texts[i] \in Seq(W)
                      /\ M - Len(joined[i - 1]) \in Nat /\ Len(joined[i - 1]) <= M
    <2> SUFFICES ASSUME NEW i \in 1..n
                 PROVE  /\ i \in 1..N /\ i - 1 \in 0..n /\ texts[i] \in Seq(W)
                        /\ M - Len(joined[i - 1]) \in Nat /\ Len(joined[i - 1]) <= M
        OBVIOUS
    <2>1. i \in 1..N /\ i - 1 \in 0..n
        BY <1>1, <1>3
    <2>2. PICK s \in Seq(W) : s = joined[i - 1]
        BY <1>4, <2>1
    <2>3. Len(s) < M /\ Len(s) \in Nat
        BY <1>3, <2>2
    <2> QED BY <1>1, <2>1, <2>2, <2>3
<1>6. cut \in Seq(Seq(W)) /\ Len(cut) = n
    <2>1. \A i \in 1..n : Take(texts[i], M - Len(joined[i - 1])) \in Seq(W)
        <3> SUFFICES ASSUME NEW i \in 1..n PROVE Take(texts[i], M - Len(joined[i - 1])) \in Seq(W)
            OBVIOUS
        <3>1. PICK t \in Seq(W) : t = texts[i]
            BY <1>5
        <3>2. PICK m \in Nat : m = M - Len(joined[i - 1])
            BY <1>5
        <3>3. Take(t, m) \in Seq(W)
            BY TakeIsPrefix
        <3> QED BY <3>1, <3>2, <3>3
    <2>2. n \in Nat
        BY <1>1, <1>3
    <2>3. cut \in [1..n -> Seq(W)]
        BY <1>3, <2>1
    <2> QED BY <2>2, <2>3
<1>7. Joins(part, cut, W)
    <2>1. part \in [0..n -> Seq(W)]
        BY <1>4
    <2>2. part[0] = <<>>
        <3>1. 0 \in 0..n
            BY <1>1, <1>3
        <3>2. Take(<<>>, M) = <<>>
            <4>0. <<>> \in Seq(W) /\ Len(<<>>) = 0
                BY EmptySeq
            <4>1. Len(<<>>) <= M
                BY <4>0
            <4>2. PICK e \in Seq(W) : e = <<>> /\ Len(e) <= M
                BY Zenon, <4>0, <4>1
            <4>3. Take(e, M) = e
                BY Zenon, <4>2, TakeIsPrefix
            <4> QED BY <4>2, <4>3
        <3> QED BY <1>2, <3>1, <3>2
    <2>3. ASSUME NEW i \in 1..n PROVE part[i] = part[i - 1] \o cut[i]
        <3>1. PICK s \in Seq(W) : s = joined[i - 1]
            BY <1>4, <1>5
        <3>2. PICK t \in Seq(W) : t = texts[i]
            BY <1>5
        <3>3. joined[i] = s \o t
            BY <1>2, <1>5, <3>1, <3>2
        <3>4. Len(s) <= M
            BY <1>5, <3>1
        <3>5. Take(s \o t, M) = s \o Take(t, M - Len(s))
            BY <3>4, TakeJoined
        <3>6. Take(s, M) = s
            BY <3>4, TakeIsPrefix
        <3>7. part[i] = Take(s \o t, M) /\ part[i - 1] = Take(s, M)
            <4>1. i \in 0..n /\ i - 1 \in 0..n
                BY <1>5
            <4>2. part[i] = Take(joined[i], M) /\ part[i - 1] = Take(joined[i - 1], M)
                BY <4>1
            <4> HIDE DEF part
            <4> QED BY <3>1, <3>3, <4>2
        <3>8. cut[i] = Take(t, M - Len(s))
            BY <1>3, <3>1, <3>2
        <3> HIDE DEF part
        <3> QED BY <3>5, <3>6, <3>7, <3>8
    <2> HIDE DEF part
    <2>4. \A i \in 1..Len(cut) : part[i] = part[i - 1] \o cut[i]
        BY <1>6, <2>3
    <2> QED BY <1>6, <2>1, <2>2, <2>4 DEF Joins
<1>8. FlattenSeq(cut) = Take(joined[n], M)
    <2>1. n \in 0..n
        BY <1>1, <1>3
    <2>2. part[n] = Take(joined[n], M)
        BY <2>1
    <2> HIDE DEF part
    <2> QED BY <1>6, <1>7, <2>2, FlattenJoins
<1>9. FlattenSeq(texts) = joined[N]
    BY <1>1, FlattenJoins
<1>10. Take(joined[N], M) = Take(joined[n], M)
    <2>1. CASE n = N
        BY <2>1
    <2>2. CASE n < N
        <3>1. n \in 0..Len(texts) /\ N \in n..Len(texts)
            BY <1>1, <1>3, <2>2
        <3>2. Begins(joined[n], joined[N])
            BY <3>1, JoinGrows
        <3>3. PICK s \in Seq(W) : s = joined[n]
            BY <1>1, <1>2, <1>3
        <3>4. PICK t \in Seq(W) : t = joined[N]
            BY <1>1, <1>2
        <3>5. M <= Len(s)
            BY <1>3, <2>2, <3>3
        <3> QED BY <3>2, <3>3, <3>4, <3>5, TakeBegins
    <2> QED BY <1>1, <1>3, <2>1, <2>2
<1> QED BY <1>8, <1>9, <1>10

LEMMA InitialSegment ==
    ASSUME NEW N \in Nat, NEW I \in SUBSET (1..N), \A i \in I : \A k \in 1..i : k \in I
    PROVE  Cardinality(I) \in 0..N /\ I = 1..Cardinality(I)
<1> DEFINE T == {m \in Nat : m + 1 \notin I}
<1>1. PICK m \in T : \A k \in T : m <= k
    <2>1. N \in T
        OBVIOUS
    <2>2. T \in SUBSET Nat /\ T # {}
        BY <2>1
    <2> HIDE DEF T
    <2> QED BY <2>2, LeastNumber
<1>2. m \in Nat /\ m + 1 \notin I
    OBVIOUS
<1>3. ASSUME NEW k \in 1..m PROVE k \in I
    <2>1. k - 1 \in Nat /\ ~(m <= k - 1) /\ (k - 1) + 1 = k
        BY <1>2
    <2>2. k - 1 \notin T
        BY <1>1, <2>1
    <2> QED BY <2>1, <2>2
<1>4. ASSUME NEW k \in I PROVE k \in 1..m
    <2>1. k \in 1..N
        OBVIOUS
    <2>2. m + 1 \in 1..k => m + 1 \in I
        OBVIOUS
    <2> QED BY <1>2, <2>1, <2>2
<1>5. I = 1..m
    BY <1>3, <1>4
<1>6. Cardinality(1..m) = m
    BY <1>2, FS_Interval
<1>7. m \in 0..N
    <2>1. m = 0 \/ m \in 1..m
        BY <1>2
    <2>2. m = 0 \/ m \in 1..N
        BY <1>3, <2>1
    <2> QED BY <2>2
<1> QED BY <1>5, <1>6, <1>7
=============================================================================
