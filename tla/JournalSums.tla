---------------------------- MODULE JournalSums ----------------------------
(* Sums over the rows of the journal (SELECT SUM(...)), for the proofs.      *)
(*                                                                           *)
(* MapThenSumSet is a fold, and what a fold computes is shown by induction,  *)
(* which the provers cannot do. So a sum of naturals is shown once to be a   *)
(* cardinality: of the set that has, for every element, as many units as its *)
(* summand says. Everything else about sums is then a fact about finite      *)
(* sets.                                                                     *)
EXTENDS FiniteSetsExt, FiniteSetTheorems, TLAPS

(* The sum of f over S, in the form the models write it. *)
Total(f, S) == MapThenSumSet(LAMBDA x : f[x], S)

(* The equation that defines the fold's recursive function. *)
Summed(f, S, g) ==
    g = [s \in SUBSET S |->
           IF s = {} THEN 0 ELSE LET x == CHOOSE x \in s : TRUE IN f[x] + g[s \ {x}]]

Units(f, S) == {p \in S \X Nat : p[2] \in 1..f[p[1]]}

LEMMA TotalDef ==
    ASSUME NEW S, NEW f
    PROVE  Total(f, S) = (CHOOSE g : Summed(f, S, g))[S]
BY DEF Total, MapThenSumSet, MapThenFoldSet, Summed

(* The units of one element. *)
LEMMA UnitsOfOne ==
    ASSUME NEW x, NEW n \in Nat
    PROVE  /\ IsFiniteSet({x} \X (1..n))
           /\ Cardinality({x} \X (1..n)) = n
<1>1. IsFiniteSet({x}) /\ Cardinality({x}) = 1
  BY FS_Singleton
<1>2. IsFiniteSet(1..n) /\ Cardinality(1..n) = n
  BY FS_Interval
<1>3. /\ IsFiniteSet({x} \X (1..n))
      /\ Cardinality({x} \X (1..n)) = Cardinality({x}) * Cardinality(1..n)
  BY <1>1, <1>2, FS_Product
<1>. QED
  BY <1>1, <1>2, <1>3

LEMMA UnitsFinite ==
    ASSUME NEW S, IsFiniteSet(S), NEW f, \A x \in S : f[x] \in Nat
    PROVE  IsFiniteSet(Units(f, S))
<1>. DEFINE column == [x \in S |-> {x} \X (1..f[x])]
            columns == {column[x] : x \in S}
<1>1. column \in Surjection(S, columns)
  BY DEF Surjection
<1>2. IsFiniteSet(columns)
  BY <1>1, FS_Surjection
<1>3. \A c \in columns : IsFiniteSet(c)
  <2>1. \A x \in S : IsFiniteSet({x} \X (1..f[x]))
    BY UnitsOfOne
  <2>. QED
    BY <2>1
<1>4. IsFiniteSet(UNION columns)
  BY <1>2, <1>3, FS_UNION
<1>5. UNION columns = Units(f, S)
  BY DEF Units
<1>. QED
  BY <1>4, <1>5

LEMMA UnitsSplit ==
    ASSUME NEW S, IsFiniteSet(S), NEW f, \A x \in S : f[x] \in Nat, NEW x \in S
    PROVE  /\ Cardinality(Units(f, S)) = f[x] + Cardinality(Units(f, S \ {x}))
           /\ Cardinality(Units(f, S \ {x})) \in Nat
<1>. DEFINE rest == Units(f, S \ {x})
            own == {x} \X (1..f[x])
<1>1. IsFiniteSet(S \ {x})
  BY FS_RemoveElement
<1>2. IsFiniteSet(rest)
  BY <1>1, UnitsFinite
<1>3. IsFiniteSet(own) /\ Cardinality(own) = f[x]
  BY UnitsOfOne
<1>4. Units(f, S) = rest \cup own /\ rest \cap own = {}
  BY DEF Units
<1>. HIDE DEF rest, own
<1>5. Cardinality(rest \cup own) = Cardinality(rest) + f[x] - Cardinality({})
  BY <1>2, <1>3, <1>4, FS_Union
<1>. QED
  BY <1>2, <1>4, <1>5, FS_EmptySet, FS_CardinalityType DEF rest

(* A sum is the number of its units. *)
LEMMA TotalIsCount ==
    ASSUME NEW S, IsFiniteSet(S), NEW f, \A x \in S : f[x] \in Nat
    PROVE  Total(f, S) = Cardinality(Units(f, S))
<1>. DEFINE count == [s \in SUBSET S |-> Cardinality(Units(f, s))]
            sum == CHOOSE g : Summed(f, S, g)
            pick(s) == CHOOSE x \in s : TRUE
<1>1. ASSUME NEW s \in SUBSET S, s # {}
      PROVE  count[s] = f[pick(s)] + count[s \ {pick(s)}]
  <2>1. pick(s) \in s
    BY <1>1
  <2>. HIDE DEF pick
  <2>2. IsFiniteSet(s) /\ \A x \in s : f[x] \in Nat
    BY FS_Subset
  <2>3. s \ {pick(s)} \in SUBSET S
    OBVIOUS
  <2>. QED
    BY <2>1, <2>2, <2>3, UnitsSplit
<1>2. count[{}] = 0
  <2>1. Units(f, {}) = {}
    BY DEF Units
  <2>. QED
    BY <2>1, FS_EmptySet
<1>3. Summed(f, S, count)
  <2>1. ASSUME NEW s \in SUBSET S
        PROVE  count[s] = IF s = {} THEN 0
                          ELSE LET x == CHOOSE x \in s : TRUE IN f[x] + count[s \ {x}]
    <3>. HIDE DEF count
    <3>. QED
      BY <1>1, <1>2
  <2>. HIDE DEF pick
  <2>. QED
    BY <2>1 DEF Summed
<1>4. Summed(f, S, sum)
  <2>. HIDE DEF count, pick
  <2>. QED
    BY <1>3
<1>5. sum[S] = count[S]
  <2>. DEFINE wrong == {s \in SUBSET S : sum[s] # count[s]}
  <2>. HIDE DEF sum, count
  <2>1. SUFFICES ASSUME wrong # {} PROVE FALSE
    OBVIOUS
  <2>2. IsWellFoundedOn(StrictSubsetOrdering(S), SUBSET S)
    BY FS_StrictSubsetOrderingWellFounded, FS_FiniteSubsetsOfFinite
  <2>3. PICK s \in wrong : \A r \in wrong : <<r, s>> \notin StrictSubsetOrdering(S)
    <3>1. wrong \subseteq SUBSET S
      OBVIOUS
    <3>. HIDE DEF wrong
    <3>. QED
      BY <2>1, <2>2, <3>1, WFMin, Zenon
  <2>4. s \in SUBSET S /\ sum[s] # count[s]
    BY <2>3
  <2>5. \A r \in SUBSET S :
           sum[r] = IF r = {} THEN 0 ELSE f[pick(r)] + sum[r \ {pick(r)}]
    BY <1>4, Zenon DEF Summed
  <2>6. s # {}
    BY <1>2, <2>4, <2>5
  <2>7. pick(s) \in s
    BY <2>6
  <2>. DEFINE r == s \ {pick(s)}
  <2>8. r \in SUBSET S /\ r \subseteq s /\ r # s
    <3>. HIDE DEF pick
    <3>. QED
      BY <2>4, <2>7
  <2>9. <<r, s>> \in StrictSubsetOrdering(S)
    <3>. HIDE DEF r
    <3>. QED
      BY <2>4, <2>8 DEF StrictSubsetOrdering
  <2>10. sum[r] = count[r]
    <3>. HIDE DEF r
    <3>. QED
      BY <2>3, <2>8, <2>9
  <2>. HIDE DEF pick, wrong
  <2>. QED
    BY <1>1, <2>4, <2>5, <2>6, <2>10
<1>. QED
  BY <1>5, TotalDef

LEMMA TotalType ==
    ASSUME NEW S, IsFiniteSet(S), NEW f, \A x \in S : f[x] \in Nat
    PROVE  Total(f, S) \in Nat
BY TotalIsCount, UnitsFinite, FS_CardinalityType

(* Only the summands of the set's own elements count. *)
LEMMA TotalSame ==
    ASSUME NEW S, IsFiniteSet(S), NEW f, NEW g,
           \A x \in S : f[x] \in Nat /\ g[x] = f[x]
    PROVE  Total(g, S) = Total(f, S)
<1>1. Units(g, S) = Units(f, S)
  BY DEF Units
<1>. QED
  BY <1>1, TotalIsCount

LEMMA TotalOfNothing ==
    ASSUME NEW S, IsFiniteSet(S), NEW f, \A x \in S : f[x] = 0
    PROVE  Total(f, S) = 0
<1>1. Units(f, S) = {}
  BY DEF Units
<1>. QED
  BY <1>1, TotalIsCount, FS_EmptySet

LEMMA TotalAdd ==
    ASSUME NEW S, IsFiniteSet(S), NEW x, x \notin S,
           NEW f, \A y \in S \cup {x} : f[y] \in Nat
    PROVE  Total(f, S \cup {x}) = Total(f, S) + f[x]
<1>. DEFINE all == S \cup {x}
<1>1. IsFiniteSet(all)
  BY FS_AddElement
<1>2. all \ {x} = S /\ x \in all
  OBVIOUS
<1>. HIDE DEF all
<1>3. \A y \in all : f[y] \in Nat
  BY DEF all
<1>4. Total(f, all) = Cardinality(Units(f, all)) /\ Total(f, S) = Cardinality(Units(f, S))
  BY <1>1, <1>3, TotalIsCount DEF all
<1>5. Cardinality(Units(f, all)) = f[x] + Cardinality(Units(f, S))
  BY <1>1, <1>2, <1>3, UnitsSplit
<1>. QED
  BY <1>2, <1>3, <1>4, <1>5, TotalType DEF all

LEMMA TotalSubset ==
    ASSUME NEW S, IsFiniteSet(S), NEW T \in SUBSET S,
           NEW f, \A x \in S : f[x] \in Nat
    PROVE  Total(f, T) <= Total(f, S)
<1>1. IsFiniteSet(T)
  BY FS_Subset
<1>2. Units(f, T) \in SUBSET Units(f, S)
  BY DEF Units
<1>3. Cardinality(Units(f, T)) <= Cardinality(Units(f, S))
  BY <1>2, UnitsFinite, FS_Subset
<1>. QED
  BY <1>1, <1>3, TotalIsCount

(* As many summands, none of them above a bound. *)
LEMMA TotalBound ==
    ASSUME NEW S, IsFiniteSet(S), NEW m \in Nat, NEW f,
           \A x \in S : f[x] \in Nat /\ f[x] <= m
    PROVE  Total(f, S) <= Cardinality(S) * m
<1>1. IsFiniteSet(1..m) /\ Cardinality(1..m) = m
  BY FS_Interval
<1>2. IsFiniteSet(S \X (1..m)) /\ Cardinality(S \X (1..m)) = Cardinality(S) * m
  BY <1>1, FS_Product
<1>3. Units(f, S) \in SUBSET (S \X (1..m))
  BY DEF Units
<1>4. Cardinality(Units(f, S)) <= Cardinality(S) * m
  BY <1>2, <1>3, FS_Subset
<1>. QED
  BY <1>4, TotalIsCount

(* Two sets that share nothing. *)
LEMMA TotalUnion ==
    ASSUME NEW S, IsFiniteSet(S), NEW T, IsFiniteSet(T), S \cap T = {},
           NEW f, \A x \in S \cup T : f[x] \in Nat
    PROVE  Total(f, S \cup T) = Total(f, S) + Total(f, T)
<1>1. IsFiniteSet(S \cup T)
  BY FS_Union
<1>2. Units(f, S \cup T) = Units(f, S) \cup Units(f, T)
  BY DEF Units
<1>3. Units(f, S) \cap Units(f, T) = {}
  BY DEF Units
<1>4. IsFiniteSet(Units(f, S)) /\ IsFiniteSet(Units(f, T))
  BY UnitsFinite
<1>. DEFINE A == Units(f, S)
            B == Units(f, T)
<1>5. /\ Total(f, S \cup T) = Cardinality(A \cup B)
      /\ Total(f, S) = Cardinality(A)
      /\ Total(f, T) = Cardinality(B)
  BY <1>1, <1>2, TotalIsCount
<1>. HIDE DEF A, B
<1>6. Cardinality(A \cup B) = Cardinality(A) + Cardinality(B) - Cardinality(A \cap B)
  BY <1>4, FS_Union DEF A, B
<1>7. Cardinality(A) \in Nat /\ Cardinality(B) \in Nat /\ Cardinality(A \cap B) = 0
  BY <1>3, <1>4, FS_EmptySet, FS_CardinalityType DEF A, B
<1>. QED
  BY <1>5, <1>6, <1>7
=============================================================================
