--------------------------- MODULE Dispatch_proofs --------------------------
(***************************************************************************)
(* Proofs about `route', for every fleet, health and config, and about     *)
(* concurrent requests through Dispatch, for every fleet, cap, retry limit *)
(* and number of requests.                                                 *)
(***************************************************************************)
EXTENDS Dispatch, FiniteSetTheorems, FunctionTheorems, SequenceTheorems, TLAPS

-----------------------------------------------------------------------------
(* Ranks. *)

(* below[i] is what comes no later than i in some total order. *)
Nested(T, below) ==
    /\ below \in [T -> SUBSET T]
    /\ \A i \in T : i \in below[i]
    /\ \A i, j \in T : i # j =>
            \/ below[i] \subseteq below[j] /\ j \notin below[i]
            \/ below[j] \subseteq below[i] /\ i \notin below[j]

(* Counting it numbers the elements from 1 without gaps. *)
Ranks(T, below) ==
    /\ Cardinality(T) \in Nat
    /\ \A i \in T : Cardinality(below[i]) \in 1..Cardinality(T)
    /\ \A i, j \in T : Cardinality(below[i]) = Cardinality(below[j]) => i = j
    /\ \A k \in 1..Cardinality(T) : \E i \in T : Cardinality(below[i]) = k

LEMMA RankOnto ==
    ASSUME NEW T, IsFiniteSet(T), NEW below, Nested(T, below)
    PROVE  Ranks(T, below)
<1>0. /\ below \in [T -> SUBSET T]
      /\ \A i \in T : i \in below[i]
      /\ \A i, j \in T : i # j =>
            \/ below[i] \subseteq below[j] /\ j \notin below[i]
            \/ below[j] \subseteq below[i] /\ i \notin below[j]
  BY DEF Nested
<1>1. Cardinality(T) \in Nat
  BY FS_CardinalityType
<1>2. ASSUME NEW i \in T
      PROVE  IsFiniteSet(below[i]) /\ Cardinality(below[i]) \in 1..Cardinality(T)
  <2>1. IsFiniteSet(below[i]) /\ Cardinality(below[i]) <= Cardinality(T)
    BY <1>0, FS_Subset
  <2>2. Cardinality(below[i]) \in Nat /\ Cardinality(below[i]) # 0
    BY <1>0, <2>1, FS_CardinalityType, FS_EmptySet
  <2> QED
    BY <1>1, <2>1, <2>2
<1>3. ASSUME NEW i \in T, NEW j \in T, below[i] \subseteq below[j], j \notin below[i]
      PROVE  Cardinality(below[i]) # Cardinality(below[j])
  <2>1. below[i] \in SUBSET below[j] /\ below[i] # below[j] /\ IsFiniteSet(below[j])
    BY <1>0, <1>2, <1>3
  <2>2. Cardinality(below[i]) = Cardinality(below[j]) => below[i] = below[j]
    BY <2>1, FS_Subset
  <2> QED
    BY <2>1, <2>2
<1>4. \A i, j \in T : Cardinality(below[i]) = Cardinality(below[j]) => i = j
  BY <1>0, <1>3
<1> DEFINE f == [i \in T |-> Cardinality(below[i])]
<1>5. f \in Injection(T, 1..Cardinality(T))
  BY <1>2, <1>4 DEF Injection, IsInjective
<1>6. IsFiniteSet(1..Cardinality(T)) /\ Cardinality(1..Cardinality(T)) = Cardinality(T)
  BY <1>1, FS_Interval
<1>7. f \in Surjection(T, 1..Cardinality(T))
  BY <1>5, <1>6, FS_Injection
<1>8. \A k \in 1..Cardinality(T) : \E i \in T : Cardinality(below[i]) = k
  BY <1>7 DEF Surjection
<1> QED
  BY <1>1, <1>2, <1>4, <1>8 DEF Ranks

-----------------------------------------------------------------------------
(* Sequences of records, by their elements. *)
Elems(s) == {s[i] : i \in 1..Len(s)}
Distinct(s) == \A i, j \in 1..Len(s) : s[i].name = s[j].name => i = j

(* t lists the elements of s at the positions `kept', each position once. *)
Picks(t, s, kept) ==
    \E m \in Nat : \E at \in [1..m -> kept] :
        /\ \A k, l \in 1..m : at[k] = at[l] => k = l
        /\ \A i \in kept : \E k \in 1..m : at[k] = i
        /\ t = [k \in 1..m |-> s[at[k]]]

(* Such a list names its elements as distinctly as s does. *)
LEMMA Picked ==
    ASSUME NEW S, NEW s \in Seq(S), NEW kept \in SUBSET (1..Len(s)),
           NEW t, Picks(t, s, kept)
    PROVE  /\ t \in Seq(S)
           /\ Elems(t) = {s[i] : i \in kept}
           /\ Distinct(s) => Distinct(t)
           /\ kept # {} => t # <<>>
<1>0. PICK m \in Nat : \E at \in [1..m -> kept] :
        /\ \A k, l \in 1..m : at[k] = at[l] => k = l
        /\ \A i \in kept : \E k \in 1..m : at[k] = i
        /\ t = [k \in 1..m |-> s[at[k]]]
  BY DEF Picks
<1>00. PICK at \in [1..m -> kept] :
        /\ \A k, l \in 1..m : at[k] = at[l] => k = l
        /\ \A i \in kept : \E k \in 1..m : at[k] = i
        /\ t = [k \in 1..m |-> s[at[k]]]
  BY <1>0
<1>1. \A k \in 1..m : at[k] \in 1..Len(s) /\ t[k] = s[at[k]]
  BY <1>00
<1>2. \A i \in 1..Len(s) : s[i] \in S
  BY ElementOfSeq
<1>3. t \in [1..m -> S]
  BY <1>00, <1>1, <1>2
<1>4. t \in Seq(S) /\ Len(t) = m
  BY <1>3
<1>5. Elems(t) = {s[i] : i \in kept}
  BY <1>00, <1>1, <1>4 DEF Elems
<1>6. Distinct(s) => Distinct(t)
  BY <1>00, <1>1, <1>4 DEF Distinct
<1>7. ASSUME kept # {} PROVE t # <<>>
  <2>1. PICK k \in 1..m : TRUE
    BY <1>00, <1>7
  <2>2. Len(t) # 0
    BY <1>4, <2>1
  <2> QED
    BY <1>4, <2>2, EmptySeq
<1> QED
  BY <1>4, <1>5, <1>6, <1>7

(* A smaller rank comes before. *)
LEMMA RankMonotone ==
    ASSUME NEW T, IsFiniteSet(T), NEW below \in [T -> SUBSET T],
           \A i, j \in T : i # j =>
                \/ below[i] \subseteq below[j] /\ j \notin below[i]
                \/ below[j] \subseteq below[i] /\ i \notin below[j],
           NEW i \in T, NEW j \in T, Cardinality(below[i]) < Cardinality(below[j])
    PROVE  below[i] \subseteq below[j] /\ j \notin below[i]
<1>1. IsFiniteSet(below[i]) /\ IsFiniteSet(below[j])
  BY FS_Subset
<1>2. Cardinality(below[i]) \in Nat /\ Cardinality(below[j]) \in Nat
  BY <1>1, FS_CardinalityType
<1>3. i # j
  BY <1>2
<1>4. ~(below[j] \subseteq below[i])
  <2> SUFFICES ASSUME below[j] \subseteq below[i] PROVE FALSE
    OBVIOUS
  <2>1. Cardinality(below[j]) <= Cardinality(below[i])
    BY <1>1, FS_Subset
  <2> QED
    BY <1>2, <2>1
<1> QED
  BY <1>3, <1>4

(* t lists what s has at increasing positions, all of them in kept. *)
Rising(at, m) == \A k, l \in 1..m : k < l => at[k] < at[l]
Within(t, s, kept) ==
    \E at \in [1..Len(t) -> kept] :
        /\ \A k \in 1..Len(t) : t[k] = s[at[k]]
        /\ Rising(at, Len(t))

(* Filtering keeps the elements at the positions asked for, each once, in  *)
(* their order.                                                            *)
LEMMA RetainPicks ==
    ASSUME NEW S, NEW s \in Seq(S), NEW kept \in SUBSET (1..Len(s))
    PROVE  Picks(Retain(s, kept), s, kept) /\ Within(Retain(s, kept), s, kept)
<1>1. IsFiniteSet(kept) /\ Len(s) \in Nat
  <2>1. Len(s) \in Nat
    BY LenProperties
  <2>2. IsFiniteSet(1..Len(s))
    BY <2>1, FS_Interval
  <2> QED
    BY <2>1, <2>2, FS_Subset
<1> DEFINE below == [i \in kept |-> {j \in kept : j <= i}]
           m == Cardinality(kept)
           at == [k \in 1..m |->
                    CHOOSE i \in kept : Cardinality({j \in kept : j <= i}) = k]
<1>2. below \in [kept -> SUBSET kept] /\ \A i \in kept : i \in below[i]
  BY <1>1
<1>3. \A i, j \in kept : i # j =>
            \/ below[i] \subseteq below[j] /\ j \notin below[i]
            \/ below[j] \subseteq below[i] /\ i \notin below[j]
  <2> SUFFICES ASSUME NEW i \in kept, NEW j \in kept, i # j
               PROVE  \/ below[i] \subseteq below[j] /\ j \notin below[i]
                      \/ below[j] \subseteq below[i] /\ i \notin below[j]
    OBVIOUS
  <2>1. i \in Int /\ j \in Int /\ kept \subseteq Int
    BY <1>1
  <2>2. ASSUME NEW a \in kept, NEW b \in kept, a < b
        PROVE  below[a] \subseteq below[b] /\ b \notin below[a]
    <3>1. \A x \in kept : x <= a => x <= b
      BY <2>1, <2>2
    <3>2. ~(b <= a)
      BY <2>1, <2>2
    <3> QED
      BY <3>1, <3>2
  <2>3. i < j \/ j < i
    BY <2>1
  <2> QED
    BY <2>2, <2>3
<1>4. Retain(s, kept) = [k \in 1..m |-> s[at[k]]]
  BY DEF Retain
<1>r. /\ \A i \in kept : Cardinality(below[i]) = Cardinality({j \in kept : j <= i})
      /\ \A k \in 1..m :
            at[k] = CHOOSE i \in kept : Cardinality({j \in kept : j <= i}) = k
  OBVIOUS
<1> HIDE DEF below, at
<1>5. /\ m \in Nat
      /\ \A i \in kept : Cardinality(below[i]) \in 1..m
      /\ \A i, j \in kept : Cardinality(below[i]) = Cardinality(below[j]) => i = j
      /\ \A k \in 1..m : \E i \in kept : Cardinality(below[i]) = k
  <2>1. Nested(kept, below)
    BY <1>2, <1>3 DEF Nested
  <2>2. Ranks(kept, below)
    BY <1>1, <2>1, RankOnto
  <2> QED
    BY <2>2 DEF Ranks
<1>6. ASSUME NEW k \in 1..m
      PROVE  at[k] \in kept /\ Cardinality(below[at[k]]) = k
  <2> DEFINE Numbered(i) == Cardinality({j \in kept : j <= i}) = k
  <2>1. (\E i \in kept : Numbered(i)) /\ at[k] = CHOOSE i \in kept : Numbered(i)
    BY <1>5, <1>r, ZenonT(40)
  <2>2. at[k] \in kept /\ Numbered(at[k])
    <3> HIDE DEF Numbered
    <3> QED
      BY <2>1
  <2> QED
    BY <1>r, <2>2
<1>7. \A i \in kept : \E k \in 1..m : at[k] = i
  BY <1>5, <1>6
<1>i. ASSUME NEW k \in 1..m, NEW l \in 1..m, k < l PROVE at[k] < at[l]
  <2>1. at[k] \in kept /\ at[l] \in kept
        /\ Cardinality(below[at[k]]) < Cardinality(below[at[l]])
    BY <1>6, <1>i
  <2>2. at[l] \notin below[at[k]]
    BY <1>1, <1>2, <1>3, <2>1, RankMonotone
  <2>3. ~(at[l] <= at[k])
    BY <2>1, <2>2 DEF below
  <2>4. \A i \in kept : i \in Int
    <3> HIDE DEF m
    <3> QED
      BY <1>1
  <2>5. at[k] \in Int /\ at[l] \in Int
    <3> HIDE DEF m
    <3> QED
      BY <2>1, <2>4
  <2> QED
    BY <2>3, <2>5
<1> HIDE DEF m
<1>8. /\ at \in [1..m -> kept]
      /\ \A k, l \in 1..m : at[k] = at[l] => k = l
  BY <1>6 DEF at
<1>9. Picks(Retain(s, kept), s, kept)
  <2> HIDE DEF at
  <2> SUFFICES \E mm \in Nat : \E aa \in [1..mm -> kept] :
                /\ \A k, l \in 1..mm : aa[k] = aa[l] => k = l
                /\ \A i \in kept : \E k \in 1..mm : aa[k] = i
                /\ Retain(s, kept) = [k \in 1..mm |-> s[aa[k]]]
    BY DEF Picks
  <2> m \in Nat /\ at \in [1..m -> kept]
    BY <1>5, <1>8
  <2> WITNESS m \in Nat
  <2> WITNESS at \in [1..m -> kept]
  <2> QED
    BY <1>4, <1>7, <1>8
<1>10. Within(Retain(s, kept), s, kept)
  <2> HIDE DEF at
  <2>1. Len(Retain(s, kept)) = m
    BY <1>4, <1>5, <1>8
  <2>2. /\ \A k \in 1..m : Retain(s, kept)[k] = s[at[k]]
        /\ Rising(at, m)
    BY <1>4, <1>i DEF Rising
  <2> QED
    BY <1>8, <2>1, <2>2 DEF Within
<1> QED
  BY <1>9, <1>10

LEMMA RetainFacts ==
    ASSUME NEW S, NEW s \in Seq(S), NEW kept \in SUBSET (1..Len(s))
    PROVE  /\ Retain(s, kept) \in Seq(S)
           /\ Elems(Retain(s, kept)) = {s[i] : i \in kept}
           /\ Distinct(s) => Distinct(Retain(s, kept))
           /\ kept # {} => Retain(s, kept) # <<>>
  BY RetainPicks, Picked

(* j comes before i: a better score, or an equal one earlier in the list.  *)
Ahead(s, j, i) == s[j].score > s[i].score \/ (s[j].score = s[i].score /\ j < i)

(* `sort_by_score' is a stable sort by descending score: it lists every    *)
(* element once, never a worse one ahead of a better one, and equal scores *)
(* in the order they had.                                                  *)
THEOREM SortStable ==
    ASSUME NEW S, \A x \in S : x.score \in Int, NEW s \in Seq(S)
    PROVE  \E at \in [1..Len(s) -> 1..Len(s)] :
                /\ \A k, l \in 1..Len(s) : at[k] = at[l] => k = l
                /\ \A i \in 1..Len(s) : \E k \in 1..Len(s) : at[k] = i
                /\ sort_by_score(s) = [k \in 1..Len(s) |-> s[at[k]]]
                /\ \A k, l \in 1..Len(s) : k < l => Ahead(s, at[k], at[l])
<1> DEFINE m == Len(s)
           T == 1..m
           Before(j, i) == s[j].score > s[i].score \/ (s[j].score = s[i].score /\ j <= i)
           below == [i \in T |-> {j \in T : Before(j, i)}]
           at == [k \in T |-> CHOOSE i \in T : Cardinality({j \in T : Before(j, i)}) = k]
<1>1. m \in Nat /\ IsFiniteSet(T) /\ Cardinality(T) = m
  <2>1. m \in Nat
    BY LenProperties
  <2> HIDE DEF m
  <2>2. /\ IsFiniteSet(1..m)
        /\ Cardinality(1..m) = IF 1 > m THEN 0 ELSE m - 1 + 1
    BY <2>1, FS_Interval
  <2> QED
    BY <2>1, <2>2
<1>2. \A i \in T : s[i].score \in Int /\ i \in Int
  BY ElementOfSeq
<1>3. below \in [T -> SUBSET T] /\ \A i \in T : i \in below[i]
  BY <1>2
<1>4. \A i, j \in T : i # j =>
            \/ below[i] \subseteq below[j] /\ j \notin below[i]
            \/ below[j] \subseteq below[i] /\ i \notin below[j]
  <2> SUFFICES ASSUME NEW i \in T, NEW j \in T, i # j
               PROVE  \/ below[i] \subseteq below[j] /\ j \notin below[i]
                      \/ below[j] \subseteq below[i] /\ i \notin below[j]
    OBVIOUS
  <2>1. \A a, b, c \in T : Before(a, b) /\ Before(b, c) => Before(a, c)
    BY <1>2
  <2>2. \/ Before(i, j) /\ ~Before(j, i)
        \/ Before(j, i) /\ ~Before(i, j)
    BY <1>2
  <2> HIDE DEF Before, T
  <2> QED
    BY <2>1, <2>2
<1>5. sort_by_score(s) = [k \in 1..m |-> s[at[k]]]
  BY DEF sort_by_score
<1>r. /\ \A i \in T : Cardinality(below[i]) = Cardinality({j \in T : Before(j, i)})
      /\ \A k \in T : at[k] = CHOOSE i \in T : Cardinality({j \in T : Before(j, i)}) = k
  OBVIOUS
<1> HIDE DEF below, m, at, Before
<1>6. /\ \A i \in T : Cardinality(below[i]) \in 1..m
      /\ \A i, j \in T : Cardinality(below[i]) = Cardinality(below[j]) => i = j
      /\ \A k \in 1..m : \E i \in T : Cardinality(below[i]) = k
  <2> HIDE DEF T
  <2>1. 1..m = 1..Cardinality(T)
    BY <1>1
  <2>2. Nested(T, below)
    BY <1>3, <1>4 DEF Nested
  <2>3. Ranks(T, below)
    BY <1>1, <2>2, RankOnto
  <2> QED
    BY <2>1, <2>3 DEF Ranks
<1>7. ASSUME NEW k \in 1..m
      PROVE  at[k] \in T /\ Cardinality(below[at[k]]) = k
  <2> DEFINE Numbered(i) == Cardinality({j \in T : Before(j, i)}) = k
  <2>1. at[k] = CHOOSE i \in T : Numbered(i)
    BY <1>r
  <2>2. PICK i \in T : Cardinality(below[i]) = k
    BY <1>6
  <2>3. Numbered(i)
    BY <1>r, <2>2
  <2>4. at[k] \in T /\ Numbered(at[k])
    <3> HIDE DEF Numbered, T
    <3> QED
      BY <2>1, <2>3
  <2> QED
    BY <1>r, <2>4
<1>8. ASSUME NEW i \in T PROVE \E k \in 1..m : at[k] = i
  <2>1. Cardinality(below[i]) \in 1..m
    BY <1>6
  <2>2. at[Cardinality(below[i])] = i
    BY <1>6, <1>7, <2>1
  <2> QED
    BY <2>1, <2>2
<1>9. /\ at \in [1..m -> T]
      /\ \A k, l \in 1..m : at[k] = at[l] => k = l
  BY <1>7 DEF at
<1>10. ASSUME NEW k \in 1..m, NEW l \in 1..m, k < l PROVE Ahead(s, at[k], at[l])
  <2>1. at[k] \in T /\ at[l] \in T /\ Cardinality(below[at[k]]) < Cardinality(below[at[l]])
    BY <1>7, <1>10
  <2>2. below[at[k]] \subseteq below[at[l]] /\ at[l] \notin below[at[k]]
    <3> HIDE DEF T
    <3> QED
      BY <1>1, <1>3, <1>4, <2>1, RankMonotone
  <2>3. Before(at[k], at[l]) /\ at[k] # at[l]
    BY <1>3, <2>1, <2>2 DEF below
  <2> QED
    BY <1>2, <2>1, <2>3 DEF Ahead, Before
<1> DEFINE Sorted(f) ==
        /\ \A k, l \in 1..m : f[k] = f[l] => k = l
        /\ \A i \in T : \E k \in 1..m : f[k] = i
        /\ sort_by_score(s) = [k \in 1..m |-> s[f[k]]]
        /\ \A k, l \in 1..m : k < l => Ahead(s, f[k], f[l])
<1>11. at \in [1..m -> T] /\ Sorted(at)
  <2> HIDE DEF T, at
  <2> QED
    BY <1>5, <1>8, <1>9, <1>10
<1>12. \E f \in [1..m -> T] : Sorted(f)
  <2> HIDE DEF Sorted, T, at
  <2> QED
    BY <1>11
<1> QED
  BY <1>12 DEF m

(* So it keeps the elements, and their distinct names. *)
LEMMA SortFacts ==
    ASSUME NEW S, \A x \in S : x.score \in Int, NEW s \in Seq(S)
    PROVE  /\ sort_by_score(s) \in Seq(S)
           /\ Elems(sort_by_score(s)) = Elems(s)
           /\ Distinct(s) => Distinct(sort_by_score(s))
<1>1. PICK at \in [1..Len(s) -> 1..Len(s)] :
            /\ \A k, l \in 1..Len(s) : at[k] = at[l] => k = l
            /\ \A i \in 1..Len(s) : \E k \in 1..Len(s) : at[k] = i
            /\ sort_by_score(s) = [k \in 1..Len(s) |-> s[at[k]]]
            /\ \A k, l \in 1..Len(s) : k < l => Ahead(s, at[k], at[l])
  BY SortStable
<1>2. Len(s) \in Nat
  BY LenProperties
<1> DEFINE m == Len(s)
           T == 1..m
<1>3. Picks(sort_by_score(s), s, T)
  <2> HIDE DEF T
  <2> SUFFICES \E mm \in Nat : \E aa \in [1..mm -> T] :
                /\ \A k, l \in 1..mm : aa[k] = aa[l] => k = l
                /\ \A i \in T : \E k \in 1..mm : aa[k] = i
                /\ sort_by_score(s) = [k \in 1..mm |-> s[aa[k]]]
    BY DEF Picks
  <2> m \in Nat /\ at \in [1..m -> T]
    BY <1>1, <1>2 DEF T
  <2> WITNESS m \in Nat
  <2> WITNESS at \in [1..m -> T]
  <2> QED
    BY <1>1 DEF T
<1>4. T \in SUBSET (1..Len(s)) /\ Elems(s) = {s[i] : i \in T}
  BY DEF Elems
<1> HIDE DEF T, m
<1> QED
  BY <1>3, <1>4, Picked

-----------------------------------------------------------------------------
(* Lists of names. *)
Once(t) == \A i, j \in 1..Len(t) : t[i] = t[j] => i = j
NamesIn(s) == {s[i].name : i \in 1..Len(s)}

LEMMA NamesFacts ==
    ASSUME NEW S, NEW s \in Seq(S)
    PROVE  /\ Names(s) \in Seq(NamesIn(s))
           /\ Elems(Names(s)) = NamesIn(s)
           /\ Distinct(s) => Once(Names(s))
<1>1. Len(s) \in Nat
  BY LenProperties
<1>2. Names(s) \in [1..Len(s) -> NamesIn(s)] /\ \A i \in 1..Len(s) : Names(s)[i] = s[i].name
  BY DEF Names, NamesIn
<1>3. Names(s) \in Seq(NamesIn(s)) /\ Len(Names(s)) = Len(s)
  BY <1>1, <1>2
<1>4. Elems(Names(s)) = NamesIn(s)
  BY <1>2, <1>3 DEF Elems, NamesIn
<1>5. Distinct(s) => Once(Names(s))
  BY <1>2, <1>3 DEF Distinct, Once
<1> QED
  BY <1>3, <1>4, <1>5

LEMMA ConcatFacts ==
    ASSUME NEW S, NEW s \in Seq(S), NEW t \in Seq(S)
    PROVE  /\ s \o t \in Seq(S)
           /\ Elems(s \o t) = Elems(s) \cup Elems(t)
           /\ Once(s) /\ Once(t) /\ Elems(s) \cap Elems(t) = {} => Once(s \o t)
<1>1. /\ s \o t \in Seq(S) /\ Len(s) \in Nat /\ Len(t) \in Nat
      /\ Len(s \o t) = Len(s) + Len(t)
  BY LenProperties, ConcatProperties
<1>2. \A i \in 1..(Len(s) + Len(t)) :
            (s \o t)[i] = IF i <= Len(s) THEN s[i] ELSE t[i - Len(s)]
  BY ConcatProperties
<1>3. Elems(s \o t) \subseteq Elems(s) \cup Elems(t)
  <2> SUFFICES ASSUME NEW i \in 1..(Len(s) + Len(t))
               PROVE  (s \o t)[i] \in Elems(s) \cup Elems(t)
    BY <1>1 DEF Elems
  <2>1. CASE i <= Len(s)
    BY <1>1, <1>2, <2>1 DEF Elems
  <2>2. CASE ~(i <= Len(s))
    <3>1. i - Len(s) \in 1..Len(t)
      BY <1>1, <2>2
    <3> QED
      BY <1>2, <2>2, <3>1 DEF Elems
  <2> QED
    BY <2>1, <2>2
<1>4. Elems(s) \subseteq Elems(s \o t)
  <2> SUFFICES ASSUME NEW i \in 1..Len(s) PROVE s[i] \in Elems(s \o t)
    BY DEF Elems
  <2>1. i \in 1..(Len(s) + Len(t)) /\ (s \o t)[i] = s[i]
    BY <1>1, <1>2
  <2> QED
    BY <1>1, <2>1 DEF Elems
<1>5. Elems(t) \subseteq Elems(s \o t)
  <2> SUFFICES ASSUME NEW i \in 1..Len(t) PROVE t[i] \in Elems(s \o t)
    BY DEF Elems
  <2>1. Len(s) + i \in 1..(Len(s) + Len(t)) /\ ~(Len(s) + i <= Len(s))
        /\ (Len(s) + i) - Len(s) = i
    BY <1>1
  <2>2. (s \o t)[Len(s) + i] = t[i]
    BY <1>2, <2>1
  <2> QED
    BY <1>1, <2>1, <2>2 DEF Elems
<1>6. ASSUME Once(s), Once(t), Elems(s) \cap Elems(t) = {} PROVE Once(s \o t)
  <2> SUFFICES ASSUME NEW i \in 1..(Len(s) + Len(t)), NEW j \in 1..(Len(s) + Len(t)),
                      (s \o t)[i] = (s \o t)[j], i < j
               PROVE  FALSE
    <3>1. \A i, j \in 1..(Len(s) + Len(t)) :
                (s \o t)[i] = (s \o t)[j] /\ i < j => FALSE
      OBVIOUS
    <3> QED
      BY <1>1, <3>1 DEF Once
  <2>1. CASE j <= Len(s)
    BY <1>1, <1>2, <1>6, <2>1 DEF Once
  <2>2. CASE ~(i <= Len(s))
    <3>1. i - Len(s) \in 1..Len(t) /\ j - Len(s) \in 1..Len(t) /\ ~(j <= Len(s))
      BY <1>1, <2>2
    <3>2. t[i - Len(s)] = t[j - Len(s)]
      BY <1>2, <2>2, <3>1
    <3>3. i - Len(s) = j - Len(s)
      BY <1>6, <3>1, <3>2 DEF Once
    <3> QED
      BY <1>1, <3>3
  <2>3. CASE i <= Len(s) /\ ~(j <= Len(s))
    <3>1. j - Len(s) \in 1..Len(t) /\ i \in 1..Len(s)
      BY <1>1, <2>3
    <3>2. s[i] = t[j - Len(s)]
      BY <1>2, <2>3
    <3> QED
      BY <1>6, <3>1, <3>2 DEF Elems
  <2> QED
    BY <1>1, <2>1, <2>2, <2>3
<1> QED
  BY <1>1, <1>3, <1>4, <1>5, <1>6

(* The failover order is the available providers, each once, whichever of  *)
(* them the config knows and whoever else it lists.                        *)
LEMMA FailoverFacts ==
    ASSUME NEW S, NEW available \in Seq(S), NEW C, NEW config \in Seq(C)
    PROVE  /\ failover_order(available, config) \in Seq(NamesIn(available))
           /\ Elems(failover_order(available, config)) = NamesIn(available)
           /\ Distinct(available) /\ Distinct(config)
                => Once(failover_order(available, config))
<1> DEFINE known == {i \in 1..Len(config) :
                        \E j \in 1..Len(available) : available[j].name = config[i].name}
           unknown == {j \in 1..Len(available) : ~Configured(config, available[j].name)}
           first == Retain(config, known)
           then == Retain(available, unknown)
<1>1. /\ first \in Seq(C) /\ Elems(first) = {config[i] : i \in known}
      /\ Distinct(config) => Distinct(first)
  <2>1. known \in SUBSET (1..Len(config))
    OBVIOUS
  <2> HIDE DEF known
  <2> QED
    BY <2>1, RetainFacts
<1>2. /\ then \in Seq(S) /\ Elems(then) = {available[i] : i \in unknown}
      /\ Distinct(available) => Distinct(then)
  <2>1. unknown \in SUBSET (1..Len(available))
    OBVIOUS
  <2> HIDE DEF unknown
  <2> QED
    BY <2>1, RetainFacts
<1>3. failover_order(available, config) = Names(first) \o Names(then)
  BY DEF failover_order
<1>4. NamesIn(first) = {config[i].name : i \in known}
  <2>1. NamesIn(first) = {x.name : x \in Elems(first)}
    BY DEF NamesIn, Elems
  <2> HIDE DEF known, first
  <2> QED
    BY <1>1, <2>1
<1>5. NamesIn(then) = {available[i].name : i \in unknown}
  <2>1. NamesIn(then) = {x.name : x \in Elems(then)}
    BY DEF NamesIn, Elems
  <2> HIDE DEF unknown, then
  <2> QED
    BY <1>2, <2>1
<1>6. NamesIn(first) \cup NamesIn(then) = NamesIn(available)
  <2>1. {config[i].name : i \in known} \cup {available[i].name : i \in unknown}
            = NamesIn(available)
    BY DEF NamesIn, Configured
  <2> QED
    BY <1>4, <1>5, <2>1
<1>7. NamesIn(first) \cap NamesIn(then) = {}
  <2>1. {config[i].name : i \in known} \cap {available[i].name : i \in unknown} = {}
    BY DEF Configured
  <2> QED
    BY <1>4, <1>5, <2>1
<1> HIDE DEF known, unknown, first, then
<1>8. /\ Names(first) \in Seq(NamesIn(first)) /\ Elems(Names(first)) = NamesIn(first)
      /\ Distinct(config) => Once(Names(first))
  BY <1>1, NamesFacts
<1>9. /\ Names(then) \in Seq(NamesIn(then)) /\ Elems(Names(then)) = NamesIn(then)
      /\ Distinct(available) => Once(Names(then))
  BY <1>2, NamesFacts
<1>10. Names(first) \in Seq(NamesIn(available)) /\ Names(then) \in Seq(NamesIn(available))
  BY <1>6, <1>8, <1>9, SeqMonotonic
<1>11. /\ failover_order(available, config) \in Seq(NamesIn(available))
       /\ Elems(failover_order(available, config)) = Elems(Names(first)) \cup Elems(Names(then))
  BY <1>3, <1>10, ConcatFacts
<1>12. ASSUME Distinct(available), Distinct(config)
       PROVE  Once(failover_order(available, config))
  <2>1. /\ Once(Names(first)) /\ Once(Names(then))
        /\ Elems(Names(first)) \cap Elems(Names(then)) = {}
    BY <1>7, <1>8, <1>9, <1>12
  <2> QED
    BY <1>3, <1>10, <2>1, ConcatFacts
<1> QED
  BY <1>6, <1>8, <1>9, <1>11, <1>12

(* So is the weighted order, whoever is drawn first. *)
LEMMA WeightedFacts ==
    ASSUME NEW S, \A x \in S : x.score \in Int, NEW available \in Seq(S),
           NEW k \in 1..Len(available)
    PROVE  /\ weighted_order(available, k) \in Seq(NamesIn(available))
           /\ Elems(weighted_order(available, k)) = NamesIn(available)
           /\ Distinct(available) => Once(weighted_order(available, k))
<1> DEFINE rest == (1..Len(available)) \ {k}
           others == Retain(available, rest)
           sorted == sort_by_score(others)
           first == <<available[k].name>>
<1>1. /\ others \in Seq(S) /\ Elems(others) = {available[i] : i \in rest}
      /\ Distinct(available) => Distinct(others)
  <2>1. rest \in SUBSET (1..Len(available))
    OBVIOUS
  <2> HIDE DEF rest
  <2> QED
    BY <2>1, RetainFacts
<1>2. weighted_order(available, k) = first \o Names(sorted)
  BY DEF weighted_order
<1>3. NamesIn(sorted) = {x.name : x \in Elems(sorted)}
  BY DEF NamesIn, Elems
<1>4. /\ sorted \in Seq(S) /\ Elems(sorted) = Elems(others)
      /\ Distinct(others) => Distinct(sorted)
  <2> HIDE DEF others
  <2> QED
    BY <1>1, SortFacts
<1>5. NamesIn(sorted) = {available[i].name : i \in rest}
  <2> HIDE DEF rest, sorted, others
  <2> QED
    BY <1>1, <1>3, <1>4
<1>6. {available[k].name} \cup NamesIn(sorted) = NamesIn(available)
  <2>1. {available[k].name} \cup {available[i].name : i \in rest} = NamesIn(available)
    BY DEF NamesIn
  <2> QED
    BY <1>5, <2>1
<1>7. ASSUME Distinct(available) PROVE {available[k].name} \cap NamesIn(sorted) = {}
  <2>1. {available[k].name} \cap {available[i].name : i \in rest} = {}
    BY <1>7 DEF Distinct
  <2> QED
    BY <1>5, <2>1
<1>8. /\ first \in Seq(NamesIn(available)) /\ Elems(first) = {available[k].name} /\ Once(first)
  <2>1. available[k].name \in NamesIn(available)
    BY DEF NamesIn
  <2>2. first \in Seq(NamesIn(available)) /\ Len(first) = 1 /\ first[1] = available[k].name
    BY <2>1
  <2> HIDE DEF first
  <2> QED
    BY <2>2 DEF Elems, Once
<1> HIDE DEF rest, others, sorted, first
<1>9. /\ Names(sorted) \in Seq(NamesIn(sorted)) /\ Elems(Names(sorted)) = NamesIn(sorted)
      /\ Distinct(sorted) => Once(Names(sorted))
  BY <1>4, NamesFacts
<1>10. Names(sorted) \in Seq(NamesIn(available))
  BY <1>6, <1>9, SeqMonotonic
<1>11. /\ weighted_order(available, k) \in Seq(NamesIn(available))
       /\ Elems(weighted_order(available, k)) = Elems(first) \cup Elems(Names(sorted))
  BY <1>2, <1>8, <1>10, ConcatFacts
<1>12. ASSUME Distinct(available) PROVE Once(weighted_order(available, k))
  <2>1. /\ Once(first) /\ Once(Names(sorted))
        /\ Elems(first) \cap Elems(Names(sorted)) = {}
    BY <1>1, <1>4, <1>7, <1>8, <1>9, <1>12
  <2> QED
    BY <1>2, <1>8, <1>10, <2>1, ConcatFacts
<1> QED
  BY <1>6, <1>8, <1>9, <1>11, <1>12

-----------------------------------------------------------------------------
(* Routing. *)
Serving(q, snaps, config) == {i \in 1..Len(snaps) : supports(q, config, snaps[i].name)}
Available(q, snaps, config) ==
    {i \in Serving(q, snaps, config) : is_available(snaps[i])}

RoutesTheEligible(q, snaps, config, decision) ==
    LET serving == Serving(q, snaps, config)
        available == Available(q, snaps, config)
        eligible == IF available # {} THEN available ELSE serving
    IN  /\ decision.providers \in Seq(NamesIn(snaps))
        /\ Elems(decision.providers) = {snaps[i].name : i \in eligible}
        /\ Once(decision.providers)
        /\ decision.degraded = (available = {})

(* `route' names every available provider that `supports' the request,     *)
(* each once and nobody else, under every strategy and whichever of them   *)
(* the config knows.  Only when there is none it names every one that      *)
(* supports the request, and says so.  The monitor keys its providers by   *)
(* name, and Config::validate refuses two of the same name.                *)
THEOREM RouteCorrect ==
    ASSUME NEW S, \A x \in S : x.score \in Int, NEW snaps \in Seq(S), Distinct(snaps),
           NEW C, NEW config \in Seq(C), Distinct(config),
           NEW q, q.strategy \in Strategies,
           NEW decision \in route(q, snaps, config)
    PROVE  RoutesTheEligible(q, snaps, config, decision)
<1> DEFINE kept == Serving(q, snaps, config)
           serving == Retain(snaps, kept)
           well == {i \in 1..Len(serving) : is_available(serving[i])}
           available == Retain(serving, well)
           ok == Available(q, snaps, config)
           to_all == IsWrite(q) /\ q.broadcast_writes
<1>1. /\ serving \in Seq(S) /\ Elems(serving) = {snaps[i] : i \in kept} /\ Distinct(serving)
  <2>1. kept \in SUBSET (1..Len(snaps))
    BY DEF Serving
  <2> HIDE DEF kept
  <2> QED
    BY <2>1, RetainFacts
<1>2. /\ available \in Seq(S) /\ Elems(available) = {serving[i] : i \in well}
      /\ Distinct(available) /\ (well # {} => available # <<>>)
  <2>1. well \in SUBSET (1..Len(serving))
    OBVIOUS
  <2> HIDE DEF well, serving
  <2> QED
    BY <1>1, <2>1, RetainFacts
<1>3. Elems(available) = {x \in Elems(serving) : is_available(x)}
  <2>1. {serving[i] : i \in well} = {x \in Elems(serving) : is_available(x)}
    BY DEF Elems
  <2> QED
    BY <1>2, <2>1
<1>4. Elems(available) = {snaps[i] : i \in ok}
  <2>1. {x \in {snaps[i] : i \in kept} : is_available(x)} = {snaps[i] : i \in ok}
    BY DEF Available
  <2> QED
    BY <1>1, <1>3, <2>1
<1>5. NamesIn(serving) = {snaps[i].name : i \in kept}
  <2>1. NamesIn(serving) = {x.name : x \in Elems(serving)}
    BY DEF NamesIn, Elems
  <2> HIDE DEF kept, serving
  <2> QED
    BY <1>1, <2>1
<1>6. NamesIn(available) = {snaps[i].name : i \in ok}
  <2>1. NamesIn(available) = {x.name : x \in Elems(available)}
    BY DEF NamesIn, Elems
  <2> HIDE DEF ok, available
  <2> QED
    BY <1>4, <2>1
<1>7. available = <<>> <=> ok = {}
  <2>1. available = <<>> => Elems(available) = {}
    BY DEF Elems
  <2> HIDE DEF available, well, ok
  <2>2. ASSUME Elems(available) = {} PROVE available = <<>>
    <3>1. \A i \in 1..Len(available) : available[i] \in Elems(available)
      BY DEF Elems
    <3>2. Len(available) \in Nat /\ 1 \notin 1..Len(available)
      BY <1>2, <2>2, <3>1, LenProperties
    <3>3. Len(available) = 0
      BY <3>2
    <3> QED
      BY <1>2, <3>3, EmptySeq
  <2>4. ok = {} <=> {snaps[i] : i \in ok} = {}
    OBVIOUS
  <2> QED
    BY <1>2, <1>4, <2>1, <2>2, <2>4
<1>8. {snaps[i].name : i \in kept} \subseteq NamesIn(snaps)
      /\ {snaps[i].name : i \in ok} \subseteq NamesIn(snaps)
  BY DEF NamesIn, Serving, Available
<1>9. route(q, snaps, config) =
        IF available = <<>> THEN {Decision(Names(serving), to_all, TRUE)}
        ELSE IF to_all THEN {Decision(Names(available), TRUE, FALSE)}
        ELSE CASE q.strategy = "BestScore" ->
                    {Decision(Names(sort_by_score(available)), FALSE, FALSE)}
               [] q.strategy = "WeightedRandom" ->
                    {Decision(weighted_order(available, k), FALSE, FALSE) :
                        k \in 1..Len(available)}
               [] q.strategy = "FailoverOrdered" ->
                    {Decision(failover_order(available, config), FALSE, FALSE)}
               [] q.strategy = "ParallelRace" ->
                    {Decision(Names(sort_by_score(available)), TRUE, FALSE)}
  BY Zenon DEF route, Serving
<1> HIDE DEF kept, serving, well, available, ok, to_all
<1>10. ASSUME NEW s \in Seq(S), NEW N, NamesIn(s) = N, Distinct(s)
       PROVE  Names(s) \in Seq(N) /\ Elems(Names(s)) = N /\ Once(Names(s))
  BY <1>10, NamesFacts
<1>11. /\ sort_by_score(available) \in Seq(S) /\ Distinct(sort_by_score(available))
       /\ NamesIn(sort_by_score(available)) = NamesIn(available)
  <2>1. /\ NamesIn(sort_by_score(available)) = {x.name : x \in Elems(sort_by_score(available))}
        /\ NamesIn(available) = {x.name : x \in Elems(available)}
    BY DEF NamesIn, Elems
  <2> QED
    BY <1>2, <2>1, SortFacts
<1> DEFINE Good(p, N) == p \in Seq(N) /\ Elems(p) = N /\ Once(p)
<1>12. CASE available = <<>>
  <2>1. decision = Decision(Names(serving), to_all, TRUE)
    BY <1>9, <1>12
  <2>2. decision.providers = Names(serving) /\ decision.degraded = TRUE
    BY <2>1 DEF Decision
  <2>3. Good(decision.providers, NamesIn(serving))
    BY <1>1, <1>10, <2>2
  <2>4. decision.providers \in Seq(NamesIn(snaps))
    BY <1>5, <1>8, <2>3, SeqMonotonic
  <2> QED
    BY <1>5, <1>7, <1>12, <2>2, <2>3, <2>4 DEF kept, ok, RoutesTheEligible
<1>13. CASE available # <<>>
  <2>1. decision.degraded = FALSE /\ Good(decision.providers, NamesIn(available))
    <3>1. CASE to_all
      <4>1. decision = Decision(Names(available), TRUE, FALSE)
        BY <1>9, <1>13, <3>1
      <4> QED
        BY <1>2, <1>10, <4>1 DEF Decision
    <3>2. CASE ~to_all /\ q.strategy = "BestScore"
      <4>1. decision = Decision(Names(sort_by_score(available)), FALSE, FALSE)
        BY <1>9, <1>13, <3>2
      <4> QED
        BY <1>10, <1>11, <4>1 DEF Decision
    <3>3. CASE ~to_all /\ q.strategy = "WeightedRandom"
      <4>1. PICK k \in 1..Len(available) :
                decision = Decision(weighted_order(available, k), FALSE, FALSE)
        BY <1>9, <1>13, <3>3
      <4>2. Good(weighted_order(available, k), NamesIn(available))
        BY <1>2, WeightedFacts
      <4> QED
        BY <4>1, <4>2 DEF Decision
    <3>4. CASE ~to_all /\ q.strategy = "FailoverOrdered"
      <4>1. decision = Decision(failover_order(available, config), FALSE, FALSE)
        BY <1>9, <1>13, <3>4
      <4>2. Good(failover_order(available, config), NamesIn(available))
        BY <1>2, FailoverFacts
      <4> QED
        BY <4>1, <4>2 DEF Decision
    <3>5. CASE ~to_all /\ q.strategy = "ParallelRace"
      <4>1. decision = Decision(Names(sort_by_score(available)), TRUE, FALSE)
        BY <1>9, <1>13, <3>5
      <4> QED
        BY <1>10, <1>11, <4>1 DEF Decision
    <3> QED
      BY <3>1, <3>2, <3>3, <3>4, <3>5 DEF Strategies
  <2>2. decision.providers \in Seq(NamesIn(snaps))
    BY <1>6, <1>8, <2>1, SeqMonotonic
  <2> QED
    BY <1>6, <1>7, <1>13, <2>1, <2>2 DEF kept, ok, RoutesTheEligible
<1> QED
  BY <1>12, <1>13

-----------------------------------------------------------------------------
(* Order. *)

(* Nobody from position `from' on precedes a better provider, and equal    *)
(* scores are in the order of the snapshots.                               *)
BestFirst(snaps, names, from) ==
    \A i, j \in 1..Len(names) : from <= i /\ i < j =>
        \A a, b \in 1..Len(snaps) :
            snaps[a].name = names[i] /\ snaps[b].name = names[j] => Ahead(snaps, a, b)

(* Who precedes a configured provider is configured, and further up.       *)
ConfigFirst(config, names) ==
    \A i, j \in 1..Len(names) : i < j =>
        \A b \in 1..Len(config) : config[b].name = names[j] =>
            \E a \in 1..Len(config) : config[a].name = names[i] /\ a < b

(* r is s followed by t. *)
Joined(r, s, t) ==
    /\ Len(r) = Len(s) + Len(t)
    /\ \A i \in 1..Len(s) : r[i] = s[i]
    /\ \A i \in 1..Len(t) : r[Len(s) + i] = t[i]

LEMMA ConcatJoins ==
    ASSUME NEW S, NEW s \in Seq(S), NEW t \in Seq(S)
    PROVE  Joined(s \o t, s, t)
<1>1. Len(s \o t) = Len(s) + Len(t) /\ Len(s) \in Nat /\ Len(t) \in Nat
  BY ConcatProperties, LenProperties
<1>2. \A i \in 1..(Len(s) + Len(t)) :
            (s \o t)[i] = IF i <= Len(s) THEN s[i] ELSE t[i - Len(s)]
  BY ConcatProperties
<1>3. \A i \in 1..Len(s) : (s \o t)[i] = s[i]
  BY <1>1, <1>2
<1>4. ASSUME NEW i \in 1..Len(t) PROVE (s \o t)[Len(s) + i] = t[i]
  <2>1. /\ Len(s) + i \in 1..(Len(s) + Len(t)) /\ ~(Len(s) + i <= Len(s))
        /\ (Len(s) + i) - Len(s) = i
    BY <1>1
  <2> QED
    BY <1>2, <2>1
<1> QED
  BY <1>1, <1>3, <1>4 DEF Joined

(* A filter of a filter is a filter. *)
LEMMA WithinTwice ==
    ASSUME NEW R, NEW r \in Seq(R), NEW S, NEW s \in Seq(S), NEW t,
           Within(t, s, 1..Len(s)), Within(s, r, 1..Len(r)), Len(t) \in Nat
    PROVE  Within(t, r, 1..Len(r))
<1>1. PICK f \in [1..Len(t) -> 1..Len(s)] :
        (\A k \in 1..Len(t) : t[k] = s[f[k]]) /\ Rising(f, Len(t))
  BY DEF Within
<1>2. PICK g \in [1..Len(s) -> 1..Len(r)] :
        (\A k \in 1..Len(s) : s[k] = r[g[k]]) /\ Rising(g, Len(s))
  BY DEF Within
<1> DEFINE h == [k \in 1..Len(t) |-> g[f[k]]]
<1>3. h \in [1..Len(t) -> 1..Len(r)] /\ \A k \in 1..Len(t) : t[k] = r[h[k]]
  BY <1>1, <1>2
<1>4. Rising(h, Len(t))
  BY <1>1, <1>2 DEF Rising
<1> HIDE DEF h
<1> QED
  BY <1>3, <1>4 DEF Within

LEMMA RetainWithin ==
    ASSUME NEW S, NEW s \in Seq(S), NEW kept \in SUBSET (1..Len(s))
    PROVE  Within(Retain(s, kept), s, 1..Len(s))
<1>1. PICK at \in [1..Len(Retain(s, kept)) -> kept] :
        /\ \A k \in 1..Len(Retain(s, kept)) : Retain(s, kept)[k] = s[at[k]]
        /\ Rising(at, Len(Retain(s, kept)))
  BY RetainPicks DEF Within
<1>2. at \in [1..Len(Retain(s, kept)) -> 1..Len(s)]
  OBVIOUS
<1> QED
  BY <1>1, <1>2 DEF Within

(* Sorting a part of the snapshots puts the best of it first. *)
LEMMA SortedBestFirst ==
    ASSUME NEW S, \A x \in S : x.score \in Int, NEW snaps \in Seq(S), Distinct(snaps),
           NEW t \in Seq(S), Within(t, snaps, 1..Len(snaps))
    PROVE  BestFirst(snaps, Names(sort_by_score(t)), 1)
<1>1. PICK p \in [1..Len(t) -> 1..Len(t)] :
        /\ sort_by_score(t) = [k \in 1..Len(t) |-> t[p[k]]]
        /\ \A k, l \in 1..Len(t) : k < l => Ahead(t, p[k], p[l])
  BY SortStable
<1>2. PICK at \in [1..Len(t) -> 1..Len(snaps)] :
        (\A k \in 1..Len(t) : t[k] = snaps[at[k]]) /\ Rising(at, Len(t))
  BY DEF Within
<1>3. Len(t) \in Nat
  BY LenProperties
<1>4. Len(sort_by_score(t)) = Len(t) /\ \A k \in 1..Len(t) : sort_by_score(t)[k] = t[p[k]]
  <2>1. sort_by_score(t) \in Seq(S) /\ DOMAIN sort_by_score(t) = 1..Len(t)
    BY <1>1, SortFacts
  <2> QED
    BY <1>1, <1>3, <2>1, LenProperties
<1> DEFINE names == Names(sort_by_score(t))
<1>5. /\ Len(names) = Len(t)
      /\ \A k \in 1..Len(t) : names[k] = snaps[at[p[k]]].name
  <2>1. names = [k \in 1..Len(t) |-> sort_by_score(t)[k].name]
    BY <1>4 DEF Names
  <2> HIDE DEF names
  <2>2. Len(names) = Len(t)
    BY <1>3, <2>1
  <2>3. ASSUME NEW k \in 1..Len(t) PROVE names[k] = snaps[at[p[k]]].name
    <3>1. names[k] = t[p[k]].name /\ p[k] \in 1..Len(t)
      BY <1>4, <2>1
    <3> QED
      BY <1>2, <3>1
  <2> QED
    BY <2>2, <2>3
<1> HIDE DEF names
<1> SUFFICES ASSUME NEW i \in 1..Len(t), NEW j \in 1..Len(t), i < j,
                    NEW a \in 1..Len(snaps), NEW b \in 1..Len(snaps),
                    snaps[a].name = names[i], snaps[b].name = names[j]
             PROVE  Ahead(snaps, a, b)
  <2>1. BestFirst(snaps, names, 1)
    BY <1>5 DEF BestFirst
  <2> QED
    BY <2>1 DEF names
<1>6. a = at[p[i]] /\ b = at[p[j]]
  <2>1. at[p[i]] \in 1..Len(snaps) /\ at[p[j]] \in 1..Len(snaps)
    OBVIOUS
  <2>2. \A x, y \in 1..Len(snaps) : snaps[x].name = snaps[y].name => x = y
    BY DEF Distinct
  <2>3. snaps[at[p[i]]].name = snaps[a].name /\ snaps[at[p[j]]].name = snaps[b].name
    BY <1>5
  <2> QED
    BY <2>1, <2>2, <2>3
<1>7. Ahead(t, p[i], p[j]) /\ p[i] \in 1..Len(t) /\ p[j] \in 1..Len(t)
  BY <1>1
<1>8. t[p[i]] = snaps[a] /\ t[p[j]] = snaps[b] /\ (p[i] < p[j] => a < b)
  BY <1>2, <1>6, <1>7 DEF Rising
<1> QED
  BY <1>7, <1>8 DEF Ahead

(* Behind the primary the weighted order is by score. *)
LEMMA WeightedBestFirst ==
    ASSUME NEW S, \A x \in S : x.score \in Int, NEW snaps \in Seq(S), Distinct(snaps),
           NEW available \in Seq(S), Within(available, snaps, 1..Len(snaps)),
           NEW k \in 1..Len(available)
    PROVE  BestFirst(snaps, weighted_order(available, k), 2)
<1> DEFINE rest == (1..Len(available)) \ {k}
           others == Retain(available, rest)
           names == Names(sort_by_score(others))
           order == weighted_order(available, k)
<1>1. others \in Seq(S) /\ Within(others, snaps, 1..Len(snaps))
  <2>1. rest \in SUBSET (1..Len(available))
    OBVIOUS
  <2> HIDE DEF rest
  <2>2. others \in Seq(S) /\ Within(others, available, 1..Len(available))
    BY <2>1, RetainFacts, RetainWithin
  <2> HIDE DEF others
  <2>3. Len(others) \in Nat
    BY <2>2, LenProperties
  <2> QED
    BY <2>2, <2>3, WithinTwice
<1>2. order = <<available[k].name>> \o names
  BY DEF weighted_order
<1>3. sort_by_score(others) \in Seq(S)
  <2> HIDE DEF others
  <2> QED
    BY <1>1, SortFacts
<1>4. BestFirst(snaps, names, 1)
  <2> HIDE DEF others
  <2> QED
    BY <1>1, SortedBestFirst
<1>5. names \in Seq(NamesIn(sort_by_score(others)))
  <2> HIDE DEF others
  <2> QED
    BY <1>3, NamesFacts
<1> HIDE DEF names, order
<1>6. Len(names) \in Nat /\ Len(order) = 1 + Len(names)
      /\ \A i \in 2..Len(order) : i - 1 \in 1..Len(names) /\ order[i] = names[i - 1]
  <2> DEFINE N == {available[k].name} \cup NamesIn(sort_by_score(others))
             one == <<available[k].name>>
  <2>1. one \in Seq(N) /\ Len(one) = 1 /\ names \in Seq(N)
    <3>1. NamesIn(sort_by_score(others)) \subseteq N
      OBVIOUS
    <3>2. names \in Seq(N)
      <4> HIDE DEF N
      <4> QED
        BY <1>5, <3>1, SeqMonotonic
    <3> QED
      BY <3>2
  <2> HIDE DEF N, one
  <2>2. Joined(one \o names, one, names)
    BY <2>1, ConcatJoins
  <2>3. order = one \o names
    BY <1>2 DEF one
  <2>4. /\ Len(order) = 1 + Len(names)
        /\ \A i \in 1..Len(names) : order[1 + i] = names[i]
    BY <2>1, <2>2, <2>3 DEF Joined
  <2>5. Len(names) \in Nat
    BY <2>1, LenProperties
  <2>6. ASSUME NEW i \in 2..Len(order)
        PROVE  i - 1 \in 1..Len(names) /\ order[i] = names[i - 1]
    <3>1. i - 1 \in 1..Len(names) /\ 1 + (i - 1) = i
      BY <2>4, <2>5
    <3> QED
      BY <2>4, <3>1
  <2> QED
    BY <2>4, <2>5, <2>6
<1> SUFFICES ASSUME NEW i \in 1..Len(order), NEW j \in 1..Len(order), 2 <= i, i < j
             PROVE  \A a, b \in 1..Len(snaps) :
                        snaps[a].name = order[i] /\ snaps[b].name = order[j]
                            => Ahead(snaps, a, b)
  <2>1. BestFirst(snaps, order, 2)
    BY DEF BestFirst
  <2> QED
    BY <2>1 DEF order
<1>7. /\ i - 1 \in 1..Len(names) /\ j - 1 \in 1..Len(names) /\ 1 <= i - 1 /\ i - 1 < j - 1
      /\ order[i] = names[i - 1] /\ order[j] = names[j - 1]
  BY <1>6
<1> QED
  BY <1>4, <1>7 DEF BestFirst

(* The failover order is that of the config; who is not in it comes last.  *)
LEMMA FailoverConfigFirst ==
    ASSUME NEW S, NEW available \in Seq(S), NEW C, NEW config \in Seq(C), Distinct(config)
    PROVE  ConfigFirst(config, failover_order(available, config))
<1> DEFINE known == {i \in 1..Len(config) :
                        \E j \in 1..Len(available) : available[j].name = config[i].name}
           unknown == {j \in 1..Len(available) : ~Configured(config, available[j].name)}
           first == Retain(config, known)
           then == Retain(available, unknown)
           order == failover_order(available, config)
<1>1. first \in Seq(C) /\ Within(first, config, 1..Len(config))
  <2>1. known \in SUBSET (1..Len(config))
    OBVIOUS
  <2> HIDE DEF known
  <2> QED
    BY <2>1, RetainFacts, RetainWithin
<1>2. then \in Seq(S) /\ Elems(then) = {available[i] : i \in unknown}
  <2>1. unknown \in SUBSET (1..Len(available))
    OBVIOUS
  <2> HIDE DEF unknown
  <2> QED
    BY <2>1, RetainFacts
<1>3. order = Names(first) \o Names(then)
  BY DEF failover_order
<1>4. \A i \in unknown : ~Configured(config, available[i].name)
  OBVIOUS
<1> HIDE DEF known, unknown, first, then, order
<1>5. \A i \in 1..Len(then) : ~Configured(config, then[i].name)
  <2> SUFFICES ASSUME NEW i \in 1..Len(then) PROVE ~Configured(config, then[i].name)
    OBVIOUS
  <2>1. then[i] \in Elems(then)
    BY DEF Elems
  <2>2. PICK u \in unknown : then[i] = available[u]
    BY <1>2, <2>1
  <2> QED
    BY <1>4, <2>2
<1>6. Len(first) \in Nat /\ Len(then) \in Nat
  BY <1>1, <1>2, LenProperties
<1>7. PICK at \in [1..Len(first) -> 1..Len(config)] :
        (\A k \in 1..Len(first) : first[k] = config[at[k]]) /\ Rising(at, Len(first))
  BY <1>1 DEF Within
<1>8. /\ Len(order) = Len(first) + Len(then)
      /\ \A i \in 1..Len(first) : order[i] = first[i].name
      /\ \A i \in 1..Len(then) : order[Len(first) + i] = then[i].name
  <2> DEFINE N == NamesIn(first) \cup NamesIn(then)
  <2>1. /\ Names(first) \in Seq(NamesIn(first)) /\ Names(then) \in Seq(NamesIn(then))
        /\ NamesIn(first) \subseteq N /\ NamesIn(then) \subseteq N
    BY <1>1, <1>2, NamesFacts
  <2> HIDE DEF N
  <2>2. Names(first) \in Seq(N) /\ Names(then) \in Seq(N)
    BY <2>1, SeqMonotonic
  <2>3. /\ Names(first) = [i \in 1..Len(first) |-> first[i].name]
        /\ Names(then) = [i \in 1..Len(then) |-> then[i].name]
    BY DEF Names
  <2>4. Len(Names(first)) = Len(first) /\ Len(Names(then)) = Len(then)
    BY <1>6, <2>3
  <2>5. Joined(order, Names(first), Names(then))
    BY <1>3, <2>2, ConcatJoins
  <2>6. /\ Len(order) = Len(first) + Len(then)
        /\ \A i \in 1..Len(first) : order[i] = Names(first)[i]
        /\ \A i \in 1..Len(then) : order[Len(first) + i] = Names(then)[i]
    BY <2>4, <2>5 DEF Joined
  <2>7. /\ \A i \in 1..Len(first) : order[i] = first[i].name
        /\ \A i \in 1..Len(then) : order[Len(first) + i] = then[i].name
    BY <2>3, <2>6
  <2> QED
    BY <2>6, <2>7
<1> SUFFICES ASSUME NEW i \in 1..Len(order), NEW j \in 1..Len(order), i < j,
                    NEW b \in 1..Len(config), config[b].name = order[j]
             PROVE  \E a \in 1..Len(config) : config[a].name = order[i] /\ a < b
  <2>1. ConfigFirst(config, order)
    BY DEF ConfigFirst
  <2> QED
    BY <2>1 DEF order
<1>9. j <= Len(first)
  <2> SUFFICES ASSUME ~(j <= Len(first)) PROVE FALSE
    OBVIOUS
  <2>1. j - Len(first) \in 1..Len(then) /\ Len(first) + (j - Len(first)) = j
    BY <1>6, <1>8
  <2>2. ~Configured(config, order[j])
    BY <1>5, <1>8, <2>1
  <2> QED
    BY <2>2 DEF Configured
<1>10. i \in 1..Len(first) /\ j \in 1..Len(first)
  BY <1>6, <1>8, <1>9
<1>11. /\ order[i] = config[at[i]].name /\ order[j] = config[at[j]].name
       /\ at[i] \in 1..Len(config) /\ at[j] \in 1..Len(config) /\ at[i] < at[j]
  <2>1. order[i] = first[i].name /\ order[j] = first[j].name
    BY <1>6, <1>8, <1>10
  <2> QED
    BY <1>7, <1>10, <2>1 DEF Rising
<1>12. at[j] = b
  BY <1>11 DEF Distinct
<1> QED
  BY <1>11, <1>12

(* The order the strategy asks for. *)
OrderedByStrategy(q, snaps, config, decision) ==
    ~decision.degraded /\ ~(IsWrite(q) /\ q.broadcast_writes) =>
        IF q.strategy = "FailoverOrdered"
        THEN ConfigFirst(config, decision.providers)
        ELSE BestFirst(snaps, decision.providers,
                       IF q.strategy = "WeightedRandom" THEN 2 ELSE 1)

(* The strategy decides the order of the providers of a decision that is   *)
(* neither degraded nor a broadcast write: the config's under              *)
(* failover_ordered, with the providers the config does not know at the    *)
(* end; by descending score otherwise, ties in the order of the monitor's  *)
(* snapshots; behind the primary that was drawn under weighted_random.     *)
(* Of reads this is what StrategyDecidesOrder says of the bodies and       *)
(* fleets that TLC routes, for every fleet, health and config.  Of writes  *)
(* that are not broadcast it says the same, since `route' has no other     *)
(* order for them, although README.md:153 says that writes do not use the  *)
(* strategy.                                                               *)
THEOREM OrderCorrect ==
    ASSUME NEW S, \A x \in S : x.score \in Int, NEW snaps \in Seq(S), Distinct(snaps),
           NEW C, NEW config \in Seq(C), Distinct(config),
           NEW q, q.strategy \in Strategies,
           NEW decision \in route(q, snaps, config)
    PROVE  OrderedByStrategy(q, snaps, config, decision)
<1> SUFFICES ASSUME ~decision.degraded, ~(IsWrite(q) /\ q.broadcast_writes)
             PROVE  IF q.strategy = "FailoverOrdered"
                    THEN ConfigFirst(config, decision.providers)
                    ELSE BestFirst(snaps, decision.providers,
                                   IF q.strategy = "WeightedRandom" THEN 2 ELSE 1)
  BY DEF OrderedByStrategy
<1> DEFINE kept == Serving(q, snaps, config)
           serving == Retain(snaps, kept)
           well == {i \in 1..Len(serving) : is_available(serving[i])}
           available == Retain(serving, well)
           to_all == IsWrite(q) /\ q.broadcast_writes
<1>1. serving \in Seq(S) /\ Within(serving, snaps, 1..Len(snaps))
  <2>1. kept \in SUBSET (1..Len(snaps))
    BY DEF Serving
  <2> HIDE DEF kept
  <2> QED
    BY <2>1, RetainFacts, RetainWithin
<1>2. available \in Seq(S) /\ Within(available, snaps, 1..Len(snaps))
  <2>1. well \in SUBSET (1..Len(serving))
    OBVIOUS
  <2> HIDE DEF well, serving
  <2>2. available \in Seq(S) /\ Within(available, serving, 1..Len(serving))
    BY <1>1, <2>1, RetainFacts, RetainWithin
  <2> HIDE DEF available
  <2>3. Len(available) \in Nat
    BY <2>2, LenProperties
  <2> QED
    BY <1>1, <2>2, <2>3, WithinTwice
<1>3. route(q, snaps, config) =
        IF available = <<>> THEN {Decision(Names(serving), to_all, TRUE)}
        ELSE IF to_all THEN {Decision(Names(available), TRUE, FALSE)}
        ELSE CASE q.strategy = "BestScore" ->
                    {Decision(Names(sort_by_score(available)), FALSE, FALSE)}
               [] q.strategy = "WeightedRandom" ->
                    {Decision(weighted_order(available, k), FALSE, FALSE) :
                        k \in 1..Len(available)}
               [] q.strategy = "FailoverOrdered" ->
                    {Decision(failover_order(available, config), FALSE, FALSE)}
               [] q.strategy = "ParallelRace" ->
                    {Decision(Names(sort_by_score(available)), TRUE, FALSE)}
  BY Zenon DEF route, Serving
<1>4. ~to_all
  OBVIOUS
<1> HIDE DEF kept, serving, well, available, to_all
<1>5. available # <<>>
  <2> SUFFICES ASSUME available = <<>> PROVE FALSE
    OBVIOUS
  <2>1. decision = Decision(Names(serving), to_all, TRUE)
    BY <1>3
  <2> QED
    BY <2>1 DEF Decision
<1>6. ASSUME q.strategy \in {"BestScore", "ParallelRace"}
      PROVE  BestFirst(snaps, decision.providers, 1)
  <2>1. \E all \in BOOLEAN : decision = Decision(Names(sort_by_score(available)), all, FALSE)
    BY <1>3, <1>4, <1>5, <1>6
  <2>2. decision.providers = Names(sort_by_score(available))
    BY <2>1 DEF Decision
  <2> QED
    BY <1>2, <2>2, SortedBestFirst
<1>7. ASSUME q.strategy = "WeightedRandom"
      PROVE  BestFirst(snaps, decision.providers, 2)
  <2>1. PICK k \in 1..Len(available) :
            decision = Decision(weighted_order(available, k), FALSE, FALSE)
    BY <1>3, <1>4, <1>5, <1>7
  <2>2. decision.providers = weighted_order(available, k)
    BY <2>1 DEF Decision
  <2> QED
    BY <1>2, <2>2, WeightedBestFirst
<1>8. ASSUME q.strategy = "FailoverOrdered"
      PROVE  ConfigFirst(config, decision.providers)
  <2>1. decision = Decision(failover_order(available, config), FALSE, FALSE)
    BY <1>3, <1>4, <1>5, <1>8
  <2>2. decision.providers = failover_order(available, config)
    BY <2>1 DEF Decision
  <2> QED
    BY <1>2, <2>2, FailoverConfigFirst
<1> QED
  BY <1>6, <1>7, <1>8 DEF Strategies

-----------------------------------------------------------------------------
(* Requests.  A request that has asked nobody has spent no attempt and has *)
(* only been shed, so it runs out of providers, not out of attempts; and   *)
(* it is only shed behind the gate.                                        *)
Handling ==
    [pc : {"idle", "loop", "forwarding", "done"}, providers : Seq(Provider),
     index : Nat \ {0}, rate_gate : BOOLEAN, attempt : Nat, asked : BOOLEAN,
     response : {"none", "ok", "502"}]

(* What is known of a request before its first forward. *)
Shedding(q) ==
    /\ q.attempt = 0 /\ q.pc # "forwarding"
    /\ \A i \in 1..Len(q.providers) : i < q.index => Capped(q.providers[i])
    /\ q.index > 1 => q.rate_gate

(* A degraded decision names somebody. *)
GateOpenNamed(q) == ~q.rate_gate => q.providers # <<>>

(* A refusal is final, and without a forward the list was used up. *)
RefusedAtEnd(q) ==
    q.response = "502" => q.pc = "done" /\ (q.asked \/ q.index > Len(q.providers))

Fine(q) ==
    /\ q \in Handling
    /\ ~q.asked => Shedding(q)
    /\ GateOpenNamed(q)
    /\ RefusedAtEnd(q)

DispatchInv == request \in [Request -> Handling] /\ \A r \in Request : Fine(request[r])

(* Every entry of Config serves ReadRequest, so a decision lists providers *)
(* of the fleet, and a degraded one at least one of them.                  *)
LEMMA DecisionFacts ==
    ASSUME NEW decision \in route(ReadRequest, snapshots, Config)
    PROVE  /\ decision.providers \in Seq(Provider)
           /\ decision.degraded \in BOOLEAN
           /\ decision.degraded => decision.providers # <<>>
<1> DEFINE S == {snapshots[i] : i \in 1..Len(Order)}
           C == {Config[i] : i \in 1..Len(Order)}
<1>1. Len(Order) \in Nat /\ 1 \in 1..Len(Order) /\ \A i \in 1..Len(Order) : Order[i] \in Provider
  <2>1. Len(Order) \in Nat \ {0}
    BY DispatchAssumption, EmptySeq
  <2> QED
    BY <2>1 DEF Provider
<1>2. /\ snapshots \in Seq(S) /\ Len(snapshots) = Len(Order)
      /\ \A i \in 1..Len(Order) : snapshots[i].name = Order[i] /\ snapshots[i].score = 0
  <2>1. /\ snapshots \in [1..Len(Order) -> S]
        /\ \A i \in 1..Len(Order) : snapshots[i].name = Order[i] /\ snapshots[i].score = 0
    BY DEF snapshots
  <2> HIDE DEF S
  <2> QED
    BY <1>1, <2>1
<1>3. /\ Config \in Seq(C) /\ Len(Config) = Len(Order)
      /\ \A i \in 1..Len(Order) : Config[i].name = Order[i] /\ Config[i].methods = {}
  <2>1. /\ Config \in [1..Len(Order) -> C]
        /\ \A i \in 1..Len(Order) : Config[i].name = Order[i] /\ Config[i].methods = {}
    BY DEF Config
  <2> HIDE DEF C
  <2> QED
    BY <1>1, <2>1
<1>4. \A x \in S : x.score \in Int
  BY <1>2
<1>5. Distinct(snapshots) /\ Distinct(Config)
  <2>1. \A i, j \in 1..Len(Order) : Order[i] = Order[j] => i = j
    BY DispatchAssumption
  <2>2. ASSUME NEW s, Len(s) = Len(Order), \A i \in 1..Len(Order) : s[i].name = Order[i]
        PROVE  Distinct(s)
    BY <2>1, <2>2 DEF Distinct
  <2>3. Distinct(snapshots)
    <3> HIDE DEF S
    <3>1. Len(snapshots) = Len(Order) /\ \A i \in 1..Len(Order) : snapshots[i].name = Order[i]
      BY <1>2
    <3> QED
      BY <2>2, <3>1
  <2>4. Distinct(Config)
    <3> HIDE DEF C
    <3>1. Len(Config) = Len(Order) /\ \A i \in 1..Len(Order) : Config[i].name = Order[i]
      BY <1>3
    <3> QED
      BY <2>2, <3>1
  <2> QED
    BY <2>3, <2>4
<1>6. ReadRequest.strategy \in Strategies /\ ReadRequest.full_history = FALSE
  BY DEF ReadRequest, Strategies
<1>7. Serving(ReadRequest, snapshots, Config) = 1..Len(Order)
  BY <1>2, <1>3, <1>6 DEF Serving, supports, Allows
<1>8. NamesIn(snapshots) \subseteq Provider
  BY <1>1, <1>2 DEF NamesIn
<1> DEFINE available == Available(ReadRequest, snapshots, Config)
<1> HIDE DEF S, C, available
<1>9. /\ decision.providers \in Seq(NamesIn(snapshots))
      /\ decision.degraded = (available = {})
      /\ available = {} => Elems(decision.providers) = {snapshots[i].name : i \in 1..Len(Order)}
  <2>1. RoutesTheEligible(ReadRequest, snapshots, Config, decision)
    BY <1>2, <1>3, <1>4, <1>5, <1>6, RouteCorrect
  <2> QED
    BY <1>7, <2>1 DEF RoutesTheEligible, available
<1>10. decision.providers \in Seq(Provider)
  BY <1>8, <1>9, SeqMonotonic
<1>11. ASSUME decision.providers = <<>> PROVE ~decision.degraded
  <2>1. Elems(decision.providers) = {}
    BY <1>11 DEF Elems
  <2>2. snapshots[1].name \in {snapshots[i].name : i \in 1..Len(Order)}
    BY <1>1
  <2> QED
    BY <1>9, <2>1, <2>2
<1> QED
  BY <1>9, <1>10, <1>11

(* The invariant holds initially. *)
LEMMA DispatchInit == Init => DispatchInv
<1> SUFFICES ASSUME Init PROVE DispatchInv
  OBVIOUS
<1>1. <<>> \in Seq(Provider)
  OBVIOUS
<1>2. Idle \in Handling
  BY <1>1 DEF Idle, Handling
<1>3. Fine(Idle)
  BY <1>2 DEF Fine, Shedding, GateOpenNamed, RefusedAtEnd, Idle
<1> QED
  BY <1>2, <1>3 DEF Init, DispatchInv

(* A step that leaves one request fine leaves all of them fine. *)
LEMMA FineStep ==
    ASSUME DispatchInv, NEW r \in Request, NEW q, Fine(q),
           request' = [request EXCEPT ![r] = q]
    PROVE  DispatchInv'
<1>1. request' \in [Request -> Handling]
  BY DEF DispatchInv, Fine
<1>2. \A s \in Request : Fine(request'[s])
  <2> SUFFICES ASSUME NEW s \in Request PROVE Fine(request'[s])
    OBVIOUS
  <2>1. request'[s] = IF s = r THEN q ELSE request[s]
    BY DEF DispatchInv
  <2> QED
    BY <2>1 DEF DispatchInv
<1> QED
  BY <1>1, <1>2 DEF DispatchInv, Fine, Shedding, GateOpenNamed, RefusedAtEnd, Capped

(* Every handler and every step of the environment preserves it. *)
LEMMA DispatchStep == DispatchInv /\ [Next]_vars => DispatchInv'
<1> SUFFICES ASSUME DispatchInv, [Next]_vars PROVE DispatchInv'
  OBVIOUS
<1>1. ASSUME NEW r \in Request, Handle(r) PROVE DispatchInv'
  <2> DEFINE q == request[r]
  <2>0. Fine(q) /\ q \in Handling
    BY DEF DispatchInv
  <2>t. /\ q.providers \in Seq(Provider) /\ Len(q.providers) \in Nat
        /\ q.index \in Nat \ {0} /\ q.attempt \in Nat
    BY <2>0, LenProperties DEF Handling
  <2>1. CASE Route(r)
    <3>1. PICK decision \in route(ReadRequest, snapshots, Config) :
                request' = [request EXCEPT ![r] = Dispatched(decision)]
      BY <2>1 DEF Route
    <3>2. Fine(Dispatched(decision))
      <4>1. /\ decision.providers \in Seq(Provider) /\ decision.degraded \in BOOLEAN
            /\ decision.degraded => decision.providers # <<>>
        BY DecisionFacts
      <4>2. /\ Idle \in Handling /\ Idle.index = 1 /\ Idle.attempt = 0
            /\ Idle.response = "none"
        <5>1. <<>> \in Seq(Provider)
          OBVIOUS
        <5> QED
          BY <5>1 DEF Idle, Handling
      <4>3. Dispatched(decision) \in Handling
        BY <4>1, <4>2 DEF Handling, Dispatched
      <4>4. /\ Dispatched(decision).providers = decision.providers
            /\ Dispatched(decision).rate_gate = ~decision.degraded
            /\ Dispatched(decision).index = 1 /\ Dispatched(decision).attempt = 0
            /\ Dispatched(decision).pc = "loop" /\ Dispatched(decision).response = "none"
        BY <4>2 DEF Dispatched, Handling
      <4>5. Shedding(Dispatched(decision))
        BY <4>4 DEF Shedding
      <4>6. GateOpenNamed(Dispatched(decision))
        BY <4>1, <4>4 DEF GateOpenNamed
      <4> QED
        BY <4>3, <4>4, <4>5, <4>6 DEF Fine, RefusedAtEnd
    <3> QED
      BY <3>1, <3>2, FineStep
  <2>2. CASE Shed(r)
    <3>1. request' = [request EXCEPT ![r] = ShedToNext(q)]
      BY <2>2 DEF Shed
    <3>2. Fine(ShedToNext(q))
      <4>1. ShedToNext(q) = [q EXCEPT !.index = q.index + 1]
        BY DEF ShedToNext
      <4>2. ShedToNext(q) \in Handling
        BY <2>0, <2>t, <4>1 DEF Handling
      <4>3. /\ q.pc = "loop" /\ q.rate_gate /\ q.index <= Len(q.providers)
            /\ Capped(q.providers[q.index])
        BY <2>2 DEF Shed, InLoop, Current
      <4>4. q.response # "502"
        BY <2>0, <4>3 DEF Fine, RefusedAtEnd
      <4> HIDE DEF q
      <4>5. /\ ShedToNext(q).providers = q.providers /\ ShedToNext(q).index = q.index + 1
            /\ ShedToNext(q).rate_gate = q.rate_gate /\ ShedToNext(q).attempt = q.attempt
            /\ ShedToNext(q).asked = q.asked /\ ShedToNext(q).response = q.response
            /\ ShedToNext(q).pc = q.pc
        BY <2>0, <4>1 DEF Handling
      <4>6. ~q.asked => Shedding(ShedToNext(q))
        BY <2>0, <2>t, <4>3, <4>5 DEF Fine, Shedding
      <4> QED
        BY <4>2, <4>3, <4>4, <4>5, <4>6 DEF Fine, GateOpenNamed, RefusedAtEnd
    <3> QED
      BY <3>1, <3>2, FineStep
  <2>3. CASE Forward(r)
    <3> DEFINE n == [q EXCEPT !.pc = "forwarding", !.attempt = q.attempt + 1, !.asked = TRUE]
    <3>1. request' = [request EXCEPT ![r] = n]
      BY <2>3 DEF Forward, DispatchInv
    <3>2. Fine(n)
      <4>1. n \in Handling
        <5>1. q.attempt + 1 \in Nat
          BY <2>t
        <5> QED
          BY <2>0, <5>1 DEF Handling
      <4>2. q.response # "502"
        BY <2>0, <2>3 DEF Fine, RefusedAtEnd, Forward, InLoop
      <4>3. /\ n.providers = q.providers /\ n.rate_gate = q.rate_gate
            /\ n.asked = TRUE /\ n.response = q.response
        BY <2>0 DEF Handling
      <4> QED
        BY <2>0, <4>1, <4>2, <4>3 DEF Fine, GateOpenNamed, RefusedAtEnd
    <3> QED
      BY <3>1, <3>2, FineStep
  <2>4. CASE Answered(r)
    <3>a. q.asked /\ q.response # "502"
      BY <2>0, <2>4 DEF Fine, Shedding, RefusedAtEnd, Answered
    <3>1. CASE Succeeded(r)
      <4> DEFINE n == [q EXCEPT !.pc = "done", !.response = "ok"]
      <4>1. request' = [request EXCEPT ![r] = n]
        BY <3>1 DEF Succeeded, DispatchInv
      <4>2. n \in Handling
        BY <2>0 DEF Handling
      <4>3. /\ n.providers = q.providers /\ n.rate_gate = q.rate_gate
            /\ n.asked = q.asked /\ n.response = "ok"
        BY <2>0 DEF Handling
      <4>4. Fine(n)
        BY <2>0, <3>a, <4>2, <4>3 DEF Fine, GateOpenNamed, RefusedAtEnd
      <4> QED
        BY <4>1, <4>4, FineStep
    <3>2. CASE Failed(r)
      <4> DEFINE n == [q EXCEPT !.pc = "loop", !.index = q.index + 1]
      <4>1. request' = [request EXCEPT ![r] = n]
        BY <3>2 DEF Failed, DispatchInv
      <4>2. n \in Handling
        <5>1. q.index + 1 \in Nat \ {0}
          BY <2>t
        <5> QED
          BY <2>0, <5>1 DEF Handling
      <4>3. /\ n.providers = q.providers /\ n.rate_gate = q.rate_gate
            /\ n.asked = q.asked /\ n.response = q.response
        BY <2>0 DEF Handling
      <4>4. Fine(n)
        BY <2>0, <3>a, <4>2, <4>3 DEF Fine, GateOpenNamed, RefusedAtEnd
      <4> QED
        BY <4>1, <4>4, FineStep
    <3> QED
      BY <2>4, <3>1, <3>2 DEF Answered
  <2>5. CASE Exhausted(r)
    <3> DEFINE n == [q EXCEPT !.pc = "done", !.response = "502"]
    <3>1. request' = [request EXCEPT ![r] = n]
      BY <2>5 DEF Exhausted, DispatchInv
    <3>2. n \in Handling
      BY <2>0 DEF Handling
    <3>3. /\ n.providers = q.providers /\ n.rate_gate = q.rate_gate /\ n.index = q.index
          /\ n.asked = q.asked /\ n.pc = "done" /\ n.attempt = q.attempt
      BY <2>0 DEF Handling
    <3>4. ~q.asked => q.index > Len(q.providers)
      <4>1. q.index > Len(q.providers) \/ ~(q.attempt < MaxRetries + 1)
        BY <2>5, <2>t DEF Exhausted, InLoop
      <4>2. ~q.asked => q.attempt < MaxRetries + 1
        BY <2>0, DispatchAssumption DEF Fine, Shedding
      <4> QED
        BY <4>1, <4>2
    <3>5. Fine(n)
      <4> HIDE DEF n
      <4>1. ~n.asked => Shedding(n)
        BY <2>0, <3>3 DEF Fine, Shedding
      <4> QED
        BY <2>0, <3>2, <3>3, <3>4, <4>1 DEF Fine, GateOpenNamed, RefusedAtEnd
    <3> QED
      BY <3>1, <3>5, FineStep
  <2>6. CASE Sent(r)
    <3>1. <<>> \in Seq(Provider)
      OBVIOUS
    <3>2. Fine(Idle)
      BY <3>1 DEF Fine, Shedding, GateOpenNamed, RefusedAtEnd, Idle, Handling
    <3>3. request' = [request EXCEPT ![r] = Idle]
      BY <2>6 DEF Sent
    <3> QED
      BY <3>2, <3>3, FineStep
  <2> QED
    BY <1>1, <2>1, <2>2, <2>3, <2>4, <2>5, <2>6 DEF Handle
<1>2. ASSUME UNCHANGED request PROVE DispatchInv'
  BY <1>2 DEF DispatchInv, Fine, Shedding, GateOpenNamed, RefusedAtEnd, Capped
<1>3. ASSUME NEW p \in Provider, Probe(p) \/ Refill(p) \/ Toggle(p) PROVE UNCHANGED request
  BY <1>3 DEF Probe, Refill, Toggle
<1>4. CASE Tick
  BY <1>2, <1>4 DEF Tick
<1>5. CASE UNCHANGED vars
  BY <1>2, <1>5 DEF vars
<1> QED
  BY <1>1, <1>2, <1>3, <1>4, <1>5 DEF Next

LEMMA DispatchInvariant == Spec => []DispatchInv
BY DispatchInit, DispatchStep, PTL DEF Spec

(* However concurrent requests race for the tokens of the capped           *)
(* providers, and whatever health does meanwhile: a request whose decision *)
(* names an uncapped provider asks somebody before it is refused, for      *)
(* every fleet, cap, retry limit and number of requests (dispatch's loop,  *)
(* where a shed provider does not count as an attempt).                    *)
THEOREM CappedCorrect == Spec => []CappedNeverStarves
<1>1. DispatchInv => CappedNeverStarves
  <2> SUFFICES ASSUME DispatchInv, NEW r \in Request, Unasked(r),
                      NEW i \in 1..Len(request[r].providers)
               PROVE  Capped(request[r].providers[i])
    BY DEF CappedNeverStarves
  <2>1. Fine(request[r]) /\ request[r] \in Handling
    BY DEF DispatchInv
  <2>2. request[r].index > Len(request[r].providers) /\ Shedding(request[r])
    BY <2>1 DEF Unasked, Fine, RefusedAtEnd
  <2>3. Len(request[r].providers) \in Nat /\ request[r].index \in Nat
    BY <2>1, LenProperties DEF Handling
  <2> QED
    BY <2>2, <2>3 DEF Shedding
<1> QED
  BY <1>1, DispatchInvariant, PTL

(* A degraded request, one that handle_rpc dispatches past the rate gate   *)
(* because nobody was available, is never refused before it has asked      *)
(* somebody.                                                               *)
THEOREM DegradedCorrect == Spec => []DegradedStillServes
<1>1. DispatchInv => DegradedStillServes
  <2> SUFFICES ASSUME DispatchInv, NEW r \in Request, Unasked(r), ~request[r].rate_gate
               PROVE  FALSE
    BY DEF DegradedStillServes
  <2>1. Fine(request[r]) /\ request[r] \in Handling
    BY DEF DispatchInv
  <2>2. /\ request[r].index > Len(request[r].providers) /\ Shedding(request[r])
        /\ request[r].providers # <<>>
    BY <2>1 DEF Unasked, Fine, RefusedAtEnd, GateOpenNamed
  <2>3. Len(request[r].providers) \in Nat \ {0} /\ request[r].index \in Nat
    BY <2>1, <2>2, EmptySeq DEF Handling
  <2>4. request[r].index > 1
    BY <2>2, <2>3
  <2> QED
    BY <2>2, <2>4 DEF Shedding
<1> QED
  BY <1>1, DispatchInvariant, PTL

=============================================================================
