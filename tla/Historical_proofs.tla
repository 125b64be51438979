------------------------- MODULE Historical_proofs --------------------------
(***************************************************************************)
(* Proofs about the analytics of getTransaction calls, for every set of    *)
(* jobs, handlers and fingerprints and every limit: what the worker        *)
(* remembers, how its lifecycle counters balance, and what the shutdown's  *)
(* flush reports.                                                          *)
(***************************************************************************)
EXTENDS Historical, FiniteSetTheorems, FunctionTheorems, SequenceTheorems,
        WellFoundedInduction, TLAPS

-----------------------------------------------------------------------------
(* The core. *)
Lifecycle == {"none", "NullSeen", "Found"}
StateEntry == [lifecycle : Lifecycle, commitment : Commitments, last_seen_at : Nat]
Core == [state : [Fingerprint -> StateEntry], lru : SUBSET (Nat \X Fingerprint),
         windows : [Commitments -> [Counters -> Nat]]]

Place(k, f) == <<k.state[f].last_seen_at, f>>

Mirrored(k) == k.lru = {Place(k, f) : f \in Seen(k)}

(* An entry of the map has a lifecycle. *)
Recorded(k) == \A f \in Fingerprint : k.state[f].lifecycle = "none" => k.state[f] = NoEntry

Sound(k) == k \in Core /\ Mirrored(k) /\ Recorded(k) /\ IsFiniteSet(Seen(k))

(* What the windows hold of a counter, and the calls in a lifecycle. *)
Sum(k, counter) == k.windows["finalized"][counter] + k.windows["unknown"][counter]
In(k, l) == {f \in Fingerprint : k.state[f].lifecycle = l}

(* The calls of `gone' in a lifecycle; in some of them, by commitment. *)
Gone(k, gone, l) == {x \in gone : k.state[x[2]].lifecycle = l}
GoneOf(k, gone, c, ls) ==
    {x \in gone : k.state[x[2]].commitment = c /\ k.state[x[2]].lifecycle \in ls}

(* One place of the LRU for each call in the map. *)
LEMMA Places ==
    ASSUME NEW k, Sound(k)
    PROVE  /\ \A x \in k.lru : /\ x[2] \in Seen(k) /\ x[2] \in Fingerprint
                               /\ x = Place(k, x[2]) /\ x[1] \in Nat
           /\ \A f \in Seen(k) : Place(k, f) \in k.lru
           /\ \A l \in {"NullSeen", "Found"} : In(k, l) \subseteq Seen(k) /\ IsFiniteSet(In(k, l))
           /\ IsFiniteSet(k.lru) /\ Cardinality(k.lru) = Cardinality(Seen(k))
<1>1. k \in Core /\ k.lru = {Place(k, f) : f \in Seen(k)} /\ IsFiniteSet(Seen(k))
  BY DEF Sound, Mirrored
<1>2. k.state \in [Fingerprint -> StateEntry] /\ Seen(k) \subseteq Fingerprint
  BY <1>1 DEF Core, Seen
<1>3. ASSUME NEW x \in k.lru
      PROVE  /\ x[2] \in Seen(k) /\ x[2] \in Fingerprint
             /\ x = Place(k, x[2]) /\ x[1] \in Nat
  <2>1. PICK f \in Seen(k) : x = Place(k, f)
    BY <1>1
  <2>2. x[2] = f /\ x[1] = k.state[f].last_seen_at
    BY <2>1 DEF Place
  <2>3. k.state[f] \in StateEntry
    BY <1>2
  <2> QED
    BY <1>2, <2>1, <2>2, <2>3 DEF StateEntry
<1>4. \A f \in Seen(k) : Place(k, f) \in k.lru
  BY <1>1
<1>5. ASSUME NEW l \in {"NullSeen", "Found"}
      PROVE  In(k, l) \subseteq Seen(k) /\ IsFiniteSet(In(k, l))
  <2>1. In(k, l) \subseteq Seen(k)
    BY <1>5 DEF In, Seen, NoEntry
  <2> QED
    BY <1>1, <2>1, FS_Subset
<1>6. ExistsBijection(Seen(k), k.lru)
  <2> DEFINE g == [f \in Seen(k) |-> Place(k, f)]
  <2>1. g \in [Seen(k) -> k.lru]
    BY <1>4
  <2>2. \A f, h \in Seen(k) : Place(k, f) = Place(k, h) => f = h
    BY DEF Place
  <2>3. g \in Injection(Seen(k), k.lru)
    BY <2>1, <2>2 DEF Injection, IsInjective
  <2>4. g \in Surjection(Seen(k), k.lru)
    BY <1>1, <2>1 DEF Surjection
  <2> QED
    BY <2>3, <2>4 DEF ExistsBijection, Bijection
<1>7. IsFiniteSet(k.lru) /\ Cardinality(k.lru) = Cardinality(Seen(k))
  BY <1>1, <1>6, FS_Bijection
<1> QED
  BY <1>3, <1>4, <1>5, <1>7

(* What evict does to the map and to the LRU. *)
LEMMA EvictState ==
    ASSUME NEW k, Sound(k), NEW gone \in SUBSET k.lru
    PROVE  LET e == evict(k, gone)
           IN  /\ e.state \in [Fingerprint -> StateEntry]
               /\ e.lru \in SUBSET (Nat \X Fingerprint)
               /\ Mirrored(e) /\ Recorded(e)
               /\ Seen(e) = Seen(k) \ {x[2] : x \in gone}
               /\ IsFiniteSet(Seen(e))
               /\ \A l \in {"NullSeen", "Found"} : In(e, l) = In(k, l) \ {x[2] : x \in gone}
<1> DEFINE e == evict(k, gone)
           out == {x[2] : x \in gone}
<1>1. /\ k.state \in [Fingerprint -> StateEntry] /\ k.lru \in SUBSET (Nat \X Fingerprint)
      /\ k.lru = {Place(k, f) : f \in Seen(k)} /\ IsFiniteSet(Seen(k)) /\ Recorded(k)
  BY DEF Sound, Core, Mirrored
<1>2. /\ e.state = [f \in Fingerprint |-> IF f \in out THEN NoEntry ELSE k.state[f]]
      /\ e.lru = k.lru \ gone
  BY DEF evict
<1>3. NoEntry \in StateEntry /\ NoEntry.lifecycle = "none"
  BY DEF NoEntry, StateEntry, Lifecycle, Commitments
<1> HIDE DEF e
<1>4. /\ e.state \in [Fingerprint -> StateEntry]
      /\ \A f \in Fingerprint : e.state[f] = IF f \in out THEN NoEntry ELSE k.state[f]
  <2> HIDE DEF out
  <2> QED
    BY <1>1, <1>2, <1>3
<1>5. Seen(e) = Seen(k) \ out
  <2> HIDE DEF out
  <2> QED
    BY <1>4 DEF Seen
<1>6. Recorded(e)
  <2> HIDE DEF out
  <2> QED
    BY <1>1, <1>4 DEF Recorded
<1>7. Mirrored(e)
  <2>1. \A f \in Seen(e) : f \in Fingerprint /\ f \in Seen(k) /\ f \notin out
                           /\ Place(e, f) = Place(k, f)
    <3> HIDE DEF out
    <3> QED
      BY <1>4, <1>5 DEF Seen, Place
  <2>2. ASSUME NEW x \in e.lru PROVE x \in {Place(e, f) : f \in Seen(e)}
    <3>1. x \in k.lru /\ x \notin gone
      BY <1>2
    <3>2. x[2] \in Seen(k) /\ x = Place(k, x[2])
      BY <3>1, Places
    <3>3. x[2] \notin out
      <4> SUFFICES ASSUME NEW y \in gone, y[2] = x[2] PROVE FALSE
        OBVIOUS
      <4>1. y = Place(k, y[2])
        BY Places
      <4> QED
        BY <3>1, <3>2, <4>1
    <3>4. x[2] \in Seen(e)
      BY <1>5, <3>2, <3>3
    <3> QED
      BY <2>1, <3>2, <3>4
  <2>3. ASSUME NEW f \in Seen(e) PROVE Place(e, f) \in e.lru
    <3>1. Place(e, f) \in k.lru
      BY <2>1, Places
    <3>2. Place(e, f)[2] = f
      BY DEF Place
    <3>3. Place(e, f) \notin gone
      BY <2>1, <3>2
    <3> QED
      BY <1>2, <3>1, <3>3
  <2> QED
    BY <2>2, <2>3 DEF Mirrored
<1>8. IsFiniteSet(Seen(e))
  BY <1>1, <1>5, FS_Subset
<1>9. ASSUME NEW l \in {"NullSeen", "Found"} PROVE In(e, l) = In(k, l) \ out
  <2> HIDE DEF out
  <2> QED
    BY <1>3, <1>4, <1>9 DEF In
<1>10. e.lru \in SUBSET (Nat \X Fingerprint)
  BY <1>1, <1>2
<1> QED
  BY <1>4, <1>5, <1>6, <1>7, <1>8, <1>9, <1>10 DEF e

(* The calls that were evicted, by lifecycle and commitment. *)
LEMMA GoneCardinality ==
    ASSUME NEW k, Sound(k), NEW gone \in SUBSET k.lru, NEW ls \in SUBSET Lifecycle
    PROVE  /\ Cardinality(GoneOf(k, gone, "finalized", ls)) \in Nat
           /\ Cardinality(GoneOf(k, gone, "unknown", ls)) \in Nat
           /\ Cardinality(GoneOf(k, gone, "finalized", ls))
                + Cardinality(GoneOf(k, gone, "unknown", ls))
                = Cardinality({x \in gone : k.state[x[2]].lifecycle \in ls})
<1> DEFINE A == GoneOf(k, gone, "finalized", ls)
           B == GoneOf(k, gone, "unknown", ls)
           all == {x \in gone : k.state[x[2]].lifecycle \in ls}
<1>1. IsFiniteSet(gone) /\ \A x \in gone : x[2] \in Fingerprint
  BY Places, FS_Subset
<1>2. A \in SUBSET gone /\ B \in SUBSET gone /\ A \cap B = {}
  BY DEF GoneOf
<1>3. A \cup B = all
  <2>1. \A x \in gone : k.state[x[2]].commitment \in {"finalized", "unknown"}
    BY <1>1 DEF Sound, Core, StateEntry, Commitments
  <2> QED
    BY <2>1 DEF GoneOf
<1> HIDE DEF A, B, all
<1>4. IsFiniteSet(A) /\ IsFiniteSet(B)
  BY <1>1, <1>2, FS_Subset
<1>5. Cardinality(A) \in Nat /\ Cardinality(B) \in Nat
  BY <1>4, FS_CardinalityType
<1>6. Cardinality(all) = Cardinality(A) + Cardinality(B) - Cardinality({})
  BY <1>2, <1>3, <1>4, FS_Union
<1>7. Cardinality({}) = 0
  BY FS_EmptySet
<1>8. Cardinality(A) + Cardinality(B) = Cardinality(all)
  BY <1>5, <1>6, <1>7
<1> QED
  BY <1>5, <1>8 DEF A, B, all

(* Evicting a call forgets it under its lifecycle. *)
LEMMA GoneFromMap ==
    ASSUME NEW k, Sound(k), NEW gone \in SUBSET k.lru, NEW l \in {"NullSeen", "Found"}
    PROVE  /\ Cardinality(Gone(k, gone, l)) \in Nat /\ Cardinality(In(k, l)) \in Nat
           /\ Cardinality(In(k, l) \ {x[2] : x \in gone})
                = Cardinality(In(k, l)) - Cardinality(Gone(k, gone, l))
<1> DEFINE out == {x[2] : x \in gone}
           G == Gone(k, gone, l)
           R == In(k, l)
<1>1. \A x \in gone : x[2] \in Fingerprint /\ x = Place(k, x[2])
  BY Places
<1>2. IsFiniteSet(R) /\ IsFiniteSet(gone)
  BY Places, FS_Subset
<1>3. IsFiniteSet(G)
  BY <1>2, FS_Subset DEF Gone
<1>4. ExistsBijection(G, R \cap out)
  <2> DEFINE g == [x \in G |-> x[2]]
  <2>1. \A x \in G : x \in gone /\ x[2] \in R \cap out
    BY <1>1 DEF Gone, In
  <2>2. \A f \in R \cap out : \E x \in G : x[2] = f
    BY DEF Gone, In
  <2> HIDE DEF G, R, out
  <2>3. g \in [G -> R \cap out] /\ \A x \in G : g[x] = x[2]
    BY <2>1
  <2> HIDE DEF g
  <2>4. \A x, y \in G : g[x] = g[y] => x = y
    BY <1>1, <2>1, <2>3
  <2>5. g \in Injection(G, R \cap out)
    BY <2>3, <2>4 DEF Injection, IsInjective
  <2>6. g \in Surjection(G, R \cap out)
    BY <2>2, <2>3 DEF Surjection
  <2> QED
    BY <2>5, <2>6 DEF ExistsBijection, Bijection
<1> HIDE DEF G, R, out
<1>5. Cardinality(R \cap out) = Cardinality(G)
  BY <1>3, <1>4, FS_Bijection
<1>6. Cardinality(R \ out) = Cardinality(R) - Cardinality(R \cap out)
  BY <1>2, FS_Difference
<1>7. Cardinality(G) \in Nat /\ Cardinality(R) \in Nat
  BY <1>2, <1>3, FS_CardinalityType
<1> QED
  BY <1>5, <1>6, <1>7 DEF G, R, out

(* What the counters still owe to the map: nothing, once what was reported *)
(* is added.                                                               *)
Missing(k) == Sum(k, "first_null") - Sum(k, "null_to_found") - Sum(k, "unresolved")
                - Cardinality(In(k, "NullSeen"))
Finds(k) == Sum(k, "first_found") + Sum(k, "null_to_found") - Sum(k, "evicted")
                + Sum(k, "unresolved") - Cardinality(In(k, "Found"))

(* The calls counted, and the balance of lifecycles, survive an eviction.  *)
LEMMA EvictFacts ==
    ASSUME NEW k, Sound(k), NEW gone \in SUBSET k.lru
    PROVE  LET e == evict(k, gone)
           IN  /\ Sound(e)
               /\ Seen(e) = Seen(k) \ {x[2] : x \in gone}
               /\ Sum(e, "logical") = Sum(k, "logical")
               /\ Missing(e) = Missing(k) /\ Finds(e) = Finds(k)
<1> DEFINE e == evict(k, gone)
           N == Cardinality(Gone(k, gone, "NullSeen"))
           F == Cardinality(Gone(k, gone, "Found"))
           a(c) == Cardinality(GoneOf(k, gone, c, {"NullSeen", "Found"}))
           u(c) == Cardinality(GoneOf(k, gone, c, {"NullSeen"}))
<1>1. k.windows \in [Commitments -> [Counters -> Nat]]
  BY DEF Sound, Core
<1>2. /\ \A c \in Commitments : e.windows[c] =
            [k.windows[c] EXCEPT !["evicted"] = k.windows[c]["evicted"] + a(c),
                                 !["unresolved"] = k.windows[c]["unresolved"] + u(c)]
      /\ e.windows = [c \in Commitments |-> e.windows[c]]
  <2>1. e.windows = [c \in Commitments |-> [k.windows[c] EXCEPT
                        !["evicted"] = @ + a(c), !["unresolved"] = @ + u(c)]]
    BY DEF evict, GoneOf
  <2> HIDE DEF a, u, e
  <2>2. \A c \in Commitments : e.windows[c] = [k.windows[c] EXCEPT
                        !["evicted"] = @ + a(c), !["unresolved"] = @ + u(c)]
    BY <2>1
  <2> QED
    BY <2>1, <2>2
<1>g. \A ls \in SUBSET Lifecycle :
        /\ Cardinality(GoneOf(k, gone, "finalized", ls)) \in Nat
        /\ Cardinality(GoneOf(k, gone, "unknown", ls)) \in Nat
        /\ Cardinality(GoneOf(k, gone, "finalized", ls))
             + Cardinality(GoneOf(k, gone, "unknown", ls))
             = Cardinality({x \in gone : k.state[x[2]].lifecycle \in ls})
  BY GoneCardinality
<1>3. /\ u("finalized") \in Nat /\ u("unknown") \in Nat
      /\ u("finalized") + u("unknown") = N
  <2> DEFINE those == {x \in gone : k.state[x[2]].lifecycle \in {"NullSeen"}}
  <2>1. {"NullSeen"} \in SUBSET Lifecycle
    BY DEF Lifecycle
  <2>2. /\ u("finalized") \in Nat /\ u("unknown") \in Nat
        /\ u("finalized") + u("unknown") = Cardinality(those)
    BY <1>g, <2>1
  <2>3. those = Gone(k, gone, "NullSeen")
    BY DEF Gone
  <2> HIDE DEF those
  <2> QED
    BY <2>2, <2>3
<1>4. /\ a("finalized") \in Nat /\ a("unknown") \in Nat
      /\ a("finalized") + a("unknown") = N + F
  <2> DEFINE both == {x \in gone : k.state[x[2]].lifecycle \in {"NullSeen", "Found"}}
  <2>1. {"NullSeen", "Found"} \in SUBSET Lifecycle
    BY DEF Lifecycle
  <2>2. /\ a("finalized") \in Nat /\ a("unknown") \in Nat
        /\ a("finalized") + a("unknown") = Cardinality(both)
    BY <1>g, <2>1
  <2>3. /\ both = Gone(k, gone, "NullSeen") \cup Gone(k, gone, "Found")
        /\ Gone(k, gone, "NullSeen") \cap Gone(k, gone, "Found") = {}
        /\ Gone(k, gone, "NullSeen") \in SUBSET gone /\ Gone(k, gone, "Found") \in SUBSET gone
    BY DEF Gone
  <2>4. IsFiniteSet(Gone(k, gone, "NullSeen")) /\ IsFiniteSet(Gone(k, gone, "Found"))
    <3>1. IsFiniteSet(gone)
      BY Places, FS_Subset
    <3> QED
      BY <2>3, <3>1, FS_Subset
  <2> HIDE DEF both
  <2>5. Cardinality(both) = N + F - Cardinality({})
    BY <2>3, <2>4, FS_Union
  <2>6. N \in Nat /\ F \in Nat /\ Cardinality({}) = 0
    BY <2>4, FS_CardinalityType, FS_EmptySet
  <2> HIDE DEF N, F, a
  <2> QED
    BY <2>2, <2>5, <2>6
<1>5. /\ N \in Nat /\ F \in Nat
      /\ Cardinality(In(k, "NullSeen")) \in Nat /\ Cardinality(In(k, "Found")) \in Nat
      /\ Cardinality(In(k, "NullSeen") \ {x[2] : x \in gone}) = Cardinality(In(k, "NullSeen")) - N
      /\ Cardinality(In(k, "Found") \ {x[2] : x \in gone}) = Cardinality(In(k, "Found")) - F
  BY GoneFromMap
<1>6. /\ e.state \in [Fingerprint -> StateEntry] /\ e.lru \in SUBSET (Nat \X Fingerprint)
      /\ Mirrored(e) /\ Recorded(e) /\ Seen(e) = Seen(k) \ {x[2] : x \in gone}
      /\ IsFiniteSet(Seen(e))
      /\ In(e, "NullSeen") = In(k, "NullSeen") \ {x[2] : x \in gone}
      /\ In(e, "Found") = In(k, "Found") \ {x[2] : x \in gone}
  BY EvictState
<1>7. e = [state |-> e.state, lru |-> e.lru, windows |-> e.windows]
  BY DEF evict
<1> HIDE DEF e, N, F, a, u
<1>8. \A c \in Commitments : a(c) \in Nat /\ u(c) \in Nat
  BY <1>3, <1>4 DEF Commitments
<1>9. \A c \in Commitments :
        /\ e.windows[c] \in [Counters -> Nat]
        /\ e.windows[c]["evicted"] = k.windows[c]["evicted"] + a(c)
        /\ e.windows[c]["unresolved"] = k.windows[c]["unresolved"] + u(c)
        /\ \A counter \in Counters \ {"evicted", "unresolved"} :
                e.windows[c][counter] = k.windows[c][counter]
  <2> SUFFICES ASSUME NEW c \in Commitments
               PROVE  /\ e.windows[c] \in [Counters -> Nat]
                      /\ e.windows[c]["evicted"] = k.windows[c]["evicted"] + a(c)
                      /\ e.windows[c]["unresolved"] = k.windows[c]["unresolved"] + u(c)
                      /\ \A counter \in Counters \ {"evicted", "unresolved"} :
                                e.windows[c][counter] = k.windows[c][counter]
    OBVIOUS
  <2> DEFINE w == k.windows[c]
             ev == w["evicted"] + a(c)
             un == w["unresolved"] + u(c)
  <2>1. w \in [Counters -> Nat] /\ "evicted" \in Counters /\ "unresolved" \in Counters
    BY <1>1 DEF Counters
  <2>2. ev \in Nat /\ un \in Nat
    BY <1>8, <2>1
  <2>3. e.windows[c] = [w EXCEPT !["evicted"] = ev, !["unresolved"] = un]
    BY <1>2
  <2> HIDE DEF w, ev, un
  <2>4. /\ e.windows[c] \in [Counters -> Nat] /\ e.windows[c]["evicted"] = ev
        /\ e.windows[c]["unresolved"] = un
        /\ \A counter \in Counters \ {"evicted", "unresolved"} :
                e.windows[c][counter] = w[counter]
    BY <2>1, <2>2, <2>3
  <2> QED
    BY <2>4 DEF w, ev, un
<1>10. Sound(e)
  <2>1. e.windows \in [Commitments -> [Counters -> Nat]]
    BY <1>2, <1>9
  <2> QED
    BY <1>6, <1>7, <2>1 DEF Sound, Core
<1>11. "finalized" \in Commitments /\ "unknown" \in Commitments
       /\ {"logical", "first_null", "null_to_found", "first_found"}
                \subseteq Counters \ {"evicted", "unresolved"}
       /\ {"evicted", "unresolved"} \subseteq Counters
  BY DEF Commitments, Counters
<1>12. \A counter \in {"logical", "first_null", "null_to_found", "first_found"} :
            Sum(e, counter) = Sum(k, counter)
  BY <1>9, <1>11 DEF Sum
<1>13. /\ Sum(e, "evicted") = Sum(k, "evicted") + N + F
       /\ Sum(e, "unresolved") = Sum(k, "unresolved") + N
  <2>1. \A c \in Commitments : k.windows[c]["evicted"] \in Nat /\ k.windows[c]["unresolved"] \in Nat
    BY <1>1, <1>11
  <2> QED
    BY <1>3, <1>4, <1>5, <1>9, <1>11, <2>1 DEF Sum
<1>14. \A counter \in Counters : Sum(k, counter) \in Nat
  BY <1>1, <1>11 DEF Sum
<1>15. /\ Sum(k, "evicted") \in Nat /\ Sum(k, "unresolved") \in Nat
       /\ Sum(k, "first_null") \in Nat /\ Sum(k, "first_found") \in Nat
       /\ Sum(k, "null_to_found") \in Nat
  BY <1>11, <1>14
<1>a. /\ Cardinality(In(e, "NullSeen")) = Cardinality(In(k, "NullSeen")) - N
      /\ Cardinality(In(e, "Found")) = Cardinality(In(k, "Found")) - F
  BY <1>5, <1>6
<1>b. /\ Sum(e, "first_null") = Sum(k, "first_null")
      /\ Sum(e, "first_found") = Sum(k, "first_found")
      /\ Sum(e, "null_to_found") = Sum(k, "null_to_found")
  BY <1>12
<1>c. N \in Nat /\ F \in Nat
      /\ Cardinality(In(k, "NullSeen")) \in Nat /\ Cardinality(In(k, "Found")) \in Nat
  BY <1>5
<1>16. Missing(e) = Missing(k)
  BY <1>13, <1>15, <1>a, <1>b, <1>c DEF Missing
<1>17. Finds(e) = Finds(k)
  BY <1>13, <1>15, <1>a, <1>b, <1>c DEF Finds
<1> QED
  BY <1>6, <1>10, <1>12, <1>16, <1>17 DEF e

(* Counting touches one counter. *)
LEMMA CountFacts ==
    ASSUME NEW k \in Core, NEW c \in Commitments, NEW counter \in Counters, NEW n \in Nat
    PROVE  LET m == Count(k, c, counter, n)
           IN  /\ m \in Core /\ m.state = k.state /\ m.lru = k.lru
               /\ Sum(m, counter) = Sum(k, counter) + n
               /\ \A other \in Counters \ {counter} : Sum(m, other) = Sum(k, other)
               /\ \A other \in Counters : Sum(k, other) \in Nat
<1> DEFINE m == Count(k, c, counter, n)
           w == k.windows
           s == w[c][counter] + n
<1>1. w \in [Commitments -> [Counters -> Nat]]
  BY DEF Core
<1>2. s \in Nat
  BY <1>1
<1>3. m.windows = [w EXCEPT ![c] = [w[c] EXCEPT ![counter] = s]]
      /\ m.state = k.state /\ m.lru = k.lru
      /\ m = [k EXCEPT !.windows = m.windows]
  BY <1>1 DEF Count, Core
<1> HIDE DEF m, w, s
<1>4. /\ m.windows \in [Commitments -> [Counters -> Nat]]
      /\ m.windows[c][counter] = s
      /\ \A d \in Commitments, other \in Counters :
            d # c \/ other # counter => m.windows[d][other] = w[d][other]
  BY <1>1, <1>2, <1>3
<1>5. m \in Core
  BY <1>3, <1>4 DEF Core
<1>6. /\ Commitments = {"finalized", "unknown"}
      /\ \A d \in Commitments, other \in Counters : w[d][other] \in Nat
  BY <1>1 DEF Commitments
<1>7. \A other \in Counters : Sum(k, other) = w["finalized"][other] + w["unknown"][other]
  BY DEF Sum, w
<1>8. \A other \in Counters : Sum(m, other) = m.windows["finalized"][other]
                                                + m.windows["unknown"][other]
  BY DEF Sum
<1>9. m.windows[c][counter] = w[c][counter] + n
  BY <1>4 DEF s
<1>10. Sum(m, counter) = Sum(k, counter) + n
  <2>1. CASE c = "finalized"
    <3>1. m.windows["unknown"][counter] = w["unknown"][counter]
      BY <1>4, <1>6, <2>1
    <3> QED
      BY <1>6, <1>7, <1>8, <1>9, <2>1, <3>1
  <2>2. CASE c = "unknown"
    <3>1. m.windows["finalized"][counter] = w["finalized"][counter]
      BY <1>4, <1>6, <2>2
    <3> QED
      BY <1>6, <1>7, <1>8, <1>9, <2>2, <3>1
  <2> QED
    BY <1>6, <2>1, <2>2
<1>11. \A other \in Counters \ {counter} : Sum(m, other) = Sum(k, other)
  BY <1>4, <1>6, <1>7, <1>8
<1>12. \A other \in Counters : Sum(k, other) \in Nat
  BY <1>6, <1>7
<1> QED
  BY <1>3, <1>5, <1>10, <1>11, <1>12 DEF m

(* What a core remembers depends on its map and LRU only. *)
LEMMA SameMap ==
    ASSUME NEW k, NEW m \in Core, m.state = k.state, m.lru = k.lru
    PROVE  /\ Seen(m) = Seen(k) /\ \A l : In(m, l) = In(k, l)
           /\ Sound(k) => Sound(m)
<1>1. Seen(m) = Seen(k) /\ \A l : In(m, l) = In(k, l)
  BY DEF Seen, In
<1>2. Mirrored(k) => Mirrored(m)
  BY <1>1 DEF Mirrored, Place
<1>3. Recorded(k) => Recorded(m)
  BY DEF Recorded
<1> QED
  BY <1>1, <1>2, <1>3 DEF Sound

(* A set of numbers that is not empty has a least one. *)
LEMMA LeastNat ==
    ASSUME NEW T \in SUBSET Nat, T # {}
    PROVE  \E x \in T : \A y \in T : x <= y
<1>1. PICK x \in T : \A y \in T : ~(<<y, x>> \in OpToRel(<, Nat))
  <2>1. T \subseteq Nat
    OBVIOUS
  <2> QED
    BY <2>1, NatLessThanWellFounded, WFMin
<1>2. ASSUME NEW y \in T PROVE x <= y
  <2>1. y < x => <<y, x>> \in {ss \in Nat \X Nat : ss[1] < ss[2]}
    OBVIOUS
  <2>2. ~(y < x)
    BY <1>1, <2>1 DEF OpToRel
  <2> QED
    BY <2>2
<1> QED
  BY <1>2

(* The LRU has a first place unless it is empty. *)
LEMMA FirstFacts ==
    ASSUME NEW lru \in SUBSET (Nat \X Fingerprint), lru # {}
    PROVE  First(lru) \in lru
<1> DEFINE Least(x) == \A y \in lru : x[1] < y[1] \/ (x[1] = y[1] /\ x[2] <= y[2])
           T == {x[1] : x \in lru}
<1>0. \A x \in lru : x[1] \in Nat /\ x[2] \in Nat
  <2>1. Fingerprint \subseteq Nat
    BY HistoricalAssumption
  <2> QED
    BY <2>1
<1>1. PICK t \in T : \A y \in T : t <= y
  <2>1. T \in SUBSET Nat /\ T # {}
    BY <1>0
  <2> HIDE DEF T
  <2> QED
    BY <2>1, LeastNat
<1> DEFINE U == {x[2] : x \in {z \in lru : z[1] = t}}
<1>2. PICK u \in U : \A y \in U : u <= y
  <2>1. U \in SUBSET Nat /\ U # {}
    BY <1>0
  <2> HIDE DEF U
  <2> QED
    BY <2>1, LeastNat
<1>3. PICK x \in lru : x[1] = t /\ x[2] = u
  OBVIOUS
<1>4. Least(x)
  <2> SUFFICES ASSUME NEW y \in lru
               PROVE  x[1] < y[1] \/ (x[1] = y[1] /\ x[2] <= y[2])
    OBVIOUS
  <2>1. t <= y[1]
    BY <1>1
  <2>2. y[1] = t => u <= y[2]
    BY <1>2
  <2> QED
    BY <1>0, <1>3, <2>1, <2>2
<1>5. First(lru) = CHOOSE z \in lru : Least(z)
  BY DEF First
<1> HIDE DEF Least
<1> QED
  BY <1>4, <1>5

(* A call that is observed gets its place in the LRU. *)
Observed(k, f, c, found, t) ==
    [state |-> [k.state EXCEPT ![f] =
                    [lifecycle |-> lifecycle(k.state[f].lifecycle, found),
                     commitment |-> c, last_seen_at |-> t]],
     lru |-> unlink(k, f) \cup {<<t, f>>},
     windows |-> k.windows]

LEMMA ObservedFacts ==
    ASSUME NEW k, Sound(k), NEW f \in Fingerprint, NEW c \in Commitments,
           NEW found \in BOOLEAN, NEW t \in Nat
    PROVE  LET o == Observed(k, f, c, found, t)
               new == lifecycle(k.state[f].lifecycle, found)
           IN  /\ Sound(o) /\ o.windows = k.windows
               /\ Seen(o) = Seen(k) \cup {f}
               /\ new \in {"NullSeen", "Found"}
               /\ \A l \in {"NullSeen", "Found"} :
                    In(o, l) = IF l = new THEN In(k, l) \cup {f} ELSE In(k, l) \ {f}
<1> DEFINE o == Observed(k, f, c, found, t)
           new == lifecycle(k.state[f].lifecycle, found)
           entry == [lifecycle |-> new, commitment |-> c, last_seen_at |-> t]
<1>1. /\ k.state \in [Fingerprint -> StateEntry] /\ k.lru \in SUBSET (Nat \X Fingerprint)
      /\ k.windows \in [Commitments -> [Counters -> Nat]]
      /\ k.lru = {Place(k, g) : g \in Seen(k)} /\ IsFiniteSet(Seen(k)) /\ Recorded(k)
  BY DEF Sound, Core, Mirrored
<1>2. new \in {"NullSeen", "Found"}
  BY DEF lifecycle
<1> HIDE DEF new
<1>3. entry \in StateEntry /\ entry # NoEntry /\ entry.lifecycle = new /\ entry.last_seen_at = t
  <2>1. entry.lifecycle # NoEntry.lifecycle
    BY <1>2 DEF NoEntry
  <2> QED
    BY <1>2, <2>1 DEF StateEntry, Lifecycle
<1>4. /\ o.state = [k.state EXCEPT ![f] = entry]
      /\ o.lru = (k.lru \ {Place(k, f)}) \cup {<<t, f>>}
      /\ o.windows = k.windows
      /\ o = [state |-> o.state, lru |-> o.lru, windows |-> o.windows]
  BY DEF Observed, unlink, Place, new
<1> HIDE DEF o, entry
<1>5. /\ o.state \in [Fingerprint -> StateEntry]
      /\ \A g \in Fingerprint : o.state[g] = IF g = f THEN entry ELSE k.state[g]
  BY <1>1, <1>3, <1>4
<1>6. Seen(o) = Seen(k) \cup {f}
  BY <1>3, <1>5 DEF Seen
<1>7. \A l \in {"NullSeen", "Found"} :
            In(o, l) = IF l = new THEN In(k, l) \cup {f} ELSE In(k, l) \ {f}
  <2> SUFFICES ASSUME NEW l \in {"NullSeen", "Found"}
               PROVE  In(o, l) = IF l = new THEN In(k, l) \cup {f} ELSE In(k, l) \ {f}
    OBVIOUS
  <2> QED
    BY <1>3, <1>5 DEF In
<1>8. Recorded(o)
  BY <1>1, <1>2, <1>3, <1>5 DEF Recorded
<1>9. o.lru \in SUBSET (Nat \X Fingerprint)
  BY <1>1, <1>4
<1>10. o \in Core
  BY <1>1, <1>4, <1>5, <1>9 DEF Core
<1>11. Mirrored(o)
  <2>1. Place(o, f) = <<t, f>>
    BY <1>3, <1>5 DEF Place
  <2>2. \A g \in Fingerprint \ {f} : Place(o, g) = Place(k, g)
    BY <1>5 DEF Place
  <2>3. \A x \in k.lru : x[2] \in Seen(k) /\ x[2] \in Fingerprint /\ x = Place(k, x[2])
    BY Places
  <2>4. ASSUME NEW x \in o.lru PROVE x \in {Place(o, g) : g \in Seen(o)}
    <3>1. CASE x = <<t, f>>
      BY <1>6, <2>1, <3>1
    <3>2. CASE x \in k.lru /\ x # Place(k, f)
      <4>1. x[2] \in Seen(k) /\ x[2] \in Fingerprint \ {f} /\ x = Place(k, x[2])
        BY <2>3, <3>2
      <4>2. x = Place(o, x[2]) /\ x[2] \in Seen(o)
        BY <1>6, <2>2, <4>1
      <4> QED
        BY <4>2
    <3> QED
      BY <1>4, <3>1, <3>2
  <2>5. ASSUME NEW g \in Seen(o) PROVE Place(o, g) \in o.lru
    <3>1. CASE g = f
      BY <1>4, <2>1, <3>1
    <3>2. CASE g # f
      <4>1. g \in Seen(k) /\ g \in Fingerprint
        BY <1>6, <3>2 DEF Seen
      <4>2. Place(o, g) = Place(k, g) /\ Place(k, g) \in k.lru
        BY <1>1, <2>2, <3>2, <4>1
      <4>3. Place(k, g) # Place(k, f)
        BY <3>2 DEF Place
      <4> QED
        BY <1>4, <4>2, <4>3
    <3> QED
      BY <3>1, <3>2
  <2> QED
    BY <2>4, <2>5 DEF Mirrored
<1>12. IsFiniteSet(Seen(o))
  BY <1>1, <1>6, FS_AddElement
<1> QED
  BY <1>2, <1>4, <1>6, <1>7, <1>8, <1>10, <1>11, <1>12 DEF Sound, o, new

-----------------------------------------------------------------------------
(* The operations of the worker on a core within its capacity. *)
Bounded(k) == Sound(k) /\ Cardinality(Seen(k)) <= StateCapacity

(* m is k after n more calls, with its lifecycles as balanced as before. *)
Counted(k, m, n) ==
    /\ Sum(m, "logical") = Sum(k, "logical") + n
    /\ Missing(m) = Missing(k) /\ Finds(m) = Finds(k)

LEMMA Numbers ==
    ASSUME NEW k, Sound(k)
    PROVE  /\ \A counter \in Counters : Sum(k, counter) \in Nat
           /\ Missing(k) \in Int /\ Finds(k) \in Int
           /\ Cardinality(Seen(k)) \in Nat
           /\ \A l \in {"NullSeen", "Found"} : Cardinality(In(k, l)) \in Nat
<1>1. k.windows \in [Commitments -> [Counters -> Nat]] /\ IsFiniteSet(Seen(k))
  BY DEF Sound, Core
<1>2. \A counter \in Counters : Sum(k, counter) \in Nat
  BY <1>1 DEF Sum, Commitments
<1>3. \A l \in {"NullSeen", "Found"} : Cardinality(In(k, l)) \in Nat
  BY Places, FS_CardinalityType
<1>4. /\ Sum(k, "evicted") \in Nat /\ Sum(k, "unresolved") \in Nat
      /\ Sum(k, "first_null") \in Nat /\ Sum(k, "first_found") \in Nat
      /\ Sum(k, "null_to_found") \in Nat
  BY <1>2 DEF Counters
<1>5. Cardinality(In(k, "NullSeen")) \in Nat /\ Cardinality(In(k, "Found")) \in Nat
  BY <1>3
<1>6. Missing(k) \in Int /\ Finds(k) \in Int
  BY <1>4, <1>5 DEF Missing, Finds
<1> QED
  BY <1>1, <1>2, <1>3, <1>6, FS_CardinalityType

LEMMA EvictBounded ==
    ASSUME NEW k, Sound(k), NEW gone \in SUBSET k.lru
    PROVE  /\ Bounded(k) => Bounded(evict(k, gone))
           /\ Counted(k, evict(k, gone), 0)
<1> DEFINE e == evict(k, gone)
<1>1. /\ Sound(e) /\ Seen(e) \in SUBSET Seen(k)
      /\ Sum(e, "logical") = Sum(k, "logical")
      /\ Missing(e) = Missing(k) /\ Finds(e) = Finds(k)
  BY EvictFacts
<1>2. Sum(k, "logical") \in Nat
  BY Numbers DEF Counters
<1> HIDE DEF e
<1>3. Cardinality(Seen(e)) <= Cardinality(Seen(k))
  BY <1>1, FS_Subset DEF Sound
<1>4. Cardinality(Seen(e)) \in Nat /\ Cardinality(Seen(k)) \in Nat /\ StateCapacity \in Nat
  BY <1>1, Numbers, HistoricalAssumption
<1>5. Bounded(k) => Bounded(e)
  BY <1>1, <1>3, <1>4 DEF Bounded
<1>6. Counted(k, e, 0)
  BY <1>1, <1>2 DEF Counted
<1> QED
  BY <1>5, <1>6 DEF e

(* A transition moves one call between lifecycles and counts it. *)
LEMMA TransitionCounted ==
    ASSUME NEW k, Sound(k), NEW f \in Fingerprint, NEW c \in Commitments,
           NEW found \in BOOLEAN, NEW t \in Nat
    PROVE  LET m == Count(Observed(k, f, c, found, t), c,
                          TransitionName(k.state[f].lifecycle, found), 1)
           IN  Sound(m) /\ Seen(m) = Seen(k) \cup {f} /\ Counted(k, m, 0)
<1> DEFINE o == Observed(k, f, c, found, t)
           previous == k.state[f].lifecycle
           new == lifecycle(previous, found)
           name == TransitionName(previous, found)
           m == Count(o, c, name, 1)
           N == Cardinality(In(k, "NullSeen"))
           F == Cardinality(In(k, "Found"))
<1>1. previous \in Lifecycle
  BY DEF Sound, Core, StateEntry
<1>2. /\ Sound(o) /\ o.windows = k.windows /\ Seen(o) = Seen(k) \cup {f}
      /\ In(o, "NullSeen") = IF "NullSeen" = new THEN In(k, "NullSeen") \cup {f}
                                                 ELSE In(k, "NullSeen") \ {f}
      /\ In(o, "Found") = IF "Found" = new THEN In(k, "Found") \cup {f}
                                           ELSE In(k, "Found") \ {f}
  BY ObservedFacts
<1>3. /\ f \in In(k, "NullSeen") <=> previous = "NullSeen"
      /\ f \in In(k, "Found") <=> previous = "Found"
  BY DEF In
<1>4. IsFiniteSet(In(k, "NullSeen")) /\ IsFiniteSet(In(k, "Found")) /\ N \in Nat /\ F \in Nat
  BY Places, FS_CardinalityType
<1>5. /\ name \in Counters \ {"logical", "evicted", "unresolved"}
      /\ name = CASE previous = "none"     -> IF found THEN "first_found" ELSE "first_null"
                  [] previous = "NullSeen" -> IF found THEN "null_to_found" ELSE "null_repeat"
                  [] previous = "Found"    -> IF found THEN "found_repeat" ELSE "regression"
      /\ new = IF found \/ previous = "Found" THEN "Found" ELSE "NullSeen"
  BY <1>1 DEF TransitionName, Counters, Lifecycle, lifecycle
<1> HIDE DEF o, name, new, previous
<1>6. o \in Core /\ name \in Counters
  BY <1>2, <1>5 DEF Sound
<1>7. /\ m \in Core /\ m.state = o.state /\ m.lru = o.lru
      /\ Sum(m, name) = Sum(o, name) + 1
      /\ \A other \in Counters \ {name} : Sum(m, other) = Sum(o, other)
  BY <1>6, CountFacts
<1> HIDE DEF m
<1>8. Sound(m) /\ Seen(m) = Seen(o) /\ \A l : In(m, l) = In(o, l)
  BY <1>2, <1>7, SameMap
<1>9. /\ \A counter \in Counters : Sum(o, counter) = Sum(k, counter)
      /\ \A counter \in Counters : Sum(k, counter) \in Nat
  BY <1>2, Numbers DEF Sum
<1>10. Cardinality(In(m, "NullSeen")) = IF "NullSeen" = new
            THEN (IF previous = "NullSeen" THEN N ELSE N + 1)
            ELSE (IF previous = "NullSeen" THEN N - 1 ELSE N)
  <2> DEFINE S == In(k, "NullSeen")
  <2>1. In(m, "NullSeen") = IF "NullSeen" = new THEN S \cup {f} ELSE S \ {f}
    BY <1>2, <1>8
  <2>2. f \in S <=> previous = "NullSeen"
    BY <1>3
  <2>3. IsFiniteSet(S) /\ N = Cardinality(S)
    BY <1>4
  <2> HIDE DEF S, N
  <2>4. Cardinality(S \cup {f}) = IF f \in S THEN Cardinality(S) ELSE Cardinality(S) + 1
    BY <2>3, FS_AddElement
  <2>5. Cardinality(S \ {f}) = IF f \in S THEN Cardinality(S) - 1 ELSE Cardinality(S)
    BY <2>3, FS_RemoveElement
  <2> QED
    BY <2>1, <2>2, <2>3, <2>4, <2>5
<1>11. Cardinality(In(m, "Found")) = IF "Found" = new
            THEN (IF previous = "Found" THEN F ELSE F + 1)
            ELSE (IF previous = "Found" THEN F - 1 ELSE F)
  <2> DEFINE S == In(k, "Found")
  <2>1. In(m, "Found") = IF "Found" = new THEN S \cup {f} ELSE S \ {f}
    BY <1>2, <1>8
  <2>2. f \in S <=> previous = "Found"
    BY <1>3
  <2>3. IsFiniteSet(S) /\ F = Cardinality(S)
    BY <1>4
  <2> HIDE DEF S, F
  <2>4. Cardinality(S \cup {f}) = IF f \in S THEN Cardinality(S) ELSE Cardinality(S) + 1
    BY <2>3, FS_AddElement
  <2>5. Cardinality(S \ {f}) = IF f \in S THEN Cardinality(S) - 1 ELSE Cardinality(S)
    BY <2>3, FS_RemoveElement
  <2> QED
    BY <2>1, <2>2, <2>3, <2>4, <2>5
<1> DEFINE Of(counter) == IF counter = name THEN Sum(k, counter) + 1 ELSE Sum(k, counter)
<1>12. \A counter \in Counters : Sum(m, counter) = Of(counter)
  BY <1>7, <1>9
<1>13. /\ Sum(m, "first_null") = Of("first_null") /\ Sum(m, "first_found") = Of("first_found")
       /\ Sum(m, "null_to_found") = Of("null_to_found") /\ Sum(m, "evicted") = Of("evicted")
       /\ Sum(m, "unresolved") = Of("unresolved") /\ Sum(m, "logical") = Of("logical")
  BY <1>12 DEF Counters
<1>14. /\ Sum(k, "first_null") \in Nat /\ Sum(k, "first_found") \in Nat
       /\ Sum(k, "null_to_found") \in Nat /\ Sum(k, "evicted") \in Nat
       /\ Sum(k, "unresolved") \in Nat /\ Sum(k, "logical") \in Nat
  BY <1>9 DEF Counters
<1>15. /\ Sum(m, "logical") = Sum(k, "logical") + 0
       /\ Sum(m, "evicted") = Sum(k, "evicted") /\ Sum(m, "unresolved") = Sum(k, "unresolved")
  <2>1. name # "logical" /\ name # "evicted" /\ name # "unresolved"
    BY <1>5
  <2>2. Sum(m, "logical") = Sum(k, "logical")
    BY <1>13, <2>1
  <2> QED
    BY <1>13, <1>14, <2>1, <2>2
<1> DEFINE Same == Missing(m) = Missing(k) /\ Finds(m) = Finds(k)
<1>16. ASSUME previous = "none" /\ found PROVE Same
  <2>1. name = "first_found" /\ new = "Found"
    BY <1>5, <1>16
  <2>2. /\ Sum(m, "first_null") = Sum(k, "first_null")
        /\ Sum(m, "first_found") = Sum(k, "first_found") + 1
        /\ Sum(m, "null_to_found") = Sum(k, "null_to_found")
        /\ Cardinality(In(m, "NullSeen")) = N /\ Cardinality(In(m, "Found")) = F + 1
    BY <1>10, <1>11, <1>13, <1>16, <2>1
  <2> QED
    BY <1>4, <1>14, <1>15, <2>2 DEF Missing, Finds
<1>17. ASSUME previous = "none" /\ ~found PROVE Same
  <2>1. name = "first_null" /\ new = "NullSeen"
    BY <1>5, <1>17
  <2>2. /\ Sum(m, "first_null") = Sum(k, "first_null") + 1
        /\ Sum(m, "first_found") = Sum(k, "first_found")
        /\ Sum(m, "null_to_found") = Sum(k, "null_to_found")
        /\ Cardinality(In(m, "NullSeen")) = N + 1 /\ Cardinality(In(m, "Found")) = F
    BY <1>10, <1>11, <1>13, <1>17, <2>1
  <2> QED
    BY <1>4, <1>14, <1>15, <2>2 DEF Missing, Finds
<1>18. ASSUME previous = "NullSeen" /\ found PROVE Same
  <2>1. name = "null_to_found" /\ new = "Found"
    BY <1>5, <1>18
  <2>2. /\ Sum(m, "first_null") = Sum(k, "first_null")
        /\ Sum(m, "first_found") = Sum(k, "first_found")
        /\ Sum(m, "null_to_found") = Sum(k, "null_to_found") + 1
        /\ Cardinality(In(m, "NullSeen")) = N - 1 /\ Cardinality(In(m, "Found")) = F + 1
    BY <1>10, <1>11, <1>13, <1>18, <2>1
  <2> QED
    BY <1>4, <1>14, <1>15, <2>2 DEF Missing, Finds
<1>19. ASSUME (previous = "NullSeen" /\ ~found) \/ previous = "Found" PROVE Same
  <2>1. /\ name \in {"null_repeat", "found_repeat", "regression"}
        /\ new = previous
    BY <1>5, <1>19
  <2>2. /\ Sum(m, "first_null") = Sum(k, "first_null")
        /\ Sum(m, "first_found") = Sum(k, "first_found")
        /\ Sum(m, "null_to_found") = Sum(k, "null_to_found")
    BY <1>13, <2>1
  <2>3. Cardinality(In(m, "NullSeen")) = N /\ Cardinality(In(m, "Found")) = F
    BY <1>10, <1>11, <1>19, <2>1
  <2> QED
    BY <1>4, <1>14, <1>15, <2>2, <2>3 DEF Missing, Finds
<1>20. Same
  BY <1>1, <1>16, <1>17, <1>18, <1>19 DEF Lifecycle
<1> QED
  BY <1>2, <1>8, <1>15, <1>20 DEF Counted, m, o, name, previous

(* It evicts the first place of the LRU when the map outgrows its capacity *)
(* by one.                                                                 *)
LEMMA TransitionFacts ==
    ASSUME NEW k, Bounded(k), NEW f \in Fingerprint, NEW c \in Commitments,
           NEW found \in BOOLEAN, NEW t \in Nat
    PROVE  LET x == transition(k, f, c, found, t)
           IN  Bounded(x) /\ Counted(k, x, 0)
<1> DEFINE m == Count(Observed(k, f, c, found, t), c,
                      TransitionName(k.state[f].lifecycle, found), 1)
           x == transition(k, f, c, found, t)
<1>1. Sound(m) /\ Seen(m) = Seen(k) \cup {f} /\ Counted(k, m, 0)
  BY TransitionCounted DEF Bounded
<1>2. x = IF Cardinality(Seen(m)) > StateCapacity THEN evict(m, {First(m.lru)}) ELSE m
  BY DEF transition, Observed
<1> HIDE DEF m, x
<1>3. /\ Cardinality(Seen(m)) \in Nat /\ Cardinality(Seen(k)) \in Nat
      /\ StateCapacity \in Nat /\ Cardinality(Seen(k)) <= StateCapacity
      /\ IsFiniteSet(Seen(k)) /\ IsFiniteSet(Seen(m))
  BY <1>1, Numbers, HistoricalAssumption DEF Bounded, Sound
<1>4. Cardinality(Seen(m)) <= Cardinality(Seen(k)) + 1
  BY <1>1, <1>3, FS_AddElement
<1>5. ASSUME ~(Cardinality(Seen(m)) > StateCapacity) PROVE Bounded(x) /\ Counted(k, x, 0)
  BY <1>1, <1>2, <1>3, <1>5 DEF Bounded
<1>6. ASSUME Cardinality(Seen(m)) > StateCapacity PROVE Bounded(x) /\ Counted(k, x, 0)
  <2> DEFINE gone == {First(m.lru)}
  <2>1. m.lru # {} /\ m.lru \in SUBSET (Nat \X Fingerprint)
    <3>1. Seen(m) # {}
      BY <1>1
    <3> QED
      BY <1>1, <3>1, Places DEF Sound, Core
  <2>2. First(m.lru) \in m.lru
    BY <2>1, FirstFacts
  <2>3. gone \in SUBSET m.lru
    BY <2>2
  <2>4. /\ Sound(x) /\ Seen(x) = Seen(m) \ {y[2] : y \in gone} /\ Counted(m, x, 0)
    <3>1. x = evict(m, gone)
      BY <1>2, <1>6
    <3> HIDE DEF gone
    <3> QED
      BY <1>1, <2>3, <3>1, EvictFacts, EvictBounded
  <2> DEFINE g == First(m.lru)[2]
  <2>5. Seen(x) = Seen(m) \ {g} /\ g \in Seen(m)
    BY <1>1, <2>2, <2>4, Places
  <2> HIDE DEF g
  <2>6. Cardinality(Seen(x)) = Cardinality(Seen(m)) - 1
    BY <1>3, <2>5, FS_RemoveElement
  <2>7. Cardinality(Seen(x)) <= StateCapacity
    BY <1>3, <1>4, <2>6
  <2>8. Counted(k, x, 0)
    <3>1. Sum(k, "logical") \in Nat
      BY Numbers DEF Bounded, Counters
    <3> QED
      BY <1>1, <2>4, <3>1 DEF Counted
  <2> QED
    BY <2>4, <2>7, <2>8 DEF Bounded
<1> QED
  BY <1>5, <1>6 DEF x

LEMMA CountedTwice ==
    ASSUME NEW k, Sound(k), NEW m, NEW x, NEW a \in Nat, NEW b \in Nat,
           Counted(k, m, a), Counted(m, x, b)
    PROVE  Counted(k, x, a + b)
<1>1. Sum(k, "logical") \in Nat
  BY Numbers DEF Counters
<1> QED
  BY <1>1 DEF Counted

LEMMA CountCall ==
    ASSUME NEW k, Bounded(k), NEW c \in Commitments, NEW n \in Nat,
           NEW counter \in {"logical", "analyzed"}
    PROVE  LET m == Count(k, c, counter, n)
           IN  Bounded(m) /\ Counted(k, m, IF counter = "logical" THEN n ELSE 0)
<1> DEFINE m == Count(k, c, counter, n)
<1>1. Sound(k) /\ k \in Core /\ Cardinality(Seen(k)) <= StateCapacity
  BY DEF Bounded, Sound
<1>2. counter \in Counters
  BY DEF Counters
<1>3. /\ m \in Core /\ m.state = k.state /\ m.lru = k.lru
      /\ Sum(m, counter) = Sum(k, counter) + n
      /\ \A other \in Counters \ {counter} : Sum(m, other) = Sum(k, other)
      /\ \A other \in Counters : Sum(k, other) \in Nat
  BY <1>1, <1>2, CountFacts
<1> HIDE DEF m
<1>4. Sound(m) /\ Seen(m) = Seen(k) /\ \A l : In(m, l) = In(k, l)
  BY <1>1, <1>3, SameMap
<1>5. \A other \in {"first_null", "null_to_found", "unresolved", "first_found", "evicted"} :
            Sum(m, other) = Sum(k, other)
  BY <1>3 DEF Counters
<1>6. Missing(m) = Missing(k) /\ Finds(m) = Finds(k)
  BY <1>4, <1>5 DEF Missing, Finds
<1>7. Bounded(m)
  BY <1>1, <1>4 DEF Bounded
<1>8. Sum(m, "logical") = Sum(k, "logical") + (IF counter = "logical" THEN n ELSE 0)
  <2>1. "logical" \in Counters
    BY DEF Counters
  <2>2. Sum(k, "logical") \in Nat
    BY <1>3, <2>1
  <2>3. CASE counter = "logical"
    BY <1>3, <2>3
  <2>4. CASE counter # "logical"
    BY <1>3, <2>1, <2>2, <2>4
  <2> QED
    BY <2>3, <2>4
<1> QED
  BY <1>6, <1>7, <1>8 DEF Counted, m

(* The worker counts every eligible call of a job it takes, once, however  *)
(* old the job's stamp is.                                                 *)
LEMMA ProcessFacts ==
    ASSUME NEW k, Bounded(k), NEW job \in Job, NEW t \in Nat
    PROVE  Bounded(process(k, job, t)) /\ Counted(k, process(k, job, t), job.calls)
<1> DEFINE e == expire(k, t)
           x == process(k, job, t)
           c == job.commitment
<1>0. /\ job.calls \in Nat /\ job.parsed \in 0..job.calls
      /\ job.class = "Single" => job.calls = 1
      /\ job.fingerprint \in Fingerprint \cup {NoFingerprint} /\ c \in Commitments
      /\ "unknown" \in Commitments
  BY JobAssumption DEF Commitments
<1>1. Bounded(e) /\ Counted(k, e, 0) /\ Sound(k) /\ Sound(e)
  <2>1. {y \in k.lru : t - y[1] >= StateTtl} \in SUBSET k.lru
    OBVIOUS
  <2>2. Bounded(e) /\ Counted(k, e, 0)
    BY <2>1, EvictBounded DEF expire, Bounded
  <2> QED
    BY <2>2 DEF Bounded
<1> HIDE DEF e, x
<1>2. CASE job.class = "Single"
  <2> DEFINE l == Count(e, c, "logical", 1)
             a == Count(l, c, "analyzed", 1)
             parsed == parse_response(job.answer)
  <2>1. Bounded(l) /\ Counted(e, l, 1) /\ Sound(l)
    <3>1. Bounded(l) /\ Counted(e, l, 1)
      BY <1>0, <1>1, CountCall
    <3> QED
      BY <3>1 DEF Bounded
  <2> HIDE DEF l
  <2>2. Bounded(a) /\ Counted(l, a, 0) /\ Sound(a)
    <3>1. Bounded(a) /\ Counted(l, a, 0)
      BY <1>0, <2>1, CountCall
    <3> QED
      BY <3>1 DEF Bounded
  <2>3. x = IF job.fingerprint = NoFingerprint \/ parsed \in {"RpcError", "ParseError"}
            THEN a ELSE transition(a, job.fingerprint, c, parsed = "Found", t)
    BY <1>2 DEF x, process, process_single, a, l, e
  <2> HIDE DEF a, parsed
  <2>4. Bounded(x) /\ Counted(a, x, 0)
    <3>1. CASE x = a
      <4>1. Sum(a, "logical") \in Nat
        BY <2>2, Numbers DEF Counters
      <4> QED
        BY <2>2, <3>1, <4>1 DEF Counted
    <3>2. CASE x = transition(a, job.fingerprint, c, parsed = "Found", t)
                /\ job.fingerprint # NoFingerprint
      <4>1. job.fingerprint \in Fingerprint
        BY <1>0, <3>2
      <4>2. (parsed = "Found") \in BOOLEAN
        OBVIOUS
      <4>3. \A found \in BOOLEAN :
                /\ Bounded(transition(a, job.fingerprint, c, found, t))
                /\ Counted(a, transition(a, job.fingerprint, c, found, t), 0)
        BY <1>0, <2>2, <4>1, TransitionFacts
      <4> QED
        BY <3>2, <4>2, <4>3
    <3> QED
      BY <2>3, <3>1, <3>2
  <2>5. Counted(k, l, 0 + 1)
    BY <1>1, <2>1, CountedTwice
  <2>6. Counted(k, a, 1)
    <3>1. Counted(k, a, (0 + 1) + 0)
      BY <1>1, <2>2, <2>5, CountedTwice
    <3> QED
      BY <3>1
  <2>7. Counted(k, x, 1)
    <3>1. Counted(k, x, 1 + 0)
      BY <1>1, <2>4, <2>6, CountedTwice
    <3> QED
      BY <3>1
  <2> QED
    BY <1>0, <1>2, <2>4, <2>7 DEF x
<1>3. CASE job.class # "Single"
  <2> DEFINE l == Count(e, c, "logical", job.parsed)
             rest == job.calls - job.parsed
  <2>0. job.parsed \in Nat /\ rest \in Nat /\ job.parsed + rest = job.calls
    BY <1>0
  <2>1. Bounded(l) /\ Counted(e, l, job.parsed)
    BY <1>0, <1>1, <2>0, CountCall
  <2>2. x = Count(l, "unknown", "logical", rest)
    BY <1>3 DEF x, process, process_batch, e
  <2> HIDE DEF l, rest
  <2>3. Bounded(x) /\ Counted(l, x, rest)
    BY <1>0, <2>0, <2>1, <2>2, CountCall
  <2>4. Counted(k, l, 0 + job.parsed)
    BY <1>1, <2>0, <2>1, CountedTwice
  <2>5. Counted(k, x, job.calls)
    <3>1. Counted(k, x, (0 + job.parsed) + rest) /\ (0 + job.parsed) + rest = job.calls
      BY <1>1, <2>0, <2>3, <2>4, CountedTwice
    <3> QED
      BY <3>1
  <2> QED
    BY <2>3, <2>5 DEF x
<1> QED
  BY <1>2, <1>3

-----------------------------------------------------------------------------
(* The invariant. *)
AnyJob == Job \cup {CHOOSE j \in Job : TRUE}
Offering == [pc : {"idle", "send", "drop", "reason"}, job : AnyJob, observed_at : Nat]
Message == [flush : BOOLEAN, job : AnyJob, observed_at : Nat]

HistoryTyped ==
    /\ now \in Nat
    /\ handler \in [Handler -> Offering]
    /\ queue \in Seq(Message)
    /\ flusher \in [pc : {"idle", "waiting", "granted", "sent", "done"}, before : Nat]
    /\ offered \in [calls : Nat, drops : Nat, accepted : Nat]
    /\ emitted.counts \in [Counters -> Nat]
    /\ worker.reply \in BOOLEAN

(* Whatever is on its way to the worker is a job. *)
RealJobs ==
    /\ \A h \in Handler : handler[h].pc = "send" => handler[h].job \in Job
    /\ \A i \in 1..Len(queue) : ~queue[i].flush => queue[i].job \in Job

(* The calls of a message, and s: the calls counted once the worker has    *)
(* taken the first i messages.                                             *)
Calls(m) == IF m.flush THEN 0 ELSE m.job.calls
Running(s, q, first, last) ==
    /\ s \in [0..Len(q) -> Nat]
    /\ s[0] = first /\ s[Len(q)] = last
    /\ \A i \in 1..Len(q) : s[i] = s[i - 1] + Calls(q[i])

(* The flush stands behind the calls accepted before it. *)
Behind(s, q, before) == \A i \in 1..Len(q) : q[i].flush => s[i] >= before

AccountedFor(q, first, last, before) ==
    \E s \in [0..Len(q) -> Nat] : Running(s, q, first, last) /\ Behind(s, q, before)

Accounted == AccountedFor(queue, Total("logical"), offered.accepted, flusher.before)

Flushing ==
    /\ \A i \in 1..Len(queue) : queue[i].flush => flusher.pc # "idle"
    /\ worker.reply => flusher.pc # "idle" /\ Total("logical") >= flusher.before
    /\ flusher.pc # "idle" => flusher.before <= offered.accepted
    /\ flusher.pc = "done" => emitted.counts["logical"] >= flusher.before

HistoryInv ==
    /\ HistoryTyped /\ RealJobs /\ Bounded(core) /\ LifecyclesBalance
    /\ Accounted /\ Flushing

(* A message at the end of the queue. *)
LEMMA AppendAccounted ==
    ASSUME NEW M, NEW q \in Seq(M), NEW m \in M, NEW first, NEW last \in Nat, NEW before \in Nat,
           Calls(m) \in Nat, m.flush => last >= before,
           AccountedFor(q, first, last, before)
    PROVE  AccountedFor(Append(q, m), first, last + Calls(m), before)
<1> DEFINE n == Len(q)
           r == Append(q, m)
           b == last + Calls(m)
<1>1. PICK s \in [0..n -> Nat] : Running(s, q, first, last) /\ Behind(s, q, before)
  BY DEF AccountedFor
<1>2. n \in Nat /\ b \in Nat
  BY LenProperties
<1>3. /\ Len(r) = n + 1 /\ r[n + 1] = m
      /\ \A i \in 1..n : r[i] = q[i]
  BY AppendProperties
<1>4. /\ s[0] = first /\ s[n] = last /\ \A i \in 1..n : s[i] = s[i - 1] + Calls(q[i])
      /\ \A i \in 1..n : q[i].flush => s[i] >= before
  BY <1>1 DEF Running, Behind
<1> DEFINE z == [i \in 0..(n + 1) |-> IF i <= n THEN s[i] ELSE b]
<1>b. b = last + Calls(m)
  OBVIOUS
<1> HIDE DEF r, b, n
<1>5. /\ z \in [0..(n + 1) -> Nat]
      /\ \A i \in 0..n : z[i] = s[i]
      /\ z[n + 1] = b
  BY <1>1, <1>2
<1> HIDE DEF z
<1>6. \A i \in 1..(n + 1) : i \in 1..n \/ i = n + 1
  BY <1>2
<1>7. ASSUME NEW i \in 1..(n + 1) PROVE z[i] = z[i - 1] + Calls(r[i])
  <2>1. CASE i \in 1..n
    <3>1. i \in 0..n /\ i - 1 \in 0..n
      BY <1>2, <2>1
    <3> QED
      BY <1>3, <1>4, <1>5, <2>1, <3>1
  <2>2. CASE i = n + 1
    <3>1. i - 1 = n /\ n \in 0..n
      BY <1>2, <2>2
    <3>2. z[i - 1] = last /\ z[i] = b /\ r[i] = m
      BY <1>3, <1>4, <1>5, <2>2, <3>1
    <3> QED
      BY <1>b, <3>2
  <2> QED
    BY <1>6, <2>1, <2>2
<1>8. ASSUME NEW i \in 1..(n + 1), r[i].flush PROVE z[i] >= before
  <2>1. CASE i \in 1..n
    <3>1. i \in 0..n
      BY <1>2, <2>1
    <3> QED
      BY <1>3, <1>4, <1>5, <1>8, <2>1, <3>1
  <2>2. CASE i = n + 1
    <3>1. z[i] = b /\ last >= before
      BY <1>3, <1>5, <1>8, <2>2
    <3> QED
      BY <1>b, <3>1
  <2> QED
    BY <1>6, <2>1, <2>2
<1>9. z[0] = first
  BY <1>2, <1>4, <1>5
<1>10. Running(z, r, first, b) /\ Behind(z, r, before)
  BY <1>3, <1>5, <1>7, <1>8, <1>9 DEF Running, Behind
<1>11. AccountedFor(r, first, b, before)
  BY <1>3, <1>5, <1>10 DEF AccountedFor
<1> QED
  BY <1>11 DEF r, b

(* The first message is taken: its calls are counted now, and a flush      *)
(* finds everything counted that it waited for.                            *)
LEMMA TailAccounted ==
    ASSUME NEW M, NEW q \in Seq(M), q # <<>>, NEW first, NEW last, NEW before,
           AccountedFor(q, first, last, before)
    PROVE  /\ AccountedFor(Tail(q), first + Calls(Head(q)), last, before)
           /\ Head(q).flush => first + Calls(Head(q)) >= before
<1> DEFINE n == Len(q)
           r == Tail(q)
           a == first + Calls(Head(q))
<1>1. PICK s \in [0..n -> Nat] : Running(s, q, first, last) /\ Behind(s, q, before)
  BY DEF AccountedFor
<1>2. n \in Nat \ {0} /\ Head(q) = q[1]
  BY EmptySeq
<1>3. /\ Len(r) = n - 1
      /\ \A i \in 1..(n - 1) : r[i] = q[i + 1]
  <2>1. Tail(q) \in Seq(M) /\ Len(Tail(q)) = n - 1 /\ \A i \in 1..Len(Tail(q)) : Tail(q)[i] = q[i + 1]
    BY <1>2, HeadTailProperties
  <2> QED
    BY <2>1
<1>4. /\ s[0] = first /\ s[n] = last /\ \A i \in 1..n : s[i] = s[i - 1] + Calls(q[i])
      /\ \A i \in 1..n : q[i].flush => s[i] >= before
  BY <1>1 DEF Running, Behind
<1>5. 1 \in 1..n /\ 1 - 1 = 0
  BY <1>2
<1>6. s[1] = a
  <2>1. s[1] = s[1 - 1] + Calls(q[1])
    BY <1>4, <1>5
  <2> QED
    BY <1>2, <1>4, <1>5, <2>1
<1>7. Head(q).flush => a >= before
  BY <1>2, <1>4, <1>5, <1>6
<1> DEFINE z == [i \in 0..(n - 1) |-> s[i + 1]]
<1> HIDE DEF r, a, n
<1>8. /\ \A i \in 0..(n - 1) : i + 1 \in 0..n
      /\ \A i \in 1..(n - 1) : i + 1 \in 1..n /\ (i + 1) - 1 = i /\ (i - 1) + 1 = i
                               /\ i \in 0..(n - 1) /\ i - 1 \in 0..(n - 1)
      /\ 0 \in 0..(n - 1) /\ n - 1 \in 0..(n - 1) /\ (n - 1) + 1 = n
  BY <1>2
<1>9. z \in [0..(n - 1) -> Nat] /\ \A i \in 0..(n - 1) : z[i] = s[i + 1]
  BY <1>8
<1> HIDE DEF z
<1>10. ASSUME NEW i \in 1..(n - 1)
       PROVE  z[i] = z[i - 1] + Calls(r[i]) /\ (r[i].flush => z[i] >= before)
  <2>1. z[i] = s[i + 1] /\ z[i - 1] = s[i] /\ r[i] = q[i + 1]
    <3>1. z[i - 1] = s[(i - 1) + 1]
      BY <1>8, <1>9
    <3> QED
      BY <1>3, <1>8, <1>9, <3>1
  <2>2. s[i + 1] = s[(i + 1) - 1] + Calls(q[i + 1]) /\ (q[i + 1].flush => s[i + 1] >= before)
    BY <1>4, <1>8
  <2> QED
    BY <1>8, <2>1, <2>2
<1>11. z[0] = a /\ z[n - 1] = last
  <2>1. z[0] = s[0 + 1] /\ z[n - 1] = s[(n - 1) + 1]
    BY <1>8, <1>9
  <2> QED
    BY <1>4, <1>6, <1>8, <2>1
<1>12. Running(z, r, a, last) /\ Behind(z, r, before)
  BY <1>3, <1>9, <1>10, <1>11 DEF Running, Behind
<1>13. AccountedFor(r, a, last, before)
  BY <1>3, <1>9, <1>12 DEF AccountedFor
<1> QED
  BY <1>7, <1>13 DEF r, a

-----------------------------------------------------------------------------
(* The totals: what was reported, and what the windows hold. *)
Reported(counts, k, counter) == counts[counter] + Sum(k, counter)

Balanced(counts, k) ==
    /\ Reported(counts, k, "first_null")
            = Reported(counts, k, "null_to_found") + Reported(counts, k, "unresolved")
              + Cardinality(In(k, "NullSeen"))
    /\ Reported(counts, k, "first_found") + Reported(counts, k, "null_to_found")
            = (Reported(counts, k, "evicted") - Reported(counts, k, "unresolved"))
              + Cardinality(In(k, "Found"))

LEMMA Totals ==
    /\ \A counter : Total(counter) = Reported(emitted.counts, core, counter)
    /\ \A counter : Total(counter)' = Reported(emitted.counts', core', counter)
    /\ LifecyclesBalance <=> Balanced(emitted.counts, core)
    /\ LifecyclesBalance' <=> Balanced(emitted.counts', core')
<1>1. \A counter : Total(counter) = Reported(emitted.counts, core, counter)
  BY DEF Total, take_event, Reported, Sum, Commitments
<1>2. \A counter : Total(counter)' = Reported(emitted.counts', core', counter)
  BY DEF Total, take_event, Reported, Sum, Commitments
<1>3. LifecyclesBalance <=> Balanced(emitted.counts, core)
  BY <1>1 DEF LifecyclesBalance, Balanced, In
<1>4. LifecyclesBalance' <=> Balanced(emitted.counts', core')
  BY <1>2 DEF LifecyclesBalance, Balanced, In
<1> QED
  BY <1>1, <1>2, <1>3, <1>4

(* The balance needs of the core only what it owes. *)
LEMMA BalanceKept ==
    ASSUME NEW k, Sound(k), NEW m, Sound(m), Missing(m) = Missing(k), Finds(m) = Finds(k),
           NEW counts \in [Counters -> Nat], Balanced(counts, k)
    PROVE  Balanced(counts, m)
<1>1. \A counter \in {"first_null", "null_to_found", "unresolved", "first_found", "evicted"} :
            Sum(k, counter) \in Nat /\ Sum(m, counter) \in Nat /\ counts[counter] \in Nat
  BY Numbers DEF Counters
<1>2. \A l \in {"NullSeen", "Found"} :
            Cardinality(In(k, l)) \in Nat /\ Cardinality(In(m, l)) \in Nat
  BY Numbers
<1> DEFINE N == Cardinality(In(k, "NullSeen"))
           F == Cardinality(In(k, "Found"))
<1>3. Reported(counts, k, "first_null")
        = Reported(counts, k, "null_to_found") + Reported(counts, k, "unresolved") + N
  BY DEF Balanced
<1>4. Reported(counts, k, "first_found") + Reported(counts, k, "null_to_found")
        = (Reported(counts, k, "evicted") - Reported(counts, k, "unresolved")) + F
  BY DEF Balanced
<1>5. Reported(counts, m, "first_null")
        = Reported(counts, m, "null_to_found") + Reported(counts, m, "unresolved")
          + Cardinality(In(m, "NullSeen"))
  BY <1>1, <1>2, <1>3 DEF Reported, Missing
<1>6. Reported(counts, m, "first_found") + Reported(counts, m, "null_to_found")
        = (Reported(counts, m, "evicted") - Reported(counts, m, "unresolved"))
          + Cardinality(In(m, "Found"))
  <2> DEFINE k1 == Sum(k, "first_found")
             k2 == Sum(k, "null_to_found")
             k3 == Sum(k, "evicted")
             k4 == Sum(k, "unresolved")
             m1 == Sum(m, "first_found")
             m2 == Sum(m, "null_to_found")
             m3 == Sum(m, "evicted")
             m4 == Sum(m, "unresolved")
             G == Cardinality(In(m, "Found"))
             n1 == counts["first_found"]
             n2 == counts["null_to_found"]
             n3 == counts["evicted"]
             n4 == counts["unresolved"]
  <2>1. /\ k1 \in Nat /\ k2 \in Nat /\ k3 \in Nat /\ k4 \in Nat
        /\ m1 \in Nat /\ m2 \in Nat /\ m3 \in Nat /\ m4 \in Nat
        /\ n1 \in Nat /\ n2 \in Nat /\ n3 \in Nat /\ n4 \in Nat
        /\ F \in Nat /\ G \in Nat
    BY <1>1, <1>2
  <2>2. m1 + m2 - m3 + m4 - G = k1 + k2 - k3 + k4 - F
    BY DEF Finds
  <2>3. (n1 + k1) + (n2 + k2) = ((n3 + k3) - (n4 + k4)) + F
    BY <1>4 DEF Reported
  <2> HIDE DEF k1, k2, k3, k4, m1, m2, m3, m4, n1, n2, n3, n4, F, G
  <2>4. (n1 + m1) + (n2 + m2) = ((n3 + m3) - (n4 + m4)) + G
    BY <2>1, <2>2, <2>3
  <2> QED
    BY <2>4 DEF Reported, m1, m2, m3, m4, n1, n2, n3, n4, G
<1> QED
  BY <1>5, <1>6 DEF Balanced

(* What is reported leaves the windows: the totals stay, and of the calls  *)
(* nothing is left, as a window that is not told about has none.           *)
LEMMA EmitTotals ==
    ASSUME Sound(core), emitted.counts \in [Counters -> Nat], Emit
    PROVE  /\ emitted'.counts \in [Counters -> Nat]
           /\ \A counter \in Counters :
                Reported(emitted'.counts, core', counter) = Reported(emitted.counts, core, counter)
           /\ emitted'.counts["logical"] = Reported(emitted.counts, core, "logical")
           /\ core' \in Core /\ core'.state = core.state /\ core'.lru = core.lru
<1> DEFINE told == {c \in Commitments : ~is_empty(core.windows[c])
                        \/ (c = "unknown" /\ quality_present(worker.dropped, quality))}
           W(c, counter) == core.windows[c][counter]
           Of(c, counter) == IF c \in told THEN W(c, counter) ELSE 0
<1>1. core \in Core /\ core.windows \in [Commitments -> [Counters -> Nat]]
  BY DEF Sound, Core
<1>2. core' = [core EXCEPT !.windows =
                [c \in Commitments |-> IF c \in told THEN Zero ELSE core.windows[c]]]
  BY DEF Emit
<1>3. \A counter \in Counters : emitted'.counts[counter]
            = emitted.counts[counter] + (Of("finalized", counter) + Of("unknown", counter))
  BY DEF Emit, take_event
<1>3a. emitted'.counts = [counter \in Counters |-> emitted'.counts[counter]]
  BY DEF Emit
<1>4. \A c \in Commitments : c \notin told => core.windows[c]["logical"] = 0
  BY DEF is_empty
<1> HIDE DEF told
<1>5. "finalized" \in Commitments /\ "unknown" \in Commitments
  BY DEF Commitments
<1>6. Zero \in [Counters -> Nat] /\ \A counter \in Counters : Zero[counter] = 0
  BY DEF Zero
<1>7. /\ core'.windows = [c \in Commitments |-> IF c \in told THEN Zero ELSE core.windows[c]]
      /\ core'.state = core.state /\ core'.lru = core.lru
      /\ core' = [state |-> core.state, lru |-> core.lru, windows |-> core'.windows]
  BY <1>1, <1>2 DEF Core
<1>8. core'.windows \in [Commitments -> [Counters -> Nat]]
  BY <1>1, <1>6, <1>7
<1>9. core' \in Core
  BY <1>1, <1>7, <1>8 DEF Core
<1>10. \A counter \in Counters : \A c \in Commitments :
            /\ W(c, counter) \in Nat /\ Of(c, counter) \in Nat
            /\ core'.windows[c][counter] = IF c \in told THEN 0 ELSE W(c, counter)
  BY <1>1, <1>6, <1>7
<1>11. \A counter \in Counters : \A c \in Commitments :
            core'.windows[c][counter] + Of(c, counter) = W(c, counter)
  BY <1>10
<1>12. \A counter \in Counters : emitted.counts[counter] \in Nat
  OBVIOUS
<1>13. \A counter \in Counters : emitted'.counts[counter] \in Nat
  <2> HIDE DEF Of
  <2> QED
    BY <1>3, <1>5, <1>10, <1>12
<1>14. emitted'.counts \in [Counters -> Nat]
  <2> DEFINE g == emitted'.counts
  <2>1. g = [counter \in Counters |-> g[counter]] /\ \A counter \in Counters : g[counter] \in Nat
    BY <1>3a, <1>13
  <2> HIDE DEF g
  <2>2. g \in [Counters -> Nat]
    BY <2>1
  <2> QED
    BY <2>2 DEF g
<1>15. ASSUME NEW counter \in Counters
       PROVE  Reported(emitted'.counts, core', counter) = Reported(emitted.counts, core, counter)
  <2>1. /\ core'.windows["finalized"][counter] + Of("finalized", counter) = W("finalized", counter)
        /\ core'.windows["unknown"][counter] + Of("unknown", counter) = W("unknown", counter)
        /\ core'.windows["finalized"][counter] \in Nat /\ core'.windows["unknown"][counter] \in Nat
        /\ Of("finalized", counter) \in Nat /\ Of("unknown", counter) \in Nat
    BY <1>5, <1>8, <1>10, <1>11
  <2>2. emitted'.counts[counter]
            = emitted.counts[counter] + (Of("finalized", counter) + Of("unknown", counter))
    BY <1>3
  <2>3. Sum(core, counter) = W("finalized", counter) + W("unknown", counter)
        /\ Sum(core', counter)
             = core'.windows["finalized"][counter] + core'.windows["unknown"][counter]
    BY DEF Sum
  <2> HIDE DEF Of, W
  <2> QED
    BY <1>12, <2>1, <2>2, <2>3 DEF Reported
<1>16. emitted'.counts["logical"] = Reported(emitted.counts, core, "logical")
  <2>1. "logical" \in Counters
    BY DEF Counters
  <2>2. Of("finalized", "logical") = W("finalized", "logical")
        /\ Of("unknown", "logical") = W("unknown", "logical")
    BY <1>4, <1>5
  <2> QED
    BY <1>3, <2>1, <2>2 DEF Reported, Sum
<1> QED
  BY <1>7, <1>9, <1>14, <1>15, <1>16

(* The flush, as functions of the state it looks at. *)
Covered(q, w, f, accepted, logical, reported) ==
    /\ \A i \in 1..Len(q) : q[i].flush => f.pc # "idle"
    /\ w.reply => f.pc # "idle" /\ logical >= f.before
    /\ f.pc # "idle" => f.before <= accepted
    /\ f.pc = "done" => reported >= f.before

(* The invariant, and the same of the next state, in those terms. *)
LEMMA Rephrased ==
    /\ Accounted <=> AccountedFor(queue, Reported(emitted.counts, core, "logical"),
                                  offered.accepted, flusher.before)
    /\ Accounted' <=> AccountedFor(queue', Reported(emitted'.counts, core', "logical"),
                                   offered'.accepted, flusher'.before)
    /\ Flushing <=> Covered(queue, worker, flusher, offered.accepted,
                            Reported(emitted.counts, core, "logical"), emitted.counts["logical"])
    /\ Flushing' <=> Covered(queue', worker', flusher', offered'.accepted,
                             Reported(emitted'.counts, core', "logical"), emitted'.counts["logical"])
<1>1. Total("logical") = Reported(emitted.counts, core, "logical")
  BY Totals
<1>2. Total("logical")' = Reported(emitted'.counts, core', "logical")
  BY DEF Total, take_event, Reported, Sum, Commitments
<1>3. Accounted <=> AccountedFor(queue, Reported(emitted.counts, core, "logical"),
                                 offered.accepted, flusher.before)
  BY <1>1 DEF Accounted
<1>4. Accounted' <=> AccountedFor(queue', Reported(emitted'.counts, core', "logical"),
                                  offered'.accepted, flusher'.before)
  <2>1. Accounted' <=> AccountedFor(queue', Total("logical")', offered'.accepted, flusher'.before)
    BY DEF Accounted, AccountedFor, Running, Behind, Calls
  <2> QED
    BY <1>2, <2>1
<1>5. Flushing <=> Covered(queue, worker, flusher, offered.accepted,
                           Reported(emitted.counts, core, "logical"), emitted.counts["logical"])
  BY <1>1 DEF Flushing, Covered
<1>6. Flushing' <=> Covered(queue', worker', flusher', offered'.accepted,
                    Reported(emitted'.counts, core', "logical"), emitted'.counts["logical"])
  BY <1>2 DEF Flushing, Covered
<1> QED
  BY <1>3, <1>4, <1>5, <1>6

LEMMA BoundedNext == Bounded(core)' <=> Bounded(core')
  BY DEF Bounded, Sound, Core, Mirrored, Recorded, Seen, Place

(* A step that leaves the core and what was reported alone. *)
LEMMA SameCore ==
    ASSUME HistoryInv, core' = core, emitted' = emitted
    PROVE  Bounded(core)' /\ LifecyclesBalance'
  BY BoundedNext, Totals DEF HistoryInv

LEMMA WaitingTyped ==
    /\ Waiting \in Offering /\ Waiting.pc = "idle"
    /\ FlushMessage \in Message /\ FlushMessage.flush /\ Calls(FlushMessage) = 0
<1>1. (CHOOSE j \in Job : TRUE) \in AnyJob /\ 0 \in Nat
  BY DEF AnyJob
<1> QED
  BY <1>1 DEF Waiting, Offering, FlushMessage, Message, Calls

LEMMA HistoryInit == Init => HistoryInv
<1> SUFFICES ASSUME Init PROVE HistoryInv
  OBVIOUS
<1>1. Zero \in [Counters -> Nat] /\ \A counter \in Counters : Zero[counter] = 0
  BY DEF Zero
<1>2. NoEntry \in StateEntry /\ NoEntry.lifecycle = "none"
  BY DEF NoEntry, StateEntry, Lifecycle, Commitments
<1>3. /\ core.state = [f \in Fingerprint |-> NoEntry] /\ core.lru = {}
      /\ core.windows = [c \in Commitments |-> Zero]
      /\ core = [state |-> core.state, lru |-> core.lru, windows |-> core.windows]
      /\ emitted.counts = Zero /\ queue = <<>> /\ offered.accepted = 0
      /\ flusher.before = 0 /\ flusher.pc = "idle" /\ worker.reply = FALSE
  BY DEF Init
<1>4. core \in Core
  BY <1>1, <1>2, <1>3 DEF Core
<1>5. Seen(core) = {} /\ In(core, "NullSeen") = {} /\ In(core, "Found") = {}
  BY <1>2, <1>3 DEF Seen, In
<1>6. Cardinality({}) = 0 /\ IsFiniteSet({}) /\ StateCapacity \in Nat
  BY FS_EmptySet, HistoricalAssumption
<1>7. Bounded(core)
  <2>1. Mirrored(core) /\ Recorded(core)
    BY <1>2, <1>3, <1>5 DEF Mirrored, Recorded
  <2>2. IsFiniteSet(Seen(core)) /\ Cardinality(Seen(core)) <= StateCapacity
    BY <1>5, <1>6
  <2> QED
    BY <1>4, <2>1, <2>2 DEF Bounded, Sound
<1>8. \A counter \in Counters : Reported(emitted.counts, core, counter) = 0
  <2>1. \A c \in Commitments : \A counter \in Counters : core.windows[c][counter] = 0
    BY <1>1, <1>3
  <2> QED
    BY <1>1, <1>3, <2>1 DEF Reported, Sum, Commitments
<1>9. LifecyclesBalance
  <2>1. \A counter \in {"first_null", "null_to_found", "unresolved", "first_found", "evicted"} :
            Reported(emitted.counts, core, counter) = 0
    BY <1>8 DEF Counters
  <2>2. Balanced(emitted.counts, core)
    BY <1>5, <1>6, <2>1 DEF Balanced
  <2> QED
    BY <2>2, Totals
<1>10. Reported(emitted.counts, core, "logical") = 0
  BY <1>8 DEF Counters
<1>11. Len(queue) = 0 /\ 1..Len(queue) = {} /\ queue \in Seq(Message)
  BY <1>3
<1>12. Accounted
  <2> DEFINE s == [i \in 0..0 |-> 0]
  <2>1. s \in [0..Len(queue) -> Nat] /\ s[0] = 0
    BY <1>11
  <2> HIDE DEF s
  <2>2. Running(s, queue, 0, 0) /\ Behind(s, queue, 0)
    BY <1>11, <2>1 DEF Running, Behind
  <2>3. AccountedFor(queue, 0, 0, 0)
    BY <2>1, <2>2 DEF AccountedFor
  <2> QED
    BY <1>3, <1>10, <2>3, Rephrased
<1>13. Flushing
  <2>1. Covered(queue, worker, flusher, offered.accepted,
                Reported(emitted.counts, core, "logical"), emitted.counts["logical"])
    BY <1>3, <1>11 DEF Covered
  <2> QED
    BY <2>1, Rephrased
<1>14. handler = [h \in Handler |-> Waiting]
  BY DEF Init
<1>15. HistoryTyped
  <2>1. handler \in [Handler -> Offering]
    BY <1>14, WaitingTyped
  <2>2. emitted.counts \in [Counters -> Nat] /\ worker.reply \in BOOLEAN
    BY <1>1, <1>3
  <2>3. /\ now \in Nat
        /\ flusher \in [pc : {"idle", "waiting", "granted", "sent", "done"}, before : Nat]
        /\ offered \in [calls : Nat, drops : Nat, accepted : Nat]
    BY DEF Init
  <2> QED
    BY <1>11, <2>1, <2>2, <2>3 DEF HistoryTyped
<1>16. RealJobs
  BY <1>11, <1>14, WaitingTyped DEF RealJobs
<1> QED
  BY <1>7, <1>9, <1>12, <1>13, <1>15, <1>16 DEF HistoryInv

(* What the invariant says of a state, for the steps below. *)
LEMMA InvFacts ==
    ASSUME HistoryInv
    PROVE  /\ Bounded(core) /\ Sound(core) /\ LifecyclesBalance
           /\ emitted.counts \in [Counters -> Nat]
           /\ Reported(emitted.counts, core, "logical") \in Nat
           /\ emitted.counts["logical"] \in Nat /\ Sum(core, "logical") \in Nat
           /\ AccountedFor(queue, Reported(emitted.counts, core, "logical"),
                           offered.accepted, flusher.before)
           /\ Covered(queue, worker, flusher, offered.accepted,
                      Reported(emitted.counts, core, "logical"), emitted.counts["logical"])
           /\ queue \in Seq(Message) /\ flusher.before \in Nat /\ offered.accepted \in Nat
<1>1. Bounded(core) /\ Sound(core) /\ emitted.counts \in [Counters -> Nat] /\ LifecyclesBalance
  BY DEF HistoryInv, HistoryTyped, Bounded
<1>2. emitted.counts["logical"] \in Nat /\ Sum(core, "logical") \in Nat
  BY <1>1, Numbers DEF Counters
<1>3. Reported(emitted.counts, core, "logical") \in Nat
  BY <1>2 DEF Reported
<1>4. queue \in Seq(Message) /\ flusher.before \in Nat /\ offered.accepted \in Nat
  BY DEF HistoryInv, HistoryTyped
<1> QED
  BY <1>1, <1>2, <1>3, <1>4, Rephrased DEF HistoryInv

(* The steps of a handler. *)
LEMMA OfferStep ==
    ASSUME HistoryInv, NEW h \in Handler, NEW job \in Job, Offer(h, job)
    PROVE  HistoryInv'
<1>1. UNCHANGED <<now, queue, quality, core, worker, flusher, emitted>>
      /\ offered' = [offered EXCEPT !.calls = @ + job.calls]
  BY DEF Offer
<1>2. PICK o \in Offering : handler' = [handler EXCEPT ![h] = o] /\ o.job \in Job
  <2> DEFINE fits == job.bytes <= MaxJobBytes /\ units(job) <= permits
             o == [pc |-> IF fits THEN "send" ELSE "drop", job |-> job,
                   observed_at |-> IF fits THEN now ELSE 0]
  <2>1. handler' = [handler EXCEPT ![h] = o]
    BY DEF Offer
  <2>2. now \in Nat /\ job \in AnyJob
    BY DEF HistoryInv, HistoryTyped, AnyJob
  <2>3. o \in Offering /\ o.job \in Job
    <3> HIDE DEF fits
    <3> QED
      BY <2>2 DEF Offering
  <2> QED
    BY <2>1, <2>3
<1>3. handler \in [Handler -> Offering]
  BY DEF HistoryInv, HistoryTyped
<1>4. handler' \in [Handler -> Offering]
  BY <1>2, <1>3
<1>5. offered' \in [calls : Nat, drops : Nat, accepted : Nat] /\ offered'.accepted = offered.accepted
  <2>1. offered \in [calls : Nat, drops : Nat, accepted : Nat] /\ job.calls \in Nat
    BY JobAssumption DEF HistoryInv, HistoryTyped
  <2>2. offered.calls + job.calls \in Nat
    BY <2>1
  <2> QED
    BY <1>1, <2>1, <2>2
<1>6. HistoryTyped'
  BY <1>1, <1>4, <1>5 DEF HistoryInv, HistoryTyped
<1>7. RealJobs'
  <2>1. \A g \in Handler : handler'[g].pc = "send" => handler'[g].job \in Job
    BY <1>2, <1>3 DEF HistoryInv, RealJobs
  <2> QED
    BY <1>1, <2>1 DEF HistoryInv, RealJobs
<1>8. Bounded(core)' /\ LifecyclesBalance'
  BY <1>1, SameCore
<1>9. Accounted' /\ Flushing'
  BY <1>1, <1>5, InvFacts, Rephrased
<1> QED
  BY <1>6, <1>7, <1>8, <1>9 DEF HistoryInv

LEMMA SendStep ==
    ASSUME HistoryInv, NEW h \in Handler, Send(h)
    PROVE  HistoryInv'
<1> DEFINE job == handler[h].job
           m == [flush |-> FALSE, job |-> job, observed_at |-> handler[h].observed_at]
<1>1. UNCHANGED <<now, quality, core, worker, flusher, emitted>> /\ handler[h].pc = "send"
  BY DEF Send
<1>2. Bounded(core)' /\ LifecyclesBalance'
  BY <1>1, SameCore
<1>3. handler \in [Handler -> Offering] /\ handler[h] \in Offering
  BY DEF HistoryInv, HistoryTyped
<1>4. job \in Job /\ job.calls \in Nat
  BY <1>1, JobAssumption DEF HistoryInv, RealJobs
<1>5. m \in Message /\ ~m.flush /\ m.job = job /\ Calls(m) = job.calls
  BY <1>3, <1>4 DEF Message, Offering, Calls
<1>6. offered \in [calls : Nat, drops : Nat, accepted : Nat] /\ queue \in Seq(Message)
  BY DEF HistoryInv, HistoryTyped
<1>7. ASSUME HasRoom PROVE HistoryInv'
  <2>1. /\ queue' = Append(queue, m) /\ handler' = [handler EXCEPT ![h] = Waiting]
        /\ offered' = [offered EXCEPT !.accepted = @ + job.calls]
    BY <1>7 DEF Send
  <2> HIDE DEF m, job
  <2>2. queue' \in Seq(Message) /\ Len(queue') = Len(queue) + 1 /\ Len(queue) \in Nat
        /\ queue'[Len(queue) + 1] = m /\ \A i \in 1..Len(queue) : queue'[i] = queue[i]
    BY <1>5, <1>6, <2>1, AppendProperties, LenProperties
  <2>3. offered'.accepted = offered.accepted + Calls(m) /\ offered.accepted + Calls(m) \in Nat
        /\ offered' \in [calls : Nat, drops : Nat, accepted : Nat]
    <3>1. offered.accepted + job.calls \in Nat
      BY <1>4, <1>6
    <3> QED
      BY <1>5, <1>6, <2>1, <3>1
  <2>4. handler' \in [Handler -> Offering]
    BY <1>3, <2>1, WaitingTyped
  <2>5. HistoryTyped'
    BY <1>1, <2>2, <2>3, <2>4 DEF HistoryInv, HistoryTyped
  <2>6. RealJobs'
    <3>1. \A g \in Handler : handler'[g].pc = "send" => handler'[g].job \in Job
      BY <1>3, <2>1, WaitingTyped DEF HistoryInv, RealJobs
    <3>2. ASSUME NEW i \in 1..Len(queue'), ~queue'[i].flush PROVE queue'[i].job \in Job
      <4>1. i \in 1..Len(queue) \/ i = Len(queue) + 1
        BY <2>2
      <4> QED
        BY <1>4, <1>5, <2>2, <3>2, <4>1 DEF HistoryInv, RealJobs
    <3> QED
      BY <3>1, <3>2 DEF RealJobs
  <2>7. Accounted'
    <3>1. AccountedFor(Append(queue, m), Reported(emitted.counts, core, "logical"),
                       offered.accepted + Calls(m), flusher.before)
      <4>1. Calls(m) \in Nat
        BY <1>4, <1>5
      <4> QED
        BY <1>5, <4>1, InvFacts, AppendAccounted
    <3> QED
      BY <1>1, <2>1, <2>3, <3>1, Rephrased
  <2>8. Flushing'
    <3>1. ASSUME NEW i \in 1..Len(queue'), queue'[i].flush PROVE flusher.pc # "idle"
      <4>1. i \in 1..Len(queue) \/ i = Len(queue) + 1
        BY <2>2
      <4> QED
        BY <1>5, <2>2, <3>1, <4>1, InvFacts DEF Covered
    <3>2. flusher.before <= offered.accepted => flusher.before <= offered'.accepted
      BY <1>4, <1>5, <2>3, InvFacts
    <3>3. Covered(queue', worker, flusher, offered'.accepted,
                  Reported(emitted.counts, core, "logical"), emitted.counts["logical"])
      BY <3>1, <3>2, InvFacts DEF Covered
    <3> QED
      BY <1>1, <3>3, Rephrased
  <2> QED
    BY <1>2, <2>5, <2>6, <2>7, <2>8 DEF HistoryInv
<1>8. ASSUME ~HasRoom PROVE HistoryInv'
  <2>1. UNCHANGED <<queue, offered>> /\ handler' = [handler EXCEPT ![h].pc = "drop"]
    BY <1>8 DEF Send, Step
  <2>2. handler' \in [Handler -> Offering]
        /\ \A g \in Handler : handler'[g].pc = "send" => handler'[g] = handler[g]
    <3> HIDE DEF m, job
    <3>1. [handler[h] EXCEPT !.pc = "drop"] \in Offering
      BY <1>3 DEF Offering
    <3> QED
      BY <1>3, <2>1, <3>1
  <2>3. HistoryTyped' /\ RealJobs'
    BY <1>1, <2>1, <2>2 DEF HistoryInv, HistoryTyped, RealJobs
  <2>4. Accounted' /\ Flushing'
    BY <1>1, <2>1, InvFacts, Rephrased
  <2> QED
    BY <1>2, <2>3, <2>4 DEF HistoryInv
<1> QED
  BY <1>7, <1>8

LEMMA DropStep ==
    ASSUME HistoryInv, NEW h \in Handler, DropLogical(h) \/ DropReason(h)
    PROVE  HistoryInv'
<1>1. UNCHANGED <<now, queue, core, worker, flusher, emitted>>
  BY DEF DropLogical, DropReason
<1>2. PICK o \in Offering : o.pc # "send" /\ handler' = [handler EXCEPT ![h] = o]
  <2>1. handler \in [Handler -> Offering] /\ handler[h] \in Offering
    BY DEF HistoryInv, HistoryTyped
  <2>2. CASE DropLogical(h)
    <3>1. [handler[h] EXCEPT !.pc = "reason"] \in Offering
          /\ [handler[h] EXCEPT !.pc = "reason"].pc = "reason"
      BY <2>1 DEF Offering
    <3>2. handler' = [handler EXCEPT ![h] = [handler[h] EXCEPT !.pc = "reason"]]
      BY <2>1, <2>2 DEF DropLogical, Step
    <3> QED
      BY <3>1, <3>2
  <2>3. CASE DropReason(h)
    BY <2>3, WaitingTyped DEF DropReason
  <2> QED
    BY <2>2, <2>3
<1>3. /\ offered' \in [calls : Nat, drops : Nat, accepted : Nat]
      /\ offered'.accepted = offered.accepted
  <2>1. offered \in [calls : Nat, drops : Nat, accepted : Nat]
    BY DEF HistoryInv, HistoryTyped
  <2>2. offered.drops + 1 \in Nat
    BY <2>1
  <2>3. offered' = offered \/ offered' = [offered EXCEPT !.drops = offered.drops + 1]
    BY DEF DropLogical, DropReason
  <2> QED
    BY <2>1, <2>2, <2>3
<1>4. handler' \in [Handler -> Offering]
      /\ \A g \in Handler : handler'[g].pc = "send" => handler'[g] = handler[g]
  <2>1. handler \in [Handler -> Offering]
    BY DEF HistoryInv, HistoryTyped
  <2> QED
    BY <1>2, <2>1
<1>5. HistoryTyped' /\ RealJobs'
  BY <1>1, <1>3, <1>4 DEF HistoryInv, HistoryTyped, RealJobs
<1>6. Bounded(core)' /\ LifecyclesBalance'
  BY <1>1, SameCore
<1>7. Accounted' /\ Flushing'
  BY <1>1, <1>3, InvFacts, Rephrased
<1> QED
  BY <1>5, <1>6, <1>7 DEF HistoryInv

(* What the worker may do to the core between two flushes: count calls,    *)
(* and remember or forget transactions.                                    *)
LEMMA CoreStep ==
    ASSUME HistoryInv, emitted' = emitted, NEW n \in Nat,
           Bounded(core'), Counted(core, core', n)
    PROVE  /\ Bounded(core)' /\ LifecyclesBalance'
           /\ Reported(emitted.counts, core', "logical")
                = Reported(emitted.counts, core, "logical") + n
<1>1. Sound(core) /\ Sound(core') /\ emitted.counts \in [Counters -> Nat]
      /\ Balanced(emitted.counts, core)
  BY InvFacts, Totals DEF Bounded
<1>2. Missing(core') = Missing(core) /\ Finds(core') = Finds(core)
      /\ Sum(core', "logical") = Sum(core, "logical") + n
  BY DEF Counted
<1>3. Balanced(emitted.counts, core')
  BY <1>1, <1>2, BalanceKept
<1>4. LifecyclesBalance'
  BY <1>3, Totals
<1>5. Reported(emitted.counts, core', "logical") = Reported(emitted.counts, core, "logical") + n
  BY <1>2, InvFacts DEF Reported
<1> QED
  BY <1>4, <1>5, BoundedNext

LEMMA ExpireFacts ==
    ASSUME Bounded(core), NEW t
    PROVE  Bounded(expire(core, t)) /\ Counted(core, expire(core, t), 0)
<1>1. {y \in core.lru : t - y[1] >= StateTtl} \in SUBSET core.lru /\ Sound(core)
  BY DEF Bounded
<1> QED
  BY <1>1, EvictBounded DEF expire

(* The worker takes a message. *)
LEMMA ReceivedFacts ==
    ASSUME HistoryInv, queue # <<>>, Received
    PROVE  /\ queue' \in Seq(Message) /\ Head(queue) \in Message
           /\ Head(queue) = queue[1] /\ 1 \in 1..Len(queue)
           /\ \A i \in 1..Len(queue') : i + 1 \in 1..Len(queue) /\ queue'[i] = queue[i + 1]
           /\ flusher' \in [pc : {"idle", "waiting", "granted", "sent", "done"}, before : Nat]
           /\ flusher'.before = flusher.before
           /\ flusher.pc # "idle" <=> flusher'.pc # "idle"
           /\ flusher'.pc = "done" <=> flusher.pc = "done"
           /\ ~Head(queue).flush => Head(queue).job \in Job
<1>1. queue \in Seq(Message) /\ queue' = Tail(queue)
  BY DEF HistoryInv, HistoryTyped, Received
<1>2. Len(queue) \in Nat \ {0}
  BY <1>1, EmptySeq, LenProperties
<1>3. /\ queue' \in Seq(Message) /\ Len(queue') = Len(queue) - 1 /\ Head(queue) \in Message
      /\ \A i \in 1..Len(queue') : queue'[i] = queue[i + 1]
  BY <1>1, HeadTailProperties
<1>4. Head(queue) = queue[1] /\ 1 \in 1..Len(queue)
  BY <1>1, <1>2
<1>5. \A i \in 1..Len(queue') : i + 1 \in 1..Len(queue)
  BY <1>2, <1>3
<1>6. flusher \in [pc : {"idle", "waiting", "granted", "sent", "done"}, before : Nat]
  BY DEF HistoryInv, HistoryTyped
<1>7. /\ flusher' \in [pc : {"idle", "waiting", "granted", "sent", "done"}, before : Nat]
      /\ flusher'.before = flusher.before
      /\ flusher.pc # "idle" <=> flusher'.pc # "idle"
      /\ flusher'.pc = "done" <=> flusher.pc = "done"
  BY <1>6 DEF Received
<1>8. ~Head(queue).flush => Head(queue).job \in Job
  BY <1>4 DEF HistoryInv, RealJobs
<1> QED
  BY <1>3, <1>4, <1>5, <1>7, <1>8

LEMMA AnalyzeStep ==
    ASSUME HistoryInv, Analyze
    PROVE  HistoryInv'
<1> DEFINE job == Head(queue).job
           t == Head(queue).observed_at
           L == Reported(emitted.counts, core, "logical")
<1>1. /\ queue # <<>> /\ ~Head(queue).flush /\ Received
      /\ core' = process(core, job, t)
      /\ UNCHANGED <<now, handler, quality, worker, offered, emitted>>
  BY DEF Analyze
<1>2. /\ job \in Job /\ t \in Nat /\ job.calls \in Nat
      /\ Calls(Head(queue)) = job.calls
  BY <1>1, ReceivedFacts, JobAssumption DEF Message, Calls
<1>3. Bounded(core') /\ Counted(core, core', job.calls)
  BY <1>1, <1>2, ProcessFacts, InvFacts
<1>4. /\ Bounded(core)' /\ LifecyclesBalance'
      /\ Reported(emitted.counts, core', "logical") = L + job.calls
  <2>1. emitted' = emitted /\ job.calls \in Nat
    BY <1>1, <1>2
  <2> HIDE DEF job
  <2> QED
    BY <1>3, <2>1, CoreStep
<1>5. L \in Nat /\ L + job.calls >= L /\ L + job.calls \in Nat
  BY <1>2, InvFacts
<1> HIDE DEF L
<1>6. HistoryTyped'
  BY <1>1, ReceivedFacts DEF HistoryInv, HistoryTyped
<1>7. RealJobs'
  BY <1>1, ReceivedFacts DEF HistoryInv, RealJobs
<1>8. Accounted'
  <2>1. AccountedFor(Tail(queue), L + Calls(Head(queue)), offered.accepted, flusher.before)
    BY <1>1, TailAccounted, InvFacts DEF L
  <2>2. queue' = Tail(queue)
    BY <1>1 DEF Received
  <2> QED
    BY <1>1, <1>2, <1>4, <2>1, <2>2, ReceivedFacts, Rephrased
<1>9. Flushing'
  <2>1. Covered(queue, worker, flusher, offered.accepted, L, emitted.counts["logical"])
        /\ flusher.before \in Nat
    BY InvFacts DEF L
  <2>2. L >= flusher.before => L + job.calls >= flusher.before
    BY <1>5, <2>1
  <2>3. Covered(queue', worker, flusher', offered.accepted, L + job.calls, emitted.counts["logical"])
    <3> HIDE DEF job
    <3> QED
      BY <1>1, <2>1, <2>2, ReceivedFacts DEF Covered
  <2> QED
    BY <1>1, <1>4, <2>3, Rephrased
<1> QED
  BY <1>4, <1>6, <1>7, <1>8, <1>9 DEF HistoryInv

(* What the flush finds counted covers what it waited for. *)
LEMMA FlushMessageStep ==
    ASSUME HistoryInv, FlushMessageReceived
    PROVE  HistoryInv'
<1> DEFINE L == Reported(emitted.counts, core, "logical")
<1>1. /\ queue # <<>> /\ Head(queue).flush /\ Received /\ StartFlush(TRUE)
  BY DEF FlushMessageReceived
<1>2. /\ UNCHANGED <<now, handler, permits, offered, emitted>>
      /\ core' = expire(core, now) /\ worker'.reply = TRUE
  BY <1>1 DEF StartFlush
<1>3. /\ Bounded(core)' /\ LifecyclesBalance'
      /\ Reported(emitted.counts, core', "logical") = L + 0
  BY <1>2, ExpireFacts, InvFacts, CoreStep
<1>4. L \in Nat /\ L + 0 = L /\ Calls(Head(queue)) = 0
  BY <1>1, InvFacts DEF Calls
<1> HIDE DEF L
<1>5. HistoryTyped'
  BY <1>1, <1>2, ReceivedFacts DEF HistoryInv, HistoryTyped
<1>6. RealJobs'
  BY <1>1, <1>2, ReceivedFacts DEF HistoryInv, RealJobs
<1>7. AccountedFor(Tail(queue), L, offered.accepted, flusher.before) /\ L >= flusher.before
  <2>1. /\ AccountedFor(Tail(queue), L + Calls(Head(queue)), offered.accepted, flusher.before)
        /\ L + Calls(Head(queue)) >= flusher.before
    BY <1>1, TailAccounted, InvFacts DEF L
  <2> QED
    BY <1>4, <2>1
<1>8. Accounted'
  <2>1. queue' = Tail(queue)
    BY <1>1 DEF Received
  <2> QED
    BY <1>1, <1>2, <1>3, <1>4, <1>7, <2>1, ReceivedFacts, Rephrased
<1>9. Flushing'
  <2>1. Covered(queue, worker, flusher, offered.accepted, L, emitted.counts["logical"])
    BY InvFacts DEF L
  <2>2. flusher.pc # "idle"
    BY <1>1, <2>1, ReceivedFacts DEF Covered
  <2>3. Covered(queue', worker', flusher', offered.accepted, L, emitted.counts["logical"])
    BY <1>1, <1>2, <1>7, <2>1, <2>2, ReceivedFacts DEF Covered
  <2> QED
    BY <1>2, <1>3, <1>4, <2>3, Rephrased
<1> QED
  BY <1>3, <1>5, <1>6, <1>8, <1>9 DEF HistoryInv

LEMMA IntervalStep ==
    ASSUME HistoryInv, IntervalTick
    PROVE  HistoryInv'
<1> DEFINE L == Reported(emitted.counts, core, "logical")
<1>1. /\ UNCHANGED <<now, handler, permits, offered, emitted, queue, flusher>>
      /\ core' = expire(core, now) /\ worker'.reply = FALSE
  BY DEF IntervalTick, StartFlush
<1>2. /\ Bounded(core)' /\ LifecyclesBalance'
      /\ Reported(emitted.counts, core', "logical") = L + 0
  BY <1>1, ExpireFacts, InvFacts, CoreStep
<1>3. L \in Nat /\ L + 0 = L
  BY InvFacts
<1> HIDE DEF L
<1>4. HistoryTyped' /\ RealJobs'
  BY <1>1 DEF HistoryInv, HistoryTyped, RealJobs
<1>5. Accounted'
  BY <1>1, <1>2, <1>3, InvFacts, Rephrased DEF L
<1>6. Flushing'
  <2>1. Covered(queue, worker', flusher, offered.accepted, L, emitted.counts["logical"])
    BY <1>1, InvFacts DEF Covered, L
  <2> QED
    BY <1>1, <1>2, <1>3, <2>1, Rephrased
<1> QED
  BY <1>2, <1>4, <1>5, <1>6 DEF HistoryInv

LEMMA EmitStep ==
    ASSUME HistoryInv, Emit
    PROVE  HistoryInv'
<1> DEFINE L == Reported(emitted.counts, core, "logical")
<1>1. /\ UNCHANGED <<now, handler, permits, queue, offered>> /\ worker'.reply = FALSE
      /\ flusher' = IF worker.reply THEN [flusher EXCEPT !.pc = "done"] ELSE flusher
  BY DEF Emit
<1>2. /\ emitted'.counts \in [Counters -> Nat]
      /\ \A counter \in Counters :
            Reported(emitted'.counts, core', counter) = Reported(emitted.counts, core, counter)
      /\ emitted'.counts["logical"] = L
      /\ core' \in Core /\ core'.state = core.state /\ core'.lru = core.lru
  BY EmitTotals, InvFacts
<1>3. Bounded(core)'
  <2>1. Sound(core') /\ Seen(core') = Seen(core)
    BY <1>2, SameMap, InvFacts
  <2>2. Bounded(core')
    BY <2>1, InvFacts DEF Bounded
  <2> QED
    BY <2>2, BoundedNext
<1>4. LifecyclesBalance'
  <2>1. \A counter \in {"first_null", "null_to_found", "unresolved", "first_found", "evicted"} :
            Reported(emitted'.counts, core', counter) = Reported(emitted.counts, core, counter)
    BY <1>2 DEF Counters
  <2>2. Balanced(emitted.counts, core) /\ \A l : In(core', l) = In(core, l)
    BY <1>2, InvFacts, Totals DEF In
  <2>3. Balanced(emitted'.counts, core')
    BY <2>1, <2>2 DEF Balanced
  <2> QED
    BY <2>3, Totals
<1>5. Reported(emitted'.counts, core', "logical") = L
  BY <1>2 DEF Counters
<1> HIDE DEF L
<1>6. /\ flusher' \in [pc : {"idle", "waiting", "granted", "sent", "done"}, before : Nat]
      /\ flusher'.before = flusher.before
      /\ worker.reply => flusher'.pc = "done"
      /\ ~worker.reply => flusher' = flusher
  <2>1. flusher \in [pc : {"idle", "waiting", "granted", "sent", "done"}, before : Nat]
        /\ worker.reply \in BOOLEAN
    BY DEF HistoryInv, HistoryTyped
  <2> QED
    BY <1>1, <2>1
<1>7. HistoryTyped'
  BY <1>1, <1>2, <1>6 DEF HistoryInv, HistoryTyped
<1>8. RealJobs'
  BY <1>1 DEF HistoryInv, RealJobs
<1>9. Accounted'
  BY <1>1, <1>5, <1>6, InvFacts, Rephrased DEF L
<1>10. Flushing'
  <2>1. /\ Covered(queue, worker, flusher, offered.accepted, L, emitted.counts["logical"])
        /\ L >= emitted.counts["logical"] /\ L \in Nat /\ emitted.counts["logical"] \in Nat
        /\ flusher.before \in Nat
    BY InvFacts DEF L, Reported
  <2>2. flusher'.pc = "done" => L >= flusher.before
    BY <1>6, <2>1 DEF Covered
  <2>3. Covered(queue', worker', flusher', offered'.accepted, L, L)
    BY <1>1, <1>6, <2>1, <2>2 DEF Covered
  <2> QED
    BY <1>2, <1>5, <2>3, Rephrased
<1> QED
  BY <1>3, <1>4, <1>7, <1>8, <1>9, <1>10 DEF HistoryInv

(* The shutdown calls the flush, which then waits for its place. *)
LEMMA CallFlushStep ==
    ASSUME HistoryInv, CallFlush
    PROVE  HistoryInv'
<1>1. /\ flusher.pc = "idle" /\ flusher'.before = offered.accepted
      /\ flusher' = [pc |-> flusher'.pc, before |-> flusher'.before]
      /\ flusher'.pc \in {"granted", "waiting"}
      /\ UNCHANGED <<now, handler, permits, queue, quality, core, worker, offered, emitted>>
  BY DEF CallFlush
<1>2. Bounded(core)' /\ LifecyclesBalance'
  BY <1>1, SameCore
<1>3. offered.accepted \in Nat
  BY InvFacts
<1>4. flusher' \in [pc : {"idle", "waiting", "granted", "sent", "done"}, before : Nat]
  BY <1>1, <1>3
<1>5. HistoryTyped' /\ RealJobs'
  BY <1>1, <1>4 DEF HistoryInv, HistoryTyped, RealJobs
<1>6. \A i \in 1..Len(queue) : ~queue[i].flush
  BY <1>1, InvFacts DEF Covered
<1>7. AccountedFor(queue, Reported(emitted.counts, core, "logical"),
                   offered.accepted, flusher'.before)
  BY <1>6, InvFacts DEF AccountedFor, Behind
<1>8. Accounted'
  BY <1>1, <1>7, Rephrased
<1>9. Covered(queue, worker, flusher', offered.accepted,
              Reported(emitted.counts, core, "logical"), emitted.counts["logical"])
  BY <1>1, <1>3, InvFacts DEF Covered
<1>10. Flushing'
  BY <1>1, <1>9, Rephrased
<1> QED
  BY <1>2, <1>5, <1>8, <1>10 DEF HistoryInv

LEMMA SendFlushStep ==
    ASSUME HistoryInv, SendFlush
    PROVE  HistoryInv'
<1>1. /\ flusher.pc = "granted" /\ queue' = Append(queue, FlushMessage)
      /\ flusher' = [flusher EXCEPT !.pc = "sent"]
      /\ UNCHANGED <<now, handler, permits, quality, core, worker, offered, emitted>>
  BY DEF SendFlush
<1>2. Bounded(core)' /\ LifecyclesBalance'
  BY <1>1, SameCore
<1>3. /\ queue' \in Seq(Message) /\ Len(queue') = Len(queue) + 1 /\ Len(queue) \in Nat
      /\ queue'[Len(queue) + 1] = FlushMessage
      /\ \A i \in 1..Len(queue) : queue'[i] = queue[i]
  BY <1>1, InvFacts, WaitingTyped, AppendProperties, LenProperties
<1>4. /\ flusher' \in [pc : {"idle", "waiting", "granted", "sent", "done"}, before : Nat]
      /\ flusher'.before = flusher.before /\ flusher'.pc = "sent"
  BY <1>1 DEF HistoryInv, HistoryTyped
<1>5. HistoryTyped'
  BY <1>1, <1>3, <1>4 DEF HistoryInv, HistoryTyped
<1>6. RealJobs'
  <2>1. ASSUME NEW i \in 1..Len(queue'), ~queue'[i].flush PROVE queue'[i].job \in Job
    <3>1. i \in 1..Len(queue) \/ i = Len(queue) + 1
      BY <1>3
    <3> QED
      BY <1>3, <2>1, <3>1, WaitingTyped DEF HistoryInv, RealJobs
  <2> QED
    BY <1>1, <2>1 DEF HistoryInv, RealJobs
<1>7. flusher.before <= offered.accepted
  BY <1>1, InvFacts DEF Covered
<1>8. Accounted'
  <2>1. AccountedFor(Append(queue, FlushMessage), Reported(emitted.counts, core, "logical"),
                     offered.accepted + Calls(FlushMessage), flusher.before)
    <3>1. Calls(FlushMessage) \in Nat /\ (FlushMessage.flush => offered.accepted >= flusher.before)
      BY <1>7, InvFacts, WaitingTyped
    <3> QED
      BY <3>1, InvFacts, WaitingTyped, AppendAccounted
  <2>2. offered.accepted + Calls(FlushMessage) = offered.accepted
    BY InvFacts, WaitingTyped
  <2> QED
    BY <1>1, <1>4, <2>1, <2>2, Rephrased
<1>9. Covered(queue', worker, flusher', offered.accepted,
              Reported(emitted.counts, core, "logical"), emitted.counts["logical"])
  BY <1>1, <1>4, <1>7, InvFacts DEF Covered
<1>10. Flushing'
  BY <1>1, <1>9, Rephrased
<1> QED
  BY <1>2, <1>5, <1>6, <1>8, <1>10 DEF HistoryInv

LEMMA TickStep ==
    ASSUME HistoryInv, Tick \/ UNCHANGED vars
    PROVE  HistoryInv'
<1>1. /\ UNCHANGED <<handler, queue, core, worker, flusher, offered, emitted>>
      /\ now' = now \/ now' = now + 1
  BY DEF Tick, vars
<1>2. now' \in Nat
  <2>1. now \in Nat
    BY DEF HistoryInv, HistoryTyped
  <2> QED
    BY <1>1, <2>1
<1>3. Bounded(core)' /\ LifecyclesBalance'
  BY <1>1, SameCore
<1>4. HistoryTyped' /\ RealJobs'
  BY <1>1, <1>2 DEF HistoryInv, HistoryTyped, RealJobs
<1>5. Accounted' /\ Flushing'
  BY <1>1, InvFacts, Rephrased
<1> QED
  BY <1>3, <1>4, <1>5 DEF HistoryInv

LEMMA HistoryInvariant == Spec => []HistoryInv
<1>1. HistoryInv /\ [Next]_vars => HistoryInv'
  <2> SUFFICES ASSUME HistoryInv, [Next]_vars PROVE HistoryInv'
    OBVIOUS
  <2>1. ASSUME NEW h \in Handler, NEW job \in Job, Offer(h, job) PROVE HistoryInv'
    BY <2>1, OfferStep
  <2>2. ASSUME NEW h \in Handler, Send(h) PROVE HistoryInv'
    BY <2>2, SendStep
  <2>3. ASSUME NEW h \in Handler, DropLogical(h) \/ DropReason(h) PROVE HistoryInv'
    BY <2>3, DropStep
  <2>4. CASE Analyze
    BY <2>4, AnalyzeStep
  <2>5. CASE FlushMessageReceived
    BY <2>5, FlushMessageStep
  <2>6. CASE IntervalTick
    BY <2>6, IntervalStep
  <2>7. CASE Emit
    BY <2>7, EmitStep
  <2>8. CASE CallFlush
    BY <2>8, CallFlushStep
  <2>9. CASE SendFlush
    BY <2>9, SendFlushStep
  <2>10. CASE Tick \/ UNCHANGED vars
    BY <2>10, TickStep
  <2> QED
    BY <2>1, <2>2, <2>3, <2>4, <2>5, <2>6, <2>7, <2>8, <2>9, <2>10 DEF Next, Finish, Worker
<1> QED
  BY <1>1, HistoryInit, PTL DEF Spec

-----------------------------------------------------------------------------
(* However jobs, flushes and evictions interleave, and though jobs reach    *)
(* the queue in another order than they were stamped, the worker's LRU      *)
(* names exactly the transactions of its map, each where it was last seen,  *)
(* and never more than state_capacity: AnalyzerCore::transition and         *)
(* evict_oldest keep the two in step.                                       *)
THEOREM LruCorrect == Spec => []LruMirrorsState
<1>1. HistoryInv => LruMirrorsState
  <2> SUFFICES ASSUME HistoryInv PROVE LruMirrorsState
    OBVIOUS
  <2>1. Sound(core) /\ Cardinality(Seen(core)) <= StateCapacity
    BY DEF HistoryInv, Bounded
  <2>2. Cardinality(core.lru) = Cardinality(Seen(core))
    BY <2>1, Places
  <2>3. core.lru = {<<core.state[f].last_seen_at, f>> : f \in Seen(core)}
    BY <2>1 DEF Sound, Mirrored, Place
  <2> QED
    BY <2>1, <2>2, <2>3 DEF LruMirrorsState
<1> QED
  BY <1>1, HistoryInvariant, PTL

(* Across every flush, expiry and eviction, the lifecycle counters that the *)
(* reporter was told or will be told account for every transaction: one     *)
(* first seen missing was found, evicted unresolved, or is still            *)
(* remembered, and one found was evicted or is remembered                   *)
(* (AnalyzerCore::transition, evict_oldest and flush).                      *)
THEOREM LifecyclesCorrect == Spec => []LifecyclesBalance
<1>1. HistoryInv => LifecyclesBalance
  BY DEF HistoryInv
<1> QED
  BY <1>1, HistoryInvariant, PTL

(* When the shutdown's flush is answered, every call that finish had        *)
(* accepted before the flush was called has been handed to the reporter,    *)
(* whatever other handlers, the full queue and the interval's own flushes   *)
(* do meanwhile.                                                            *)
THEOREM FlushCorrect == Spec => []FlushCoversAccepted
<1>1. HistoryInv => FlushCoversAccepted
  BY DEF HistoryInv, Flushing, FlushCoversAccepted
<1> QED
  BY <1>1, HistoryInvariant, PTL

-----------------------------------------------------------------------------
(* Sums: the units of a function, those of one argument and the others.    *)
Others(f, x) == {u \in Units(f) : u[1] # x}

LEMMA UnitFacts ==
    ASSUME NEW S, NEW f \in [S -> Nat]
    PROVE  \A u : u \in Units(f) <=> \E x \in S : \E i \in 1..f[x] : u = <<x, i>>
<1>1. DOMAIN f = S
  OBVIOUS
<1>2. ASSUME NEW u \in Units(f) PROVE \E x \in S : \E i \in 1..f[x] : u = <<x, i>>
  BY <1>1 DEF Units
<1>3. ASSUME NEW x \in S, NEW i \in 1..f[x] PROVE <<x, i>> \in Units(f)
  <2>1. <<x, i>> \in {x} \X (1..f[x])
    OBVIOUS
  <2> QED
    BY <1>1, <2>1 DEF Units
<1> QED
  BY <1>2, <1>3

LEMMA UnitsFinite ==
    ASSUME NEW S, IsFiniteSet(S), NEW f \in [S -> Nat]
    PROVE  IsFiniteSet(Units(f)) /\ SumOver(f) \in Nat
<1> DEFINE rows == {{x} \X (1..f[x]) : x \in S}
           row == [x \in S |-> {x} \X (1..f[x])]
<1>1. IsFiniteSet(rows)
  <2>1. row \in Surjection(S, rows)
    BY DEF Surjection
  <2> HIDE DEF row, rows
  <2> QED
    BY <2>1, FS_Surjection
<1>2. ASSUME NEW r \in rows PROVE IsFiniteSet(r)
  <2>1. PICK x \in S : r = {x} \X (1..f[x])
    OBVIOUS
  <2>2. 1 \in Int /\ f[x] \in Int
    OBVIOUS
  <2>3. IsFiniteSet({x}) /\ IsFiniteSet(1..f[x])
    <3> HIDE DEF rows, row
    <3> QED
      BY <2>2, FS_Singleton, FS_Interval
  <2> QED
    BY <2>1, <2>3, FS_Product
<1>3. Units(f) = UNION rows
  BY DEF Units
<1>4. IsFiniteSet(Units(f))
  <2> HIDE DEF rows
  <2> QED
    BY <1>1, <1>2, <1>3, FS_UNION
<1> QED
  BY <1>4, FS_CardinalityType DEF SumOver

(* A sum is one value and the rest. *)
LEMMA SumRow ==
    ASSUME NEW S, IsFiniteSet(S), NEW f \in [S -> Nat], NEW x \in S
    PROVE  /\ SumOver(f) = f[x] + Cardinality(Others(f, x))
           /\ Cardinality(Others(f, x)) \in Nat
<1> DEFINE row == {x} \X (1..f[x])
           rest == Others(f, x)
<1>1. row \cup rest = Units(f)
  BY UnitFacts DEF Others
<1>2. row \cap rest = {}
  BY DEF Others
<1>3. IsFiniteSet(row) /\ Cardinality(row) = f[x]
  <2>1. IsFiniteSet({x}) /\ Cardinality({x}) = 1
    BY FS_Singleton
  <2>2. IsFiniteSet(1..f[x]) /\ Cardinality(1..f[x]) = IF 1 > f[x] THEN 0 ELSE f[x] - 1 + 1
    BY FS_Interval
  <2>3. f[x] \in Nat
    OBVIOUS
  <2>4. Cardinality(1..f[x]) = f[x]
    BY <2>2, <2>3
  <2>5. IsFiniteSet(row) /\ Cardinality(row) = 1 * Cardinality(1..f[x])
    BY <2>1, <2>2, FS_Product
  <2> QED
    BY <2>3, <2>4, <2>5
<1>4. IsFiniteSet(Units(f)) /\ IsFiniteSet(rest)
  <2>1. rest \in SUBSET Units(f)
    BY DEF Others
  <2> QED
    BY <2>1, UnitsFinite, FS_Subset
<1> HIDE DEF row, rest
<1>5. Cardinality(row \cup rest) = Cardinality(row) + Cardinality(rest) - Cardinality({})
  BY <1>2, <1>3, <1>4, FS_Union
<1>6. Cardinality(rest) \in Nat /\ f[x] \in Nat /\ Cardinality({}) = 0
  BY <1>4, FS_CardinalityType, FS_EmptySet
<1>7. Cardinality(Units(f)) = Cardinality(row) + Cardinality(rest) - Cardinality({})
  BY <1>1, <1>5
<1>8. Cardinality(Units(f)) = f[x] + Cardinality(rest)
  BY <1>3, <1>6, <1>7
<1> QED
  BY <1>6, <1>8 DEF SumOver, rest

LEMMA SumZero ==
    ASSUME NEW S, NEW f \in [S -> Nat], \A x \in S : f[x] = 0
    PROVE  SumOver(f) = 0
<1>1. Units(f) = {}
  BY UnitFacts
<1> QED
  BY <1>1, FS_EmptySet DEF SumOver

(* One value changes. *)
LEMMA SumUpdate ==
    ASSUME NEW S, IsFiniteSet(S), NEW f \in [S -> Nat], NEW g \in [S -> Nat],
           NEW x \in S, \A y \in S \ {x} : g[y] = f[y]
    PROVE  SumOver(g) + f[x] = SumOver(f) + g[x]
<1>1. Others(g, x) = Others(f, x)
  <2>1. \A u : u \in Others(g, x) <=> u \in Others(f, x)
    BY UnitFacts DEF Others
  <2> QED
    BY <2>1
<1>2. /\ SumOver(f) = f[x] + Cardinality(Others(f, x))
      /\ SumOver(g) = g[x] + Cardinality(Others(g, x))
      /\ Cardinality(Others(f, x)) \in Nat /\ f[x] \in Nat /\ g[x] \in Nat
  BY SumRow
<1> QED
  BY <1>1, <1>2

(* One argument is added. *)
Grows(f, g, x) ==
    /\ IsFiniteSet(DOMAIN f) /\ x \in DOMAIN g /\ DOMAIN f = DOMAIN g \ {x}
    /\ f \in [DOMAIN f -> Nat] /\ g \in [DOMAIN g -> Nat]
    /\ \A y \in DOMAIN f : g[y] = f[y]

LEMMA SumGrow ==
    ASSUME NEW f, NEW g, NEW x, Grows(f, g, x)
    PROVE  SumOver(g) = SumOver(f) + g[x]
<1> DEFINE S == DOMAIN f
           T == DOMAIN g
<1>0. /\ IsFiniteSet(S) /\ x \in T /\ S = T \ {x} /\ f \in [S -> Nat] /\ g \in [T -> Nat]
      /\ \A y \in S : g[y] = f[y]
  BY DEF Grows
<1> HIDE DEF S, T
<1>1. Others(g, x) = Units(f)
  <2>1. \A u : u \in Others(g, x) <=> u \in Units(f)
    BY <1>0, UnitFacts DEF Others
  <2> QED
    BY <2>1
<1>2. SumOver(g) = g[x] + Cardinality(Others(g, x)) /\ g[x] \in Nat
  <2>1. T = S \cup {x}
    BY <1>0
  <2>2. IsFiniteSet(T)
    BY <1>0, <2>1, FS_AddElement
  <2> QED
    BY <1>0, <2>2, SumRow
<1>3. SumOver(f) \in Nat
  BY <1>0, UnitsFinite
<1> QED
  BY <1>1, <1>2, <1>3 DEF SumOver

(* The same values at other arguments. *)
Moved(f, g, b) ==
    /\ IsFiniteSet(DOMAIN f) /\ f \in [DOMAIN f -> Nat] /\ g \in [DOMAIN g -> Nat]
    /\ b \in Bijection(DOMAIN f, DOMAIN g) /\ \A x \in DOMAIN f : g[b[x]] = f[x]

LEMMA SumMoved ==
    ASSUME NEW f, NEW g, NEW b, Moved(f, g, b)
    PROVE  SumOver(g) = SumOver(f)
<1> DEFINE S == DOMAIN f
           T == DOMAIN g
           move == [u \in Units(f) |-> <<b[u[1]], u[2]>>]
<1>0. /\ IsFiniteSet(S) /\ f \in [S -> Nat] /\ g \in [T -> Nat]
      /\ b \in Bijection(S, T) /\ \A x \in S : g[b[x]] = f[x]
  BY DEF Moved
<1> HIDE DEF S, T
<1>1. /\ b \in [S -> T] /\ \A x, y \in S : b[x] = b[y] => x = y
      /\ \A z \in T : \E x \in S : b[x] = z
  BY <1>0 DEF Bijection, Injection, IsInjective, Surjection
<1>2. \A u \in Units(f) : <<b[u[1]], u[2]>> \in Units(g)
  BY <1>0, <1>1, UnitFacts
<1>3. move \in Injection(Units(f), Units(g))
  <2>1. ASSUME NEW u \in Units(f), NEW v \in Units(f), move[u] = move[v] PROVE u = v
    <3>1. b[u[1]] = b[v[1]] /\ u[2] = v[2]
      BY <2>1
    <3>2. u[1] \in S /\ v[1] \in S /\ u = <<u[1], u[2]>> /\ v = <<v[1], v[2]>>
      BY <1>0, UnitFacts
    <3> QED
      BY <1>1, <3>1, <3>2
  <2> QED
    BY <1>2, <2>1 DEF Injection, IsInjective
<1>4. move \in Surjection(Units(f), Units(g))
  <2>1. ASSUME NEW v \in Units(g) PROVE \E u \in Units(f) : move[u] = v
    <3>1. PICK z \in T : \E i \in 1..g[z] : v = <<z, i>>
      BY <1>0, UnitFacts
    <3>2. PICK i \in 1..g[z] : v = <<z, i>>
      BY <3>1
    <3>3. PICK x \in S : b[x] = z
      BY <1>1
    <3>4. <<x, i>> \in Units(f)
      BY <1>0, <3>2, <3>3, UnitFacts
    <3> QED
      BY <3>2, <3>3, <3>4
  <2> QED
    BY <1>2, <2>1 DEF Surjection
<1>5. ExistsBijection(Units(f), Units(g))
  <2> HIDE DEF move
  <2> QED
    BY <1>3, <1>4 DEF ExistsBijection, Bijection
<1> QED
  BY <1>0, <1>5, UnitsFinite, FS_Bijection DEF SumOver

(* Sums along a sequence, at whose end a value is put and whose first is    *)
(* taken.                                                                   *)
LEMMA SumAppend ==
    ASSUME NEW n \in Nat, NEW f \in [1..n -> Nat], NEW g \in [1..(n + 1) -> Nat],
           \A i \in 1..n : g[i] = f[i]
    PROVE  SumOver(g) = SumOver(f) + g[n + 1]
<1>1. n + 1 \in 1..(n + 1) /\ 1..n = (1..(n + 1)) \ {n + 1} /\ n \in Int
  OBVIOUS
<1>2. IsFiniteSet(1..n)
  BY <1>1, FS_Interval
<1>3. Grows(f, g, n + 1)
  BY <1>1, <1>2 DEF Grows
<1> QED
  BY <1>3, SumGrow

LEMMA SumTail ==
    ASSUME NEW n \in Nat, NEW f \in [1..(n + 1) -> Nat], NEW g \in [1..n -> Nat],
           \A i \in 1..n : g[i] = f[i + 1]
    PROVE  SumOver(f) = SumOver(g) + f[1]
<1> DEFINE S == 2..(n + 1)
           h == [i \in S |-> f[i]]
           b == [i \in 1..n |-> i + 1]
<1>1. 1 \in 1..(n + 1) /\ S = (1..(n + 1)) \ {1} /\ n \in Int /\ n + 1 \in Int
  OBVIOUS
<1>2. IsFiniteSet(S) /\ IsFiniteSet(1..n)
  BY <1>1, FS_Interval
<1>3. h \in [S -> Nat] /\ \A i \in S : f[i] = h[i]
  OBVIOUS
<1>4. b \in Bijection(1..n, S)
  <2>1. b \in [1..n -> S]
    OBVIOUS
  <2>2. \A i, j \in 1..n : b[i] = b[j] => i = j
    OBVIOUS
  <2>3. ASSUME NEW j \in S PROVE \E i \in 1..n : b[i] = j
    <3>1. j - 1 \in 1..n /\ b[j - 1] = j
      OBVIOUS
    <3> QED
      BY <3>1
  <2> QED
    BY <2>1, <2>2, <2>3 DEF Bijection, Injection, IsInjective, Surjection
<1>5. \A i \in 1..n : h[b[i]] = g[i]
  OBVIOUS
<1> HIDE DEF S, h, b
<1>6. Moved(g, h, b)
  BY <1>2, <1>3, <1>4, <1>5 DEF Moved
<1>7. Grows(h, f, 1)
  BY <1>1, <1>2, <1>3 DEF Grows
<1> QED
  BY <1>6, <1>7, SumMoved, SumGrow

-----------------------------------------------------------------------------
(* Calls and permits: what a handler and a message hold of them.           *)
HeldCalls(x) == IF x.pc \in {"send", "drop"} THEN x.job.calls ELSE 0
HeldUnits(x) == IF x.pc = "send" THEN units(x.job) ELSE 0
MessageUnits(m) == IF m.flush THEN 0 ELSE units(m.job)

HandlerCalls(hd) == [h \in Handler |-> HeldCalls(hd[h])]
HandlerUnits(hd) == [h \in Handler |-> HeldUnits(hd[h])]
QueueCalls(q) == [i \in DOMAIN q |-> Calls(q[i])]
QueueUnits(q) == [i \in DOMAIN q |-> MessageUnits(q[i])]

(* A job that waits to be sent or dropped is one that was offered. *)
Holds(x) == x.pc \in {"send", "drop"} => x.job \in Job
Brings(m) == ~m.flush => m.job \in Job

(* Where the calls, the drops and the permits are. *)
CallsKept(calls, hd, q, counted, taken, logical, told) ==
    calls = SumOver(HandlerCalls(hd)) + SumOver(QueueCalls(q)) + counted + taken
                + logical + told
PermitsKept(free, hd, q) ==
    permit_count = free + SumOver(HandlerUnits(hd)) + SumOver(QueueUnits(q))

(* A sum grows by what one of its terms grows by; and what leaves one term for
   another leaves the sum as it was. *)
LEMMA TermGrows ==
    ASSUME NEW s \in Nat, NEW q \in Nat, NEW a \in Nat, NEW b \in Nat, NEW l \in Nat,
           NEW e \in Nat, NEW n \in Nat
    PROVE  (s + q + a + b + l + e) + n = (s + n) + q + a + b + l + e
OBVIOUS

LEMMA TermMoves ==
    ASSUME NEW s \in Nat, NEW q \in Nat, NEW a \in Nat, NEW b \in Nat, NEW l \in Nat,
           NEW e \in Nat, NEW n \in Nat
    PROVE  s + (q + n) + a + b + l + e = s + q + a + b + (l + n) + e
OBVIOUS

LossTyped ==
    /\ quality \in [dropped : Nat, drops : Nat, resets : Nat]
    /\ permits \in Int
    /\ worker.dropped \in Nat /\ emitted.dropped \in Nat /\ emitted.drops \in Nat
    /\ worker.pc # "flushing" => worker.dropped = 0

LossInv ==
    /\ HistoryInv /\ LossTyped
    /\ \A h \in Handler : Holds(handler[h])
    /\ NothingLost

LEMMA JobFacts ==
    ASSUME NEW job \in Job
    PROVE  job.calls \in Nat /\ units(job) \in Nat
<1>1. job.calls \in Nat /\ job.bytes \in Nat /\ QUEUE_BYTE_UNIT \in Nat \ {0}
  BY JobAssumption, HistoricalAssumption
<1> DEFINE b == job.bytes
           u == QUEUE_BYTE_UNIT
<1>2. b \in Nat /\ u \in Nat \ {0}
  BY <1>1
<1>3. (b + u - 1) \div u \in Nat
  <2> HIDE DEF b, u
  <2> QED
    BY <1>2
<1> QED
  BY <1>1, <1>3 DEF units

LEMMA HeldFacts ==
    ASSUME NEW x, Holds(x)
    PROVE  HeldCalls(x) \in Nat /\ HeldUnits(x) \in Nat
  BY JobFacts DEF Holds, HeldCalls, HeldUnits

LEMMA BroughtFacts ==
    ASSUME NEW m, Brings(m)
    PROVE  Calls(m) \in Nat /\ MessageUnits(m) \in Nat
  BY JobFacts DEF Brings, Calls, MessageUnits

(* One handler takes a step. *)
HandlerMoves(hd, new, h) ==
    /\ h \in Handler /\ \A g \in Handler : Holds(hd[g]) /\ Holds(new[g])
    /\ \A g \in Handler \ {h} : new[g] = hd[g]

LEMMA HandlerSums ==
    ASSUME NEW hd, NEW new, NEW h, HandlerMoves(hd, new, h)
    PROVE  /\ SumOver(HandlerCalls(new)) + HeldCalls(hd[h])
                = SumOver(HandlerCalls(hd)) + HeldCalls(new[h])
           /\ SumOver(HandlerUnits(new)) + HeldUnits(hd[h])
                = SumOver(HandlerUnits(hd)) + HeldUnits(new[h])
           /\ SumOver(HandlerCalls(hd)) \in Nat /\ SumOver(HandlerUnits(hd)) \in Nat
           /\ SumOver(HandlerCalls(new)) \in Nat /\ SumOver(HandlerUnits(new)) \in Nat
<1>1. h \in Handler /\ IsFiniteSet(Handler) /\ \A g \in Handler \ {h} : new[g] = hd[g]
  BY HistoricalAssumption DEF HandlerMoves
<1>2. \A g \in Handler : /\ HeldCalls(hd[g]) \in Nat /\ HeldUnits(hd[g]) \in Nat
                         /\ HeldCalls(new[g]) \in Nat /\ HeldUnits(new[g]) \in Nat
  BY HeldFacts DEF HandlerMoves
<1>3. /\ HandlerCalls(hd) \in [Handler -> Nat] /\ HandlerCalls(new) \in [Handler -> Nat]
      /\ HandlerUnits(hd) \in [Handler -> Nat] /\ HandlerUnits(new) \in [Handler -> Nat]
  BY <1>2 DEF HandlerCalls, HandlerUnits
<1>4. /\ \A g \in Handler : HandlerCalls(hd)[g] = HeldCalls(hd[g])
      /\ \A g \in Handler : HandlerCalls(new)[g] = HeldCalls(new[g])
      /\ \A g \in Handler : HandlerUnits(hd)[g] = HeldUnits(hd[g])
      /\ \A g \in Handler : HandlerUnits(new)[g] = HeldUnits(new[g])
  BY DEF HandlerCalls, HandlerUnits
<1>5. /\ SumOver(HandlerCalls(hd)) \in Nat /\ SumOver(HandlerUnits(hd)) \in Nat
      /\ SumOver(HandlerCalls(new)) \in Nat /\ SumOver(HandlerUnits(new)) \in Nat
  BY <1>1, <1>3, UnitsFinite
<1>6. SumOver(HandlerCalls(new)) + HandlerCalls(hd)[h]
        = SumOver(HandlerCalls(hd)) + HandlerCalls(new)[h]
  <2>1. \A g \in Handler \ {h} : HandlerCalls(new)[g] = HandlerCalls(hd)[g]
    BY <1>1, <1>4
  <2> QED
    BY <1>1, <1>3, <2>1, SumUpdate
<1>7. SumOver(HandlerUnits(new)) + HandlerUnits(hd)[h]
        = SumOver(HandlerUnits(hd)) + HandlerUnits(new)[h]
  <2>1. \A g \in Handler \ {h} : HandlerUnits(new)[g] = HandlerUnits(hd)[g]
    BY <1>1, <1>4
  <2> QED
    BY <1>1, <1>3, <2>1, SumUpdate
<1> QED
  BY <1>1, <1>4, <1>5, <1>6, <1>7

(* Messages come to the end of the queue and leave from its front. *)
AllBring(q) == \A i \in 1..Len(q) : Brings(q[i])

LEMMA QueueTyped ==
    ASSUME NEW q \in Seq(Message), AllBring(q)
    PROVE  /\ QueueCalls(q) \in [1..Len(q) -> Nat] /\ QueueUnits(q) \in [1..Len(q) -> Nat]
           /\ \A i \in 1..Len(q) : QueueCalls(q)[i] = Calls(q[i])
           /\ \A i \in 1..Len(q) : QueueUnits(q)[i] = MessageUnits(q[i])
           /\ SumOver(QueueCalls(q)) \in Nat /\ SumOver(QueueUnits(q)) \in Nat
           /\ Len(q) \in Nat
<1>1. DOMAIN q = 1..Len(q) /\ Len(q) \in Nat
  BY LenProperties
<1>2. \A i \in 1..Len(q) : Calls(q[i]) \in Nat /\ MessageUnits(q[i]) \in Nat
  BY BroughtFacts DEF AllBring
<1>3. /\ QueueCalls(q) \in [1..Len(q) -> Nat] /\ QueueUnits(q) \in [1..Len(q) -> Nat]
      /\ \A i \in 1..Len(q) : QueueCalls(q)[i] = Calls(q[i])
      /\ \A i \in 1..Len(q) : QueueUnits(q)[i] = MessageUnits(q[i])
  BY <1>1, <1>2 DEF QueueCalls, QueueUnits
<1>4. IsFiniteSet(1..Len(q))
  <2>1. 1 \in Int /\ Len(q) \in Int
    BY <1>1
  <2> QED
    BY <2>1, FS_Interval
<1> QED
  BY <1>1, <1>3, <1>4, UnitsFinite

LEMMA QueueAppended ==
    ASSUME NEW q \in Seq(Message), AllBring(q), NEW m \in Message, Brings(m)
    PROVE  /\ SumOver(QueueCalls(Append(q, m))) = SumOver(QueueCalls(q)) + Calls(m)
           /\ SumOver(QueueUnits(Append(q, m))) = SumOver(QueueUnits(q)) + MessageUnits(m)
           /\ AllBring(Append(q, m))
<1> DEFINE r == Append(q, m)
           n == Len(q)
<1>1. /\ r \in Seq(Message) /\ Len(r) = n + 1 /\ n \in Nat /\ r[n + 1] = m
      /\ \A i \in 1..n : r[i] = q[i]
  BY AppendProperties, LenProperties
<1> HIDE DEF r
<1>2. AllBring(r)
  <2>1. \A i \in 1..Len(r) : i \in 1..n \/ i = n + 1
    BY <1>1
  <2> QED
    BY <1>1, <2>1 DEF AllBring
<1>3. /\ QueueCalls(r) \in [1..(n + 1) -> Nat] /\ QueueUnits(r) \in [1..(n + 1) -> Nat]
      /\ \A i \in 1..(n + 1) : QueueCalls(r)[i] = Calls(r[i])
      /\ \A i \in 1..(n + 1) : QueueUnits(r)[i] = MessageUnits(r[i])
  BY <1>1, <1>2, QueueTyped
<1>4. /\ QueueCalls(q) \in [1..n -> Nat] /\ QueueUnits(q) \in [1..n -> Nat]
      /\ \A i \in 1..n : QueueCalls(q)[i] = Calls(q[i])
      /\ \A i \in 1..n : QueueUnits(q)[i] = MessageUnits(q[i])
  BY QueueTyped
<1>5. 1..n \subseteq 1..(n + 1) /\ n + 1 \in 1..(n + 1)
  BY <1>1
<1>6. /\ \A i \in 1..n : QueueCalls(r)[i] = QueueCalls(q)[i]
      /\ \A i \in 1..n : QueueUnits(r)[i] = QueueUnits(q)[i]
      /\ QueueCalls(r)[n + 1] = Calls(m) /\ QueueUnits(r)[n + 1] = MessageUnits(m)
  BY <1>1, <1>3, <1>4, <1>5
<1> HIDE DEF n
<1>7. SumOver(QueueCalls(r)) = SumOver(QueueCalls(q)) + QueueCalls(r)[n + 1]
  BY <1>1, <1>3, <1>4, <1>6, SumAppend
<1>8. SumOver(QueueUnits(r)) = SumOver(QueueUnits(q)) + QueueUnits(r)[n + 1]
  BY <1>1, <1>3, <1>4, <1>6, SumAppend
<1> QED
  BY <1>2, <1>6, <1>7, <1>8 DEF r

LEMMA QueueTaken ==
    ASSUME NEW q \in Seq(Message), AllBring(q), q # <<>>
    PROVE  /\ SumOver(QueueCalls(q)) = SumOver(QueueCalls(Tail(q))) + Calls(Head(q))
           /\ SumOver(QueueUnits(q)) = SumOver(QueueUnits(Tail(q))) + MessageUnits(Head(q))
           /\ AllBring(Tail(q)) /\ Brings(Head(q)) /\ Tail(q) \in Seq(Message)
<1> DEFINE r == Tail(q)
           n == Len(r)
<1>1. /\ r \in Seq(Message) /\ Len(q) = n + 1 /\ n \in Nat /\ Head(q) = q[1]
      /\ \A i \in 1..n : r[i] = q[i + 1]
  BY HeadTailProperties, LenProperties
<1> HIDE DEF r
<1>2. /\ \A i \in 1..n : i + 1 \in 1..(n + 1)
      /\ 1 \in 1..(n + 1)
  BY <1>1
<1>3. AllBring(r) /\ Brings(Head(q))
  BY <1>1, <1>2 DEF AllBring
<1>4. /\ QueueCalls(q) \in [1..(n + 1) -> Nat] /\ QueueUnits(q) \in [1..(n + 1) -> Nat]
      /\ \A i \in 1..(n + 1) : QueueCalls(q)[i] = Calls(q[i])
      /\ \A i \in 1..(n + 1) : QueueUnits(q)[i] = MessageUnits(q[i])
  BY <1>1, QueueTyped
<1>5. /\ QueueCalls(r) \in [1..n -> Nat] /\ QueueUnits(r) \in [1..n -> Nat]
      /\ \A i \in 1..n : QueueCalls(r)[i] = Calls(r[i])
      /\ \A i \in 1..n : QueueUnits(r)[i] = MessageUnits(r[i])
  BY <1>1, <1>3, QueueTyped
<1>6. /\ \A i \in 1..n : QueueCalls(r)[i] = QueueCalls(q)[i + 1]
      /\ \A i \in 1..n : QueueUnits(r)[i] = QueueUnits(q)[i + 1]
      /\ QueueCalls(q)[1] = Calls(Head(q)) /\ QueueUnits(q)[1] = MessageUnits(Head(q))
  BY <1>1, <1>2, <1>4, <1>5
<1> HIDE DEF n
<1>7. SumOver(QueueCalls(q)) = SumOver(QueueCalls(r)) + QueueCalls(q)[1]
  BY <1>1, <1>4, <1>5, <1>6, SumTail
<1>8. SumOver(QueueUnits(q)) = SumOver(QueueUnits(r)) + QueueUnits(q)[1]
  BY <1>1, <1>4, <1>5, <1>6, SumTail
<1> QED
  BY <1>1, <1>3, <1>6, <1>7, <1>8 DEF r

(* The invariant in these terms, before and after a step. *)
LEMMA Restated ==
    /\ NothingLost <=>
        /\ CallsKept(offered.calls, handler, queue, quality.dropped, worker.dropped,
                     Reported(emitted.counts, core, "logical"), emitted.dropped)
        /\ offered.drops = quality.drops + emitted.drops
        /\ PermitsKept(permits, handler, queue)
    /\ NothingLost' <=>
        /\ CallsKept(offered'.calls, handler', queue', quality'.dropped, worker'.dropped,
                     Reported(emitted'.counts, core', "logical"), emitted'.dropped)
        /\ offered'.drops = quality'.drops + emitted'.drops
        /\ PermitsKept(permits', handler', queue')
<1> DEFINE Held(hd) == [h \in Handler |-> IF hd[h].pc \in {"send", "drop"}
                                          THEN hd[h].job.calls ELSE 0]
           Lent(hd) == [h \in Handler |-> IF hd[h].pc = "send" THEN units(hd[h].job) ELSE 0]
           Queued(q) == [i \in DOMAIN q |-> IF q[i].flush THEN 0 ELSE q[i].job.calls]
           LentIn(q) == [i \in DOMAIN q |-> IF q[i].flush THEN 0 ELSE units(q[i].job)]
<1>1. \A hd : HandlerCalls(hd) = Held(hd) /\ HandlerUnits(hd) = Lent(hd)
  BY DEF HandlerCalls, HandlerUnits, HeldCalls, HeldUnits
<1>2. \A q : QueueCalls(q) = Queued(q) /\ QueueUnits(q) = LentIn(q)
  BY DEF QueueCalls, QueueUnits, Calls, MessageUnits
<1>3. NothingLost <=>
        /\ offered.calls = SumOver(Held(handler)) + SumOver(Queued(queue)) + quality.dropped
                + worker.dropped + Total("logical") + emitted.dropped
        /\ offered.drops = quality.drops + emitted.drops
        /\ permit_count = permits + SumOver(Lent(handler)) + SumOver(LentIn(queue))
  BY DEF NothingLost, Holding
<1>4. NothingLost' <=>
        /\ offered'.calls = SumOver(Held(handler')) + SumOver(Queued(queue')) + quality'.dropped
                + worker'.dropped + Total("logical")' + emitted'.dropped
        /\ offered'.drops = quality'.drops + emitted'.drops
        /\ permit_count = permits' + SumOver(Lent(handler')) + SumOver(LentIn(queue'))
  BY DEF NothingLost, Holding
<1> HIDE DEF Held, Lent, Queued, LentIn
<1>5. /\ Total("logical") = Reported(emitted.counts, core, "logical")
      /\ Total("logical")' = Reported(emitted'.counts, core', "logical")
  BY Totals
<1> QED
  BY <1>1, <1>2, <1>3, <1>4, <1>5 DEF CallsKept, PermitsKept

LEMMA LossFacts ==
    ASSUME LossInv
    PROVE  /\ HistoryInv /\ LossTyped /\ AllBring(queue) /\ queue \in Seq(Message)
           /\ handler \in [Handler -> Offering]
           /\ \A h \in Handler : Holds(handler[h])
           /\ CallsKept(offered.calls, handler, queue, quality.dropped, worker.dropped,
                        Reported(emitted.counts, core, "logical"), emitted.dropped)
           /\ offered.drops = quality.drops + emitted.drops
           /\ PermitsKept(permits, handler, queue)
           /\ offered.calls \in Nat /\ permits \in Int
           /\ quality.dropped \in Nat /\ worker.dropped \in Nat /\ emitted.dropped \in Nat
           /\ Reported(emitted.counts, core, "logical") \in Nat
           /\ SumOver(QueueCalls(queue)) \in Nat /\ SumOver(QueueUnits(queue)) \in Nat
           /\ SumOver(HandlerCalls(handler)) \in Nat /\ SumOver(HandlerUnits(handler)) \in Nat
<1>1. /\ HistoryInv /\ LossTyped /\ \A h \in Handler : Holds(handler[h])
      /\ queue \in Seq(Message) /\ handler \in [Handler -> Offering] /\ offered.calls \in Nat
  BY DEF LossInv, HistoryInv, HistoryTyped
<1>2. AllBring(queue)
  BY <1>1 DEF HistoryInv, RealJobs, AllBring, Brings
<1>3. /\ quality.dropped \in Nat /\ worker.dropped \in Nat /\ emitted.dropped \in Nat
      /\ permits \in Int
  BY <1>1 DEF LossTyped
<1>4. Reported(emitted.counts, core, "logical") \in Nat
  BY <1>1, InvFacts
<1>5. SumOver(QueueCalls(queue)) \in Nat /\ SumOver(QueueUnits(queue)) \in Nat
  BY <1>1, <1>2, QueueTyped
<1>6. SumOver(HandlerCalls(handler)) \in Nat /\ SumOver(HandlerUnits(handler)) \in Nat
  <2>1. HandlerCalls(handler) \in [Handler -> Nat] /\ HandlerUnits(handler) \in [Handler -> Nat]
    BY <1>1, HeldFacts DEF HandlerCalls, HandlerUnits
  <2> QED
    BY <2>1, UnitsFinite, HistoricalAssumption
<1> QED
  BY <1>1, <1>2, <1>3, <1>4, <1>5, <1>6, Restated DEF LossInv

(* A call is offered: it is in the handler, with its permits or without. *)
LEMMA OfferKeeps ==
    ASSUME LossInv, NEW h \in Handler, NEW job \in Job, Offer(h, job)
    PROVE  LossInv'
<1> DEFINE fits == job.bytes <= MaxJobBytes /\ units(job) <= permits
           L == Reported(emitted.counts, core, "logical")
<1>1. /\ handler[h].pc = "idle"
      /\ handler' = [handler EXCEPT ![h] =
            [pc |-> IF fits THEN "send" ELSE "drop", job |-> job,
             observed_at |-> IF fits THEN now ELSE 0]]
      /\ permits' = IF fits THEN permits - units(job) ELSE permits
      /\ offered' = [offered EXCEPT !.calls = @ + job.calls]
      /\ UNCHANGED <<now, queue, quality, core, worker, flusher, emitted>>
  BY DEF Offer
<1>2. job.calls \in Nat /\ units(job) \in Nat
  BY JobFacts
<1> HIDE DEF fits
<1>3. /\ handler'[h].pc = IF fits THEN "send" ELSE "drop"
      /\ handler'[h].job = job
      /\ \A g \in Handler \ {h} : handler'[g] = handler[g]
  BY <1>1, LossFacts
<1>4. \A g \in Handler : Holds(handler'[g])
  BY <1>3, LossFacts DEF Holds
<1>5. HandlerMoves(handler, handler', h)
  BY <1>3, <1>4, LossFacts DEF HandlerMoves
<1>6. /\ HeldCalls(handler[h]) = 0 /\ HeldUnits(handler[h]) = 0
      /\ HeldCalls(handler'[h]) = job.calls
      /\ HeldUnits(handler'[h]) = IF fits THEN units(job) ELSE 0
  BY <1>1, <1>3 DEF HeldCalls, HeldUnits
<1>7. /\ SumOver(HandlerCalls(handler')) + 0 = SumOver(HandlerCalls(handler)) + job.calls
      /\ SumOver(HandlerUnits(handler')) + 0
            = SumOver(HandlerUnits(handler)) + (IF fits THEN units(job) ELSE 0)
      /\ SumOver(HandlerCalls(handler')) \in Nat /\ SumOver(HandlerUnits(handler')) \in Nat
  BY <1>5, <1>6, HandlerSums
<1>8. permits \in Int /\ permits' \in Int /\ permits' = permits - (IF fits THEN units(job) ELSE 0)
  <2>1. permits \in Int
    BY LossFacts DEF LossTyped
  <2> QED
    BY <1>1, <1>2, <2>1
<1>9. offered'.calls = offered.calls + job.calls /\ offered'.drops = offered.drops
  <2>1. offered \in [calls : Nat, drops : Nat, accepted : Nat]
    BY LossFacts DEF HistoryInv, HistoryTyped
  <2> QED
    BY <1>1, <2>1
<1>10. CallsKept(offered'.calls, handler', queue, quality.dropped,
                 worker.dropped, L, emitted.dropped)
  <2>1. /\ CallsKept(offered.calls, handler, queue, quality.dropped, worker.dropped, L,
                     emitted.dropped)
        /\ SumOver(HandlerCalls(handler)) \in Nat /\ SumOver(QueueCalls(queue)) \in Nat
        /\ quality.dropped \in Nat /\ worker.dropped \in Nat /\ L \in Nat
        /\ emitted.dropped \in Nat
    BY LossFacts
  <2> HIDE DEF L
  <2>2. SumOver(HandlerCalls(handler')) = SumOver(HandlerCalls(handler)) + job.calls
    BY <1>2, <1>7, <2>1
  <2>3. offered'.calls = offered.calls + job.calls /\ job.calls \in Nat
    BY <1>2, <1>9
  <2> QED
    BY <2>1, <2>2, <2>3, TermGrows DEF CallsKept
<1>11. PermitsKept(permits', handler', queue)
  <2>1. /\ PermitsKept(permits, handler, queue) /\ permits \in Int
        /\ SumOver(HandlerUnits(handler)) \in Nat /\ SumOver(QueueUnits(queue)) \in Nat
    BY LossFacts
  <2> QED
    BY <1>2, <1>7, <1>8, <2>1 DEF PermitsKept
<1>12. NothingLost'
  BY <1>1, <1>9, <1>10, <1>11, LossFacts, Restated
<1>13. LossTyped'
  BY <1>1, <1>8, LossFacts DEF LossTyped
<1>14. HistoryInv'
  BY LossFacts, OfferStep
<1> QED
  BY <1>4, <1>12, <1>13, <1>14 DEF LossInv

(* It goes to the queue with its permits, or gives them back. *)
LEMMA SendKeeps ==
    ASSUME LossInv, NEW h \in Handler, Send(h)
    PROVE  LossInv'
<1> DEFINE job == handler[h].job
           m == [flush |-> FALSE, job |-> job, observed_at |-> handler[h].observed_at]
           L == Reported(emitted.counts, core, "logical")
<1>1. /\ handler[h].pc = "send"
      /\ UNCHANGED <<now, quality, core, worker, flusher, emitted>>
  BY DEF Send
<1>2. /\ job \in Job /\ job.calls \in Nat /\ units(job) \in Nat /\ permits \in Int
      /\ HeldCalls(handler[h]) = job.calls /\ HeldUnits(handler[h]) = units(job)
  BY <1>1, LossFacts, JobFacts DEF Holds, HeldCalls, HeldUnits, LossTyped
<1>3. handler[h] \in Offering
  BY LossFacts
<1>4. HistoryInv'
  BY LossFacts, SendStep
<1>5. CASE HasRoom
  <2>1. /\ queue' = Append(queue, m) /\ handler' = [handler EXCEPT ![h] = Waiting]
        /\ offered' = [offered EXCEPT !.accepted = @ + job.calls]
        /\ permits' = permits
    BY <1>5 DEF Send
  <2>2. m \in Message /\ Brings(m) /\ Calls(m) = job.calls /\ MessageUnits(m) = units(job)
    BY <1>2, <1>3 DEF Message, Offering, AnyJob, Brings, Calls, MessageUnits
  <2> HIDE DEF m
  <2>3. /\ handler'[h] = Waiting /\ \A g \in Handler \ {h} : handler'[g] = handler[g]
    BY <2>1, LossFacts
  <2>4. HeldCalls(Waiting) = 0 /\ HeldUnits(Waiting) = 0 /\ Holds(Waiting)
    BY DEF HeldCalls, HeldUnits, Holds, Waiting
  <2>5. \A g \in Handler : Holds(handler'[g])
    BY <2>3, <2>4, LossFacts
  <2>6. HandlerMoves(handler, handler', h)
    BY <2>3, <2>5, LossFacts DEF HandlerMoves
  <2>7. /\ SumOver(HandlerCalls(handler')) + job.calls = SumOver(HandlerCalls(handler)) + 0
        /\ SumOver(HandlerUnits(handler')) + units(job) = SumOver(HandlerUnits(handler)) + 0
        /\ SumOver(HandlerCalls(handler')) \in Nat /\ SumOver(HandlerUnits(handler')) \in Nat
    BY <1>2, <2>3, <2>4, <2>6, HandlerSums
  <2>8. /\ SumOver(QueueCalls(queue')) = SumOver(QueueCalls(queue)) + job.calls
        /\ SumOver(QueueUnits(queue')) = SumOver(QueueUnits(queue)) + units(job)
    BY <2>1, <2>2, LossFacts, QueueAppended
  <2>9. offered'.calls = offered.calls /\ offered'.drops = offered.drops
    <3>1. offered \in [calls : Nat, drops : Nat, accepted : Nat]
      BY LossFacts DEF HistoryInv, HistoryTyped
    <3> QED
      BY <2>1, <3>1
  <2> HIDE DEF job
  <2>10. CallsKept(offered.calls, handler', queue', quality.dropped,
                   worker.dropped, L, emitted.dropped)
    <3>1. SumOver(HandlerCalls(handler')) + SumOver(QueueCalls(queue'))
            = SumOver(HandlerCalls(handler)) + SumOver(QueueCalls(queue))
      <4>1. SumOver(HandlerCalls(handler)) \in Nat /\ SumOver(QueueCalls(queue)) \in Nat
        BY LossFacts
      <4> QED
        BY <1>2, <2>7, <2>8, <4>1
    <3> QED
      BY <3>1, LossFacts DEF CallsKept
  <2>11. PermitsKept(permits, handler', queue')
    <3>1. /\ PermitsKept(permits, handler, queue) /\ permits \in Int
          /\ SumOver(HandlerUnits(handler)) \in Nat /\ SumOver(QueueUnits(queue)) \in Nat
      BY LossFacts
    <3> QED
      BY <1>2, <2>7, <2>8, <3>1 DEF PermitsKept
  <2>12. NothingLost'
    BY <1>1, <2>1, <2>9, <2>10, <2>11, LossFacts, Restated
  <2>13. LossTyped'
    BY <1>1, <2>1, LossFacts DEF LossTyped
  <2> QED
    BY <1>4, <2>5, <2>12, <2>13 DEF LossInv
<1>6. CASE ~HasRoom
  <2>1. /\ permits' = permits + units(job) /\ UNCHANGED <<queue, offered>>
        /\ handler' = [handler EXCEPT ![h].pc = "drop"]
    BY <1>6 DEF Send, Refused, Step
  <2>2. /\ handler'[h].pc = "drop" /\ handler'[h].job = job
        /\ \A g \in Handler \ {h} : handler'[g] = handler[g]
    BY <1>3, <2>1, LossFacts DEF Offering
  <2>3. \A g \in Handler : Holds(handler'[g])
    BY <1>2, <2>2, LossFacts DEF Holds
  <2>4. HandlerMoves(handler, handler', h)
    BY <2>2, <2>3, LossFacts DEF HandlerMoves
  <2>5. HeldCalls(handler'[h]) = job.calls /\ HeldUnits(handler'[h]) = 0
    BY <2>2 DEF HeldCalls, HeldUnits
  <2> HIDE DEF job
  <2>6. /\ SumOver(HandlerCalls(handler')) + job.calls = SumOver(HandlerCalls(handler)) + job.calls
        /\ SumOver(HandlerUnits(handler')) + units(job) = SumOver(HandlerUnits(handler)) + 0
        /\ SumOver(HandlerCalls(handler')) \in Nat /\ SumOver(HandlerUnits(handler')) \in Nat
    BY <1>2, <2>4, <2>5, HandlerSums
  <2>7. CallsKept(offered.calls, handler', queue, quality.dropped,
                  worker.dropped, L, emitted.dropped)
    <3>1. SumOver(HandlerCalls(handler)) \in Nat
      BY LossFacts
    <3>2. SumOver(HandlerCalls(handler')) = SumOver(HandlerCalls(handler))
      BY <1>2, <2>6, <3>1
    <3> QED
      BY <3>2, LossFacts DEF CallsKept
  <2>8. PermitsKept(permits', handler', queue)
    <3>1. /\ PermitsKept(permits, handler, queue) /\ permits \in Int
          /\ SumOver(HandlerUnits(handler)) \in Nat /\ SumOver(QueueUnits(queue)) \in Nat
      BY LossFacts
    <3> QED
      BY <1>2, <2>1, <2>6, <3>1 DEF PermitsKept
  <2>9. NothingLost'
    BY <1>1, <2>1, <2>7, <2>8, LossFacts, Restated
  <2>10. permits' \in Int
    BY <1>2, <2>1
  <2>11. LossTyped'
    BY <1>1, <2>10, LossFacts DEF LossTyped
  <2> QED
    BY <1>4, <2>3, <2>9, <2>11 DEF LossInv
<1> QED
  BY <1>5, <1>6

(* A drop is counted, and then its reason. *)
LEMMA DropLogicalKeeps ==
    ASSUME LossInv, NEW h \in Handler, DropLogical(h)
    PROVE  LossInv'
<1> DEFINE calls == handler[h].job.calls
           L == Reported(emitted.counts, core, "logical")
<1>1. /\ handler[h].pc = "drop" /\ handler' = [handler EXCEPT ![h].pc = "reason"]
      /\ quality' = [quality EXCEPT !.dropped = @ + calls]
      /\ UNCHANGED <<now, permits, queue, core, worker, flusher, offered, emitted>>
  BY DEF DropLogical, Step
<1>2. /\ calls \in Nat /\ HeldCalls(handler[h]) = calls /\ HeldUnits(handler[h]) = 0
  BY <1>1, LossFacts, JobFacts DEF Holds, HeldCalls, HeldUnits
<1>3. handler'[h].pc = "reason" /\ \A g \in Handler \ {h} : handler'[g] = handler[g]
  <2>1. handler[h] \in Offering
    BY LossFacts
  <2> QED
    BY <1>1, <2>1, LossFacts DEF Offering
<1>4. \A g \in Handler : Holds(handler'[g])
  BY <1>3, LossFacts DEF Holds
<1>5. HandlerMoves(handler, handler', h)
  BY <1>3, <1>4, LossFacts DEF HandlerMoves
<1>6. HeldCalls(handler'[h]) = 0 /\ HeldUnits(handler'[h]) = 0
  BY <1>3 DEF HeldCalls, HeldUnits
<1>7. /\ quality'.dropped = quality.dropped + calls /\ quality'.drops = quality.drops
      /\ quality' \in [dropped : Nat, drops : Nat, resets : Nat]
  <2>1. quality \in [dropped : Nat, drops : Nat, resets : Nat]
    BY LossFacts DEF LossTyped
  <2>2. quality.dropped + calls \in Nat
    BY <1>2, LossFacts
  <2> HIDE DEF calls
  <2> QED
    BY <1>1, <2>1, <2>2
<1> HIDE DEF calls
<1>8. /\ SumOver(HandlerCalls(handler')) + calls = SumOver(HandlerCalls(handler)) + 0
      /\ SumOver(HandlerUnits(handler')) + 0 = SumOver(HandlerUnits(handler)) + 0
      /\ SumOver(HandlerCalls(handler')) \in Nat /\ SumOver(HandlerUnits(handler')) \in Nat
  BY <1>2, <1>5, <1>6, HandlerSums
<1>9. CallsKept(offered.calls, handler', queue, quality'.dropped,
                worker.dropped, L, emitted.dropped)
  <2>1. SumOver(HandlerCalls(handler')) + SumOver(QueueCalls(queue)) + quality'.dropped
            = SumOver(HandlerCalls(handler)) + SumOver(QueueCalls(queue)) + quality.dropped
    <3>1. /\ SumOver(HandlerCalls(handler)) \in Nat /\ SumOver(QueueCalls(queue)) \in Nat
          /\ quality.dropped \in Nat
      BY LossFacts
    <3> QED
      BY <1>2, <1>7, <1>8, <3>1
  <2> QED
    BY <2>1, LossFacts DEF CallsKept
<1>10. PermitsKept(permits, handler', queue)
  <2>1. SumOver(HandlerUnits(handler')) = SumOver(HandlerUnits(handler))
    BY <1>8, LossFacts
  <2> QED
    BY <2>1, LossFacts DEF PermitsKept
<1>11. NothingLost'
  BY <1>1, <1>7, <1>9, <1>10, LossFacts, Restated
<1>12. LossTyped'
  BY <1>1, <1>7, LossFacts DEF LossTyped
<1>13. HistoryInv'
  BY LossFacts, DropStep
<1> QED
  BY <1>4, <1>11, <1>12, <1>13 DEF LossInv

LEMMA DropReasonKeeps ==
    ASSUME LossInv, NEW h \in Handler, DropReason(h)
    PROVE  LossInv'
<1> DEFINE L == Reported(emitted.counts, core, "logical")
<1>1. /\ handler[h].pc = "reason" /\ handler' = [handler EXCEPT ![h] = Waiting]
      /\ quality' = [quality EXCEPT !.drops = @ + 1]
      /\ offered' = [offered EXCEPT !.drops = @ + 1]
      /\ UNCHANGED <<now, permits, queue, core, worker, flusher, emitted>>
  BY DEF DropReason
<1>2. /\ HeldCalls(handler[h]) = 0 /\ HeldUnits(handler[h]) = 0
      /\ HeldCalls(Waiting) = 0 /\ HeldUnits(Waiting) = 0 /\ Holds(Waiting)
  BY <1>1 DEF HeldCalls, HeldUnits, Holds, Waiting
<1>3. handler'[h] = Waiting /\ \A g \in Handler \ {h} : handler'[g] = handler[g]
  BY <1>1, LossFacts
<1>4. \A g \in Handler : Holds(handler'[g])
  BY <1>2, <1>3, LossFacts
<1>5. HandlerMoves(handler, handler', h)
  BY <1>3, <1>4, LossFacts DEF HandlerMoves
<1>6. /\ SumOver(HandlerCalls(handler')) + 0 = SumOver(HandlerCalls(handler)) + 0
      /\ SumOver(HandlerUnits(handler')) + 0 = SumOver(HandlerUnits(handler)) + 0
      /\ SumOver(HandlerCalls(handler')) \in Nat /\ SumOver(HandlerUnits(handler')) \in Nat
  BY <1>2, <1>3, <1>5, HandlerSums
<1>7. /\ SumOver(HandlerCalls(handler')) = SumOver(HandlerCalls(handler))
      /\ SumOver(HandlerUnits(handler')) = SumOver(HandlerUnits(handler))
  BY <1>6, LossFacts
<1>8. /\ quality \in [dropped : Nat, drops : Nat, resets : Nat]
      /\ offered \in [calls : Nat, drops : Nat, accepted : Nat]
  BY LossFacts DEF LossTyped, HistoryInv, HistoryTyped
<1>9. quality.drops \in Nat /\ quality.drops + 1 \in Nat
  BY <1>8
<1>10. /\ quality'.dropped = quality.dropped /\ quality'.drops = quality.drops + 1
       /\ quality' \in [dropped : Nat, drops : Nat, resets : Nat]
       /\ offered'.drops = offered.drops + 1 /\ offered'.calls = offered.calls
  BY <1>1, <1>8, <1>9
<1>11. offered'.drops = quality'.drops + emitted.drops
  <2>1. offered.drops = quality.drops + emitted.drops /\ emitted.drops \in Nat
    BY LossFacts DEF LossTyped
  <2> QED
    BY <1>9, <1>10, <2>1
<1>12. CallsKept(offered.calls, handler', queue, quality.dropped,
                 worker.dropped, L, emitted.dropped)
  BY <1>7, LossFacts DEF CallsKept
<1>13. PermitsKept(permits, handler', queue)
  BY <1>7, LossFacts DEF PermitsKept
<1>14. NothingLost'
  BY <1>1, <1>10, <1>11, <1>12, <1>13, LossFacts, Restated
<1>15. LossTyped'
  BY <1>1, <1>10, LossFacts DEF LossTyped
<1>16. HistoryInv'
  BY LossFacts, DropStep
<1> QED
  BY <1>4, <1>14, <1>15, <1>16 DEF LossInv

(* The worker counts a job and gives its permits back. *)
LEMMA AnalyzeKeeps ==
    ASSUME LossInv, Analyze
    PROVE  LossInv'
<1> DEFINE job == Head(queue).job
           t == Head(queue).observed_at
           L == Reported(emitted.counts, core, "logical")
<1>1. /\ queue # <<>> /\ ~Head(queue).flush /\ Received /\ queue' = Tail(queue)
      /\ core' = process(core, job, t) /\ permits' = permits + units(job)
      /\ UNCHANGED <<now, handler, quality, worker, offered, emitted>>
  BY DEF Analyze, Received
<1>2. /\ job \in Job /\ t \in Nat /\ job.calls \in Nat /\ units(job) \in Nat
      /\ Calls(Head(queue)) = job.calls /\ MessageUnits(Head(queue)) = units(job)
  <2>1. job \in Job /\ t \in Nat
    BY <1>1, LossFacts, ReceivedFacts DEF Message
  <2> QED
    BY <1>1, <2>1, JobFacts DEF Calls, MessageUnits
<1>3. Reported(emitted.counts, core', "logical") = L + job.calls
  <2>1. Bounded(core') /\ Counted(core, core', job.calls)
    BY <1>1, <1>2, ProcessFacts, InvFacts, LossFacts
  <2> QED
    BY <1>1, <1>2, <2>1, CoreStep, LossFacts
<1>4. /\ SumOver(QueueCalls(queue)) = SumOver(QueueCalls(queue')) + job.calls
      /\ SumOver(QueueUnits(queue)) = SumOver(QueueUnits(queue')) + units(job)
      /\ SumOver(QueueCalls(queue')) \in Nat /\ SumOver(QueueUnits(queue')) \in Nat
  BY <1>1, <1>2, LossFacts, QueueTaken, QueueTyped
<1> HIDE DEF job, t
<1>5. CallsKept(offered.calls, handler, queue', quality.dropped,
                worker.dropped, L + job.calls, emitted.dropped)
  <2> HIDE DEF L
  <2>1. /\ CallsKept(offered.calls, handler, queue, quality.dropped,
                     worker.dropped, L, emitted.dropped)
        /\ SumOver(HandlerCalls(handler)) \in Nat
        /\ quality.dropped \in Nat /\ worker.dropped \in Nat /\ L \in Nat
        /\ emitted.dropped \in Nat
    BY LossFacts DEF L
  <2> QED
    BY <1>2, <1>4, <2>1, TermMoves DEF CallsKept
<1>6. PermitsKept(permits', handler, queue')
  <2>1. PermitsKept(permits, handler, queue) /\ permits \in Int
        /\ SumOver(HandlerUnits(handler)) \in Nat
    BY LossFacts
  <2>2. permits' = permits + units(job) /\ units(job) \in Nat
    BY <1>1, <1>2
  <2> QED
    BY <1>4, <2>1, <2>2 DEF PermitsKept
<1>7. NothingLost'
  BY <1>1, <1>3, <1>5, <1>6, LossFacts, Restated
<1>8. permits' \in Int
  BY <1>1, <1>2, LossFacts
<1>9. LossTyped'
  BY <1>1, <1>8, LossFacts DEF LossTyped
<1>10. HistoryInv' /\ \A h \in Handler : Holds(handler'[h])
  BY <1>1, LossFacts, AnalyzeStep
<1> QED
  BY <1>7, <1>9, <1>10 DEF LossInv

(* A flush takes the dropped calls over from the handlers' counter. *)
LEMMA StartFlushKeeps ==
    ASSUME LossInv, NEW reply, worker.pc = "idle", StartFlush(reply), HistoryInv',
           SumOver(QueueCalls(queue')) = SumOver(QueueCalls(queue)),
           SumOver(QueueUnits(queue')) = SumOver(QueueUnits(queue))
    PROVE  LossInv'
<1> DEFINE L == Reported(emitted.counts, core, "logical")
<1>1. /\ core' = expire(core, now)
      /\ worker' = [pc |-> "flushing", dropped |-> quality.dropped, reply |-> reply]
      /\ quality' = [quality EXCEPT !.dropped = 0]
      /\ UNCHANGED <<now, handler, permits, offered, emitted>>
  BY DEF StartFlush
<1>2. Reported(emitted.counts, core', "logical") = L
  <2>1. Reported(emitted.counts, core', "logical") = L + 0
    BY <1>1, ExpireFacts, InvFacts, CoreStep, LossFacts
  <2> QED
    BY <2>1, LossFacts
<1>3. quality \in [dropped : Nat, drops : Nat, resets : Nat] /\ worker.dropped = 0
  BY LossFacts DEF LossTyped
<1>4. /\ quality'.dropped = 0 /\ quality'.drops = quality.drops /\ quality.dropped \in Nat
      /\ quality' \in [dropped : Nat, drops : Nat, resets : Nat]
  BY <1>1, <1>3
<1>5. CallsKept(offered.calls, handler, queue', quality'.dropped,
                worker'.dropped, L, emitted.dropped)
  <2>1. worker'.dropped = quality.dropped
    BY <1>1
  <2>2. SumOver(HandlerCalls(handler)) + SumOver(QueueCalls(queue')) + quality'.dropped
            + worker'.dropped
        = SumOver(HandlerCalls(handler)) + SumOver(QueueCalls(queue)) + quality.dropped
            + worker.dropped
    BY <1>3, <1>4, <2>1, LossFacts
  <2> QED
    BY <2>2, LossFacts DEF CallsKept
<1>6. PermitsKept(permits, handler, queue')
  BY LossFacts DEF PermitsKept
<1>7. NothingLost'
  BY <1>1, <1>2, <1>4, <1>5, <1>6, LossFacts, Restated
<1>8. LossTyped'
  BY <1>1, <1>4, LossFacts DEF LossTyped
<1>9. \A h \in Handler : Holds(handler'[h])
  BY <1>1, LossFacts
<1> QED
  BY <1>7, <1>8, <1>9 DEF LossInv

LEMMA FlushMessageKeeps ==
    ASSUME LossInv, FlushMessageReceived
    PROVE  LossInv'
<1>1. /\ worker.pc = "idle" /\ queue # <<>> /\ Head(queue).flush /\ StartFlush(TRUE)
      /\ queue' = Tail(queue)
  BY DEF FlushMessageReceived, Received
<1>2. Calls(Head(queue)) = 0 /\ MessageUnits(Head(queue)) = 0
  BY <1>1 DEF Calls, MessageUnits
<1>3. /\ SumOver(QueueCalls(queue)) = SumOver(QueueCalls(queue')) + 0
      /\ SumOver(QueueUnits(queue)) = SumOver(QueueUnits(queue')) + 0
      /\ SumOver(QueueCalls(queue')) \in Nat /\ SumOver(QueueUnits(queue')) \in Nat
  BY <1>1, <1>2, LossFacts, QueueTaken, QueueTyped
<1>4. /\ SumOver(QueueCalls(queue')) = SumOver(QueueCalls(queue))
      /\ SumOver(QueueUnits(queue')) = SumOver(QueueUnits(queue))
  BY <1>3
<1>5. HistoryInv'
  BY LossFacts, FlushMessageStep
<1> QED
  BY <1>1, <1>4, <1>5, StartFlushKeeps

LEMMA IntervalKeeps ==
    ASSUME LossInv, IntervalTick
    PROVE  LossInv'
<1>1. worker.pc = "idle" /\ StartFlush(FALSE) /\ queue' = queue
  BY DEF IntervalTick
<1>2. HistoryInv'
  BY LossFacts, IntervalStep
<1> QED
  BY <1>1, <1>2, StartFlushKeeps

(* Whatever was dropped is told: `unknown' has an event whenever something *)
(* was.                                                                    *)
LEMMA EmitKeeps ==
    ASSUME LossInv, Emit
    PROVE  LossInv'
<1> DEFINE present == quality_present(worker.dropped, quality)
           told == {c \in Commitments :
                        ~is_empty(core.windows[c]) \/ (c = "unknown" /\ present)}
           L == Reported(emitted.counts, core, "logical")
<1>1. /\ emitted'.drops = emitted.drops + (IF "unknown" \in told THEN quality.drops ELSE 0)
      /\ emitted'.dropped = emitted.dropped + (IF "unknown" \in told THEN worker.dropped ELSE 0)
      /\ quality' = [quality EXCEPT !.drops = 0, !.resets = 0]
      /\ worker' = [pc |-> "idle", dropped |-> 0, reply |-> FALSE]
      /\ UNCHANGED <<now, handler, permits, queue, offered>>
  BY DEF Emit
<1>2. present => "unknown" \in told
  BY DEF Commitments
<1>3. /\ quality \in [dropped : Nat, drops : Nat, resets : Nat]
      /\ quality.drops \in Nat /\ quality.resets \in Nat /\ quality.dropped \in Nat
      /\ worker.dropped \in Nat /\ emitted.dropped \in Nat /\ emitted.drops \in Nat
  BY LossFacts DEF LossTyped
<1>4. ~present => worker.dropped = 0 /\ quality.drops = 0
  BY <1>3 DEF quality_present
<1> HIDE DEF present, told
<1>5. /\ emitted'.drops = emitted.drops + quality.drops
      /\ emitted'.dropped = emitted.dropped + worker.dropped
  BY <1>1, <1>2, <1>3, <1>4
<1>6. emitted'.drops \in Nat /\ emitted'.dropped \in Nat
  BY <1>3, <1>5
<1>7. /\ quality'.dropped = quality.dropped /\ quality'.drops = 0
      /\ quality' \in [dropped : Nat, drops : Nat, resets : Nat]
      /\ worker'.dropped = 0
  BY <1>1, <1>3
<1>8. Reported(emitted'.counts, core', "logical") = L
  <2>1. Sound(core) /\ emitted.counts \in [Counters -> Nat]
    BY LossFacts, InvFacts
  <2> QED
    BY <2>1, EmitTotals DEF Counters
<1>9. CallsKept(offered.calls, handler, queue, quality'.dropped,
                worker'.dropped, L, emitted'.dropped)
  <2>1. /\ CallsKept(offered.calls, handler, queue, quality.dropped,
                     worker.dropped, L, emitted.dropped)
        /\ SumOver(HandlerCalls(handler)) \in Nat /\ SumOver(QueueCalls(queue)) \in Nat
        /\ L \in Nat
    BY LossFacts
  <2> HIDE DEF L
  <2> QED
    BY <1>3, <1>5, <1>7, <2>1 DEF CallsKept
<1>10. offered.drops = quality'.drops + emitted'.drops
  <2>1. offered.drops = quality.drops + emitted.drops
    BY LossFacts
  <2> QED
    BY <1>3, <1>5, <1>7, <2>1
<1>11. NothingLost'
  BY <1>1, <1>8, <1>9, <1>10, LossFacts, Restated
<1>12. LossTyped'
  BY <1>1, <1>6, <1>7, LossFacts DEF LossTyped
<1>13. HistoryInv' /\ \A h \in Handler : Holds(handler'[h])
  BY <1>1, LossFacts, EmitStep
<1> QED
  BY <1>11, <1>12, <1>13 DEF LossInv

(* The flush message brings no call and holds no permit. *)
LEMMA SendFlushKeeps ==
    ASSUME LossInv, SendFlush
    PROVE  LossInv'
<1>1. /\ queue' = Append(queue, FlushMessage)
      /\ UNCHANGED <<now, handler, permits, quality, core, worker, offered, emitted>>
  BY DEF SendFlush
<1>2. /\ Brings(FlushMessage) /\ FlushMessage \in Message
      /\ Calls(FlushMessage) = 0 /\ MessageUnits(FlushMessage) = 0
  BY WaitingTyped DEF Brings, MessageUnits
<1>3. /\ SumOver(QueueCalls(queue')) = SumOver(QueueCalls(queue)) + 0
      /\ SumOver(QueueUnits(queue')) = SumOver(QueueUnits(queue)) + 0
  BY <1>1, <1>2, LossFacts, QueueAppended
<1>4. /\ SumOver(QueueCalls(queue')) = SumOver(QueueCalls(queue))
      /\ SumOver(QueueUnits(queue')) = SumOver(QueueUnits(queue))
  BY <1>3, LossFacts
<1>5. /\ CallsKept(offered.calls, handler, queue', quality.dropped, worker.dropped,
                   Reported(emitted.counts, core, "logical"), emitted.dropped)
      /\ PermitsKept(permits, handler, queue')
  BY <1>4, LossFacts DEF CallsKept, PermitsKept
<1>6. NothingLost'
  BY <1>1, <1>5, LossFacts, Restated
<1>7. LossTyped' /\ \A h \in Handler : Holds(handler'[h])
  BY <1>1, LossFacts DEF LossTyped
<1>8. HistoryInv'
  BY LossFacts, SendFlushStep
<1> QED
  BY <1>6, <1>7, <1>8 DEF LossInv

LEMMA OtherStepsKeep ==
    ASSUME LossInv, CallFlush \/ Tick \/ UNCHANGED vars
    PROVE  LossInv'
<1>1. UNCHANGED <<handler, permits, queue, quality, core, worker, offered, emitted>>
  BY DEF CallFlush, Tick, vars
<1>2. NothingLost'
  BY <1>1, LossFacts, Restated
<1>3. LossTyped' /\ \A h \in Handler : Holds(handler'[h])
  BY <1>1, LossFacts DEF LossTyped
<1>4. HistoryInv'
  BY LossFacts, CallFlushStep, TickStep
<1> QED
  BY <1>2, <1>3, <1>4 DEF LossInv

LEMMA LossInit == Init => LossInv
<1> SUFFICES ASSUME Init PROVE LossInv
  OBVIOUS
<1>1. /\ handler = [h \in Handler |-> Waiting] /\ permits = permit_count /\ queue = <<>>
      /\ quality = [dropped |-> 0, drops |-> 0, resets |-> 1]
      /\ worker = [pc |-> "idle", dropped |-> 0, reply |-> FALSE]
      /\ offered = [calls |-> 0, drops |-> 0, accepted |-> 0]
      /\ emitted = [counts |-> Zero, drops |-> 0, dropped |-> 0]
      /\ core.windows = [c \in Commitments |-> Zero]
  BY DEF Init
<1>2. permit_count \in Int
  <2>1. MaxQueuedBytes \in Nat /\ QUEUE_BYTE_UNIT \in Nat \ {0}
    BY HistoricalAssumption
  <2>2. MaxQueuedBytes \div QUEUE_BYTE_UNIT \in Int
    BY <2>1
  <2> QED
    BY <2>2 DEF permit_count
<1>3. LossTyped
  BY <1>1, <1>2 DEF LossTyped
<1>4. \A h \in Handler : /\ Holds(handler[h])
                         /\ HeldCalls(handler[h]) = 0 /\ HeldUnits(handler[h]) = 0
  BY <1>1 DEF Holds, HeldCalls, HeldUnits, Waiting
<1>5. SumOver(HandlerCalls(handler)) = 0 /\ SumOver(HandlerUnits(handler)) = 0
  <2>1. /\ HandlerCalls(handler) \in [Handler -> Nat] /\ HandlerUnits(handler) \in [Handler -> Nat]
        /\ \A h \in Handler : HandlerCalls(handler)[h] = 0
        /\ \A h \in Handler : HandlerUnits(handler)[h] = 0
    BY <1>4 DEF HandlerCalls, HandlerUnits
  <2> QED
    BY <2>1, SumZero
<1>6. SumOver(QueueCalls(queue)) = 0 /\ SumOver(QueueUnits(queue)) = 0
  <2>1. /\ QueueCalls(queue) \in [{} -> Nat] /\ QueueUnits(queue) \in [{} -> Nat]
    BY <1>1 DEF QueueCalls, QueueUnits
  <2> QED
    BY <2>1, SumZero
<1>7. Reported(emitted.counts, core, "logical") = 0
  BY <1>1 DEF Reported, Sum, Zero, Counters, Commitments
<1>8. CallsKept(offered.calls, handler, queue, quality.dropped, worker.dropped,
                Reported(emitted.counts, core, "logical"), emitted.dropped)
  BY <1>1, <1>5, <1>6, <1>7 DEF CallsKept
<1>9. PermitsKept(permits, handler, queue)
  BY <1>1, <1>2, <1>5, <1>6 DEF PermitsKept
<1>10. offered.drops = quality.drops + emitted.drops
  BY <1>1
<1>11. NothingLost
  BY <1>8, <1>9, <1>10, Restated
<1> QED
  BY <1>3, <1>4, <1>11, HistoryInit DEF LossInv

(* Nothing is lost or counted twice, however many handlers run finish at    *)
(* once, whatever they offer and whenever the flushes fall: each eligible   *)
(* call offered is in a handler, in the queue, in a counter or reported,    *)
(* each dropped job has its reason on record (drop_job), and the byte       *)
(* budget has lent exactly what the jobs in handlers and queue hold.        *)
THEOREM NothingLostCorrect == Spec => []NothingLost
<1>1. LossInv /\ [Next]_vars => LossInv'
  <2> SUFFICES ASSUME LossInv, [Next]_vars PROVE LossInv'
    OBVIOUS
  <2>1. ASSUME NEW h \in Handler, NEW job \in Job, Offer(h, job) PROVE LossInv'
    BY <2>1, OfferKeeps
  <2>2. ASSUME NEW h \in Handler, Send(h) PROVE LossInv'
    BY <2>2, SendKeeps
  <2>3. ASSUME NEW h \in Handler, DropLogical(h) PROVE LossInv'
    BY <2>3, DropLogicalKeeps
  <2>4. ASSUME NEW h \in Handler, DropReason(h) PROVE LossInv'
    BY <2>4, DropReasonKeeps
  <2>5. CASE Analyze
    BY <2>5, AnalyzeKeeps
  <2>6. CASE FlushMessageReceived
    BY <2>6, FlushMessageKeeps
  <2>7. CASE IntervalTick
    BY <2>7, IntervalKeeps
  <2>8. CASE Emit
    BY <2>8, EmitKeeps
  <2>9. CASE SendFlush
    BY <2>9, SendFlushKeeps
  <2>10. CASE CallFlush \/ Tick \/ UNCHANGED vars
    BY <2>10, OtherStepsKeep
  <2> QED
    BY <2>1, <2>2, <2>3, <2>4, <2>5, <2>6, <2>7, <2>8, <2>9, <2>10 DEF Next, Finish, Worker
<1>2. LossInv => NothingLost
  BY DEF LossInv
<1> QED
  BY <1>1, <1>2, LossInit, PTL DEF Spec

=============================================================================
