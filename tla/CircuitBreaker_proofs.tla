------------------------ MODULE CircuitBreaker_proofs -----------------------
(***************************************************************************)
(* Proofs about CircuitBreaker for every value of its constants.  The      *)
(* first lemmas say what the helpers of ProviderHealth return; the         *)
(* inductive invariant Inv follows from them action by action.             *)
(***************************************************************************)
EXTENDS CircuitBreaker, FiniteSetTheorems, SequenceTheorems, TLAPS

Ordered(w) == \A i, j \in 1..Len(w) : i <= j => w[i].age >= w[j].age

(* prune_window pops between none and all of the samples. *)
LEMMA ExpiredPrefixBound ==
    ASSUME NEW w \in Seq(Entry)
    PROVE  ExpiredPrefix(w) \in 0..Len(w)
<1> DEFINE P == {i \in 1..Len(w) : \A j \in 1..i : Expired(w[j])}
<1>1. Len(w) \in Nat
  BY LenProperties
<1>2. IsFiniteSet(1..Len(w)) /\ Cardinality(1..Len(w)) = Len(w)
  <2> DEFINE m == Len(w)
  <2>1. m \in Nat /\ m \in Int /\ 1 \in Int
    BY <1>1
  <2> HIDE DEF m
  <2>2. IsFiniteSet(1..m) /\ Cardinality(1..m) = IF 1 > m THEN 0 ELSE m - 1 + 1
    BY <2>1, FS_Interval
  <2> QED
    BY <2>1, <2>2 DEF m
<1>3. IsFiniteSet(P) /\ Cardinality(P) <= Len(w)
  BY <1>2, FS_Subset, P \in SUBSET (1..Len(w))
<1>4. Cardinality(P) \in Nat
  BY <1>3, FS_CardinalityType
<1> QED
  BY <1>1, <1>3, <1>4 DEF ExpiredPrefix

(* What is left after pruning is a suffix of the window. *)
LEMMA PruneIsSuffix ==
    ASSUME NEW w \in Seq(Entry)
    PROVE  /\ prune_window(w) \in Seq(Entry)
           /\ Len(prune_window(w)) = Len(w) - ExpiredPrefix(w)
           /\ \A i \in 1..Len(prune_window(w)) :
                /\ i + ExpiredPrefix(w) \in 1..Len(w)
                /\ prune_window(w)[i] = w[i + ExpiredPrefix(w)]
<1> DEFINE k == ExpiredPrefix(w)
<1>1. k \in 0..Len(w) /\ Len(w) \in Nat
  BY ExpiredPrefixBound, LenProperties
<1>2. \A i \in (k + 1)..Len(w) : w[i] \in Entry
  BY <1>1, ElementOfSeq
<1>3. /\ SubSeq(w, k + 1, Len(w)) \in Seq(Entry)
      /\ Len(SubSeq(w, k + 1, Len(w)))
            = IF k + 1 <= Len(w) THEN Len(w) - (k + 1) + 1 ELSE 0
      /\ \A i \in 1..(Len(w) - (k + 1) + 1) :
            SubSeq(w, k + 1, Len(w))[i] = w[(k + 1) + i - 1]
  <2> k + 1 \in Int /\ Len(w) \in Int
    BY <1>1
  <2> HIDE DEF k
  <2> QED
    BY <1>2, SubSeqProperties
<1> QED
  BY <1>1, <1>3 DEF prune_window

(* On an ordered window, popping the expired prefix removes every expired   *)
(* sample: prune_window is as good as a filter over the whole window.       *)
LEMMA PruneRemovesAllExpired ==
    ASSUME NEW w \in Seq(Entry), Ordered(w)
    PROVE  \A i \in 1..Len(prune_window(w)) : ~Expired(prune_window(w)[i])
<1> DEFINE k == ExpiredPrefix(w)
           P == {i \in 1..Len(w) : \A j \in 1..i : Expired(w[j])}
<1>1. k \in 0..Len(w) /\ Len(w) \in Nat /\ k = Cardinality(P)
  BY ExpiredPrefixBound, LenProperties DEF ExpiredPrefix
<1>2. ASSUME k < Len(w)
      PROVE  \E j \in 1..(k + 1) : ~Expired(w[j])
  <2>1. SUFFICES ASSUME \A j \in 1..(k + 1) : Expired(w[j])
                 PROVE  FALSE
    OBVIOUS
  <2>2. 1..(k + 1) \in SUBSET P
    <3> SUFFICES ASSUME NEW i \in 1..(k + 1) PROVE i \in P
      OBVIOUS
    <3>1. i \in 1..Len(w) /\ \A j \in 1..i : j \in 1..(k + 1)
      <4>1. k \in Nat /\ k < Len(w) /\ Len(w) \in Nat /\ i \in 1..(k + 1)
        BY <1>1, <1>2
      <4> HIDE DEF k, P
      <4> QED
        BY <4>1
    <3> QED
      BY <2>1, <3>1
  <2>3. IsFiniteSet(P)
    <3>1. IsFiniteSet(1..Len(w))
      BY <1>1, FS_Interval
    <3> QED
      BY <3>1, FS_Subset, P \in SUBSET (1..Len(w))
  <2>4. Cardinality(1..(k + 1)) <= Cardinality(P)
    BY <2>2, <2>3, FS_Subset
  <2>5. Cardinality(1..(k + 1)) = k + 1
    <3>1. 1 \in Int /\ k + 1 \in Int /\ ~(1 > k + 1)
      BY <1>1
    <3> HIDE DEF k
    <3> QED
      BY <3>1, FS_Interval
  <2> QED
    BY <1>1, <2>4, <2>5
<1>3. ASSUME NEW i \in 1..Len(prune_window(w))
      PROVE  ~Expired(prune_window(w)[i])
  <2>1. i + k \in 1..Len(w) /\ prune_window(w)[i] = w[i + k] /\ k < Len(w)
    BY <1>1, <1>3, PruneIsSuffix
  <2>2. PICK j \in 1..(k + 1) : ~Expired(w[j])
    BY <1>2, <2>1
  <2>3. j \in 1..Len(w) /\ j <= i + k
    BY <1>1, <1>3, <2>1
  <2>4. w[j].age >= w[i + k].age
    BY <2>1, <2>3 DEF Ordered
  <2>5. w[j].age \in Int /\ w[i + k].age \in Int
    <3>1. w[j] \in Entry /\ w[i + k] \in Entry
      BY <2>1, <2>3, ElementOfSeq
    <3> QED
      BY <3>1, WindowAssumption DEF Entry, MaxAge
  <2> QED
    BY <2>1, <2>2, <2>4, <2>5, WindowAssumption DEF Expired
<1> QED
  BY <1>3

-----------------------------------------------------------------------------
(* push_sample keeps the type, the order and the freshness of the window,   *)
(* and puts the new sample last.                                            *)
LEMMA PushedSample ==
    ASSUME NEW g \in Inner, NEW s \in Sample, NEW b \in BOOLEAN,
           Ordered(g.window)
    PROVE  LET h == push_sample(g, s, b)
           IN  /\ h \in Inner
               /\ h.circuit = g.circuit /\ h.opened_age = g.opened_age
               /\ h.consecutive_failures = streak(g, s)
               /\ Ordered(h.window)
               /\ \A i \in 1..Len(h.window) : ~Expired(h.window[i])
               /\ Len(h.window) \in Nat \ {0}
               /\ LastSample(h) = s
<1> DEFINE h == push_sample(g, s, b)
           p == prune_window(g.window)
           e == [age |-> 0, sample |-> s]
<1>1. g.window \in Seq(Entry)
  BY DEF Inner
<1>2. p \in Seq(Entry) /\ Len(p) \in Nat
  BY <1>1, PruneIsSuffix, LenProperties
<1>3. e \in Entry
  BY WindowAssumption DEF Entry, MaxAge
<1>4. h.window = Append(p, e)
  BY DEF push_sample, push_back
<1>5. /\ h.window \in Seq(Entry)
      /\ Len(h.window) = Len(p) + 1
      /\ \A i \in 1..Len(p) : h.window[i] = p[i]
      /\ h.window[Len(p) + 1] = e
  <2> HIDE DEF p, e, h
  <2> QED
    BY <1>2, <1>3, <1>4, AppendProperties
<1>6. /\ h.circuit = g.circuit /\ h.opened_age = g.opened_age
      /\ h.consecutive_failures = streak(g, s)
  BY DEF push_sample
<1>7. h \in Inner
  <2>1. streak(g, s) \in Nat
    BY DEF streak, Sample, Inner
  <2>2. h.latency_known \in BOOLEAN
    BY DEF push_sample, Inner
  <2>3. h = [window |-> h.window, consecutive_failures |-> h.consecutive_failures,
             latency_known |-> h.latency_known, circuit |-> h.circuit,
             opened_age |-> h.opened_age]
    BY DEF push_sample
  <2> HIDE DEF h
  <2> QED
    BY <1>5, <1>6, <2>1, <2>2, <2>3 DEF Inner
<1>8. Ordered(h.window)
  <2> SUFFICES ASSUME NEW i \in 1..Len(h.window), NEW j \in 1..Len(h.window), i <= j
               PROVE  h.window[i].age >= h.window[j].age
    BY DEF Ordered
  <2>1. CASE j = Len(p) + 1
    <3>1. h.window[j].age = 0
      BY <1>5, <2>1
    <3>2. h.window[i] \in Entry
      BY <1>5, ElementOfSeq
    <3> HIDE DEF h
    <3> QED
      BY <3>1, <3>2, WindowAssumption DEF Entry, MaxAge
  <2>2. CASE j # Len(p) + 1
    <3> DEFINE k == ExpiredPrefix(g.window)
    <3>1. i \in 1..Len(p) /\ j \in 1..Len(p)
      BY <1>2, <1>5, <2>2
    <3>2. h.window[i] = p[i] /\ h.window[j] = p[j]
      BY <1>5, <3>1
    <3>3. /\ i + k \in 1..Len(g.window) /\ p[i] = g.window[i + k]
          /\ j + k \in 1..Len(g.window) /\ p[j] = g.window[j + k]
      BY <1>1, <3>1, PruneIsSuffix
    <3>4. k \in Nat /\ i + k <= j + k
      BY <1>1, <1>2, <3>1, ExpiredPrefixBound, LenProperties
    <3> HIDE DEF h, p, k
    <3> QED
      BY <3>2, <3>3, <3>4 DEF Ordered
  <2> QED
    BY <2>1, <2>2
<1>9. \A i \in 1..Len(h.window) : ~Expired(h.window[i])
  <2> SUFFICES ASSUME NEW i \in 1..Len(h.window)
               PROVE  ~Expired(h.window[i])
    OBVIOUS
  <2>1. CASE i = Len(p) + 1
    BY <1>5, <2>1, WindowAssumption DEF Expired
  <2>2. CASE i # Len(p) + 1
    <3>1. i \in 1..Len(p) /\ h.window[i] = p[i]
      BY <1>2, <1>5, <2>2
    <3> QED
      BY <1>1, <3>1, PruneRemovesAllExpired
  <2> QED
    BY <2>1, <2>2
<1>10. LastSample(h) = s /\ Len(h.window) \in Nat \ {0}
  BY <1>2, <1>5 DEF LastSample
<1> QED
  BY <1>6, <1>7, <1>8, <1>9, <1>10

(* The transition touches the circuit and its stamp only, and moves them in *)
(* one of five ways.                                                        *)
LEMMA Transition ==
    ASSUME NEW h \in Inner
    PROVE  LET r == apply_circuit_transitions(h)
           IN  /\ r \in Inner
               /\ r.window = h.window
               /\ r.consecutive_failures = h.consecutive_failures
               /\ \/ /\ h.circuit = "Closed" /\ should_open(h)
                     /\ r.circuit = "Open" /\ r.opened_age = 0
                  \/ /\ h.circuit = "Open" /\ CooledDown(h)
                     /\ r.circuit = "HalfOpen" /\ r.opened_age = NotOpened
                  \/ /\ h.circuit = "HalfOpen" /\ LastSample(h) = "Success"
                     /\ r.circuit = "Closed" /\ r.opened_age = NotOpened
                  \/ /\ h.circuit = "HalfOpen" /\ LastSample(h) = "Failure"
                     /\ r.circuit = "Open" /\ r.opened_age = 0
                  \/ /\ ~(h.circuit = "Closed" /\ should_open(h))
                     /\ r = h
<1> DEFINE r == apply_circuit_transitions(h)
<1>0. ASSUME NEW c \in CircuitState, NEW a \in {NotOpened} \cup 0..CooldownSecs
      PROVE  /\ Move(h, c, a) \in Inner
             /\ Move(h, c, a).window = h.window
             /\ Move(h, c, a).consecutive_failures = h.consecutive_failures
             /\ Move(h, c, a).circuit = c
             /\ Move(h, c, a).opened_age = a
  BY DEF Move, Inner
<1>1. 0 \in {NotOpened} \cup 0..CooldownSecs /\ NotOpened \in {NotOpened} \cup 0..CooldownSecs
  BY CooldownAssumption
<1>2. CASE h.circuit = "Closed" /\ should_open(h)
  <2>1. r = Move(h, "Open", 0)
    BY <1>2 DEF apply_circuit_transitions
  <2> QED
    BY <1>0, <1>1, <1>2, <2>1 DEF CircuitState
<1>3. CASE h.circuit = "Open" /\ CooledDown(h)
  <2>1. r = Move(h, "HalfOpen", NotOpened)
    BY <1>3 DEF apply_circuit_transitions
  <2> QED
    BY <1>0, <1>1, <1>3, <2>1 DEF CircuitState
<1>4. CASE h.circuit = "HalfOpen" /\ LastSample(h) = "Success"
  <2>1. r = Move(h, "Closed", NotOpened)
    BY <1>4 DEF apply_circuit_transitions
  <2> QED
    BY <1>0, <1>1, <1>4, <2>1 DEF CircuitState
<1>5. CASE h.circuit = "HalfOpen" /\ LastSample(h) = "Failure"
  <2>1. r = Move(h, "Open", 0)
    BY <1>5 DEF apply_circuit_transitions
  <2> QED
    BY <1>0, <1>1, <1>5, <2>1 DEF CircuitState
<1>6. CASE /\ ~(h.circuit = "Closed" /\ should_open(h))
           /\ ~(h.circuit = "Open" /\ CooledDown(h))
           /\ ~(h.circuit = "HalfOpen" /\ LastSample(h) = "Success")
           /\ ~(h.circuit = "HalfOpen" /\ LastSample(h) = "Failure")
  <2>1. r = h
    BY <1>6 DEF apply_circuit_transitions
  <2> QED
    BY <1>6, <2>1
<1> QED
  BY <1>2, <1>3, <1>4, <1>5, <1>6

-----------------------------------------------------------------------------
(* The inductive invariant.  ClosedBelowTrip needs the types; the order of  *)
(* the window is what makes pruning from the front complete.                *)
Inv == TypeOK /\ OpenIffStamped /\ ClosedBelowTrip /\ WindowOrdered

(* Whatever outcome is recorded, the invariant is kept, the window is left  *)
(* fresh, and a circuit that opens has a failure in its window.             *)
LEMMA RecordedStep ==
    ASSUME Inv, NEW s \in Sample, NEW b \in BOOLEAN,
           inner' = apply_circuit_transitions(push_sample(inner, s, b))
    PROVE  /\ Inv'
           /\ \A i \in 1..Len(inner'.window) : ~Expired(inner'.window[i])
           /\ /\ OpenFailures > 0
              /\ inner.circuit = "Closed" /\ inner'.circuit = "Open"
              => FailuresIn(inner'.window) # {}
<1> DEFINE h == push_sample(inner, s, b)
<1>1. inner \in Inner /\ Ordered(inner.window)
  BY DEF Inv, TypeOK, WindowOrdered, Ordered
<1>2. /\ h \in Inner
      /\ h.circuit = inner.circuit /\ h.opened_age = inner.opened_age
      /\ h.consecutive_failures = streak(inner, s)
      /\ Ordered(h.window)
      /\ \A i \in 1..Len(h.window) : ~Expired(h.window[i])
      /\ Len(h.window) \in Nat \ {0}
      /\ LastSample(h) = s
  BY <1>1, PushedSample
<1> HIDE DEF h
<1>3. /\ inner' \in Inner
      /\ inner'.window = h.window
      /\ inner'.consecutive_failures = h.consecutive_failures
      /\ \/ /\ h.circuit = "Closed" /\ should_open(h)
            /\ inner'.circuit = "Open" /\ inner'.opened_age = 0
         \/ /\ h.circuit = "Open" /\ CooledDown(h)
            /\ inner'.circuit = "HalfOpen" /\ inner'.opened_age = NotOpened
         \/ /\ h.circuit = "HalfOpen" /\ LastSample(h) = "Success"
            /\ inner'.circuit = "Closed" /\ inner'.opened_age = NotOpened
         \/ /\ h.circuit = "HalfOpen" /\ LastSample(h) = "Failure"
            /\ inner'.circuit = "Open" /\ inner'.opened_age = 0
         \/ /\ ~(h.circuit = "Closed" /\ should_open(h))
            /\ inner' = h
  BY <1>2, Transition DEF h
<1>4. TypeOK'
  BY <1>3 DEF TypeOK
<1>5. OpenIffStamped'
  BY <1>2, <1>3 DEF Inv, OpenIffStamped, NotOpened
<1>6. ClosedBelowTrip'
  <2> SUFFICES ASSUME inner'.circuit = "Closed"
               PROVE  \/ inner'.consecutive_failures = 0
                      \/ inner'.consecutive_failures < OpenFailures
    BY DEF ClosedBelowTrip
  <2>1. CASE h.circuit = "HalfOpen"
    <3>1. s = "Success"
      BY <1>2, <1>3, <2>1
    <3> QED
      BY <1>2, <1>3, <3>1 DEF streak
  <2>2. CASE h.circuit = "Closed"
    <3>1. ~should_open(h)
      BY <1>3, <2>2
    <3>2. h.consecutive_failures \in Nat
      BY <1>2 DEF Inner
    <3> QED
      BY <1>3, <3>1, <3>2, FailuresAssumption DEF should_open
  <2> QED
    BY <1>2, <1>3, <2>1, <2>2 DEF Inner, CircuitState
<1>7. WindowOrdered'
  BY <1>2, <1>3 DEF WindowOrdered, Ordered
<1>8. ASSUME OpenFailures > 0,
             inner.circuit = "Closed", inner'.circuit = "Open"
      PROVE  FailuresIn(inner'.window) # {}
  <2>1. should_open(h)
    BY <1>2, <1>3, <1>8
  <2>2. CASE HardRateExceeded(h.window)
    <3>1. Cardinality(FailuresIn(h.window)) # 0
      BY <1>2, <2>2, ThresholdAssumption DEF HardRateExceeded
    <3> QED
      BY <1>3, <3>1, FS_EmptySet
  <2>3. CASE h.consecutive_failures >= OpenFailures
    <3>1. inner.consecutive_failures \in Nat
      BY <1>1 DEF Inner
    <3>2. \/ inner.consecutive_failures = 0
          \/ inner.consecutive_failures < OpenFailures
      BY <1>8 DEF Inv, ClosedBelowTrip
    <3>3. s = "Failure"
      BY <1>2, <1>8, <2>3, <3>1, <3>2, FailuresAssumption DEF streak, Sample
    <3>4. Len(h.window) \in 1..Len(h.window)
      BY <1>2
    <3> QED
      BY <1>2, <1>3, <3>3, <3>4 DEF FailuresIn, LastSample
  <2> QED
    BY <2>1, <2>2, <2>3 DEF should_open
<1> QED
  BY <1>2, <1>3, <1>4, <1>5, <1>6, <1>7, <1>8 DEF Inv

(* Each recording action is a step of RecordedStep's form. *)
LEMMA RecordForms ==
    /\ \A success, is_probe \in BOOLEAN :
            Record(success, is_probe) =>
                \E s \in Sample, b \in BOOLEAN :
                    inner' = apply_circuit_transitions(push_sample(inner, s, b))
    /\ RecordThrottled =>
            \E s \in Sample, b \in BOOLEAN :
                inner' = apply_circuit_transitions(push_sample(inner, s, b))
  BY DEF Record, RecordThrottled, record, record_throttled, Sample

(* The passing of a second keeps the invariant. *)
LEMMA TickStep ==
    ASSUME Inv, Tick
    PROVE  /\ Inv'
           /\ inner'.circuit = inner.circuit
           /\ inner'.opened_age = IF inner.opened_age = NotOpened
                                   THEN NotOpened
                                   ELSE Advance(inner.opened_age, CooldownSecs)
<1> DEFINE w == inner.window
           v == [i \in 1..Len(w) |-> [age |-> Advance(w[i].age, MaxAge),
                                      sample |-> w[i].sample]]
<1>1. inner \in Inner /\ w \in Seq(Entry) /\ Len(w) \in Nat
  BY LenProperties DEF Inv, TypeOK, Inner
<1>2. \A i \in 1..Len(w) : w[i] \in Entry
  BY <1>1, ElementOfSeq
<1>3. \A i \in 1..Len(w) : v[i] \in Entry
  BY <1>2, WindowAssumption DEF Entry, MaxAge, Advance
<1>4. v \in Seq(Entry) /\ Len(v) = Len(w)
  <2>1. v \in [1..Len(w) -> Entry] /\ DOMAIN v = 1..Len(w)
    BY <1>3
  <2> HIDE DEF v
  <2>2. v \in Seq(Entry)
    BY <1>1, <2>1, SeqDef
  <2>3. DOMAIN v = 1..Len(v) /\ Len(v) \in Nat
    BY <2>2, LenProperties
  <2> QED
    BY <1>1, <2>1, <2>2, <2>3
<1>5. /\ inner'.window = v
      /\ inner'.circuit = inner.circuit
      /\ inner'.consecutive_failures = inner.consecutive_failures
      /\ inner'.latency_known = inner.latency_known
      /\ inner'.opened_age = IF inner.opened_age = NotOpened
                              THEN NotOpened
                              ELSE Advance(inner.opened_age, CooldownSecs)
      /\ inner' = [inner EXCEPT !.window = inner'.window,
                                !.opened_age = inner'.opened_age]
  BY <1>1 DEF Tick, older, Inner
<1>6. inner'.opened_age \in {NotOpened} \cup 0..CooldownSecs
  BY <1>1, <1>5, CooldownAssumption, SMTT(30) DEF Inner, Advance, NotOpened
<1>7. TypeOK'
  <2> HIDE DEF v
  <2> QED
    BY <1>1, <1>4, <1>5, <1>6 DEF TypeOK, Inner
<1>8. OpenIffStamped'
  BY <1>1, <1>5, CooldownAssumption, SMTT(30)
  DEF Inv, OpenIffStamped, Advance, NotOpened, Inner
<1>9. ClosedBelowTrip'
  BY <1>5 DEF Inv, ClosedBelowTrip
<1>10. WindowOrdered'
  <2> SUFFICES ASSUME NEW i \in 1..Len(w), NEW j \in 1..Len(w), i <= j
               PROVE  v[i].age >= v[j].age
    BY <1>4, <1>5 DEF WindowOrdered
  <2>1. w[i].age >= w[j].age
    BY DEF Inv, WindowOrdered
  <2>2. /\ v[i].age = Advance(w[i].age, MaxAge)
        /\ v[j].age = Advance(w[j].age, MaxAge)
        /\ w[i].age \in 0..MaxAge /\ w[j].age \in 0..MaxAge
    BY <1>2 DEF Entry
  <2> DEFINE x == w[i].age
             y == w[j].age
  <2>3. MaxAge \in Nat
    BY WindowAssumption DEF MaxAge
  <2> HIDE DEF x, y
  <2>4. x >= y /\ x \in 0..MaxAge /\ y \in 0..MaxAge
    BY <2>1, <2>2 DEF x, y
  <2>5. Advance(x, MaxAge) >= Advance(y, MaxAge)
    BY <2>3, <2>4 DEF Advance
  <2> QED
    BY <2>2, <2>5 DEF x, y
<1> QED
  BY <1>5, <1>7, <1>8, <1>9, <1>10 DEF Inv

-----------------------------------------------------------------------------
(* The invariant holds initially and is kept by every step. *)
LEMMA InvInit == Init => Inv
<1> SUFFICES ASSUME Init PROVE Inv
  OBVIOUS
<1>1. inner \in Inner
  BY DEF Init, Inner_new, Inner, CircuitState
<1>2. Len(inner.window) = 0
  BY DEF Init, Inner_new
<1> QED
  BY <1>1, <1>2 DEF Inv, TypeOK, OpenIffStamped, ClosedBelowTrip, WindowOrdered,
                    Init, Inner_new

LEMMA InvNext == Inv /\ [Next]_inner => Inv'
<1> SUFFICES ASSUME Inv, [Next]_inner PROVE Inv'
  OBVIOUS
<1>1. ASSUME NEW success \in BOOLEAN, NEW is_probe \in BOOLEAN,
             Record(success, is_probe)
      PROVE  Inv'
  BY <1>1, RecordForms, RecordedStep
<1>2. CASE RecordThrottled
  BY <1>2, RecordForms, RecordedStep
<1>3. CASE Tick
  BY <1>3, TickStep
<1>4. CASE UNCHANGED inner
  BY <1>4 DEF Inv, TypeOK, OpenIffStamped, ClosedBelowTrip, WindowOrdered
<1> QED
  BY <1>1, <1>2, <1>3, <1>4 DEF Next

LEMMA InvAlways == Spec => []Inv
  BY InvInit, InvNext, PTL DEF Spec

(* Type correctness: record and record_throttled keep `Inner' well formed.  *)
THEOREM TypeCorrect == Spec => []TypeOK
  BY InvAlways, PTL DEF Inv

(* An open circuit always carries the stamp that lets it out again.         *)
THEOREM StampCorrect == Spec => []OpenIffStamped
  BY InvAlways, PTL DEF Inv

(* A closed circuit is never over its failure limit.                        *)
THEOREM ClosedCorrect == Spec => []ClosedBelowTrip
  BY InvAlways, PTL DEF Inv

(* Recording an outcome leaves nothing older than window_secs in the        *)
(* window, although prune_window only looks at the front.                   *)
THEOREM FreshCorrect == Spec => FreshAfterRecord
<1>1. Inv /\ [Next]_inner =>
        [~Tick => \A i \in 1..Len(inner'.window) : ~Expired(inner'.window[i])]_inner
  BY RecordForms, RecordedStep DEF Next
<1> QED
  BY <1>1, InvAlways, PTL DEF Spec, FreshAfterRecord

(* With circuit_open_failures at least 1, no circuit opens without a hard   *)
(* failure in its window, whatever mix of outcomes led there.               *)
THEOREM TripCorrect ==
    ASSUME OpenFailures > 0
    PROVE  Spec => TripNeedsFailure
<1>1. Inv /\ [Next]_inner =>
        [inner.circuit = "Closed" /\ inner'.circuit = "Open"
            => FailuresIn(inner'.window) # {}]_inner
  <2> SUFFICES ASSUME Inv, Next, inner.circuit = "Closed", inner'.circuit = "Open"
               PROVE  FailuresIn(inner'.window) # {}
    OBVIOUS
  <2>1. CASE Tick
    BY <2>1, TickStep
  <2>2. ASSUME NEW s \in Sample, NEW b \in BOOLEAN,
               inner' = apply_circuit_transitions(push_sample(inner, s, b))
        PROVE  FailuresIn(inner'.window) # {}
    BY <2>2, RecordedStep
  <2> QED
    BY <2>1, <2>2, RecordForms DEF Next
<1> QED
  BY <1>1, InvAlways, PTL DEF Spec, TripNeedsFailure

(* The window decides when, but the circuit seen from outside only moves as *)
(* BreakerContract allows.                                                  *)
THEOREM Implementation == Spec => ImplementsContract
<1>1. Init => Contract!Init
  BY DEF Init, Inner_new, Contract!Init, NotOpened, Contract!NoStamp
<1>2. Inv /\ [Next]_inner => [Contract!Next]_(Contract!contract_vars)
  <2> SUFFICES ASSUME Inv, [Next]_inner
               PROVE  [Contract!Next]_(Contract!contract_vars)
    OBVIOUS
  <2> USE DEF Contract!Next, Contract!contract_vars, Contract!NoStamp, NotOpened
  <2>1. CASE Tick
    <3>1. inner \in Inner /\ OpenIffStamped
      BY DEF Inv, TypeOK
    <3>2. /\ inner'.circuit = inner.circuit
          /\ inner'.opened_age = IF inner.opened_age = NotOpened
                                  THEN NotOpened
                                  ELSE Advance(inner.opened_age, CooldownSecs)
      BY <2>1, TickStep
    <3> QED
      BY <3>1, <3>2, CooldownAssumption
         DEF Advance, Inner, OpenIffStamped, Contract!Wait
  <2>2. ASSUME NEW s \in Sample, NEW b \in BOOLEAN,
               inner' = apply_circuit_transitions(push_sample(inner, s, b))
        PROVE  [Contract!Next]_(Contract!contract_vars)
    <3> DEFINE h == push_sample(inner, s, b)
    <3>1. inner \in Inner /\ Ordered(inner.window)
      BY DEF Inv, TypeOK, WindowOrdered, Ordered
    <3>2. h \in Inner /\ h.circuit = inner.circuit /\ h.opened_age = inner.opened_age
      BY <3>1, PushedSample
    <3> HIDE DEF h
    <3>3. \/ /\ h.circuit = "Closed"
             /\ inner'.circuit = "Open" /\ inner'.opened_age = 0
          \/ /\ h.circuit = "Open" /\ CooledDown(h)
             /\ inner'.circuit = "HalfOpen" /\ inner'.opened_age = NotOpened
          \/ /\ h.circuit = "HalfOpen"
             /\ inner'.circuit = "Closed" /\ inner'.opened_age = NotOpened
          \/ /\ h.circuit = "HalfOpen"
             /\ inner'.circuit = "Open" /\ inner'.opened_age = 0
          \/ inner' = h
      BY <2>2, <3>2, Transition DEF h
    <3> QED
      BY <3>2, <3>3 DEF CooledDown, Contract!Open, Contract!LetOneThrough, Contract!Close
  <2>3. CASE UNCHANGED inner
    BY <2>3
  <2> QED
    BY <2>1, <2>2, <2>3, RecordForms DEF Next
<1> QED
  BY <1>1, <1>2, InvAlways, PTL DEF Spec, ImplementsContract, Contract!Spec
-----------------------------------------------------------------------------
(* The failure streak and the window. *)
Successes(w) == {i \in 1..Len(w) : w[i].sample = "Success"}
FailuresAfter(w, last) == {i \in FailuresIn(w) : i > last}

(* n is the streak that the samples of w show. *)
Shows(w, n) ==
    IF Successes(w) = {}
    THEN n >= Cardinality(FailuresIn(w))
    ELSE \E last \in Successes(w) :
            /\ \A i \in Successes(w) : i <= last
            /\ n = Cardinality(FailuresAfter(w, last))

(* Popping k samples from the front moves the positions by k. *)
LEMMA ShiftedCardinality ==
    ASSUME NEW A \in SUBSET Nat, NEW B \in SUBSET Nat, IsFiniteSet(B), NEW k \in Nat,
           \A i \in A : i + k \in B
    PROVE  /\ IsFiniteSet(A) /\ Cardinality(A) <= Cardinality(B)
           /\ (\A j \in B : j >= k /\ j - k \in A) => Cardinality(A) = Cardinality(B)
<1> DEFINE f == [i \in A |-> i + k]
<1>1. f \in Injection(A, B)
  BY DEF Injection, IsInjective
<1>2. ASSUME \A j \in B : j >= k /\ j - k \in A PROVE f \in Surjection(A, B)
  <2>1. \A j \in B : j - k \in A /\ (j - k) + k = j
    BY <1>2
  <2>2. f \in [A -> B] /\ \A j \in B : f[j - k] = j
    BY <1>1, <2>1 DEF Injection
  <2> QED
    BY <2>1, <2>2 DEF Surjection
<1> HIDE DEF f
<1> QED
  BY <1>1, <1>2, FS_Injection

LEMMA FailuresFinite ==
    ASSUME NEW w \in Seq(Entry)
    PROVE  /\ Len(w) \in Nat
           /\ FailuresIn(w) \in SUBSET Nat /\ IsFiniteSet(FailuresIn(w))
           /\ \A last : /\ FailuresAfter(w, last) \in SUBSET Nat
                        /\ IsFiniteSet(FailuresAfter(w, last))
<1>1. Len(w) \in Nat
  BY LenProperties
<1>2. IsFiniteSet(1..Len(w))
  BY <1>1, FS_Interval
<1>3. FailuresIn(w) \subseteq 1..Len(w) /\ \A last : FailuresAfter(w, last) \subseteq 1..Len(w)
  BY DEF FailuresIn, FailuresAfter
<1> QED
  BY <1>1, <1>2, <1>3, FS_Subset

(* Pruning forgets old samples, never the streak since the last success    *)
(* that is left.                                                           *)
LEMMA PruneShows ==
    ASSUME NEW w \in Seq(Entry), NEW n \in Nat, Shows(w, n)
    PROVE  Shows(prune_window(w), n)
<1> DEFINE k == ExpiredPrefix(w)
           p == prune_window(w)
<1>1. /\ p \in Seq(Entry) /\ k \in Nat /\ Len(w) \in Nat /\ Len(p) \in Nat
      /\ Len(p) = Len(w) - k
      /\ \A i \in 1..Len(p) : i + k \in 1..Len(w) /\ p[i] = w[i + k]
  BY PruneIsSuffix, ExpiredPrefixBound, LenProperties
<1> HIDE DEF k, p
<1>2. /\ \A i \in FailuresIn(p) : i \in Nat /\ i + k \in FailuresIn(w) /\ i + k > k
      /\ \A i \in Successes(p) : i \in Nat /\ i + k \in Successes(w) /\ i + k > k
  BY <1>1 DEF FailuresIn, Successes
<1>3. /\ \A j \in FailuresIn(w) : j > k => j - k \in FailuresIn(p)
      /\ \A j \in Successes(w) : j > k => j - k \in Successes(p)
  <2>1. \A j \in 1..Len(w) : j > k => j - k \in 1..Len(p) /\ (j - k) + k = j
    BY <1>1
  <2> QED
    BY <1>1, <2>1 DEF FailuresIn, Successes
<1>4. /\ FailuresIn(w) \in SUBSET Nat /\ IsFiniteSet(FailuresIn(w))
      /\ FailuresIn(p) \in SUBSET Nat
      /\ \A last : /\ FailuresAfter(w, last) \in SUBSET Nat
                   /\ IsFiniteSet(FailuresAfter(w, last))
                   /\ FailuresAfter(p, last) \in SUBSET Nat
                   /\ IsFiniteSet(FailuresAfter(p, last))
      /\ IsFiniteSet(FailuresIn(p))
  BY <1>1, FailuresFinite
<1>5. CASE Successes(w) = {}
  <2>1. Successes(p) = {}
    BY <1>2, <1>5
  <2>2. Cardinality(FailuresIn(p)) <= Cardinality(FailuresIn(w))
    BY <1>1, <1>2, <1>4, ShiftedCardinality
  <2>3. Cardinality(FailuresIn(p)) \in Nat /\ Cardinality(FailuresIn(w)) \in Nat
    BY <1>4, FS_CardinalityType
  <2>4. n >= Cardinality(FailuresIn(w))
    BY <1>5 DEF Shows
  <2>5. n >= Cardinality(FailuresIn(p))
    BY <2>2, <2>3, <2>4
  <2> QED
    BY <2>1, <2>5 DEF Shows, p
<1>6. CASE Successes(w) # {}
  <2>1. PICK last \in Successes(w) :
            /\ \A i \in Successes(w) : i <= last
            /\ n = Cardinality(FailuresAfter(w, last))
    BY <1>6 DEF Shows
  <2>2. last \in Nat
    BY <1>1 DEF Successes
  <2>3. CASE last > k
    <3>1. last - k \in Successes(p) /\ last - k \in Nat
      BY <1>1, <1>3, <2>2, <2>3
    <3>2. \A i \in Successes(p) : i <= last - k
      BY <1>1, <1>2, <2>1, <2>2
    <3>3. \A i \in FailuresAfter(p, last - k) : i + k \in FailuresAfter(w, last)
      BY <1>1, <1>2, <2>2 DEF FailuresAfter
    <3>4. \A j \in FailuresAfter(w, last) : j >= k /\ j - k \in FailuresAfter(p, last - k)
      <4>1. \A j \in FailuresAfter(w, last) : j \in FailuresIn(w) /\ j > last /\ j \in Nat
        BY <1>4 DEF FailuresAfter
      <4> QED
        BY <1>1, <1>3, <2>2, <2>3, <4>1 DEF FailuresAfter
    <3>5. Cardinality(FailuresAfter(p, last - k)) = Cardinality(FailuresAfter(w, last))
      BY <1>1, <1>4, <3>3, <3>4, ShiftedCardinality
    <3> QED
      BY <2>1, <3>1, <3>2, <3>5 DEF Shows, p
  <2>4. CASE ~(last > k)
    <3>1. Successes(p) = {}
      <4> SUFFICES ASSUME NEW i \in Successes(p) PROVE FALSE
        OBVIOUS
      <4>1. i \in Nat /\ i + k > k /\ i + k <= last
        BY <1>2, <2>1
      <4> QED
        BY <1>1, <2>2, <2>4, <4>1
    <3>2. \A i \in FailuresIn(p) : i + k \in FailuresAfter(w, last)
      BY <1>1, <1>2, <2>2, <2>4 DEF FailuresAfter
    <3>3. Cardinality(FailuresIn(p)) <= Cardinality(FailuresAfter(w, last))
      BY <1>1, <1>4, <3>2, ShiftedCardinality
    <3>4. Cardinality(FailuresIn(p)) \in Nat
      BY <1>4, FS_CardinalityType
    <3>5. n >= Cardinality(FailuresIn(p))
      BY <2>1, <3>3, <3>4
    <3> QED
      BY <3>1, <3>5 DEF Shows, p
  <2> QED
    BY <2>3, <2>4
<1> QED
  BY <1>5, <1>6

(* The streak of push_sample is what the new sample makes of it. *)
LEMMA PushShows ==
    ASSUME NEW p \in Seq(Entry), NEW s \in Sample, NEW g, g.consecutive_failures \in Nat,
           Shows(p, g.consecutive_failures)
    PROVE  Shows(push_back(p, s), streak(g, s))
<1> DEFINE e == [age |-> 0, sample |-> s]
           v == push_back(p, s)
           m == Len(p)
           n == g.consecutive_failures
<1>1. e \in Entry /\ e.sample = s /\ v = Append(p, e)
  BY WindowAssumption DEF Entry, MaxAge, push_back
<1>2. m \in Nat
  BY LenProperties
<1> HIDE DEF e
<1>3. /\ v \in Seq(Entry) /\ Len(v) = m + 1
      /\ \A i \in 1..m : v[i] = p[i]
      /\ v[m + 1] = e
  BY <1>1, AppendProperties
<1> HIDE DEF v, m
<1>4. \A i : i \in 1..(m + 1) <=> i \in 1..m \/ i = m + 1
  BY <1>2
<1>5. /\ Successes(v) = IF s = "Success" THEN Successes(p) \cup {m + 1} ELSE Successes(p)
      /\ FailuresIn(v) = IF s = "Failure" THEN FailuresIn(p) \cup {m + 1} ELSE FailuresIn(p)
  <2>1. Len(v) = m + 1 /\ Len(p) = m /\ v[m + 1].sample = s
    BY <1>1, <1>3 DEF m
  <2>2. Successes(v) = {i \in 1..m : p[i].sample = "Success"}
                            \cup {i \in {m + 1} : s = "Success"}
    BY <1>3, <1>4, <2>1 DEF Successes
  <2>3. FailuresIn(v) = {i \in 1..m : p[i].sample = "Failure"}
                            \cup {i \in {m + 1} : s = "Failure"}
    BY <1>3, <1>4, <2>1 DEF FailuresIn
  <2> QED
    BY <2>1, <2>2, <2>3 DEF Successes, FailuresIn
<1>6. /\ Successes(p) \subseteq 1..m /\ FailuresIn(p) \subseteq 1..m
      /\ IsFiniteSet(FailuresIn(p)) /\ \A last : IsFiniteSet(FailuresAfter(p, last))
  BY FailuresFinite DEF Successes, FailuresIn, m
<1>7. CASE s = "Success"
  <2>1. m + 1 \in Successes(v) /\ \A i \in Successes(v) : i <= m + 1
    BY <1>2, <1>5, <1>6, <1>7
  <2>2. FailuresAfter(v, m + 1) = {}
    BY <1>2, <1>5, <1>6, <1>7 DEF FailuresAfter
  <2>3. Cardinality(FailuresAfter(v, m + 1)) = 0 /\ streak(g, s) = 0
    BY <1>7, <2>2, FS_EmptySet DEF streak
  <2> QED
    BY <2>1, <2>3 DEF Shows, v
<1>8. CASE s = "Throttle"
  <2>1. Successes(v) = Successes(p) /\ FailuresIn(v) = FailuresIn(p) /\ streak(g, s) = n
    BY <1>5, <1>8 DEF streak
  <2> QED
    BY <2>1 DEF Shows, FailuresAfter, v
<1>9. CASE s = "Failure"
  <2>1. /\ Successes(v) = Successes(p) /\ FailuresIn(v) = FailuresIn(p) \cup {m + 1}
        /\ streak(g, s) = n + 1 /\ m + 1 \notin FailuresIn(p)
    BY <1>2, <1>5, <1>6, <1>9 DEF streak
  <2>2. CASE Successes(p) = {}
    <3>1. n >= Cardinality(FailuresIn(p))
      BY <2>2 DEF Shows
    <3>2. Cardinality(FailuresIn(v)) = Cardinality(FailuresIn(p)) + 1
      BY <1>6, <2>1, FS_AddElement
    <3>3. Cardinality(FailuresIn(p)) \in Nat
      BY <1>6, FS_CardinalityType
    <3>4. n + 1 >= Cardinality(FailuresIn(v))
      BY <3>1, <3>2, <3>3
    <3> QED
      BY <2>1, <2>2, <3>4 DEF Shows, v
  <2>3. CASE Successes(p) # {}
    <3>1. PICK last \in Successes(p) :
            /\ \A i \in Successes(p) : i <= last
            /\ n = Cardinality(FailuresAfter(p, last))
      BY <2>3 DEF Shows
    <3>2. FailuresAfter(v, last) = FailuresAfter(p, last) \cup {m + 1}
      <4>1. m + 1 > last
        BY <1>2, <1>6
      <4> QED
        BY <2>1, <4>1 DEF FailuresAfter
    <3>3. m + 1 \notin FailuresAfter(p, last)
      BY <2>1 DEF FailuresAfter
    <3>4. Cardinality(FailuresAfter(v, last)) = Cardinality(FailuresAfter(p, last)) + 1
      BY <1>6, <3>2, <3>3, FS_AddElement
    <3> QED
      BY <2>1, <2>3, <3>1, <3>4 DEF Shows, v
  <2> QED
    BY <2>2, <2>3
<1> QED
  BY <1>7, <1>8, <1>9 DEF Sample

StreakShown == Shows(inner.window, inner.consecutive_failures)

LEMMA StreakNext == Inv /\ StreakShown /\ [Next]_inner => StreakShown'
<1> SUFFICES ASSUME Inv, StreakShown, [Next]_inner PROVE StreakShown'
  OBVIOUS
<1>1. /\ inner \in Inner /\ inner.window \in Seq(Entry)
      /\ inner.consecutive_failures \in Nat /\ Ordered(inner.window)
  BY DEF Inv, TypeOK, Inner, WindowOrdered, Ordered
<1>2. ASSUME NEW s \in Sample, NEW b \in BOOLEAN,
             inner' = apply_circuit_transitions(push_sample(inner, s, b))
      PROVE  StreakShown'
  <2> DEFINE h == push_sample(inner, s, b)
             p == prune_window(inner.window)
  <2>1. h \in Inner
    BY <1>1, PushedSample
  <2>2. h.window = push_back(p, s) /\ h.consecutive_failures = streak(inner, s)
    BY DEF push_sample
  <2> HIDE DEF h
  <2>3. inner'.window = h.window /\ inner'.consecutive_failures = h.consecutive_failures
    BY <1>2, <2>1, Transition DEF h
  <2>4. p \in Seq(Entry) /\ Shows(p, inner.consecutive_failures)
    BY <1>1, PruneIsSuffix, PruneShows DEF StreakShown
  <2> HIDE DEF p
  <2>5. Shows(push_back(p, s), streak(inner, s))
    BY <1>1, <2>4, PushShows
  <2>6. Shows(inner'.window, inner'.consecutive_failures)
    BY <2>2, <2>3, <2>5
  <2> QED
    BY <2>6 DEF StreakShown, Shows, Successes, FailuresAfter, FailuresIn
<1>3. ASSUME NEW success \in BOOLEAN, NEW is_probe \in BOOLEAN,
             Record(success, is_probe)
      PROVE  StreakShown'
  BY <1>2, <1>3, RecordForms
<1>4. CASE RecordThrottled
  BY <1>2, <1>4, RecordForms
<1>5. CASE Tick
  <2> DEFINE w == inner.window
             v == inner'.window
  <2>1. v = [i \in 1..Len(w) |-> [age |-> Advance(w[i].age, MaxAge), sample |-> w[i].sample]]
        /\ inner'.consecutive_failures = inner.consecutive_failures
    BY <1>1, <1>5 DEF Tick, older, Inner
  <2>2. Len(v) = Len(w) /\ \A i \in 1..Len(w) : v[i].sample = w[i].sample
    <3>1. Len(w) \in Nat
      BY <1>1, LenProperties
    <3> HIDE DEF v, w
    <3> QED
      BY <2>1, <3>1
  <2> HIDE DEF v, w
  <2>3. Successes(v) = Successes(w) /\ FailuresIn(v) = FailuresIn(w)
    BY <2>2 DEF Successes, FailuresIn
  <2>4. Shows(v, inner.consecutive_failures)
    BY <2>3 DEF Shows, FailuresAfter, StreakShown, w
  <2> QED
    BY <2>1, <2>4 DEF StreakShown, Shows, Successes, FailuresAfter, FailuresIn, v
<1>6. CASE UNCHANGED inner
  <2>1. Shows(inner'.window, inner'.consecutive_failures)
    BY <1>6 DEF StreakShown
  <2> QED
    BY <2>1 DEF StreakShown, Shows, Successes, FailuresAfter, FailuresIn
<1> QED
  BY <1>3, <1>4, <1>5, <1>6 DEF Next

(* consecutive_failures, which push_sample keeps apart from the window,    *)
(* agrees with it for every window, threshold and order of outcomes: with  *)
(* a success in the window it is the number of failures after the last     *)
(* one, else at least the failures in the window.                          *)
THEOREM StreakCorrect == Spec => []StreakMatchesWindow
<1>1. Init => StreakShown
  <2> SUFFICES ASSUME Init PROVE StreakShown
    OBVIOUS
  <2>1. inner.window = <<>> /\ inner.consecutive_failures = 0
    BY DEF Init, Inner_new
  <2>2. Successes(inner.window) = {} /\ FailuresIn(inner.window) = {}
    BY <2>1 DEF Successes, FailuresIn
  <2> QED
    BY <2>1, <2>2, FS_EmptySet DEF StreakShown, Shows
<1>2. StreakShown => StreakMatchesWindow
  BY DEF StreakShown, Shows, Successes, FailuresAfter, StreakMatchesWindow
<1> QED
  BY <1>1, <1>2, InvAlways, StreakNext, PTL DEF Spec

=============================================================================
