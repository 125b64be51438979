------------------------- MODULE SlotSnapshot_proofs ------------------------
(***************************************************************************)
(* Proofs about ProbeRounds and SlotSnapshot for any providers, any size   *)
(* of the ring and any number of rounds.  ObserveRound only ever moves an  *)
(* entry of the ring forward; that, that nothing was ever reported for a   *)
(* round ahead of its entry, and that a probe carries its last answer with *)
(* the round of its tick, is what the inductive invariant adds.            *)
(***************************************************************************)
EXTENDS SlotSnapshot, TLAPS

RingEntry == [round : OptRound, tips : SlotTips]
ProbeType == [pc : {"idle", "probing", "answered", "observed"},
              round : OptRound, slots : CommitmentSlots]
Index == 0..(TIP_ROUNDS - 1)

TypeOK ==
    /\ round \in 0..MaxRound
    /\ ticked \in [Sampler -> OptRound]
    /\ probing \in [Sampler -> ProbeType]
    /\ slots \in [Sampler -> CommitmentSlots]
    /\ rounds \in [Provider -> [Commitment -> OptRound]]
    /\ round_tips \in [Index -> RingEntry]
    /\ sampled \in [Provider -> [Commitment -> [slot : OptSlot, round : OptRound]]]
    /\ highest \in [0..MaxRound -> SlotTips]

(* An entry holds a round of its residue, and nothing was reported yet for *)
(* any later round of that residue.                                        *)
RingInPlace ==
    \A i \in Index :
        /\ round_tips[i].round # None => round_tips[i].round % TIP_ROUNDS = i
        /\ \A r \in 0..MaxRound :
            r % TIP_ROUNDS = i /\ r > round_tips[i].round => highest[r] = NoTips

(* The ring has reached round r, and shows at least `seen' if it is there. *)
Reached(ring, r, c, seen) ==
    /\ ring[r % TIP_ROUNDS].round >= r
    /\ ring[r % TIP_ROUNDS].round = r => seen <= ring[r % TIP_ROUNDS].tips[c]

(* A probe that has observed its round may store its slots. *)
ObservedReached ==
    \A s \in Sampler, c \in Commitment :
        probing[s].pc = "observed" /\ probing[s].round # None =>
            Reached(round_tips, probing[s].round, c, probing[s].slots[c])

StoredReached ==
    \A p \in Provider, c \in Commitment :
        rounds[p][c] # None => Reached(round_tips, rounds[p][c], c, slots[p][c])

(* The round a probe carries is the one the clock showed at its tick, or   *)
(* none, and it carries no slots before it is answered.                    *)
ProbeInPlace ==
    \A s \in Sampler :
        /\ probing[s].round # None => probing[s].round = ticked[s]
        /\ probing[s].pc \in {"idle", "probing"} => probing[s].slots = NoSlots

(* What a probe carries to be stored is its leg's last answer.             *)
AnswerCarried ==
    \A p \in Provider, c \in Commitment :
        probing[p].slots[c] # None =>
            sampled[p][c] = [slot |-> probing[p].slots[c], round |-> probing[p].round]

StampInv == ProbeInPlace /\ AnswerCarried /\ StampMatchesSample

Inv == /\ TypeOK /\ StampInv /\ RingInPlace /\ RingHoldsTheMax
       /\ ObservedReached /\ StoredReached

-----------------------------------------------------------------------------
(* A round has its place in the ring. *)
LEMMA RoundIndex ==
    ASSUME NEW r \in 0..MaxRound
    PROVE  r % TIP_ROUNDS \in Index
  BY RoundsAssumption DEF Index

LEMMA Constants ==
    /\ NoSlots \in CommitmentSlots /\ NoTips \in SlotTips
    /\ NoEntry \in RingEntry /\ NoProbe \in ProbeType
    /\ OptRound \subseteq Int /\ 0 \in 0..MaxRound
<1>1. NoSlots \in CommitmentSlots
  BY DEF NoSlots, CommitmentSlots, OptSlot
<1>2. NoTips \in SlotTips
  BY RoundsAssumption DEF NoTips, SlotTips, Slot
<1> QED
  BY <1>1, <1>2, RoundsAssumption
     DEF NoEntry, RingEntry, NoProbe, ProbeType, OptRound, None

(* SlotTips::observe never lowers a tip and covers what it saw. *)
LEMMA ObserveFacts ==
    ASSUME NEW tips \in SlotTips, NEW new \in CommitmentSlots
    PROVE  /\ observe(tips, new) \in SlotTips
           /\ \A c \in Commitment : /\ observe(tips, new)[c] >= tips[c]
                                    /\ observe(tips, new)[c] >= new[c]
<1>1. \A c \in Commitment : tips[c] \in Slot /\ new[c] \in OptSlot
  BY DEF SlotTips, CommitmentSlots
<1>2. \A c \in Commitment : /\ Larger(tips[c], new[c]) \in Slot
                            /\ Larger(tips[c], new[c]) >= tips[c]
                            /\ Larger(tips[c], new[c]) >= new[c]
  BY <1>1, RoundsAssumption DEF Larger, Slot, OptSlot, None
<1> QED
  BY <1>2 DEF observe, SlotTips

(* RoundTips::observe writes the entry of the round and no other; it only  *)
(* moves forward, and reaches the round it is told of.                     *)
LEMMA ObserveRoundFacts ==
    ASSUME NEW ring \in [Index -> RingEntry], NEW r \in 0..MaxRound,
           NEW new \in CommitmentSlots
    PROVE  LET after == ObserveRound(ring, r, new)
               i == r % TIP_ROUNDS
           IN  /\ after \in [Index -> RingEntry]
               /\ \A j \in Index \ {i} : after[j] = ring[j]
               /\ ring[i].round = r =>
                    after[i] = [round |-> r, tips |-> observe(ring[i].tips, new)]
               /\ ring[i].round > r => after[i] = ring[i]
               /\ ring[i].round < r =>
                    after[i] = [round |-> r, tips |-> observe(NoTips, new)]
<1> DEFINE i == r % TIP_ROUNDS
           after == ObserveRound(ring, r, new)
<1>1. /\ i \in Index /\ ring[i] \in RingEntry /\ ring[i].round \in Int /\ r \in Int
      /\ ring[i].tips \in SlotTips /\ r \in OptRound
  BY RoundIndex, Constants DEF RingEntry, OptRound
<1>2. observe(ring[i].tips, new) \in SlotTips /\ observe(NoTips, new) \in SlotTips
  BY <1>1, Constants, ObserveFacts
<1>3. CASE ring[i].round = r
  <2>1. after = [ring EXCEPT ![i].tips = observe(@, new)]
    BY <1>3 DEF ObserveRound
  <2>2. after[i] = [round |-> r, tips |-> observe(ring[i].tips, new)]
    BY <1>1, <1>3, <2>1 DEF RingEntry
  <2> QED
    BY <1>1, <1>2, <1>3, <2>1, <2>2 DEF RingEntry
<1>4. CASE ring[i].round > r
  <2>1. after = ring
    BY <1>1, <1>4 DEF ObserveRound
  <2> QED
    BY <1>1, <1>4, <2>1
<1>5. CASE ring[i].round < r
  <2>1. after = [ring EXCEPT ![i] = [round |-> r, tips |-> observe(NoTips, new)]]
    BY <1>1, <1>5 DEF ObserveRound
  <2> QED
    BY <1>1, <1>2, <1>5, <2>1 DEF RingEntry
<1> QED
  BY <1>1, <1>3, <1>4, <1>5

LEMMA InvInit == Init => Inv
<1> SUFFICES ASSUME Init PROVE Inv
  OBVIOUS
<1>1. TypeOK
  BY Constants DEF Init, TypeOK, Index, CommitmentSlots, OptSlot, OptRound, Slot,
                   NeverAnswered
<1>2. RingInPlace /\ RingHoldsTheMax
  BY Constants DEF Init, RingInPlace, RingHoldsTheMax, Index, NoEntry
<1>3. ObservedReached /\ StoredReached
  BY DEF Init, ObservedReached, StoredReached, NoProbe, NoSlots
<1>4. StampInv
  BY DEF Init, StampInv, ProbeInPlace, AnswerCarried, StampMatchesSample, Sampler,
         NoProbe, NoSlots, NeverAnswered
<1> QED
  BY <1>1, <1>2, <1>3, <1>4 DEF Inv

-----------------------------------------------------------------------------
(* The history of answers. *)
LEMMA SampledType ==
    ASSUME TypeOK, NEW s \in Sampler, NEW new \in CommitmentSlots, ProbeOk(s, new)
    PROVE  sampled' \in [Provider -> [Commitment -> [slot : OptSlot, round : OptRound]]]
<1>1. CASE s = Reference
  BY <1>1 DEF ProbeOk, TypeOK
<1>2. CASE s # Reference
  <2>1. s \in Provider /\ ticked[s] \in OptRound
    BY <1>2 DEF Sampler, TypeOK
  <2>2. sampled' = [sampled EXCEPT ![s] = Answered(s, new)]
    BY <1>2 DEF ProbeOk
  <2>3. Answered(s, new) \in [Commitment -> [slot : OptSlot, round : OptRound]]
    BY <2>1 DEF Answered, TypeOK, CommitmentSlots, OptRound
  <2> QED
    BY <2>1, <2>2, <2>3 DEF TypeOK
<1> QED
  BY <1>1, <1>2

(* A stored slot stays its leg's last answer, and keeps its round. *)
LEMMA StampNext == TypeOK /\ StampInv /\ [Next]_vars => StampInv'
<1> SUFFICES ASSUME TypeOK, StampInv, [Next]_vars PROVE StampInv'
  OBVIOUS
<1>0. ProbeInPlace /\ AnswerCarried /\ StampMatchesSample /\ Provider \subseteq Sampler
  BY DEF StampInv, Sampler
<1>1. CASE NextRound \/ UNCHANGED vars
  <2>1. UNCHANGED <<ticked, probing, slots, rounds, sampled>>
    BY <1>1 DEF NextRound, vars
  <2> QED
    BY <1>0, <2>1 DEF StampInv, ProbeInPlace, AnswerCarried, StampMatchesSample
<1>2. ASSUME NEW s \in Sampler, NEW on_grid \in BOOLEAN, ProbeTick(s, on_grid)
      PROVE  StampInv'
  <2>1. /\ UNCHANGED <<slots, rounds, sampled>>
        /\ probing[s].slots = NoSlots /\ probing'[s].slots = NoSlots
        /\ probing'[s].round # None => probing'[s].round = ticked'[s]
        /\ \A q \in Sampler \ {s} : probing'[q] = probing[q] /\ ticked'[q] = ticked[q]
    BY <1>0, <1>2 DEF ProbeTick, TypeOK, ProbeInPlace, NoProbe
  <2>2. ProbeInPlace'
    BY <1>0, <2>1 DEF ProbeInPlace
  <2>3. \A q \in Sampler : probing'[q].slots = probing[q].slots
    BY <2>1
  <2>4. AnswerCarried'
    BY <1>0, <2>1 DEF AnswerCarried, NoSlots
  <2>5. StampMatchesSample'
    BY <1>0, <2>1, <2>3 DEF StampMatchesSample
  <2> QED
    BY <2>2, <2>4, <2>5 DEF StampInv
<1>3. ASSUME NEW s \in Sampler, NEW new \in Answers, ProbeOk(s, new) PROVE StampInv'
  <2>1. /\ UNCHANGED <<slots, rounds, ticked>>
        /\ probing[s].slots = NoSlots
        /\ probing'[s].pc = "answered" /\ probing'[s].slots = new
        /\ probing'[s].round = probing[s].round
        /\ \A q \in Sampler \ {s} : probing'[q] = probing[q]
    BY <1>0, <1>3 DEF ProbeOk, TypeOK, ProbeType, ProbeInPlace
  <2>2. ProbeInPlace'
    BY <1>0, <2>1 DEF ProbeInPlace
  <2>3. ASSUME NEW p \in Provider, p # s PROVE sampled'[p] = sampled[p]
    BY <1>3, <2>3 DEF ProbeOk, TypeOK
  <2>4. ASSUME NEW c \in Commitment, s \in Provider
        PROVE  sampled'[s][c] = IF new[c] = None THEN sampled[s][c]
                                ELSE [slot |-> new[c], round |-> probing[s].round]
    <3>1. s # Reference
      BY <2>4, RoundsAssumption
    <3>2. sampled'[s] = Answered(s, new)
      BY <1>3, <2>4, <3>1 DEF ProbeOk, TypeOK
    <3>3. (IF probing[s].round # None THEN ticked[s] ELSE None) = probing[s].round
      BY <1>0 DEF ProbeInPlace
    <3> QED
      BY <3>2, <3>3 DEF Answered
  <2>5. AnswerCarried'
    <3> SUFFICES ASSUME NEW p \in Provider, NEW c \in Commitment, probing'[p].slots[c] # None
                 PROVE  sampled'[p][c]
                          = [slot |-> probing'[p].slots[c], round |-> probing'[p].round]
      BY DEF AnswerCarried
    <3> QED
      BY <1>0, <2>1, <2>3, <2>4 DEF AnswerCarried
  <2>6. StampMatchesSample'
    <3> SUFFICES ASSUME NEW p \in Provider, NEW c \in Commitment, probing'[p].slots[c] = None
                 PROVE  sampled'[p][c] = [slot |-> slots[p][c], round |-> rounds[p][c]]
      BY <2>1 DEF StampMatchesSample
    <3>1. CASE p # s
      BY <1>0, <2>1, <2>3, <3>1 DEF StampMatchesSample
    <3>2. CASE p = s
      BY <1>0, <2>1, <2>4, <3>2 DEF StampMatchesSample, NoSlots
    <3> QED
      BY <3>1, <3>2
  <2> QED
    BY <2>2, <2>5, <2>6 DEF StampInv
<1>4. ASSUME NEW s \in Sampler, ProbeErr(s) PROVE StampInv'
  <2>1. /\ UNCHANGED <<slots, rounds, sampled, ticked>>
        /\ probing[s].slots = NoSlots /\ probing'[s] = NoProbe
        /\ \A q \in Sampler \ {s} : probing'[q] = probing[q]
    BY <1>0, <1>4 DEF ProbeErr, TypeOK, ProbeInPlace
  <2>2. \A q \in Sampler : probing'[q].slots = probing[q].slots
    BY <2>1 DEF NoProbe
  <2>3. ProbeInPlace'
    BY <1>0, <2>1 DEF ProbeInPlace, NoProbe
  <2>4. AnswerCarried'
    BY <1>0, <2>1 DEF AnswerCarried, NoProbe, NoSlots
  <2>5. StampMatchesSample'
    BY <1>0, <2>1, <2>2 DEF StampMatchesSample
  <2> QED
    BY <2>3, <2>4, <2>5 DEF StampInv
<1>5. ASSUME NEW s \in Sampler, ObserveTip(s) PROVE StampInv'
  <2>1. /\ UNCHANGED <<slots, rounds, sampled, ticked>>
        /\ probing[s].pc = "answered" /\ probing'[s].pc = "observed"
        /\ \A q \in Sampler : /\ probing'[q].slots = probing[q].slots
                              /\ probing'[q].round = probing[q].round
        /\ \A q \in Sampler \ {s} : probing'[q] = probing[q]
    BY <1>5 DEF ObserveTip, TypeOK, ProbeType
  <2>2. ProbeInPlace'
    BY <1>0, <2>1 DEF ProbeInPlace
  <2>3. AnswerCarried' /\ StampMatchesSample'
    BY <1>0, <2>1 DEF AnswerCarried, StampMatchesSample
  <2> QED
    BY <2>2, <2>3 DEF StampInv
<1>6. ASSUME NEW s \in Sampler, StoreSlots(s) PROVE StampInv'
  <2> DEFINE r == probing[s].round
             new == probing[s].slots
  <2>1. /\ UNCHANGED <<sampled, ticked>>
        /\ probing'[s] = NoProbe
        /\ \A q \in Sampler \ {s} : probing'[q] = probing[q]
        /\ slots'[s] = merge(slots[s], new)
        /\ \A q \in Sampler \ {s} : slots'[q] = slots[q]
    BY <1>6 DEF StoreSlots, TypeOK
  <2>2. /\ \A p \in Provider : p # s => rounds'[p] = rounds[p]
        /\ s \in Provider => rounds'[s] = stamp(rounds[s], new, r)
    <3>1. CASE s = Reference
      BY <1>6, <3>1, RoundsAssumption DEF StoreSlots
    <3>2. CASE s # Reference
      BY <1>6, <3>2 DEF StoreSlots, TypeOK, Sampler
    <3> QED
      BY <3>1, <3>2
  <2>3. ProbeInPlace'
    BY <1>0, <2>1 DEF ProbeInPlace, NoProbe
  <2>4. AnswerCarried'
    BY <1>0, <2>1 DEF AnswerCarried, NoProbe, NoSlots
  <2>5. StampMatchesSample'
    <3> SUFFICES ASSUME NEW p \in Provider, NEW c \in Commitment, probing'[p].slots[c] = None
                 PROVE  sampled[p][c] = [slot |-> slots'[p][c], round |-> rounds'[p][c]]
      BY <2>1 DEF StampMatchesSample
    <3>1. CASE p # s
      BY <1>0, <2>1, <2>2, <3>1 DEF StampMatchesSample
    <3>2. CASE p = s
      <4>1. slots'[s][c] = IF new[c] # None THEN new[c] ELSE slots[s][c]
        BY <2>1 DEF merge
      <4>2. rounds'[s][c] = IF new[c] # None THEN r ELSE rounds[s][c]
        BY <2>2, <3>2 DEF stamp
      <4> QED
        BY <1>0, <3>2, <4>1, <4>2 DEF AnswerCarried, StampMatchesSample
    <3> QED
      BY <3>1, <3>2
  <2> QED
    BY <2>3, <2>4, <2>5 DEF StampInv
<1> QED
  BY <1>1, <1>2, <1>3, <1>4, <1>5, <1>6 DEF Next

-----------------------------------------------------------------------------
(* Steps that touch neither the ring nor what is stored. *)
LEMMA QuietStep ==
    ASSUME Inv, TypeOK', StampInv', UNCHANGED <<slots, rounds, round_tips, highest>>,
           \A s \in Sampler : probing'[s].pc = "observed" => probing'[s] = probing[s]
    PROVE  Inv'
<1>1. RingInPlace' /\ RingHoldsTheMax' /\ StoredReached'
  BY DEF Inv, RingInPlace, RingHoldsTheMax, StoredReached, Reached
<1>2. ObservedReached'
  BY DEF Inv, ObservedReached, Reached
<1> QED
  BY <1>1, <1>2 DEF Inv

LEMMA ObserveTipStep ==
    ASSUME Inv, StampInv', NEW s \in Sampler, ObserveTip(s)
    PROVE  Inv'
<1> DEFINE r == probing[s].round
           new == probing[s].slots
           i == r % TIP_ROUNDS
<1>0. /\ TypeOK /\ RingInPlace /\ RingHoldsTheMax
      /\ ObservedReached /\ StoredReached
  BY DEF Inv
<1>1. probing[s] \in ProbeType /\ new \in CommitmentSlots /\ r \in OptRound
  BY <1>0 DEF TypeOK, ProbeType
<1>2. /\ probing' = [probing EXCEPT ![s].pc = "observed"]
      /\ UNCHANGED <<round, ticked, slots, rounds, sampled>>
  BY DEF ObserveTip
<1>3. /\ probing' \in [Sampler -> ProbeType]
      /\ probing'[s].round = r /\ probing'[s].slots = new
      /\ \A q \in Sampler \ {s} : probing'[q] = probing[q]
  BY <1>0, <1>1, <1>2 DEF TypeOK, ProbeType
<1>4. CASE r = None
  <2>1. UNCHANGED <<round_tips, highest>>
    BY <1>4 DEF ObserveTip
  <2>2. TypeOK'
    BY <1>0, <1>2, <1>3, <2>1 DEF TypeOK
  <2>3. RingInPlace' /\ RingHoldsTheMax' /\ StoredReached'
    BY <1>0, <1>2, <2>1
       DEF RingInPlace, RingHoldsTheMax, StoredReached, Reached
  <2>4. ObservedReached'
    BY <1>0, <1>3, <1>4, <2>1 DEF ObservedReached, Reached
  <2> QED
    BY <2>2, <2>3, <2>4 DEF Inv
<1>5. CASE r # None
  <2>1. r \in 0..MaxRound /\ i \in Index
    BY <1>1, <1>5, RoundIndex DEF OptRound
  <2>2. /\ round_tips' = ObserveRound(round_tips, r, new)
        /\ highest' = [highest EXCEPT ![r] = observe(@, new)]
    BY <1>5 DEF ObserveTip
  <2>3. /\ round_tips' \in [Index -> RingEntry]
        /\ \A j \in Index \ {i} : round_tips'[j] = round_tips[j]
        /\ round_tips[i].round = r =>
              round_tips'[i] = [round |-> r, tips |-> observe(round_tips[i].tips, new)]
        /\ round_tips[i].round > r => round_tips'[i] = round_tips[i]
        /\ round_tips[i].round < r =>
              round_tips'[i] = [round |-> r, tips |-> observe(NoTips, new)]
    <3>1. round_tips \in [Index -> RingEntry]
      BY <1>0 DEF TypeOK
    <3> HIDE DEF r, new
    <3> QED
      BY <1>1, <2>1, <2>2, <3>1, ObserveRoundFacts
  <2>4. /\ highest[r] \in SlotTips
        /\ highest'[r] = observe(highest[r], new)
        /\ \A q \in 0..MaxRound \ {r} : highest'[q] = highest[q]
        /\ highest' \in [0..MaxRound -> SlotTips]
    <3>1. highest[r] \in SlotTips
      BY <1>0, <2>1 DEF TypeOK
    <3>2. observe(highest[r], new) \in SlotTips
      BY <1>1, <3>1, ObserveFacts
    <3> QED
      BY <1>0, <2>1, <2>2, <3>1, <3>2 DEF TypeOK
  <2>5. /\ round_tips[i] \in RingEntry /\ round_tips[i].round \in Int /\ r \in Nat
        /\ round_tips[i].tips \in SlotTips
    <3>1. round_tips[i] \in RingEntry /\ r \in Nat
      BY <1>0, <2>1 DEF TypeOK
    <3> QED
      BY <3>1, Constants DEF RingEntry
  <2>6. TypeOK'
    BY <1>0, <1>2, <1>3, <2>3, <2>4 DEF TypeOK
  <2>7. RingInPlace'
    <3> SUFFICES ASSUME NEW j \in Index
                 PROVE  /\ round_tips'[j].round # None => round_tips'[j].round % TIP_ROUNDS = j
                        /\ \A q \in 0..MaxRound :
                             q % TIP_ROUNDS = j /\ q > round_tips'[j].round => highest'[q] = NoTips
      BY DEF RingInPlace
    <3>1. CASE j # i
      <4>1. \A q \in 0..MaxRound : q % TIP_ROUNDS = j => q # r
        BY <3>1
      <4> QED
        BY <1>0, <2>3, <2>4, <3>1, <4>1 DEF RingInPlace
    <3>2. CASE j = i
      <4>1. round_tips'[i].round # None => round_tips'[i].round % TIP_ROUNDS = i
        BY <1>0, <2>1, <2>3, <2>5 DEF RingInPlace
      <4>2. ASSUME NEW q \in 0..MaxRound, q % TIP_ROUNDS = i, q > round_tips'[i].round
            PROVE  highest'[q] = NoTips
        <5>1. q > round_tips[i].round /\ q # r
          BY <2>3, <2>5, <4>2
        <5> QED
          BY <1>0, <2>1, <2>4, <4>2, <5>1 DEF RingInPlace
      <4> QED
        BY <3>2, <4>1, <4>2
    <3> QED
      BY <3>1, <3>2
  <2>8. RingHoldsTheMax'
    <3> SUFFICES ASSUME NEW j \in Index, round_tips'[j].round # None
                 PROVE  round_tips'[j].tips = highest'[round_tips'[j].round]
      BY <2>3 DEF RingHoldsTheMax
    <3>0. \A k \in Index : round_tips[k].round # None =>
                /\ round_tips[k].tips = highest[round_tips[k].round]
                /\ round_tips[k].round \in 0..MaxRound
                /\ round_tips[k].round % TIP_ROUNDS = k
      BY <1>0 DEF TypeOK, RingHoldsTheMax, RingInPlace, RingEntry, OptRound
    <3>1. CASE j # i
      BY <2>3, <2>4, <3>0, <3>1
    <3>2. CASE j = i /\ round_tips[i].round = r
      <4>1. round_tips'[j].round = r
            /\ round_tips'[j].tips = observe(round_tips[i].tips, new)
        BY <2>3, <3>2
      <4>2. round_tips[i].tips = highest[r]
        BY <1>5, <2>1, <3>0, <3>2
      <4> QED
        BY <2>4, <4>1, <4>2
    <3>3. CASE j = i /\ round_tips[i].round > r
      <4>1. round_tips'[j] = round_tips[i]
        BY <2>3, <3>3
      <4>2. round_tips[i].round \in 0..MaxRound /\ round_tips[i].round # r
            /\ round_tips[i].tips = highest[round_tips[i].round]
        BY <2>1, <2>5, <3>0, <3>3, <4>1
      <4> QED
        BY <2>4, <4>1, <4>2
    <3>4. CASE j = i /\ round_tips[i].round < r
      <4>1. highest[r] = NoTips
        BY <1>0, <2>1, <3>4 DEF RingInPlace
      <4> QED
        BY <2>3, <2>4, <3>4, <4>1
    <3> QED
      BY <2>5, <3>1, <3>2, <3>3, <3>4
  <2>9. ASSUME NEW q \in 0..MaxRound, NEW c \in Commitment, NEW seen \in Int,
               Reached(round_tips, q, c, seen)
        PROVE  Reached(round_tips', q, c, seen)
    <3> DEFINE j == q % TIP_ROUNDS
    <3>1. j \in Index
      BY RoundIndex
    <3>2. /\ round_tips[j] \in RingEntry /\ round_tips[j].round \in Int
          /\ round_tips[j].tips[c] \in Int
      <4>1. round_tips[j] \in RingEntry
        BY <1>0, <3>1 DEF TypeOK
      <4>2. round_tips[j].round \in OptRound /\ round_tips[j].tips \in SlotTips
        BY <4>1 DEF RingEntry
      <4>3. round_tips[j].round \in Int
        BY <4>2, Constants
      <4>4. round_tips[j].tips[c] \in Int
        BY <4>2 DEF SlotTips, Slot
      <4> QED
        BY <4>1, <4>3, <4>4
    <3>3. CASE j # i
      BY <2>3, <2>9, <3>1, <3>3 DEF Reached
    <3>4. CASE j = i
      <4>1. round_tips[i].round = r =>
                observe(round_tips[i].tips, new)[c] >= round_tips[i].tips[c]
        BY <1>1, <2>5, ObserveFacts
      <4>2. observe(round_tips[i].tips, new)[c] \in Int
        BY <1>1, <2>5, ObserveFacts, RoundsAssumption DEF SlotTips, Slot
      <4>3. CASE round_tips[i].round = r
        BY <2>3, <2>5, <2>9, <3>2, <3>4, <4>1, <4>2, <4>3 DEF Reached
      <4>4. CASE round_tips[i].round > r
        BY <2>3, <2>5, <2>9, <3>2, <3>4, <4>4 DEF Reached
      <4>5. CASE round_tips[i].round < r
        BY <2>3, <2>5, <2>9, <3>2, <3>4, <4>5 DEF Reached
      <4> QED
        BY <2>5, <4>3, <4>4, <4>5
    <3> QED
      BY <3>3, <3>4
  <2>10. ASSUME NEW c \in Commitment
         PROVE  Reached(round_tips', r, c, new[c])
    <3>1. new[c] \in Int
      BY <1>1, RoundsAssumption DEF CommitmentSlots, OptSlot, Slot, None
    <3>2. /\ observe(round_tips[i].tips, new)[c] >= new[c]
          /\ observe(NoTips, new)[c] >= new[c]
          /\ observe(round_tips[i].tips, new)[c] \in Int
          /\ observe(NoTips, new)[c] \in Int
      BY <1>1, <2>5, ObserveFacts, Constants, RoundsAssumption DEF SlotTips, Slot
    <3> QED
      <4>1. CASE round_tips[i].round = r
        <5>1. round_tips'[i].round = r
              /\ round_tips'[i].tips[c] = observe(round_tips[i].tips, new)[c]
          BY <2>3, <4>1
        <5> QED
          BY <2>5, <3>1, <3>2, <5>1 DEF Reached
      <4>2. CASE round_tips[i].round > r
        <5>1. round_tips'[i].round = round_tips[i].round
          BY <2>3, <4>2
        <5> QED
          BY <2>5, <4>2, <5>1 DEF Reached
      <4>3. CASE round_tips[i].round < r
        <5>1. round_tips'[i].round = r /\ round_tips'[i].tips[c] = observe(NoTips, new)[c]
          BY <2>3, <4>3
        <5> QED
          BY <2>5, <3>1, <3>2, <5>1 DEF Reached
      <4> QED
        BY <2>5, <4>1, <4>2, <4>3
  <2>11. StoredReached'
    <3> SUFFICES ASSUME NEW p \in Provider, NEW c \in Commitment, rounds[p][c] # None
                 PROVE  Reached(round_tips', rounds[p][c], c, slots[p][c])
      BY <1>2 DEF StoredReached, Reached
    <3>1. rounds[p][c] \in 0..MaxRound /\ slots[p][c] \in Int
      BY <1>0, RoundsAssumption
         DEF TypeOK, OptRound, CommitmentSlots, OptSlot, Slot, None, Sampler
    <3> QED
      BY <1>0, <2>9, <3>1 DEF StoredReached
  <2>12. ObservedReached'
    <3> SUFFICES ASSUME NEW q \in Sampler, NEW c \in Commitment,
                        probing'[q].pc = "observed", probing'[q].round # None
                 PROVE  Reached(round_tips', probing'[q].round, c, probing'[q].slots[c])
      BY DEF ObservedReached, Reached
    <3>1. CASE q = s
      BY <1>3, <2>10, <3>1
    <3>2. CASE q # s
      <4>1. probing'[q] = probing[q]
        BY <1>3, <3>2
      <4>2. probing[q].round \in 0..MaxRound /\ probing[q].slots[c] \in Int
        BY <1>0, <4>1, RoundsAssumption
           DEF TypeOK, ProbeType, OptRound, CommitmentSlots, OptSlot, Slot, None
      <4> QED
        BY <1>0, <2>9, <4>1, <4>2 DEF ObservedReached
    <3> QED
      BY <3>1, <3>2
  <2> QED
    BY <2>6, <2>7, <2>8, <2>11, <2>12 DEF Inv
<1> QED
  BY <1>4, <1>5

LEMMA StoreSlotsStep ==
    ASSUME Inv, StampInv', NEW s \in Sampler, StoreSlots(s)
    PROVE  Inv'
<1> DEFINE r == probing[s].round
           new == probing[s].slots
<1>0. /\ TypeOK /\ RingInPlace /\ RingHoldsTheMax
      /\ ObservedReached /\ StoredReached
  BY DEF Inv
<1>1. /\ probing[s] \in ProbeType /\ new \in CommitmentSlots /\ r \in OptRound
      /\ slots[s] \in CommitmentSlots /\ probing[s].pc = "observed"
  BY <1>0 DEF TypeOK, ProbeType, StoreSlots, StoreAfter
<1>2. /\ slots' = [slots EXCEPT ![s] = merge(@, new)]
      /\ probing' = [probing EXCEPT ![s] = NoProbe]
      /\ UNCHANGED <<round, ticked, round_tips, sampled, highest>>
  BY DEF StoreSlots
<1>3. /\ merge(slots[s], new) \in CommitmentSlots
      /\ slots' \in [Sampler -> CommitmentSlots]
      /\ \A q \in Sampler \ {s} : slots'[q] = slots[q]
      /\ slots'[s] = merge(slots[s], new)
  <2>1. merge(slots[s], new) \in CommitmentSlots
    BY <1>1 DEF merge, CommitmentSlots
  <2> QED
    BY <1>0, <1>2, <2>1 DEF TypeOK
<1>4. /\ probing' \in [Sampler -> ProbeType]
      /\ \A q \in Sampler : probing'[q].pc = "observed" => probing'[q] = probing[q]
  BY <1>0, <1>2, Constants DEF TypeOK, NoProbe
<1>5. /\ rounds' \in [Provider -> [Commitment -> OptRound]]
      /\ \A p \in Provider : p # s => rounds'[p] = rounds[p]
      /\ s \in Provider => rounds'[s] = stamp(rounds[s], new, r)
  <2>1. CASE s = Reference
    <3>1. UNCHANGED rounds /\ s \notin Provider
      BY <2>1, RoundsAssumption DEF StoreSlots
    <3> QED
      BY <1>0, <3>1 DEF TypeOK
  <2>2. CASE s # Reference
    <3>1. s \in Provider
      BY <2>2 DEF Sampler
    <3>2. rounds' = [rounds EXCEPT ![s] = stamp(@, new, r)]
      BY <2>2 DEF StoreSlots
    <3>3. stamp(rounds[s], new, r) \in [Commitment -> OptRound]
      BY <1>0, <1>1, <3>1 DEF stamp, TypeOK
    <3> QED
      BY <1>0, <3>1, <3>2, <3>3 DEF TypeOK
  <2> QED
    BY <2>1, <2>2
<1>6. TypeOK'
  BY <1>0, <1>2, <1>3, <1>4, <1>5 DEF TypeOK
<1>7. RingInPlace' /\ RingHoldsTheMax'
  BY <1>0, <1>2 DEF RingInPlace, RingHoldsTheMax
<1>8. ObservedReached'
  BY <1>0, <1>2, <1>4 DEF ObservedReached, Reached
<1>9. StoredReached'
  <2> SUFFICES ASSUME NEW p \in Provider, NEW c \in Commitment, rounds'[p][c] # None
               PROVE  Reached(round_tips, rounds'[p][c], c, slots'[p][c])
    BY <1>2 DEF StoredReached, Reached
  <2>0. p \in Sampler
    BY DEF Sampler
  <2>1. CASE p # s
    BY <1>0, <1>3, <1>5, <2>0, <2>1 DEF StoredReached
  <2>2. CASE p = s /\ new[c] # None
    <3>1. rounds'[p][c] = r /\ slots'[p][c] = new[c]
      BY <1>3, <1>5, <2>2 DEF stamp, merge
    <3> QED
      BY <1>0, <1>1, <2>0, <2>2, <3>1 DEF ObservedReached
  <2>3. CASE p = s /\ new[c] = None
    <3>1. rounds'[p][c] = rounds[p][c] /\ slots'[p][c] = slots[p][c]
      BY <1>3, <1>5, <2>3 DEF stamp, merge
    <3> QED
      BY <1>0, <3>1 DEF StoredReached
  <2> QED
    BY <2>1, <2>2, <2>3
<1> QED
  BY <1>6, <1>7, <1>8, <1>9 DEF Inv

(* The invariant is inductive. *)
LEMMA InvNext == Inv /\ [Next]_vars => Inv'
<1> SUFFICES ASSUME Inv, [Next]_vars PROVE Inv'
  OBVIOUS
<1>0. TypeOK /\ StampInv'
  BY StampNext DEF Inv
<1>1. CASE NextRound
  <2>1. TypeOK' /\ UNCHANGED <<probing, slots, rounds, round_tips, sampled, highest>>
    BY <1>0, <1>1, RoundsAssumption DEF NextRound, TypeOK
  <2> QED
    BY <1>0, <2>1, QuietStep
<1>2. ASSUME NEW s \in Sampler, NEW on_grid \in BOOLEAN, ProbeTick(s, on_grid)
      PROVE  Inv'
  <2>1. /\ UNCHANGED <<slots, rounds, round_tips, sampled, highest, round>>
        /\ probing' = [probing EXCEPT ![s] = [NoProbe EXCEPT !.pc = "probing",
                            !.round = IF on_grid THEN round ELSE None]]
        /\ ticked' = [ticked EXCEPT ![s] = round]
    BY <1>2 DEF ProbeTick
  <2>2. /\ [NoProbe EXCEPT !.pc = "probing", !.round = IF on_grid THEN round ELSE None]
                \in ProbeType
        /\ round \in OptRound
    BY <1>0, Constants DEF TypeOK, ProbeType, NoProbe, OptRound
  <2>3. TypeOK'
    BY <1>0, <2>1, <2>2 DEF TypeOK
  <2>4. \A q \in Sampler : probing'[q].pc = "observed" => probing'[q] = probing[q]
    BY <1>0, <2>1 DEF TypeOK, NoProbe
  <2> QED
    BY <1>0, <2>1, <2>3, <2>4, QuietStep
<1>3. ASSUME NEW s \in Sampler, NEW new \in Answers, ProbeOk(s, new) PROVE Inv'
  <2>1. /\ UNCHANGED <<slots, rounds, round_tips, highest, round, ticked>>
        /\ probing' = [probing EXCEPT ![s].pc = "answered", ![s].slots = new]
        /\ new \in CommitmentSlots
    BY <1>3 DEF ProbeOk, Answers
  <2>2. sampled' \in [Provider -> [Commitment -> [slot : OptSlot, round : OptRound]]]
    BY <1>0, <1>3, <2>1, SampledType
  <2>3. TypeOK'
    BY <1>0, <2>1, <2>2 DEF TypeOK, ProbeType
  <2>4. \A q \in Sampler : probing'[q].pc = "observed" => probing'[q] = probing[q]
    BY <1>0, <2>1 DEF TypeOK, ProbeType
  <2> QED
    BY <1>0, <2>1, <2>3, <2>4, QuietStep
<1>4. ASSUME NEW s \in Sampler, ProbeErr(s) PROVE Inv'
  <2>1. /\ UNCHANGED <<slots, rounds, round_tips, sampled, highest, round, ticked>>
        /\ probing' = [probing EXCEPT ![s] = NoProbe]
    BY <1>4 DEF ProbeErr
  <2>2. TypeOK'
    BY <1>0, <2>1, Constants DEF TypeOK
  <2>3. \A q \in Sampler : probing'[q].pc = "observed" => probing'[q] = probing[q]
    BY <1>0, <2>1 DEF TypeOK, NoProbe
  <2> QED
    BY <1>0, <2>1, <2>2, <2>3, QuietStep
<1>5. CASE UNCHANGED vars
  <2>1. UNCHANGED <<round, ticked, probing, slots, rounds, round_tips, sampled, highest>>
    BY <1>5 DEF vars
  <2>2. TypeOK'
    BY <1>0, <2>1 DEF TypeOK
  <2> QED
    BY <1>0, <2>1, <2>2, QuietStep
<1> QED
  BY <1>0, <1>1, <1>2, <1>3, <1>4, <1>5, ObserveTipStep, StoreSlotsStep DEF Next

LEMMA InvAlways == Spec => []Inv
  BY InvInit, InvNext, PTL DEF Spec

(* A reader does not interfere: SnapshotSpec without it is ProbeRounds. *)
LEMMA ReaderOnlyReads == SnapshotSpec => Spec
<1>1. SnapshotInit => Init
  BY DEF SnapshotInit
<1>2. [SnapshotNext]_reader_vars => [Next]_vars
  BY DEF SnapshotNext, reader_vars, ReadLatest, ReadRing, ReaderDone, ReadProvider
<1> QED
  BY <1>1, <1>2, PTL DEF SnapshotSpec, Spec

-----------------------------------------------------------------------------
(* The tips of every round that the ring holds are the maxima of all that  *)
(* was reported for it, for any ring size and any lateness.                *)
THEOREM RingCorrect == SnapshotSpec => []RingHoldsTheMax
<1>1. Inv => RingHoldsTheMax
  BY DEF Inv
<1> QED
  BY <1>1, InvAlways, ReaderOnlyReads, PTL

(* No sample is of a round the ring has not reached: health_loop observes  *)
(* the round's tips before update_slots_in_round stores the slot.          *)
THEOREM RoundBeforeSlotCorrect == SnapshotSpec => []RoundBeforeSlot
<1>1. Inv => RoundBeforeSlot
  BY DEF Inv, StoredReached, Reached, RoundBeforeSlot
<1> QED
  BY <1>1, InvAlways, ReaderOnlyReads, PTL

(* A stored slot and its stamp are always together the leg's last answer   *)
(* and the round it was asked for in: through failed legs, failed and      *)
(* off-grid probes, and however long the answer waited to be stored.       *)
THEOREM StampCorrect == SnapshotSpec => []StampMatchesSample
<1>1. Inv => StampMatchesSample
  BY DEF Inv, StampInv
<1> QED
  BY <1>1, InvAlways, ReaderOnlyReads, PTL

-----------------------------------------------------------------------------
(* What the reader holds: its copy of the ring was true when it was taken, *)
(* and what was reported since can only have raised the maxima.            *)
ReaderType ==
    /\ reader = [pc |-> reader.pc, latest |-> reader.latest, left |-> reader.left,
                 book |-> reader.book, snapped |-> reader.snapped]
    /\ reader.left \subseteq Provider
    /\ reader.book \in [Index -> RingEntry]
    /\ reader.snapped \in [Provider -> [slots : CommitmentSlots,
                                        rounds : [Commitment -> OptRound]]]

BookBelowMax ==
    \A i \in Index : reader.book[i].round # None =>
        /\ reader.book[i].round % TIP_ROUNDS = i
        /\ \A c \in Commitment :
              reader.book[i].tips[c] <= highest[reader.book[i].round][c]

ReaderInv == ReaderType /\ BookBelowMax

LEMMA NoReaderFacts == (reader = NoReader) => ReaderInv
<1> SUFFICES ASSUME reader = NoReader PROVE ReaderInv
  OBVIOUS
<1>1. ReaderType
  <2>1. NoSlots \in [Commitment -> OptRound]
    BY DEF NoSlots, OptRound
  <2> QED
    BY <2>1, Constants DEF NoReader, ReaderType, Index
<1> QED
  BY <1>1 DEF ReaderInv, BookBelowMax, NoReader, Index, NoEntry

(* No probe ever lowers a maximum. *)
LEMMA HighestGrows ==
    ASSUME Inv, [Next]_vars, NEW r \in 0..MaxRound, NEW c \in Commitment
    PROVE  highest[r][c] <= highest'[r][c] /\ highest[r][c] \in Int /\ highest'[r][c] \in Int
<1>0. TypeOK /\ TypeOK'
  BY InvNext DEF Inv
<1>1. highest[r] \in SlotTips /\ highest[r][c] \in Int /\ highest'[r][c] \in Int
  <2>1. highest[r] \in SlotTips /\ highest'[r] \in SlotTips
    BY <1>0 DEF TypeOK
  <2> QED
    BY <2>1 DEF SlotTips, Slot
<1>2. CASE UNCHANGED highest
  BY <1>1, <1>2
<1>3. ASSUME NEW s \in Sampler, ObserveTip(s), highest' # highest
      PROVE  highest[r][c] <= highest'[r][c]
  <2> DEFINE q == probing[s].round
             new == probing[s].slots
  <2>1. highest' = [highest EXCEPT ![q] = observe(@, new)] /\ q # None
    BY <1>3 DEF ObserveTip
  <2>2. new \in CommitmentSlots /\ q \in 0..MaxRound
    BY <1>0, <2>1 DEF TypeOK, ProbeType, OptRound
  <2>3. observe(highest[r], new)[c] >= highest[r][c]
    BY <1>1, <2>2, ObserveFacts
  <2>4. highest'[r] = IF r = q THEN observe(highest[r], new) ELSE highest[r]
    BY <1>0, <2>1, <2>2 DEF TypeOK
  <2> QED
    BY <1>1, <2>3, <2>4
<1>4. UNCHANGED highest \/ \E s \in Sampler : ObserveTip(s)
  BY DEF Next, vars, NextRound, ProbeTick, ProbeOk, ProbeErr, StoreSlots
<1> QED
  BY <1>1, <1>2, <1>3, <1>4

LEMMA ReaderNext == Inv /\ ReaderInv /\ [SnapshotNext]_reader_vars => ReaderInv'
<1> SUFFICES ASSUME Inv, ReaderInv, [SnapshotNext]_reader_vars PROVE ReaderInv'
  OBVIOUS
<1>0. TypeOK /\ RingInPlace /\ RingHoldsTheMax /\ ReaderType /\ BookBelowMax
  BY DEF Inv, ReaderInv
<1>1. CASE [Next]_vars /\ UNCHANGED reader
  <2>1. ReaderType'
    BY <1>0, <1>1 DEF ReaderType
  <2>2. ASSUME NEW i \in Index, reader.book[i].round # None
        PROVE  /\ reader.book[i].round % TIP_ROUNDS = i
               /\ \A c \in Commitment :
                    reader.book[i].tips[c] <= highest'[reader.book[i].round][c]
    <3>1. /\ reader.book[i].round \in 0..MaxRound
          /\ \A c \in Commitment : reader.book[i].tips[c] \in Int
      BY <1>0, <2>2 DEF ReaderType, RingEntry, OptRound, SlotTips, Slot
    <3>2. \A c \in Commitment :
            /\ highest[reader.book[i].round][c] <= highest'[reader.book[i].round][c]
            /\ highest[reader.book[i].round][c] \in Int
            /\ highest'[reader.book[i].round][c] \in Int
      BY <1>1, <3>1, HighestGrows
    <3> QED
      BY <1>0, <2>2, <3>1, <3>2 DEF BookBelowMax
  <2> QED
    BY <1>1, <2>1, <2>2 DEF ReaderInv, BookBelowMax
<1>2. CASE ReadLatest
  <2>1. /\ reader' = [NoReader EXCEPT !.pc = "ring", !.latest = LatestTips]
        /\ UNCHANGED highest
    BY <1>2 DEF ReadLatest, vars
  <2>2. /\ reader'.left = NoReader.left /\ reader'.book = NoReader.book
        /\ reader'.snapped = NoReader.snapped
        /\ reader' = [pc |-> reader'.pc, latest |-> reader'.latest, left |-> reader'.left,
                      book |-> reader'.book, snapped |-> reader'.snapped]
    BY <2>1 DEF NoReader
  <2>3. ReaderType'
    <3>1. NoSlots \in [Commitment -> OptRound]
      BY DEF NoSlots, OptRound
    <3> QED
      BY <2>2, <3>1, Constants DEF NoReader, ReaderType, Index
  <2> QED
    BY <2>2, <2>3 DEF ReaderInv, BookBelowMax, NoReader, Index, NoEntry
<1>3. CASE ReadRing
  <2>1. /\ reader' = [reader EXCEPT !.pc = "providers", !.book = round_tips, !.left = Provider]
        /\ UNCHANGED highest
    BY <1>3 DEF ReadRing, vars
  <2>2. ReaderType' /\ reader'.book = round_tips
    BY <1>0, <2>1 DEF ReaderType, TypeOK
  <2>3. ASSUME NEW i \in Index, round_tips[i].round # None
        PROVE  /\ round_tips[i].round % TIP_ROUNDS = i
               /\ \A c \in Commitment :
                    round_tips[i].tips[c] <= highest[round_tips[i].round][c]
    <3>1. round_tips[i].tips = highest[round_tips[i].round]
      BY <1>0, <2>3 DEF RingHoldsTheMax, TypeOK
    <3>2. \A c \in Commitment : round_tips[i].tips[c] \in Int
      BY <1>0 DEF TypeOK, RingEntry, SlotTips, Slot
    <3> QED
      BY <1>0, <2>3, <3>1, <3>2 DEF RingInPlace
  <2> QED
    BY <2>1, <2>2, <2>3 DEF ReaderInv, BookBelowMax
<1>4. ASSUME NEW p \in Provider, ReadProvider(p) PROVE ReaderInv'
  <2>1. /\ reader' = [reader EXCEPT !.left = @ \ {p},
                        !.snapped[p] = [slots |-> slots[p], rounds |-> rounds[p]]]
        /\ UNCHANGED highest
    BY <1>4 DEF ReadProvider, vars
  <2>2. /\ reader'.left = reader.left \ {p} /\ reader'.book = reader.book
        /\ reader'.snapped = [reader.snapped EXCEPT
                ![p] = [slots |-> slots[p], rounds |-> rounds[p]]]
        /\ reader' = [pc |-> reader'.pc, latest |-> reader'.latest, left |-> reader'.left,
                      book |-> reader'.book, snapped |-> reader'.snapped]
    BY <1>0, <2>1 DEF ReaderType
  <2>3. [slots |-> slots[p], rounds |-> rounds[p]]
            \in [slots : CommitmentSlots, rounds : [Commitment -> OptRound]]
    BY <1>0 DEF TypeOK, Sampler
  <2>4. ReaderType'
    BY <1>0, <2>2, <2>3 DEF ReaderType
  <2> QED
    BY <1>0, <2>1, <2>2, <2>4 DEF ReaderInv, BookBelowMax
<1>5. CASE ReaderDone
  <2>1. reader' = NoReader
    BY <1>5 DEF ReaderDone
  <2>2. ReaderType'
    <3>1. NoSlots \in [Commitment -> OptRound]
      BY DEF NoSlots, OptRound
    <3> QED
      BY <2>1, <3>1, Constants DEF NoReader, ReaderType, Index
  <2> QED
    BY <2>1, <2>2 DEF ReaderInv, BookBelowMax, NoReader, Index, NoEntry
<1> QED
  BY <1>1, <1>2, <1>3, <1>4, <1>5 DEF SnapshotNext, reader_vars

(* Whatever the probes do between the reader's locks, the drift of a       *)
(* provider is measured against its own round if the copied ring has it,   *)
(* and never by more than what was reported for that round.                *)
THEOREM LikeWithLikeCorrect == SnapshotSpec => []LikeWithLike
<1>1. ASSUME Inv, ReaderInv PROVE LikeWithLike
  <2> SUFFICES ASSUME NEW p \in Provider, NEW c \in Commitment,
                      drift(p, c) > 0
               PROVE  LET snap == reader.snapped[p]
                          r == snap.rounds[c]
                          known == \E i \in DOMAIN reader.book : reader.book[i].round = r
                      IN  IF r # None /\ known
                          THEN drift(p, c) <= highest[r][c] - snap.slots[c]
                          ELSE drift(p, c) = reader.latest[c] - snap.slots[c]
    BY DEF LikeWithLike
  <2> DEFINE snap == reader.snapped[p]
             r == snap.rounds[c]
             known == \E i \in DOMAIN reader.book : reader.book[i].round = r
             t == tip(reader.book, reader.latest, c, r)
  <2>0. TypeOK /\ ReaderType /\ BookBelowMax
    BY <1>1 DEF Inv, ReaderInv
  <2>1. drift(p, c) = t - snap.slots[c]
    BY DEF drift
  <2>2. DOMAIN reader.book = Index /\ r \in OptRound /\ snap.slots[c] \in Int
    BY <2>0 DEF ReaderType, CommitmentSlots, OptSlot, Slot, None
  <2>3. CASE r # None /\ known
    <3>1. PICK i \in Index : reader.book[i].round = r
      BY <2>2, <2>3
    <3>2. r % TIP_ROUNDS = i /\ reader.book[i].tips[c] <= highest[r][c]
      BY <2>0, <2>3, <3>1 DEF BookBelowMax
    <3>3. t = reader.book[i].tips[c]
      BY <2>3, <3>1, <3>2 DEF tip, Holds
    <3>4. reader.book[i].tips[c] \in Int /\ highest[r][c] \in Int
      <4>1. r \in 0..MaxRound
        BY <2>2, <2>3 DEF OptRound
      <4> QED
        BY <2>0, <4>1 DEF ReaderType, RingEntry, TypeOK, SlotTips, Slot
    <3>5. drift(p, c) <= highest[r][c] - snap.slots[c]
      BY <2>1, <2>2, <3>2, <3>3, <3>4
    <3> QED
      BY <2>3, <3>5
  <2>4. CASE ~(r # None /\ known)
    <3>1. ~Holds(reader.book, r)
      BY <2>2, <2>4, RoundIndex DEF Holds, OptRound
    <3>2. t = reader.latest[c]
      BY <3>1 DEF tip
    <3> QED
      BY <2>1, <2>4, <3>2
  <2> QED
    BY <2>3, <2>4
<1>2. SnapshotInit => ReaderInv
  BY NoReaderFacts DEF SnapshotInit
<1>3. SnapshotSpec => []ReaderInv
  BY <1>2, ReaderNext, InvAlways, ReaderOnlyReads, PTL DEF SnapshotSpec
<1> QED
  BY <1>1, <1>3, InvAlways, ReaderOnlyReads, PTL
=============================================================================
