---------------------------- MODULE ProbeRounds -----------------------------
(***************************************************************************)
(* Slot drift: every provider, and the external reference, is probed on    *)
(* one grid of rounds, and the tips of the last few rounds are kept in a   *)
(* ring (health.rs: RoundTips, CommitmentRounds, health_loop,              *)
(* reference_loop; SlotSnapshot adds the reader).                          *)
(*                                                                         *)
(* The probe loops interleave at every lock they take.  A slot number is   *)
(* the round in which the network reached it.  Two of the three            *)
(* commitments are kept: `processed', whose failure fails the probe, and   *)
(* `finalized', whose leg may fail alone (`confirmed' is like it).         *)
(***************************************************************************)
EXTENDS Integers

CONSTANTS
    Provider,       \* the probed providers
    Reference,      \* the external reference: probed, never in a snapshot
    TIP_ROUNDS,     \* rounds that keep their own tips
    MaxRound,       \* bound: rounds that pass
    MaxLag          \* bound: how far behind the network an answer may be

ASSUME RoundsAssumption ==
    /\ Reference \notin Provider
    /\ TIP_ROUNDS \in Nat \ {0}
    /\ MaxRound \in Nat /\ MaxLag \in Nat

Sampler == Provider \cup {Reference}
Commitment == {"processed", "finalized"}
None == -1
Slot == 0..MaxRound
OptSlot == {None} \cup Slot
OptRound == {None} \cup 0..MaxRound
CommitmentSlots == [Commitment -> OptSlot]
SlotTips == [Commitment -> Slot]

VARIABLES
    round,          \* the grid round that time has reached
    ticked,         \* [Sampler -> the round of its last tick, or None]
    probing,        \* [Sampler -> [pc, round, slots]], the probe under way
    slots, rounds,  \* [Sampler -> Inner.slots], [Provider -> Inner.rounds]
    round_tips,     \* the ring
    sampled,        \* history: [Provider -> [Commitment -> the leg's last answer]]
    highest         \* history: [round -> max of all slots reported for it]

vars == <<round, ticked, probing, slots, rounds, round_tips, sampled, highest>>

Larger(x, y) == IF x >= y THEN x ELSE y
NoSlots == [c \in Commitment |-> None]
NoTips == [c \in Commitment |-> 0]
NoEntry == [round |-> None, tips |-> NoTips]
NeverAnswered == [c \in Commitment |-> [slot |-> None, round |-> None]]
NoProbe == [pc |-> "idle", round |-> None, slots |-> NoSlots]

Init ==
    /\ round = 0
    /\ ticked = [s \in Sampler |-> None]
    /\ probing = [s \in Sampler |-> NoProbe]
    /\ slots = [s \in Sampler |-> NoSlots]
    /\ rounds = [p \in Provider |-> NoSlots]
    /\ round_tips = [i \in 0..(TIP_ROUNDS - 1) |-> NoEntry]
    /\ sampled = [p \in Provider |-> NeverAnswered]
    /\ highest = [r \in 0..MaxRound |-> NoTips]

-----------------------------------------------------------------------------
(* The operators on slots, stamps and the ring. *)

(* SlotTips::observe, where a missing slot counts as 0. *)
observe(tips, new) == [c \in Commitment |-> Larger(tips[c], new[c])]

(* CommitmentSlots::merge: a failed leg keeps the last known slot. *)
merge(old, new) == [c \in Commitment |-> IF new[c] # None THEN new[c] ELSE old[c]]

(* Mutant: every commitment is stamped, also one whose leg failed. *)
stamp_all(old, new, r) == [c \in Commitment |-> r]

stamp(old, new, r) == [c \in Commitment |-> IF new[c] # None THEN r ELSE old[c]]

(* Mutant: the tips of a new round start from those of the round it         *)
(* displaces.                                                               *)
ObserveOnTop(ring, r, new) ==
    LET i == r % TIP_ROUNDS
    IN  IF ring[i].round > r THEN ring
        ELSE [ring EXCEPT ![i] = [round |-> r, tips |-> observe(@.tips, new)]]

(* RoundTips::observe. *)
ObserveRound(ring, r, new) ==
    LET i == r % TIP_ROUNDS
    IN  CASE ring[i].round = r -> [ring EXCEPT ![i].tips = observe(@, new)]
          [] ring[i].round > r -> ring
          [] OTHER -> [ring EXCEPT ![i] = [round |-> r, tips |-> observe(NoTips, new)]]

(* Mutant: the entry's round is not compared. *)
HoldsAny(ring, r) == r # None /\ ring[r % TIP_ROUNDS].round # None

(* RoundTips::get as a test, and TipBook::tip. *)
Holds(ring, r) == r # None /\ ring[r % TIP_ROUNDS].round = r

tip(book, latest, c, r) ==
    IF Holds(book, r) THEN book[r % TIP_ROUNDS].tips[c] ELSE latest[c]

-----------------------------------------------------------------------------
(* The probe loops. *)

NextRound ==
    /\ round < MaxRound
    /\ round' = round + 1
    /\ UNCHANGED <<ticked, probing, slots, rounds, round_tips, sampled, highest>>

(* The ticker fires once per grid point, skipping those a probe overran;    *)
(* a tick that comes too late does not count for its round.                 *)
ProbeTick(s, on_grid) ==
    /\ probing[s].pc = "idle"
    /\ ticked[s] < round
    /\ ticked' = [ticked EXCEPT ![s] = round]
    /\ probing' = [probing EXCEPT ![s] =
            [NoProbe EXCEPT !.pc = "probing", !.round = IF on_grid THEN round ELSE None]]
    /\ UNCHANGED <<round, slots, rounds, round_tips, sampled, highest>>

(* `probe' succeeds: the processed leg answered. *)
Answers == {new \in CommitmentSlots :
                /\ new["processed"] \in Larger(0, round - MaxLag)..round
                /\ new["finalized"] \in {None, Larger(0, new["processed"] - 1)}}

(* History: what each leg of a provider last answered, with the grid round  *)
(* that the clock showed when its probe was started, if it was on time.     *)
Answered(s, new) ==
    LET on_time == probing[s].round # None
        at == IF on_time THEN ticked[s] ELSE None
    IN  [c \in Commitment |-> IF new[c] = None THEN sampled[s][c]
                              ELSE [slot |-> new[c], round |-> at]]

ProbeOk(s, new) ==
    /\ probing[s].pc = "probing"
    /\ probing' = [probing EXCEPT ![s].pc = "answered", ![s].slots = new]
    /\ sampled' = IF s = Reference THEN sampled
                  ELSE [sampled EXCEPT ![s] = Answered(s, new)]
    /\ UNCHANGED <<round, ticked, slots, rounds, round_tips, highest>>

ProbeErr(s) ==
    /\ probing[s].pc = "probing"
    /\ probing' = [probing EXCEPT ![s] = NoProbe]
    /\ UNCHANGED <<round, ticked, slots, rounds, round_tips, sampled, highest>>

(* Mutant: the slot is stored before the round's tip. *)
StoreFirst == "answered"

StoreAfter == "observed"        \* "Round tips first"

ObserveTip(s) ==
    /\ probing[s].pc = "answered"
    /\ LET r == probing[s].round  new == probing[s].slots
       IN  IF r = None THEN UNCHANGED <<round_tips, highest>>
           ELSE /\ round_tips' = ObserveRound(round_tips, r, new)
                /\ highest' = [highest EXCEPT ![r] = observe(@, new)]
    /\ probing' = [probing EXCEPT ![s].pc = "observed"]
    /\ UNCHANGED <<round, ticked, slots, rounds, sampled>>

(* update_slots_in_round of a provider; the reference only merges. *)
StoreSlots(s) ==
    /\ probing[s].pc = StoreAfter
    /\ LET r == probing[s].round  new == probing[s].slots
       IN  /\ slots' = [slots EXCEPT ![s] = merge(@, new)]
           /\ rounds' = IF s = Reference THEN rounds
                        ELSE [rounds EXCEPT ![s] = stamp(@, new, r)]
    /\ probing' = [probing EXCEPT ![s] = NoProbe]
    /\ UNCHANGED <<round, ticked, round_tips, sampled, highest>>

Next ==
    \/ NextRound
    \/ \E s \in Sampler :
        \/ \E on_grid \in BOOLEAN : ProbeTick(s, on_grid)
        \/ \E new \in Answers : ProbeOk(s, new)
        \/ ProbeErr(s) \/ ObserveTip(s) \/ StoreSlots(s)

Spec == Init /\ [][Next]_vars

-----------------------------------------------------------------------------
(* The ring tells the truth about every round it holds: its tips are the    *)
(* maxima of all slots reported for that round, however late the reports    *)
(* came and whatever round had the entry before.                            *)
RingHoldsTheMax ==
    \A i \in DOMAIN round_tips :
        round_tips[i].round # None => round_tips[i].tips = highest[round_tips[i].round]

(* The ring keeps up: a provider's sample is never of a round that the ring *)
(* has not reached, so it is compared with its own round unless the ring    *)
(* has moved past it ("Round tips first").                                  *)
RoundBeforeSlot ==
    \A p \in Provider, c \in Commitment :
        LET r == rounds[p][c]
        IN  r # None => /\ round_tips[r % TIP_ROUNDS].round >= r
                        /\ round_tips[r % TIP_ROUNDS].round = r =>
                                slots[p][c] <= round_tips[r % TIP_ROUNDS].tips[c]

(* A stamp is never of another sample: with no answer of the leg waiting to *)
(* be stored, a slot and its stamp are together the leg's last answer and   *)
(* the round in which it was asked for.  The two are written apart          *)
(* (merge, then stamp), some time after the answer, and a probe may bring   *)
(* one leg and not the other, be late for its round, or fail.               *)
StampMatchesSample ==
    \A p \in Provider, c \in Commitment :
        probing[p].slots[c] = None =>
            sampled[p][c] = [slot |-> slots[p][c], round |-> rounds[p][c]]
=============================================================================
