--------------------------- MODULE CircuitBreaker ---------------------------
(***************************************************************************)
(* One provider's health under every interleaving of the outcomes that its *)
(* probe loop and the live requests report.  A request dispatched before   *)
(* the circuit opened may report after it did, and a degraded dispatch     *)
(* reaches an open provider, so any outcome may arrive in any state.       *)
(***************************************************************************)
EXTENDS ProviderHealth

CONSTANTS
    MaxWindow,     \* bound: samples held in the window
    MaxStreak      \* bound: consecutive failures counted

ASSUME BoundsAssumption == MaxWindow \in Nat /\ MaxStreak \in Nat

VARIABLE inner      \* ProviderHealth.inner

Init == inner = Inner_new

HasRoom == Len(prune_window(inner.window)) < MaxWindow

Record(success, is_probe) ==
    /\ HasRoom
    /\ success \/ inner.consecutive_failures < MaxStreak
    /\ inner' = record(inner, success, is_probe)

RecordThrottled ==
    /\ HasRoom
    /\ inner' = record_throttled(inner)

Tick == inner' = older(inner)

Next ==
    \/ \E success, is_probe \in BOOLEAN : Record(success, is_probe)
    \/ RecordThrottled
    \/ Tick

Spec == Init /\ [][Next]_inner

(* health_loop records one probe outcome per interval for as long as the    *)
(* provider is configured, and time passes.                                 *)
ProbeOutcome == RecordThrottled \/ \E success \in BOOLEAN : Record(success, TRUE)

ProbedSpec == Spec /\ WF_inner(Tick) /\ WF_inner(ProbeOutcome)

-----------------------------------------------------------------------------
(* The type of the state. *)
TypeOK == inner \in Inner

(* The circuit is stamped exactly while it is open.  apply_circuit_         *)
(* transitions leaves Open only through the stamp, so an open circuit       *)
(* without one would exclude the provider for ever.                         *)
OpenIffStamped == inner.circuit = "Open" <=> inner.opened_age # NotOpened

(* A circuit that is closed never carries a failure streak that should have *)
(* opened it: no path (recovery, a neutral throttle, pruning) leaves        *)
(* consecutive_failures at or over circuit_open_failures in Closed.         *)
ClosedBelowTrip ==
    inner.circuit = "Closed" =>
        \/ inner.consecutive_failures = 0
        \/ inner.consecutive_failures < OpenFailures

(* Samples stay in the order they were recorded, oldest first, so popping   *)
(* from the front until a fresh one is enough to prune the window.          *)
WindowOrdered ==
    \A i, j \in 1..Len(inner.window) :
        i <= j => inner.window[i].age >= inner.window[j].age

(* consecutive_failures is kept apart from the window, yet the two agree:   *)
(* once a success is in the window the streak is the number of failures     *)
(* after it, and before that it is at least the failures in the window.     *)
StreakMatchesWindow ==
    LET w == inner.window
        successes == {i \in 1..Len(w) : w[i].sample = "Success"}
    IN  IF successes = {}
        THEN inner.consecutive_failures >= Cardinality(FailuresIn(w))
        ELSE \E last \in successes :
                /\ \A i \in successes : i <= last
                /\ inner.consecutive_failures
                        = Cardinality({i \in FailuresIn(w) : i > last})

(* No outcome older than window_secs takes part in a decision: whatever     *)
(* recording an outcome leaves in the window is fresh.                      *)
FreshAfterRecord ==
    [][ ~Tick => \A i \in 1..Len(inner'.window) : ~Expired(inner'.window[i])
      ]_inner

(* The circuit opens only on evidence of a fault: whenever it goes from     *)
(* Closed to Open, at least one hard failure is in the window, whatever     *)
(* the outcome that was just recorded.                                      *)
TripNeedsFailure ==
    [][ inner.circuit = "Closed" /\ inner'.circuit = "Open"
            => FailuresIn(inner'.window) # {} ]_inner

(* The circuit, seen from outside, behaves as BreakerContract says.         *)
Contract == INSTANCE BreakerContract
                WITH circuit <- inner.circuit, opened_age <- inner.opened_age
ImplementsContract == Contract!Spec

(* "opens on failure, probes for recovery, resumes traffic automatically":  *)
(* a probed provider that from some time on only succeeds ends with its     *)
(* circuit closed for good, whatever its window held.                       *)
OnlySuccesses == ~(RecordThrottled \/ \E p \in BOOLEAN : Record(FALSE, p))
RecoversForGood ==
    <>[][OnlySuccesses]_inner => <>[](inner.circuit = "Closed")

(* What the comment in apply_circuit_transitions claims: throttles are      *)
(* excluded from both triggers "so a rate limit never opens the circuit".   *)
ThrottleNeverOpens ==
    [][ RecordThrottled =>
            ~(inner.circuit = "Closed" /\ inner'.circuit = "Open") ]_inner
=============================================================================
