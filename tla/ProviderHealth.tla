--------------------------- MODULE ProviderHealth ---------------------------
(***************************************************************************)
(* The health window and the circuit breaker of one provider: the part of  *)
(* `Inner' in health.rs that `ProviderHealth::record' and                  *)
(* `ProviderHealth::record_throttled' change, as functions from one value  *)
(* g of `Inner' to the next.  Both methods hold the write lock throughout, *)
(* so a module that uses them takes each as one atomic step.               *)
(*                                                                         *)
(* The code stamps each sample and the opening of the circuit with         *)
(* Instant::now() and only ever compares the time elapsed since a stamp    *)
(* with a configured duration.  The model keeps the elapsed time itself,   *)
(* an age in whole seconds advanced by `older', and stops counting once    *)
(* the code can no longer tell two ages apart.                             *)
(***************************************************************************)
EXTENDS Integers, Sequences, FiniteSets

CONSTANTS
    WindowSecs,     \* cfg.window_secs
    CooldownSecs,   \* cfg.circuit_cooldown_secs
    OpenFailures,   \* cfg.circuit_open_failures
    ErrNum, ErrDen  \* cfg.circuit_error_threshold = ErrNum / ErrDen

ASSUME WindowAssumption    == WindowSecs \in Nat
ASSUME CooldownAssumption  == CooldownSecs \in Nat
ASSUME FailuresAssumption  == OpenFailures \in Nat
ASSUME ThresholdAssumption == ErrNum \in Nat /\ ErrDen \in Nat \ {0}

Sample == {"Success", "Failure", "Throttle"}
CircuitState == {"Closed", "HalfOpen", "Open"}
NotOpened == -1                 \* circuit_opened_at = None

MaxAge == WindowSecs + 1
Entry == [age : 0..MaxAge, sample : Sample]

(* opened_age is the time since circuit_opened_at; latency_known says that  *)
(* latency_ema_ms has left 0.0, its "no data" value.                        *)
Inner == [window : Seq(Entry),          \* oldest first
          consecutive_failures : Nat,
          latency_known : BOOLEAN,
          circuit : CircuitState,
          opened_age : {NotOpened} \cup 0..CooldownSecs]

Inner_new ==
    [window |-> <<>>, consecutive_failures |-> 0, latency_known |-> FALSE,
     circuit |-> "Closed", opened_age |-> NotOpened]

-----------------------------------------------------------------------------
(* The sliding window. *)

Expired(e) == e.age > WindowSecs

(* How many samples are popped: the longest prefix of expired ones. *)
ExpiredPrefix(w) ==
    Cardinality({i \in 1..Len(w) : \A j \in 1..i : Expired(w[j])})

(* Mutant: `if' where the code loops, so at most one sample is popped. *)
prune_window_once(w) ==
    IF ExpiredPrefix(w) = 0 THEN w ELSE SubSeq(w, 2, Len(w))

prune_window(w) == SubSeq(w, ExpiredPrefix(w) + 1, Len(w))

FailuresIn(w) == {i \in 1..Len(w) : w[i].sample = "Failure"}

(* Mutant: error_rate, which counts throttles too, in place of              *)
(* hard_error_rate.                                                         *)
AnyErrorRateExceeded(w) ==
    /\ w # <<>>
    /\ Cardinality({i \in 1..Len(w) : w[i].sample # "Success"}) * ErrDen
            > ErrNum * Len(w)

(* hard_error_rate() > circuit_error_threshold, with the division cleared. *)
HardRateExceeded(w) ==
    /\ w # <<>>
    /\ Cardinality(FailuresIn(w)) * ErrDen > ErrNum * Len(w)

push_back(w, s) == Append(w, [age |-> 0, sample |-> s])

(* Mutant: a throttle ends the failure streak. *)
streak_reset_by_throttle(g, s) ==
    IF s = "Failure" THEN g.consecutive_failures + 1 ELSE 0

(* Mutant: a success takes one failure back instead of ending the streak,   *)
(* also when there is none to take.                                         *)
streak_decremented(g, s) ==
    CASE s = "Success"  -> g.consecutive_failures - 1
      [] s = "Failure"  -> g.consecutive_failures + 1
      [] s = "Throttle" -> g.consecutive_failures

streak(g, s) ==
    CASE s = "Success"  -> 0
      [] s = "Failure"  -> g.consecutive_failures + 1
      [] s = "Throttle" -> g.consecutive_failures

push_sample(g, s, update_latency) ==
    [window |-> push_back(prune_window(g.window), s),
     consecutive_failures |-> streak(g, s),
     latency_known |-> g.latency_known \/ (s = "Success" /\ update_latency),
     circuit |-> g.circuit,
     opened_age |-> g.opened_age]

-----------------------------------------------------------------------------
(* The circuit. *)

(* Mutant: the stamp is left as it was. *)
move_keeps_stamp(g, c, age) == [g EXCEPT !.circuit = c]

Move(g, c, age) == [g EXCEPT !.circuit = c, !.opened_age = age]

(* Mutant: > where the code has >=. *)
should_open_late(g) ==
    \/ g.consecutive_failures > OpenFailures
    \/ HardRateExceeded(g.window)

should_open(g) ==
    \/ g.consecutive_failures >= OpenFailures
    \/ HardRateExceeded(g.window)

(* Mutant: the cooldown is not waited for. *)
stamped(g) == g.opened_age # NotOpened

CooledDown(g) == g.opened_age # NotOpened /\ g.opened_age >= CooldownSecs

LastSample(g) == g.window[Len(g.window)].sample

(* Mutant: a success in HalfOpen is not taken as a verdict. *)
transitions_never_closing(g) ==
    CASE g.circuit = "Closed" /\ should_open(g)  -> Move(g, "Open", 0)
      [] g.circuit = "Open" /\ CooledDown(g)     -> Move(g, "HalfOpen", NotOpened)
      [] g.circuit = "HalfOpen" /\ LastSample(g) = "Failure"
                                                 -> Move(g, "Open", 0)
      [] OTHER                                   -> g

apply_circuit_transitions(g) ==
    CASE g.circuit = "Closed" /\ should_open(g)  -> Move(g, "Open", 0)
      [] g.circuit = "Open" /\ CooledDown(g)     -> Move(g, "HalfOpen", NotOpened)
      [] g.circuit = "HalfOpen" /\ LastSample(g) = "Success"
                                                 -> Move(g, "Closed", NotOpened)
      [] g.circuit = "HalfOpen" /\ LastSample(g) = "Failure"
                                                 -> Move(g, "Open", 0)
      [] OTHER                                   -> g

-----------------------------------------------------------------------------
(* The two entry points, and the passing of a second. *)

record(g, success, is_probe) ==
    apply_circuit_transitions(
        push_sample(g, IF success THEN "Success" ELSE "Failure", is_probe))

record_throttled(g) ==
    apply_circuit_transitions(push_sample(g, "Throttle", FALSE))

Advance(age, cap) == IF age < cap THEN age + 1 ELSE age

older(g) ==
    [g EXCEPT
        !.window = [i \in 1..Len(g.window) |->
            [age |-> Advance(g.window[i].age, MaxAge),
             sample |-> g.window[i].sample]],
        !.opened_age = IF g.opened_age = NotOpened
                       THEN NotOpened
                       ELSE Advance(g.opened_age, CooldownSecs)]

(* HealthSnapshot::is_available, without the rate-limit half. *)
Routable(g) == g.circuit # "Open"

=============================================================================
