--------------------------- MODULE BreakerContract --------------------------
(***************************************************************************)
(* What routing relies on of a provider's circuit, without the window that *)
(* decides: an opened circuit excludes the provider for at least           *)
(* CooldownSecs, is let out only through HalfOpen, and HalfOpen is left    *)
(* only by a verdict.                                                      *)
(***************************************************************************)
EXTENDS Integers

CONSTANT CooldownSecs

VARIABLES circuit, opened_age

contract_vars == <<circuit, opened_age>>

NoStamp == -1

Init == circuit = "Closed" /\ opened_age = NoStamp

Open ==         \* a trip, or a failed half-open trial
    /\ circuit \in {"Closed", "HalfOpen"}
    /\ circuit' = "Open"
    /\ opened_age' = 0

LetOneThrough ==
    /\ circuit = "Open"
    /\ opened_age >= CooldownSecs
    /\ circuit' = "HalfOpen"
    /\ opened_age' = NoStamp

Close ==
    /\ circuit = "HalfOpen"
    /\ circuit' = "Closed"
    /\ opened_age' = NoStamp

Wait ==
    /\ circuit = "Open"
    /\ opened_age < CooldownSecs
    /\ opened_age' = opened_age + 1
    /\ UNCHANGED circuit

Next == Open \/ LetOneThrough \/ Close \/ Wait

Spec == Init /\ [][Next]_contract_vars

=============================================================================
