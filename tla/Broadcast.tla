------------------------------ MODULE Broadcast -----------------------------
(***************************************************************************)
(* One request on the broadcast path of proxy.rs (broadcast writes and the *)
(* parallel_race strategy): `broadcast' spawns one task per routed         *)
(* provider, answers with the first success and leaves the rest to a       *)
(* detached drain; without a success it answers with the best error.       *)
(*                                                                         *)
(* Legs finish in any order.  JoinSet hands results out in the order the   *)
(* tasks finish, so finishing and being joined are one step.               *)
(***************************************************************************)
EXTENDS Outcomes, Sequences, FiniteSets

CONSTANTS
    MaxProviders,   \* bound: length of the routed list
    Answers         \* the upstream answers explored

VARIABLES
    depth,          \* [1..n -> {"Full", "Recent", "Unlisted"}], the routed list
    history_lookup,
    rate_gate,
    index,          \* position of the spawning loop
    running,        \* legs in the JoinSet
    joined,         \* history: <<leg, answer>> in the order they were joined
    best_error,     \* position in `joined' of the best error so far, or 0
    recorded,       \* OutcomeRecorder::record calls: <<leg, outcome>>
    panicked,       \* history: legs whose task panicked
    response,       \* [status, from], from a position in `joined'
    analytics       \* finish_analytics calls: acknowledging provider or 0

request == <<depth, history_lookup, rate_gate>>
vars == <<request, index, running, joined, best_error, recorded, panicked,
          response, analytics>>

Pending == [status |-> 0, from |-> 0]
Dropped == [status |-> -1, from |-> 0]      \* the client went away
n == Len(depth)

Init ==
    /\ \E len \in 0..MaxProviders :
            depth \in [1..len -> {"Full", "Recent", "Unlisted"}]
    /\ history_lookup \in BOOLEAN
    /\ rate_gate \in BOOLEAN
    /\ index = 1 /\ running = {} /\ joined = <<>> /\ best_error = 0
    /\ recorded = <<>> /\ panicked = {}
    /\ response = Pending
    /\ analytics = <<>>

Return(status, from, acknowledging) ==
    /\ response' = [status |-> status, from |-> from]
    /\ analytics' = Append(analytics, acknowledging)

-----------------------------------------------------------------------------
(* Before the race. *)

NoProviders ==
    /\ response = Pending /\ n = 0
    /\ Return(503, 0, 0)
    /\ UNCHANGED <<request, index, running, joined, best_error, recorded, panicked>>

Passes(client, token) ==
    /\ depth[index] # "Unlisted"
    /\ client
    /\ token \/ ~rate_gate

(* One turn of the spawning loop: the leg joins the race or is dropped. *)
SpawnLeg(client, token) ==
    /\ response = Pending /\ index <= n
    /\ running' = IF Passes(client, token) THEN running \cup {index} ELSE running
    /\ index' = index + 1
    /\ UNCHANGED <<request, joined, best_error, recorded, panicked, response, analytics>>

-----------------------------------------------------------------------------
(* The race. *)

Racing == n > 0 /\ index > n /\ response = Pending
(* Mutant: the JoinSet is dropped with the response, nobody drains it. *)
NeverDraining == FALSE

Draining == response \notin {Pending, Dropped}

LegOutcome(leg, a) == from_leg(a, history_lookup, depth[leg])

(* Mutant: a leg that failed to connect stays in the set. *)
JoinedKeepingErr(leg, a) ==
    /\ leg \in running
    /\ running' = IF IsErr(a) THEN running ELSE running \ {leg}
    /\ joined' = Append(joined, <<leg, a>>)
    /\ recorded' = Append(recorded,
                     <<leg, IF IsErr(a) THEN "ProviderError" ELSE LegOutcome(leg, a)>>)
    /\ UNCHANGED <<request, index, panicked>>

(* A leg's task ends with answer a and is taken out of the JoinSet. *)
Joined(leg, a) ==
    /\ leg \in running
    /\ running' = running \ {leg}
    /\ joined' = Append(joined, <<leg, a>>)
    /\ recorded' = Append(recorded,
                     <<leg, IF IsErr(a) THEN "ProviderError" ELSE LegOutcome(leg, a)>>)
    /\ UNCHANGED <<request, index, panicked>>

(* The best error so far is the first of the highest rank. *)
RankAt(k) ==
    LET leg == joined[k][1]  a == joined[k][2]
    IN  broadcast_error_rank(LegOutcome(leg, a), a)

(* Mutant: >= where the code has >. *)
LaterError(leg, a) ==
    \/ best_error = 0
    \/ broadcast_error_rank(LegOutcome(leg, a), a) >= RankAt(best_error)

BetterError(leg, a) ==
    \/ best_error = 0
    \/ broadcast_error_rank(LegOutcome(leg, a), a) > RankAt(best_error)

FirstSuccess(leg, a) ==
    /\ Racing
    /\ ~IsErr(a) /\ LegOutcome(leg, a) = "Ok"
    /\ Joined(leg, a)
    /\ Return(200, Len(joined) + 1, leg)
    /\ UNCHANGED best_error

FailedLeg(leg, a) ==
    /\ Racing
    /\ ~IsErr(a) => LegOutcome(leg, a) # "Ok"
    /\ Joined(leg, a)
    /\ best_error' = IF ~IsErr(a) /\ BetterError(leg, a) THEN Len(joined) + 1
                                                         ELSE best_error
    /\ UNCHANGED <<response, analytics>>

(* spawn_straggler_drain: the detached task records what is left. *)
Straggler(leg, a) ==
    /\ Draining
    /\ Joined(leg, a)
    /\ UNCHANGED <<best_error, response, analytics>>

(* A JoinError: logged, by the handler or by the drain, and not recorded.   *)
Panic(leg) ==
    /\ Racing \/ Draining
    /\ leg \in running
    /\ running' = running \ {leg}
    /\ panicked' = panicked \cup {leg}
    /\ UNCHANGED <<request, index, joined, best_error, recorded, response, analytics>>

(* Mutant: the first error ends the race. *)
FirstErrorWins ==
    /\ Racing /\ (running = {} \/ best_error # 0)
    /\ IF best_error # 0
       THEN Return(joined[best_error][2].status, best_error, 0)
       ELSE Return(502, 0, 0)
    /\ UNCHANGED <<request, index, running, joined, best_error, recorded, panicked>>

AllFailed ==
    /\ Racing /\ running = {}
    /\ IF best_error # 0
       THEN Return(joined[best_error][2].status, best_error, 0)
       ELSE Return(502, 0, 0)
    /\ UNCHANGED <<request, index, running, joined, best_error, recorded, panicked>>

(* The client closes the connection: axum drops the handler's future, and   *)
(* with it the JoinSet, which aborts every leg.                             *)
Disconnect ==
    /\ Racing /\ running # {}
    /\ response' = Dropped
    /\ running' = {}
    /\ UNCHANGED <<request, index, joined, best_error, recorded, panicked, analytics>>

Handler ==
    \/ NoProviders
    \/ \E client, token \in BOOLEAN : SpawnLeg(client, token)
    \/ \E leg \in running, a \in Answers : FirstSuccess(leg, a) \/ FailedLeg(leg, a)
    \/ AllFailed

Drain == \E leg \in running, a \in Answers : Straggler(leg, a)

Next == Handler \/ Drain \/ (\E leg \in running : Panic(leg)) \/ Disconnect

(* Every leg ends: build_client sets a 30 s timeout on the client.          *)
Spec == Init /\ [][Next]_vars /\ WF_vars(Handler) /\ WF_vars(Drain)

-----------------------------------------------------------------------------
OutcomeAt(k) == LegOutcome(joined[k][1], joined[k][2])

(* The race is never lost to a fast failure: the client gets an error only  *)
(* after every leg ended, and only if none of them succeeded.               *)
SuccessNeverMasked ==
    response \notin {Pending, Dropped} =>
        \/ response.from # 0 /\ OutcomeAt(response.from) = "Ok"
        \/ /\ running = {}
           /\ \A k \in 1..Len(joined) : OutcomeAt(k) # "Ok"

(* Without a success the client gets the first of the most informative      *)
(* answers, and the generic 502 only if no leg got an HTTP answer.          *)
BestErrorReturned ==
    Racing \/ (Draining /\ response.from = best_error) =>
        /\ best_error = 0 => \A k \in 1..Len(joined) : IsErr(joined[k][2])
        /\ best_error # 0 =>
            \A k \in 1..Len(joined) : ~IsErr(joined[k][2]) =>
                /\ RankAt(k) <= RankAt(best_error)
                /\ k < best_error => RankAt(k) < RankAt(best_error)

(* Everything is booked once: metrics and health hear of each leg at most   *)
(* once, whichever of the handler and the drain joined it, and of no leg    *)
(* that is still running; analytics see each answered request once, and     *)
(* credit a provider exactly when its success is the response.              *)
BookedOnce ==
    /\ \A j, k \in 1..Len(recorded) : recorded[j][1] = recorded[k][1] => j = k
    /\ \A k \in 1..Len(recorded) : recorded[k][1] \notin running \cup panicked
    /\ IF response \in {Pending, Dropped} THEN analytics = <<>>
       ELSE LET won == response.from # 0 /\ OutcomeAt(response.from) = "Ok"
            IN  analytics = <<IF won THEN joined[response.from][1] ELSE 0>>
=============================================================================
