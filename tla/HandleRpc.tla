------------------------------ MODULE HandleRpc -----------------------------
(***************************************************************************)
(* One request through the end of handle_rpc: the routing decision sends   *)
(* it down the sequential or the broadcast path, and whichever it is, the  *)
(* provider's health, the analytics and the client must hear of it alike.  *)
(* Sequential and Broadcast share the request (depth, history_lookup,      *)
(* rate_gate), the position in the routed list, the outcomes recorded, the *)
(* response and the analytics; the rest belongs to one path.               *)
(***************************************************************************)
EXTENDS Sequential

CONSTANTS
    MaxLegs,        \* bound: length of the routed list of a broadcast
    LegAnswers      \* the upstream answers explored for its legs

ASSUME HandleRpcAssumption == MaxLegs \in Nat /\ MaxLegs <= MaxProviders

VARIABLES
    broadcast,      \* RouteDecision.broadcast
    running, joined, best_error, panicked      \* see Broadcast

race == <<running, joined, best_error, panicked>>
walk == <<attempt, miss, retried, prev_failed, forwarding, asked, skipped, failovers>>
rpc_vars == <<vars, broadcast, race>>

B == INSTANCE Broadcast WITH MaxProviders <- MaxLegs, Answers <- LegAnswers

HandleInit ==
    /\ broadcast \in BOOLEAN
    /\ Init
    /\ running = {} /\ joined = <<>> /\ best_error = 0 /\ panicked = {}
    /\ broadcast => n <= MaxLegs

OnSequential(A) == ~broadcast /\ A /\ UNCHANGED <<broadcast, race>>
OnBroadcast(A) == broadcast /\ A /\ UNCHANGED <<broadcast, walk>>

HandleNext == OnSequential(Next) \/ OnBroadcast(B!Next)

(* Every forward and every leg ends: build_client sets a 30 s timeout.      *)
HandleSpec ==
    /\ HandleInit
    /\ [][HandleNext]_rpc_vars
    /\ WF_rpc_vars(OnSequential(Step))
    /\ WF_rpc_vars(OnBroadcast(B!Handler))
    /\ WF_rpc_vars(OnBroadcast(B!Drain))

-----------------------------------------------------------------------------
(* The sequential path reports what happened: every answered forward        *)
(* reaches metrics and health exactly once, scored as the broadcast path's  *)
(* Outcome::from_leg would, and the Failover events name the providers      *)
(* asked one after the other, also across those passed over.                *)
ReportsWhatHappened == ~broadcast => ScoredLikeALeg /\ FailoversChain

(* A failing sequential request ends with the most telling answer: the      *)
(* synthetic 502 only if no provider spoke JSON-RPC, a history miss only    *)
(* when the attempts or the full providers are used up.                     *)
LastResort == ~broadcast => SyntheticOnlyWithoutAnswer /\ MissIsLastResort

(* The race of a broadcast is never lost to a fast failure.                 *)
SuccessWins == broadcast => B!SuccessNeverMasked

(* Without a success a broadcast answers with the best error.               *)
BestErrorWins == broadcast => B!BestErrorReturned

(* On both paths analytics see each answered request once and credit a      *)
(* provider exactly when its success is the response; no broadcast leg is   *)
(* booked twice, by the handler and by the drain.                           *)
BookedOnce == IF broadcast THEN B!BookedOnce ELSE AnalyticsOnce

(* No request hangs and no late leg is lost: unless the client goes away,   *)
(* the request is answered and every leg a broadcast spawned is taken out   *)
(* of the JoinSet, and so recorded, also after the response.                *)
Settles == <>(response = Dropped \/ (response # Pending /\ running = {}))
=============================================================================
