----------------------------- MODULE Sequential -----------------------------
(***************************************************************************)
(* One request on the sequential path of proxy.rs: `sequential' walks the  *)
(* routed list, forwards to one provider at a time and fails over.         *)
(*                                                                         *)
(* Providers are their positions 1..n in the routed list.  The config that *)
(* the handler cloned gives each a history depth, or none when the routed  *)
(* name is not in it.  Whether a client exists (`client_for') and a token  *)
(* is left (`try_acquire') is up to other tasks, so either may happen at   *)
(* each step.  The future is dropped if the client disconnects while the   *)
(* handler awaits an answer.                                               *)
(***************************************************************************)
EXTENDS Outcomes, Sequences, FiniteSets

CONSTANTS
    MaxProviders,   \* bound: length of the routed list
    MaxRetries,     \* config.routing.max_retries
    Answers         \* the upstream answers explored

ASSUME SequentialAssumption ==
    /\ MaxProviders \in Nat
    /\ MaxRetries \in Nat

VARIABLES
    depth,          \* [1..n -> {"Full", "Recent", "Unlisted"}], the routed list
    history_lookup, \* the request is one call of routing.history_methods
    rate_gate,      \* the decision was not degraded
    index,          \* position the loop looks at
    attempt,        \* forwards issued
    miss,           \* position in `asked' of the first history miss, or 0
    retried,        \* position in `asked' of the last retryable RPC error, or 0
    prev_failed,    \* provider whose failure the next forward is blamed on, or 0
    forwarding,     \* awaiting the answer of providers[index]
    asked,          \* history: <<provider, answer>> of every answered forward
    skipped,        \* history: providers passed over without a forward
    recorded,       \* OutcomeRecorder::record calls: <<provider, outcome>>
    failovers,      \* record_failover / Failover events: <<from, to>>
    response,       \* what the client got: [status, from], from in `asked'
    analytics       \* finish_analytics calls: acknowledging provider or 0

request == <<depth, history_lookup, rate_gate>>
loop == <<index, attempt, miss, retried, prev_failed, forwarding>>
vars == <<request, loop, asked, skipped, recorded, failovers, response, analytics>>

Pending == [status |-> 0, from |-> 0]
Dropped == [status |-> -1, from |-> 0]      \* the client went away
n == Len(depth)
max_attempts == IF MaxRetries + 1 < n THEN MaxRetries + 1 ELSE n

Init ==
    /\ \E len \in 0..MaxProviders :
            depth \in [1..len -> {"Full", "Recent", "Unlisted"}]
    /\ history_lookup \in BOOLEAN
    /\ rate_gate \in BOOLEAN
    /\ index = 1 /\ attempt = 0
    /\ miss = 0 /\ retried = 0 /\ prev_failed = 0
    /\ forwarding = FALSE
    /\ asked = <<>> /\ skipped = {} /\ recorded = <<>> /\ failovers = <<>>
    /\ response = Pending
    /\ analytics = <<>>

-----------------------------------------------------------------------------
(* The head of the loop. *)

Looking == response = Pending /\ ~forwarding
InLoop == Looking /\ index <= n /\ attempt < max_attempts

(* The `continue's before the forward: not in the config, too shallow after *)
(* a miss, no client, or no token while the gate is on.                     *)
Passes(client, token) ==
    /\ depth[index] # "Unlisted"
    /\ ~(miss # 0 /\ depth[index] = "Recent")
    /\ client
    /\ token \/ ~rate_gate

Skip(client, token) ==
    /\ InLoop
    /\ ~Passes(client, token)
    /\ skipped' = skipped \cup {index}
    /\ index' = index + 1
    /\ UNCHANGED <<request, attempt, miss, retried, prev_failed, forwarding,
                   asked, recorded, failovers, response, analytics>>

Forward(client, token) ==
    /\ InLoop
    /\ Passes(client, token)
    /\ failovers' = IF attempt > 0 /\ prev_failed # 0
                    THEN Append(failovers, <<prev_failed, index>>)
                    ELSE failovers
    /\ attempt' = attempt + 1
    /\ forwarding' = TRUE
    /\ UNCHANGED <<request, index, miss, retried, prev_failed,
                   asked, skipped, recorded, response, analytics>>

-----------------------------------------------------------------------------
(* The answer of providers[index]. *)

Received(a) ==
    /\ forwarding /\ response = Pending
    /\ asked' = Append(asked, <<index, a>>)
    /\ forwarding' = FALSE
    /\ UNCHANGED <<request, attempt, skipped, failovers>>

ThisAsk == Len(asked) + 1

Record(outcome) == recorded' = Append(recorded, <<index, outcome>>)

(* Mutant: the blame stays on the first provider that failed. *)
TryNextKeepingBlame ==
    /\ index' = index + 1
    /\ prev_failed' = IF prev_failed = 0 THEN index ELSE prev_failed
    /\ UNCHANGED <<response, analytics>>

TryNext ==
    /\ index' = index + 1
    /\ prev_failed' = index
    /\ UNCHANGED <<response, analytics>>

Return(status, from, acknowledging) ==
    /\ response' = [status |-> status, from |-> from]
    /\ analytics' = Append(analytics, acknowledging)
    /\ UNCHANGED <<index, miss, retried, prev_failed>>

TransportFailed(a) ==
    /\ IsErr(a)
    /\ Record("ProviderError")
    /\ TryNext
    /\ UNCHANGED <<miss, retried>>

RetryableHttp(a) ==
    /\ ~IsErr(a) /\ is_retryable_http(a.status)
    /\ Record(from_status(a.status))
    /\ TryNext
    /\ UNCHANGED <<miss, retried>>

PassStatusThrough(a) ==
    /\ ~IsErr(a) /\ ~is_retryable_http(a.status) /\ ~Is2xx(a.status)
    /\ Record(from_status(a.status))
    /\ Return(a.status, ThisAsk, 0)

IsMiss(a) ==
    Is2xx(a.status) /\ history_lookup /\ is_history_miss(depth[index], a.body)

(* Mutant: only the next provider is looked at. *)
FullProviderIsNext == index < n /\ depth[index + 1] = "Full"

FullProviderFollows == \E j \in (index + 1)..n : depth[j] = "Full"

HistoryMiss(a) ==
    /\ IsMiss(a)
    /\ Record("Miss")
    /\ \/ /\ attempt < max_attempts /\ FullProviderFollows
          /\ miss' = IF miss = 0 THEN ThisAsk ELSE miss
          /\ TryNext
          /\ UNCHANGED retried
       \/ /\ ~(attempt < max_attempts /\ FullProviderFollows)
          /\ Return(200, ThisAsk, 0)

RetryableRpc(a) ==
    Is2xx(a.status) /\ is_retryable_rpc_code(extract_rpc_error_code(a.body))

RpcError(a) ==
    /\ Is2xx(a.status) /\ ~IsMiss(a) /\ has_rpc_error(a.body)
    /\ Record(from_rpc_error(a.body))
    /\ \/ /\ RetryableRpc(a) /\ attempt < max_attempts
          /\ retried' = ThisAsk
          /\ TryNext
          /\ UNCHANGED miss
       \/ /\ ~(RetryableRpc(a) /\ attempt < max_attempts)
          /\ Return(200, ThisAsk, 0)

Success(a) ==
    /\ Is2xx(a.status) /\ ~IsMiss(a) /\ ~has_rpc_error(a.body)
    /\ Record("Ok")
    /\ Return(200, ThisAsk, index)

Receive(a) ==
    /\ Received(a)
    /\ \/ TransportFailed(a)
       \/ RetryableHttp(a)
       \/ PassStatusThrough(a)
       \/ HistoryMiss(a)
       \/ RpcError(a)
       \/ Success(a)

(* The loop ran out: the first miss, else the last retryable error, else a  *)
(* synthetic 502.                                                           *)
Exhausted ==
    /\ Looking /\ ~InLoop
    /\ CASE miss # 0                 -> Return(200, miss, 0)
         [] miss = 0 /\ retried # 0  -> Return(200, retried, 0)
         [] miss = 0 /\ retried = 0  -> Return(502, 0, 0)
    /\ UNCHANGED <<request, attempt, forwarding, asked, skipped, recorded, failovers>>

(* The client closes the connection: axum drops the handler's future at its *)
(* await, and nothing more of it runs.                                      *)
Disconnect ==
    /\ forwarding /\ response = Pending
    /\ response' = Dropped
    /\ forwarding' = FALSE
    /\ UNCHANGED <<request, index, attempt, miss, retried, prev_failed,
                   asked, skipped, recorded, failovers, analytics>>

Step ==
    \/ \E client, token \in BOOLEAN : Skip(client, token) \/ Forward(client, token)
    \/ \E a \in Answers : Receive(a)
    \/ Exhausted

Next == Step \/ Disconnect

(* Every forward ends: build_client sets a 30 s timeout on the client.      *)
Spec == Init /\ [][Next]_vars /\ WF_vars(Step)

-----------------------------------------------------------------------------
Last == asked[Len(asked)]
Depth(k) == depth[asked[k][1]]
LegOutcome(k) == from_leg(asked[k][2], history_lookup, Depth(k))

(* Every answered forward reaches metrics and health exactly once, and the  *)
(* branches of `sequential' score it as the broadcast path's                *)
(* Outcome::from_leg would.                                                 *)
ScoredLikeALeg ==
    /\ Len(recorded) = Len(asked)
    /\ \A k \in 1..Len(asked) :
            recorded[k] = <<asked[k][1], LegOutcome(k)>>

(* The Failover events tell the true story: one for each forward after the  *)
(* first, from the provider asked before it, also across skipped ones.      *)
FailoversChain ==
    /\ Len(failovers) = IF attempt = 0 THEN 0 ELSE attempt - 1
    /\ \A k \in 1..Len(failovers) :
            /\ failovers[k][1] = asked[k][1]
            /\ k + 1 <= Len(asked) => failovers[k][2] = asked[k + 1][1]

(* The client gets the generic 502 only when no provider said anything in   *)
(* JSON-RPC: every answer was a transport error or a retryable status.      *)
SyntheticOnlyWithoutAnswer ==
    response.status = 502 /\ response.from = 0 =>
        \A k \in 1..Len(asked) :
            IsErr(asked[k][2]) \/ is_retryable_http(asked[k][2].status)

(* A history miss is answered by depth: once a provider missed, only full   *)
(* providers are asked, and the miss reaches the client only when the       *)
(* attempts are used up or every full provider was passed over or asked.    *)
MissIsLastResort ==
    /\ \A j, k \in 1..Len(asked) :
        j < k /\ history_lookup /\ LegOutcome(j) = "Miss" => Depth(k) = "Full"
    /\ response.from # 0 /\ history_lookup /\ LegOutcome(response.from) = "Miss" =>
        \/ attempt = max_attempts
        \/ \A j \in 1..n : depth[j] = "Full" =>
                \/ j \in skipped
                \/ \E k \in 1..Len(asked) : asked[k][1] = j

(* Analytics see each answered request once, and credit a provider exactly  *)
(* when its success is the response.                                        *)
AnalyticsOnce ==
    /\ response \in {Pending, Dropped} => analytics = <<>>
    /\ response \notin {Pending, Dropped} =>
            /\ Len(analytics) = 1
            /\ analytics[1] # 0 <=>
                    /\ response.from # 0
                    /\ LegOutcome(response.from) = "Ok"
            /\ analytics[1] # 0 => analytics[1] = asked[response.from][1]
=============================================================================
