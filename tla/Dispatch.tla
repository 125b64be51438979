------------------------------ MODULE Dispatch ------------------------------
(***************************************************************************)
(* The composition: concurrent requests are routed on a snapshot of every  *)
(* provider's health and token bucket, dispatched through the rate gate,   *)
(* and their outcomes feed the health that the next snapshot reads, while  *)
(* the probe loops and time go on.  ProviderHealth and Routing supply what *)
(* happens to one provider and one decision.                               *)
(*                                                                         *)
(* Abstractions: the strategy is failover_ordered (scores play no part);   *)
(* an answer is a success, a provider fault or a 429, the three that feed  *)
(* health and fail over; a snapshot is one step, though the code locks one *)
(* provider after the other; a bucket holds whole tokens, and a refill may *)
(* happen at any time (TokenBucket has the arithmetic).                    *)
(***************************************************************************)
EXTENDS ProviderHealth, Routing

CONSTANTS
    Order,          \* the providers, in config order
    MaxRps,         \* [provider -> tokens per second, or 0 for no cap]
    Probed,         \* providers that serve getSlot, hence have a probe loop
    MaxRetries,     \* config.routing.max_retries
    Request,        \* the handlers that may run at once
    MaxWindow       \* bound: samples held in a window

Provider == {Order[i] : i \in 1..Len(Order)}

ASSUME DispatchAssumption ==
    /\ Order \in Seq(Provider) /\ Order # <<>>      \* Config::validate
    /\ \A i, j \in 1..Len(Order) : Order[i] = Order[j] => i = j
    /\ MaxRps \in [Provider -> Nat]
    /\ Probed \subseteq Provider
    /\ MaxRetries \in Nat /\ MaxWindow \in Nat

VARIABLES
    inner,      \* [Provider -> Inner]
    tokens,     \* [Provider -> Nat], the buckets of the capped ones
    up,         \* the providers that currently work (the environment)
    request     \* [Request -> what the handler holds]

vars == <<inner, tokens, up, request>>

Idle == [pc |-> "idle", providers |-> <<>>, index |-> 1, rate_gate |-> TRUE,
         attempt |-> 0, asked |-> FALSE, response |-> "none"]    \* asked: history

Init ==
    /\ inner = [p \in Provider |-> Inner_new]
    /\ tokens = [p \in Provider |-> MaxRps[p]]
    /\ up = Provider
    /\ request = [r \in Request |-> Idle]

-----------------------------------------------------------------------------
Capped(p) == MaxRps[p] > 0

(* HealthMonitor::snapshots: the bucket is peeked, not spent. *)
snapshots ==
    [i \in 1..Len(Order) |->
        [name |-> Order[i], score |-> 0, circuit |-> inner[Order[i]].circuit,
         rate_limited |-> Capped(Order[i]) /\ tokens[Order[i]] = 0]]

ReadRequest == [method |-> Label(<<"getBalance">>, 0), write_methods |-> {"sendTransaction"},
                full_history |-> FALSE, broadcast_writes |-> FALSE,
                strategy |-> "FailoverOrdered"]
Config == [i \in 1..Len(Order) |-> [name |-> Order[i], methods |-> {}, history |-> "Full"]]

(* Mutant: a degraded decision is not dispatched. *)
DispatchAvailableOnly(decision) ==
    [Idle EXCEPT !.pc = "loop", !.rate_gate = ~decision.degraded,
                 !.providers = IF decision.degraded THEN <<>> ELSE decision.providers]

Dispatched(decision) ==
    [Idle EXCEPT !.pc = "loop", !.providers = decision.providers,
                 !.rate_gate = ~decision.degraded]

(* handle_rpc up to the dispatch. *)
Route(r) ==
    /\ request[r].pc = "idle"
    /\ \E decision \in route(ReadRequest, snapshots, Config) :
        request' = [request EXCEPT ![r] = Dispatched(decision)]
    /\ UNCHANGED <<inner, tokens, up>>

InLoop(q) ==
    /\ q.pc = "loop"
    /\ q.index <= Len(q.providers)
    /\ q.attempt < MaxRetries + 1

Current(q) == q.providers[q.index]

(* Mutant: a shed provider costs an attempt. *)
ShedCosting(q) == [q EXCEPT !.index = @ + 1, !.attempt = @ + 1]

ShedToNext(q) == [q EXCEPT !.index = @ + 1]

Shed(r) ==
    /\ InLoop(request[r])
    /\ LET p == Current(request[r])
       IN  Capped(p) /\ tokens[p] = 0 /\ request[r].rate_gate
    /\ request' = [request EXCEPT ![r] = ShedToNext(@)]
    /\ UNCHANGED <<inner, tokens, up>>

Spent(t) == IF t > 0 THEN t - 1 ELSE t

(* try_acquire spends a token if there is one; without the gate the forward *)
(* goes out either way.                                                     *)
Forward(r) ==
    /\ InLoop(request[r])
    /\ LET p == Current(request[r])
       IN  /\ ~Capped(p) \/ tokens[p] > 0 \/ ~request[r].rate_gate
           /\ tokens' = IF Capped(p) THEN [tokens EXCEPT ![p] = Spent(@)] ELSE tokens
    /\ request' = [request EXCEPT ![r].pc = "forwarding", ![r].attempt = @ + 1,
                                  ![r].asked = TRUE]
    /\ UNCHANGED <<inner, up>>

HasRoom(p) == Len(prune_window(inner[p].window)) < MaxWindow

(* Only consecutive_failures >= OpenFailures is ever asked, so the count    *)
(* stops there; the latency is part of the score, which plays no part.      *)
Clipped(g) ==
    [g EXCEPT !.consecutive_failures = IF @ < OpenFailures THEN @ ELSE OpenFailures,
              !.latency_known = FALSE]

Record(p, success, is_probe) ==
    inner' = [inner EXCEPT ![p] = Clipped(record(@, success, is_probe))]
RecordThrottled(p) ==
    inner' = [inner EXCEPT ![p] = Clipped(record_throttled(@))]

(* OutcomeRecorder::record of a live answer, then the return or `continue'. *)
Succeeded(r) ==
    LET p == Current(request[r])
    IN  /\ p \in up
        /\ Record(p, TRUE, FALSE)
        /\ request' = [request EXCEPT ![r].pc = "done", ![r].response = "ok"]

Failed(r) ==
    LET p == Current(request[r])
    IN  /\ \/ p \notin up /\ Record(p, FALSE, FALSE)
           \/ RecordThrottled(p)
        /\ request' = [request EXCEPT ![r].pc = "loop", ![r].index = @ + 1]

Answered(r) ==
    /\ request[r].pc = "forwarding"
    /\ HasRoom(Current(request[r]))
    /\ Succeeded(r) \/ Failed(r)
    /\ UNCHANGED <<tokens, up>>

Exhausted(r) ==
    /\ request[r].pc = "loop" /\ ~InLoop(request[r])
    /\ request' = [request EXCEPT ![r].pc = "done", ![r].response = "502"]
    /\ UNCHANGED <<inner, tokens, up>>

(* The response is sent; the slot stands for the next request. *)
Sent(r) ==
    /\ request[r].pc = "done"
    /\ request' = [request EXCEPT ![r] = Idle]
    /\ UNCHANGED <<inner, tokens, up>>

Handle(r) == Route(r) \/ Shed(r) \/ Forward(r) \/ Answered(r) \/ Exhausted(r) \/ Sent(r)

(* Whether health_loop outlives its first lines. *)
HasProbeLoop(p) == p \in Probed

(* One turn of health_loop. *)
Probe(p) ==
    /\ HasProbeLoop(p)
    /\ HasRoom(p)
    /\ \/ Record(p, p \in up, TRUE)
       \/ RecordThrottled(p)
    /\ UNCHANGED <<tokens, up, request>>

Refill(p) ==
    /\ tokens[p] < MaxRps[p]
    /\ tokens' = [tokens EXCEPT ![p] = @ + 1]
    /\ UNCHANGED <<inner, up, request>>

Tick ==
    /\ inner' = [p \in Provider |-> older(inner[p])]
    /\ UNCHANGED <<tokens, up, request>>

(* A provider breaks, or works again. *)
Toggle(p) ==
    /\ up' = IF p \in up THEN up \ {p} ELSE up \cup {p}
    /\ UNCHANGED <<inner, tokens, request>>

Next ==
    \/ \E r \in Request : Handle(r)
    \/ \E p \in Provider : Probe(p) \/ Refill(p) \/ Toggle(p)
    \/ Tick

(* Forwards end within the client's 30 s timeout and clients keep asking;   *)
(* the probe loops and time go on; a bucket refills.  Nothing makes a       *)
(* provider break or mend.                                                  *)
Fairness ==
    /\ \A r \in Request : WF_vars(Handle(r))
    /\ \A p \in Provider : WF_vars(Probe(p)) /\ WF_vars(Refill(p))
    /\ WF_vars(Tick)

Spec == Init /\ [][Next]_vars /\ Fairness

-----------------------------------------------------------------------------
(* Refused without a single forward. *)
Unasked(r) == request[r].response = "502" /\ ~request[r].asked

(* A capped provider ahead in the list never starves one behind it: however *)
(* concurrent requests race for its tokens, a request whose decision names  *)
(* an uncapped provider is not refused before it has asked somebody         *)
(* (sequential: a shed provider does not consume an attempt).               *)
CappedNeverStarves ==
    \A r \in Request : Unasked(r) =>
        \A i \in 1..Len(request[r].providers) : Capped(request[r].providers[i])

(* A fleet that is fully capped or broken still serves: a degraded request  *)
(* is never refused before it has asked somebody (handle_rpc bypasses the   *)
(* rate gate for it).                                                       *)
DegradedStillServes ==
    \A r \in Request : Unasked(r) => request[r].rate_gate

(* What handle_rpc and the max_rps doc promise: at capacity the proxy still *)
(* forwards rather than self-inflicting a 502, so nobody is refused before  *)
(* the proxy has asked a provider.                                          *)
NoSelfInflicted502 == \A r \in Request : ~Unasked(r)

(* The circuit breaker resumes traffic automatically: a provider that works *)
(* from some time on is, from some time on, no longer held open, whatever   *)
(* requests, throttles, probes and old failures still do to its window.     *)
ResumesTraffic ==
    \A p \in Provider : <>[](p \in up) => <>[](inner[p].circuit # "Open")
=============================================================================
