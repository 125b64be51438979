---------------------------- MODULE ReloadTraffic ---------------------------
(***************************************************************************)
(* A request crossing hot reloads.  handle_rpc clones the config, then     *)
(* takes the health snapshot, then looks up a client for each routed       *)
(* provider: three reads of state that watch_config changes in between,    *)
(* so the request may combine the config of one reload with the entries    *)
(* of another and the clients of a third.                                  *)
(*                                                                         *)
(* Order, health and cap are left open: any routed provider may come next. *)
(* Of the config it holds on to, `listed' keeps what each provider's client *)
(* would be built from.  `stable' is a history: the listed providers that   *)
(* no config applied since has dropped or given other client inputs.       *)
(***************************************************************************)
EXTENDS HotReload

VARIABLE request    \* [pc, listed, routed, stable]

traffic_vars == <<vars, request>>

Listing(c) == [p \in Provider |-> IF Lists(c, p) THEN build_client(c, p) ELSE NoClient]
NoRequest == [pc |-> "none", listed |-> Listing(Invalid), routed |-> {}, stable |-> {}]

(* A watcher that holds a new config is applying it. *)
Applying == watcher.pc \notin {"idle", "load"}
KeptBy(listed, names) == {p \in names : Applying => Listing(watcher.new)[p] = listed[p]}

TrafficInit == Init /\ request = NoRequest

(* state.current_config() *)
ReadConfig ==
    /\ request.pc = "none"
    /\ request' = [pc |-> "read", listed |-> Listing(config), routed |-> {},
                   stable |-> KeptBy(Listing(config), Names(config))]
    /\ UNCHANGED vars

(* Mutant: only the entries of a settled monitor are listed. *)
TakeSnapshotWhenIdle ==
    /\ request.pc = "read"
    /\ request' = [request EXCEPT !.pc = "routed",
                     !.routed = {p \in Provider : entries[p] # NoEntry /\ watcher.pc = "idle"}]
    /\ UNCHANGED vars

(* snapshots_with_tips() and route(): every entry there is. *)
TakeSnapshot ==
    /\ request.pc = "read"
    /\ request' = [request EXCEPT !.pc = "routed",
                                  !.routed = {p \in Provider : entries[p] # NoEntry}]
    /\ UNCHANGED vars

(* One turn of the dispatch loop: a provider the config lacks or without a  *)
(* client is passed over, else it is asked, and answers or not.             *)
TryProvider(p) ==
    /\ request.pc = "routed" /\ p \in request.routed
    /\ request' = IF request.listed[p] # NoClient /\ clients[p] # NoClient
                  THEN NoRequest
                  ELSE [request EXCEPT !.routed = @ \ {p}]
    /\ UNCHANGED vars

(* Nobody was asked: 502, or 503 for an empty broadcast. *)
Refuse ==
    /\ request.pc = "routed" /\ request.routed = {}
    /\ request' = [request EXCEPT !.pc = "refused"]
    /\ UNCHANGED vars

(* The error is sent; there may be another request. *)
Respond ==
    /\ request.pc = "refused"
    /\ request' = NoRequest
    /\ UNCHANGED vars

Handle ==
    \/ ReadConfig \/ TakeSnapshot \/ Refuse \/ Respond
    \/ \E p \in Provider : TryProvider(p)

(* The watcher's steps, and what they mean for the request under way. *)
Witness == request' = [request EXCEPT !.stable =
                {p \in @ : Applying' => Listing(watcher'.new)[p] = request.listed[p]}]

TrafficNext == Handle \/ (Next /\ Witness)

(* A request is driven by its connection and is not part of the fairness.   *)
TrafficSpec == TrafficInit /\ [][TrafficNext]_traffic_vars /\ WF_traffic_vars(Watch /\ Witness)

(* A reload costs a request at most the providers it changes: a request is  *)
(* refused without asking anyone only if each provider of the config it     *)
(* read was dropped, or given other client inputs, by a config applied      *)
(* while the request was under way.                                         *)
RefusedOnlyByReload == request.pc = "refused" => request.stable = {}
=============================================================================
