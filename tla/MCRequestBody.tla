---------------------------- MODULE MCRequestBody ---------------------------
(***************************************************************************)
(* What the proxy computes from a request body, over bounded inputs.       *)
(*                                                                         *)
(* Routing: a body is classified and routed over every health of a fleet   *)
(* of three, and the decision is compared with what the calls of the body  *)
(* and the strategy ask for.  The monitor lists a, b, c in this order; the *)
(* config lists c, then d (which the monitor does not know yet), then a,   *)
(* and lacks b.                                                            *)
(*                                                                         *)
(* Decoding: a transaction is encoded by a reference encoder, maybe cut    *)
(* short or continued on its way, and decoded as the analytics worker does *)
(* it.                                                                     *)
(***************************************************************************)
EXTENDS Classify, TxDecode

CONSTANT Scores     \* the scores told apart

VARIABLES
    body, routing, snapshots, config, decision,     \* a request to route
    tx, kept, decoded                               \* a transaction to decode

vars == <<body, routing, snapshots, config, decision, tx, kept, decoded>>

Nothing == [nothing |-> TRUE]
NoDecision == Decision(<<>>, FALSE, FALSE)
NotDecoded == Error("not decoded")

-----------------------------------------------------------------------------
(* Requests.  getSignaturesForAddress is the full-history method. *)
Monitored == <<"a", "b", "c">>

Health ==
    [score : Scores, circuit : {"Closed"}, rate_limited : {FALSE}]
    \cup [score : {0}, circuit : {"Open"}, rate_limited : {TRUE}]
    \cup [score : {0}, circuit : {"HalfOpen"}, rate_limited : BOOLEAN]

Body(kind, methods) == [kind |-> kind, methods |-> methods]
Send == "sendTransaction"
Old == "getSignaturesForAddress"
Bodies ==
    {Body("single", <<Send>>), Body("single", <<Old>>), Body("garbage", <<>>),
     Body("batch", <<Send, NoMethod, Send>>), Body("batch", <<Send, Old>>),
     Body("batch", <<Old, "getTransaction">>),
     Body("batch", <<"getTransaction", Send, Old>>)}

Routings == [full_history_methods : {{Old}}, write_methods : {{Send}},
             broadcast_writes : BOOLEAN, strategy : Strategies]

Entries(p) == [name : {p}, methods : {{}, {Send}, {Send, Old}}, history : {"Full", "Recent"}]

RequestInit ==
    /\ body \in Bodies
    /\ routing \in Routings
    /\ \E health \in [1..3 -> Health] :
        snapshots = [i \in 1..3 |->
            [name |-> Monitored[i], score |-> health[i].score,
             circuit |-> health[i].circuit, rate_limited |-> health[i].rate_limited]]
    /\ \E c \in Entries("c"), a \in Entries("a") :
        config = <<c, [name |-> "d", methods |-> {}, history |-> "Full"], a>>
    /\ tx = Nothing

Route ==
    /\ tx = Nothing /\ decision = NoDecision
    /\ decision' \in route(RequestOf(body, routing), snapshots, config)
    /\ UNCHANGED <<body, routing, snapshots, config, tx, kept, decoded>>

-----------------------------------------------------------------------------
(* Transactions: the ComputeBudget program, another builtin and a program   *)
(* of a user; budget instructions that are empty, short, exact, longer than *)
(* needed, of the largest value and of another kind.                        *)
BudgetId == <<3>>
BuiltinIds == {<<0>>, BudgetId}
Programs == <<COMPUTE_BUDGET_ID, <<0>>, <<5>>>>
Ix(program, accounts, data) == [program |-> program, accounts |-> accounts, data |-> data]
Budgets == {<<>>, <<1>>, <<2>>, <<2, 12>>, <<2, 3, 1>>, <<3, 1>>, <<3, 1, 1>>, <<3, 15, 15>>}
Ixs == {Ix(0, 1, data) : data \in Budgets} \cup {Ix(1, 0, <<>>), Ix(2, 9, <<2, 5>>)}
FewIxs == {<<>>, <<Ix(0, 1, <<2, 12>>)>>, <<Ix(2, 9, <<2, 5>>), Ix(1, 0, <<>>)>>}

Transactions ==
    [format : {"legacy", "v0"}, signatures : {1, 2}, values : {<<None, None, None, None>>},
     ixs : SeqOf(Ixs, 2)]
    \cup
    [format : {"v1"}, signatures : {0, 2}, ixs : FewIxs,
     values : {<<a, b, c, d>> : a, b \in {None, 7}, c \in {None, 0, 3, 15}, d \in {None, 1}}]

(* The reference encoder. *)
Zeros(k) == [i \in 1..k |-> 0]
Vec(k) == IF k < HIGH THEN <<k>> ELSE <<HIGH + (k % HIGH), k \div HIGH>>
Joined(seqs) == FlattenSeq(seqs)
Set(values) == SelectSeq(<<1, 2, 3, 4>>, LAMBDA i : values[i] # None)
EncodeIx(ix) == <<ix.program>> \o Vec(ix.accounts) \o Zeros(ix.accounts)
                    \o Vec(Len(ix.data)) \o ix.data
EncodeLegacy(t) ==
    Vec(t.signatures) \o Zeros(t.signatures * SIGNATURE)
        \o (IF t.format = "v0" THEN <<HIGH>> ELSE <<>>) \o <<1, 0, 0>>
        \o Vec(Len(Programs)) \o Joined(Programs) \o Zeros(KEY)
        \o Vec(Len(t.ixs)) \o Joined([i \in 1..Len(t.ixs) |-> EncodeIx(t.ixs[i])])
        \o (IF t.format = "v0" THEN <<0>> ELSE <<>>)    \* no address tables
EncodeV1(t) ==
    LET set == Set(t.values)
        mask == FoldLeft(LAMBDA acc, i : acc + 2 ^ (i - 1), 0, set)
    IN  <<V1_PREFIX, t.signatures, 0, 0, mask>> \o Zeros(KEY)
            \o <<Len(t.ixs), Len(Programs)>> \o Joined(Programs)
            \o [k \in 1..Len(set) |-> t.values[set[k]]]
            \o Joined([i \in 1..Len(t.ixs) |->
                        <<t.ixs[i].program, t.ixs[i].accounts, Len(t.ixs[i].data)>>])
            \o Joined([i \in 1..Len(t.ixs) |-> Zeros(t.ixs[i].accounts) \o t.ixs[i].data])
            \o Zeros(t.signatures * SIGNATURE)
Encode(t) == IF t.format = "v1" THEN EncodeV1(t) ELSE EncodeLegacy(t)

(* What the transaction asks for, read from its parts. *)
BudgetsOf(t, tag) == SelectSeq(t.ixs, LAMBDA ix :
                        ix.program = 0 /\ ix.data # <<>> /\ ix.data[1] = tag)
Malformed(t) ==
    \/ \E i \in 1..Len(t.ixs) : t.ixs[i].program = 0 /\ t.ixs[i].data = <<>>
    \/ \E tag \in {2, 3} :
        \/ Len(BudgetsOf(t, tag)) > 1
        \/ \E i \in 1..Len(BudgetsOf(t, tag)) :
                Len(BudgetsOf(t, tag)[i].data) < IF tag = 2 THEN 2 ELSE 3
CeilDiv(a, b) == CHOOSE q \in 0..(a + 1) : q * b >= a /\ (q - 1) * b < a
Meaning(t) ==
    LET asked(tag) == BudgetsOf(t, tag)[1].data
        has(tag) == BudgetsOf(t, tag) # <<>>
        users == Len(SelectSeq(t.ixs, LAMBDA ix : ix.program = 2))
        default == users * DEFAULT_INSTRUCTION_COMPUTE_UNITS
                    + (Len(t.ixs) - users) * DEFAULT_BUILTIN_COMPUTE_UNITS
        limit == IF has(2) THEN asked(2)[2] ELSE min(default, MAX_COMPUTE_UNITS)
        price == asked(3)[2] + asked(3)[3] * BASE
        v == t.values
        limit1 == IF v[3] = None THEN 0 ELSE v[3]
        fee1 == v[1] + v[2] * BASE
    IN  CASE t.format = "v1" /\ (v[1] = None) # (v[2] = None) -> Error("InvalidBudget")
          [] t.format = "v1" /\ (v[1] = None) = (v[2] = None) ->
                Info(limit1, v[3] = None,
                     IF v[1] = None THEN None ELSE
                     IF limit1 = 0 THEN 0
                     ELSE min((fee1 * MICRO) \div min(limit1, MAX_COMPUTE_UNITS), U64_MAX),
                     IF v[1] = None THEN None ELSE fee1,
                     Len(t.ixs), t.signatures, TRUE)
          [] t.format # "v1" /\ Malformed(t) -> Error("InvalidBudget")
          [] t.format # "v1" /\ ~Malformed(t) ->
                Info(limit, ~has(2), IF has(3) THEN price ELSE None,
                     IF has(3) THEN min(CeilDiv(min(limit, MAX_COMPUTE_UNITS) * price, MICRO), U64_MAX)
                     ELSE None,
                     Len(t.ixs), t.signatures, t.format = "v0")

TransactionInit ==
    /\ tx \in Transactions
    /\ body = Body("single", <<Send>>)
    /\ routing = Nothing /\ snapshots = <<>> /\ config = <<>>

(* The bytes that arrive: all, fewer, or one too many. *)
Arrived(t, k) == IF k <= Len(Encode(t)) THEN SubSeq(Encode(t), 1, k) ELSE Append(Encode(t), 0)

Decode ==
    /\ tx # Nothing /\ decoded = NotDecoded
    /\ kept' \in 0..(Len(Encode(tx)) + 1)
    /\ LET bytes == Arrived(tx, kept')
       IN  decoded' = decode_request([has_params |-> TRUE, encoding |-> "base64", decodes |-> TRUE,
                                      chars |-> 4 * ((Len(bytes) + 2) \div 3), bytes |-> bytes])
    /\ UNCHANGED <<body, routing, snapshots, config, decision, tx>>

-----------------------------------------------------------------------------
Init ==
    /\ RequestInit \/ TransactionInit
    /\ decision = NoDecision
    /\ kept = 0 /\ decoded = NotDecoded

Next == Route \/ Decode

Spec == Init /\ [][Next]_vars

-----------------------------------------------------------------------------
Routed == {decision.providers[i] : i \in 1..Len(decision.providers)}
SnapshotOf(p) == CHOOSE i \in 1..Len(snapshots) : snapshots[i].name = p
Score(p) == snapshots[SnapshotOf(p)].score
CallsOf(b) == {b.methods[i] : i \in 1..Len(b.methods)} \ {NoMethod}
(* What the config doc of `methods' and `history' says: every call of the   *)
(* body is in the allowlist, if there is one, and a recent provider gets no *)
(* full-history call.                                                       *)
MayServe(p) ==
    \A i \in 1..Len(config) : config[i].name = p =>
        /\ config[i].methods # {} =>
                CallsOf(body) # {} /\ CallsOf(body) \subseteq config[i].methods
        /\ config[i].history = "Recent" => CallsOf(body) \cap routing.full_history_methods = {}
Restricted(p) == \E i \in 1..Len(config) : config[i].name = p /\ config[i].methods # {}
Healthy(p) == snapshots[SnapshotOf(p)].circuit # "Open"
              /\ ~snapshots[SnapshotOf(p)].rate_limited
Decided == decision # NoDecision
ConfigPos(p) ==     \* unknown providers come after all known ones
    IF \E i \in 1..Len(config) : config[i].name = p
    THEN CHOOSE i \in 1..Len(config) : config[i].name = p
    ELSE Len(config) + SnapshotOf(p)
Before(p, q) ==
    \E i, j \in 1..Len(decision.providers) :
        i < j /\ decision.providers[i] = p /\ decision.providers[j] = q

(* Nobody gets a body of which it may not serve every call, also not for    *)
(* the calls of a batch that its label leaves out; and whoever may serve it *)
(* and is healthy is named, once.  Only if there is none, every one that    *)
(* may serve it is named, flagged degraded.  Of a batch of several methods  *)
(* an allowlist is compared with the label, which then is no method name:   *)
(* whether its provider is named is left open here, where the doc would     *)
(* have it named if the list has them all.                                  *)
RoutesWhoMayServe ==
    Decided =>
        LET may == {p \in {"a", "b", "c"} : MayServe(p)}
            must == {p \in may : Cardinality(CallsOf(body)) <= 1 \/ ~Restricted(p)}
            healthy == {p \in may : Healthy(p)}
        IN  /\ Len(decision.providers) = Cardinality(Routed)
            /\ IF decision.degraded
               THEN must \cap healthy = {} /\ must \subseteq Routed /\ Routed \subseteq may
               ELSE /\ Routed # {}
                    /\ must \cap healthy \subseteq Routed /\ Routed \subseteq healthy

(* The strategy decides the order of reads.  Under failover_ordered it is   *)
(* that of the config, whatever the scores and the monitor's order.  Else   *)
(* nobody precedes a better provider and ties keep the monitor's order;     *)
(* under weighted_random that holds behind the drawn primary.  A body that  *)
(* writes is left out: README.md says that writes do not use the strategy.  *)
StrategyDecidesOrder ==
    Decided /\ ~decision.degraded /\ Send \notin CallsOf(body) =>
        \A p, q \in Routed : Before(p, q) =>
            IF routing.strategy = "FailoverOrdered"
            THEN ConfigPos(p) < ConfigPos(q)
            ELSE \/ routing.strategy = "WeightedRandom" /\ p = decision.providers[1]
                 \/ Score(p) > Score(q)
                 \/ Score(p) = Score(q) /\ SnapshotOf(p) < SnapshotOf(q)

(* The decoder reads what the sender wrote, for legacy, v0 and v1: limit,   *)
(* price, fee (rounded up, capped) and counts, and a budget that Agave      *)
(* would refuse is refused.                                                 *)
DecodesWhatWasEncoded ==
    decoded # NotDecoded /\ kept = Len(Encode(tx)) => decoded = Meaning(tx)

(* Bytes that were cut short never pass for another transaction: they are   *)
(* refused, or only lack what follows the instructions.  A v1 transaction   *)
(* is refused whenever its length is wrong.                                 *)
DamageIsNotMisread ==
    decoded # NotDecoded /\ kept # Len(Encode(tx)) =>
        \/ decoded.result # "parsed"
        \/ decoded = Meaning(tx) /\ tx.format # "v1"
=============================================================================
