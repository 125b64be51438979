------------------------------- MODULE Routing ------------------------------
(***************************************************************************)
(* router.rs: `route' chooses which providers a request goes to, in which  *)
(* order, and whether all of them at once.                                 *)
(*                                                                         *)
(*   request    [method, write_methods, full_history, broadcast_writes,    *)
(*              strategy]; method is the label of classify_request         *)
(*   snapshots  a sequence of [name, score, circuit, rate_limited], in the *)
(*              arbitrary order of the monitor's HashMap                   *)
(*   config     a sequence of [name, methods, history] in config order;    *)
(*              no methods stand for no allowlist                          *)
(* The monitor and the config are read separately and change separately,   *)
(* so a snapshot may name a provider the config lacks and the converse.    *)
(* Scores are only compared, so any numbers do.                            *)
(***************************************************************************)
EXTENDS Integers, Sequences, FiniteSets

(* The method label: the names shown and the number of names left out.      *)
Label(shown, more) == [shown |-> shown, more |-> more]
IsLabel(label, m) == label = Label(<<m>>, 0)    \* the label is the name m

Strategies == {"BestScore", "WeightedRandom", "FailoverOrdered", "ParallelRace"}

is_available(s) == s.circuit # "Open" /\ ~s.rate_limited

Configured(config, name) == \E i \in 1..Len(config) : config[i].name = name

IsWrite(request) == \E m \in request.write_methods : IsLabel(request.method, m)

(* ProviderConfig::supports *)
Allows(provider, method) ==
    provider.methods = {} \/ \E m \in provider.methods : IsLabel(method, m)

(* A name the config lacks counts as supporting everything (is_none_or).    *)
supports(request, config, name) ==
    \A i \in 1..Len(config) : config[i].name = name =>
        /\ Allows(config[i], request.method)
        /\ ~(request.full_history /\ config[i].history = "Recent")

Names(snaps) == [i \in 1..Len(snaps) |-> snaps[i].name]

(* The elements of s at the positions in kept, in their order: what a       *)
(* `filter' leaves.  SelectSeq by another definition, which is not          *)
(* recursive and so can be proved about.                                    *)
Retain(s, kept) ==
    LET rank(i) == Cardinality({j \in kept : j <= i})
    IN  [k \in 1..Cardinality(kept) |-> s[CHOOSE i \in kept : rank(i) = k]]

(* Mutant: equal scores swap places. *)
sort_by_score_unstable(snaps) ==
    LET rank(i) == Cardinality({j \in 1..Len(snaps) :
                        \/ snaps[j].score > snaps[i].score
                        \/ snaps[j].score = snaps[i].score /\ j >= i})
    IN  [k \in 1..Len(snaps) |-> snaps[CHOOSE i \in 1..Len(snaps) : rank(i) = k]]

(* sort_by is stable: descending score, equal scores keep their order.      *)
sort_by_score(snaps) ==
    LET rank(i) == Cardinality({j \in 1..Len(snaps) :
                        \/ snaps[j].score > snaps[i].score
                        \/ snaps[j].score = snaps[i].score /\ j <= i})
    IN  [k \in 1..Len(snaps) |-> snaps[CHOOSE i \in 1..Len(snaps) : rank(i) = k]]

(* Every weight is kept above zero, so any available provider may come      *)
(* first; the others follow by score.                                       *)
weighted_order(available, primary) ==
    LET others == Retain(available, (1..Len(available)) \ {primary})
    IN  <<available[primary].name>> \o Names(sort_by_score(others))

failover_order(available, config) ==
    LET known == {i \in 1..Len(config) :
                    \E j \in 1..Len(available) : available[j].name = config[i].name}
        unknown == {j \in 1..Len(available) : ~Configured(config, available[j].name)}
    IN  Names(Retain(config, known)) \o Names(Retain(available, unknown))

Decision(providers, broadcast, degraded) ==
    [providers |-> providers, broadcast |-> broadcast, degraded |-> degraded]

(* The decisions `route' may return: one, except under WeightedRandom.      *)
route(request, snapshots, config) ==
    LET serving == Retain(snapshots, {i \in 1..Len(snapshots) :
                                        supports(request, config, snapshots[i].name)})
        available == Retain(serving, {i \in 1..Len(serving) : is_available(serving[i])})
        to_all == IsWrite(request) /\ request.broadcast_writes
        strategy == request.strategy
    IN  IF available = <<>> THEN
            {Decision(Names(serving), to_all, TRUE)}
        ELSE IF to_all THEN
            {Decision(Names(available), TRUE, FALSE)}
        ELSE CASE strategy = "BestScore" ->
                    {Decision(Names(sort_by_score(available)), FALSE, FALSE)}
               [] strategy = "WeightedRandom" ->
                    {Decision(weighted_order(available, k), FALSE, FALSE) :
                        k \in 1..Len(available)}
               [] strategy = "FailoverOrdered" ->
                    {Decision(failover_order(available, config), FALSE, FALSE)}
               [] strategy = "ParallelRace" ->
                    {Decision(Names(sort_by_score(available)), TRUE, FALSE)}

=============================================================================
