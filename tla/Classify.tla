------------------------------ MODULE Classify ------------------------------
(***************************************************************************)
(* proxy.rs: classify_request, what the proxy reads from a request body    *)
(* before routing it.  A body is one call, a batch of calls or something   *)
(* that does not parse; a call has a method or none:                       *)
(*   [kind |-> "single" | "batch" | "garbage", methods |-> Seq]            *)
(* The method label is a batch's first distinct names and the number of    *)
(* those left out.  The cut of a label of more than MAX_METHOD_LABEL_LEN   *)
(* bytes is left out.                                                      *)
(***************************************************************************)
EXTENDS Routing

CONSTANTS MAX_BATCH_LABEL_METHODS, NoMethod

ASSUME ClassifyAssumption == MAX_BATCH_LABEL_METHODS \in Nat \ {0}

Distinct(s) ==
    LET first == SelectSeq([i \in 1..Len(s) |-> i], LAMBDA i : \A j \in 1..(i - 1) : s[j] # s[i])
    IN  [k \in 1..Len(first) |-> s[first[k]]]

(* Mutant: full history is looked for in the label. *)
any_full_history_shown(uniques, full_history_methods) ==
    \E i \in 1..Len(uniques) : i <= MAX_BATCH_LABEL_METHODS /\ uniques[i] \in full_history_methods

any_full_history(uniques, full_history_methods) ==
    \E i \in 1..Len(uniques) : uniques[i] \in full_history_methods

(* What handle_rpc assumes of a body it cannot classify. *)
Unknown ==
    [method |-> Label(<<"unknown">>, 0), calls |-> 1, batch |-> FALSE,
     full_history |-> FALSE, transaction |-> "None", historical |-> 0]

classify_request(body, full_history_methods) ==
    LET named == SelectSeq(body.methods, LAMBDA m : m # NoMethod)
        uniques == Distinct(named)
        shown == IF Len(uniques) < MAX_BATCH_LABEL_METHODS THEN Len(uniques)
                                                           ELSE MAX_BATCH_LABEL_METHODS
        count(m) == Len(SelectSeq(named, LAMBDA x : x = m))
    IN  IF body.kind = "garbage" \/ named = <<>> THEN Unknown
        ELSE [method |-> IF body.kind = "single" THEN Label(named, 0)
                         ELSE Label(SubSeq(uniques, 1, shown), Len(uniques) - shown),
              calls |-> Len(named),
              batch |-> body.kind = "batch",
              full_history |-> any_full_history(uniques, full_history_methods),
              transaction |-> IF count("sendTransaction") = 0 THEN "None"
                              ELSE IF body.kind = "single" THEN "Single" ELSE "Batch",
              historical |-> count("getTransaction")]

(* What handle_rpc hands to `route'. *)
RequestOf(body, routing) ==
    LET class == classify_request(body, routing.full_history_methods)
    IN  [method |-> class.method, full_history |-> class.full_history,
         write_methods |-> routing.write_methods,
         broadcast_writes |-> routing.broadcast_writes, strategy |-> routing.strategy]
=============================================================================
