------------------------------ MODULE Outcomes ------------------------------
(***************************************************************************)
(* How one upstream answer is read and scored: the predicates of router.rs *)
(* on HTTP statuses and JSON-RPC codes, and proxy.rs's `Outcome'.          *)
(*                                                                         *)
(* An answer is what `forward' returns: a transport error, or an HTTP      *)
(* status with a body.  A body is kept as its JSON shape, which is all the *)
(* typed parsers look at:                                                  *)
(*   "object"  one JSON object; `code' is the code of its `error' member   *)
(*   "array1"  a JSON array of one element (the answer to a one-call batch)*)
(*   "arrayN"  a longer JSON array                                         *)
(*   "text"    anything that does not parse                                *)
(***************************************************************************)
EXTENDS Integers

NoError == 0    \* no `error' member (or null)
NoCode  == 1    \* an `error' member without an integer code

(* A well-formed JSON-RPC object has a result or an error, not both. *)
ObjectBody(code, result) == [shape |-> "object", code |-> code, result |-> result]
OtherBody(shape) == [shape |-> shape, code |-> NoError, result |-> FALSE]

TransportError == [status |-> 0, body |-> OtherBody("text")]    \* Err(e)
Http(status, body) == [status |-> status, body |-> body]

IsErr(a) == a = TransportError
Is2xx(status) == status \in 200..299

-----------------------------------------------------------------------------
(* router.rs: what a status or a code says. *)

is_retryable_http(status) == status \in {429, 500, 501, 502, 503, 504}

is_client_error(status) == status \in {400, 404, 405, 413, 415, 422}

is_behind_rpc_code(code) == code \in {-32014, -32016}

is_retryable_rpc_code(code) ==
    code \in {-32005, -32603} \/ is_behind_rpc_code(code)

is_client_rpc_code(code) ==
    code \in {-32700, -32600, -32601, -32602, -32002, -32003, -32006, -32013, -32015}

is_history_gap_code(code) == code \in {-32001, -32004, -32011, -32019, -32020}

-----------------------------------------------------------------------------
(* The typed parsers.  serde reads a struct from a JSON array by position,  *)
(* so a one-element array parses as a struct whose only field is that       *)
(* element: present, and (for the inner struct) without a code.             *)

(* None is NoCode, which no predicate on codes accepts. *)
extract_rpc_error_code(b) ==
    IF b.shape = "object" /\ b.code # NoError THEN b.code ELSE NoCode

HasCode(b) == extract_rpc_error_code(b) # NoCode

has_rpc_error(b) ==
    \/ b.shape = "object" /\ b.code # NoError
    \/ b.shape = "array1"

has_result(b) ==
    \/ b.shape = "object" /\ b.result
    \/ b.shape = "array1"

-----------------------------------------------------------------------------
(* proxy.rs: Outcome. *)

Outcome == {"Ok", "ProviderError", "RateLimited", "ClientError",
            "Miss", "Behind", "Unsupported"}

from_status(status) ==
    CASE Is2xx(status)           -> "Ok"
      [] status = 429            -> "RateLimited"
      [] status = 501            -> "Unsupported"
      [] is_client_error(status) -> "ClientError"
      [] OTHER                   -> "ProviderError"

from_rpc_error(b) ==
    LET code == extract_rpc_error_code(b)
    IN  CASE is_client_rpc_code(code)  -> "ClientError"
          [] is_behind_rpc_code(code)  -> "Behind"
          [] is_history_gap_code(code) -> "Miss"
          [] OTHER                     -> "ProviderError"

(* A 2xx answer to a history lookup that only says this provider lacks the  *)
(* data.  depth is the provider's `history': "Full" or "Recent".            *)
is_history_miss(depth, b) ==
    LET code == extract_rpc_error_code(b)
    IN  CASE depth = "Full" -> is_history_gap_code(code)
          [] depth = "Recent" /\ HasCode(b) ->
                ~is_client_rpc_code(code) /\ ~is_behind_rpc_code(code)
          [] depth = "Recent" /\ ~HasCode(b) -> ~has_result(b)

from_leg(a, history_lookup, depth) ==
    IF ~Is2xx(a.status) THEN from_status(a.status)
    ELSE IF history_lookup /\ is_history_miss(depth, a.body) THEN "Miss"
    ELSE IF has_rpc_error(a.body) THEN from_rpc_error(a.body)
    ELSE "Ok"

broadcast_error_rank(outcome, a) ==
    LET code == extract_rpc_error_code(a.body)
    IN  IF outcome = "Miss" THEN 3
        ELSE IF HasCode(a.body)
             THEN IF is_retryable_rpc_code(code) THEN 2 ELSE 4
        ELSE IF Is2xx(a.status) THEN 0 ELSE 1

=============================================================================
