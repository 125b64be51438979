----------------------------- MODULE MCDispatch -----------------------------
(* Dispatch for TLC: a fleet of two, or of one; `a' capped or not.          *)
EXTENDS Dispatch

Fleet == <<"a", "b">>
Lone == <<"a">>
FirstCapped == [p \in Provider |-> IF p = "a" THEN 1 ELSE 0]
NoneCapped == [p \in Provider |-> 0]
=============================================================================
