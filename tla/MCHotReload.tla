----------------------------- MODULE MCHotReload ----------------------------
(* ReloadTraffic for TLC: `a' varies in one respect at a time, `b' comes    *)
(* and goes, and one edit replaces `a' by `b'.                              *)
EXTENDS ReloadTraffic

P(inputs, max_rps, methods) ==
    [inputs |-> inputs, pool |-> 0, max_rps |-> max_rps, methods |-> methods]

Of(pool, a, b) ==
    [pool |-> pool, providers |-> [p \in Provider |-> IF p = "a" THEN a ELSE b]]

Base == P(1, 0, 1)

SomeConfigs ==
    {Of(1, Base, Absent), Of(2, Base, Base), Of(1, P(2, 0, 1), Base),
     Of(1, P(1, 5, 1), Base), Of(1, P(1, 0, 2), Base), Of(1, Absent, P(1, 5, 1))}
=============================================================================
