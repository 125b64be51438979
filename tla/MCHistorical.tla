---------------------------- MODULE MCHistorical ----------------------------
(* Historical for TLC: calls for two transactions, one of them looked up    *)
(* without a commitment; a batch of two of which one parses; a job that is  *)
(* too large.                                                               *)
EXTENDS Historical, TLC

Single(bytes, f, c, answer) ==
    [bytes |-> bytes, class |-> "Single", calls |-> 1, parsed |-> 1,
     fingerprint |-> f, commitment |-> c, answer |-> answer]

Null == Http(200, ObjectBody(NoError, FALSE))
Found == Http(200, ObjectBody(NoError, TRUE))

SomeJobs ==
    {Single(4, 1, "finalized", Null), Single(5, 1, "finalized", Found),
     Single(4, 2, "unknown", Null), Single(9, 2, "unknown", Found),
     Single(4, NoFingerprint, "unknown", Null),
     Single(4, 2, "unknown", Http(502, OtherBody("text"))),
     [bytes |-> 4, class |-> "Batch", calls |-> 2, parsed |-> 1, fingerprint |-> 1,
      commitment |-> "finalized", answer |-> Found]}
HandlersAlike == Permutations(Handler)
=============================================================================
