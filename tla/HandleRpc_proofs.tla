-------------------------- MODULE HandleRpc_proofs --------------------------
(***************************************************************************)
(* Proofs about one request through HandleRpc, for routed lists of any     *)
(* length, any retry limit and any set of upstream answers.  The walk of   *)
(* the sequential path and the race of the broadcast path have an          *)
(* inductive invariant each; a request takes one of the two paths, so      *)
(* neither can disturb the other.                                          *)
(***************************************************************************)
EXTENDS HandleRpc, SequenceTheorems, TLAPS

(* What Append does, in the form the proofs need. *)
LEMMA Appended ==
    ASSUME NEW S, NEW s \in Seq(S), NEW x \in S
    PROVE  /\ Append(s, x) \in Seq(S)
           /\ Len(s) \in Nat
           /\ Len(Append(s, x)) = Len(s) + 1
           /\ \A i \in 1..Len(s) : Append(s, x)[i] = s[i]
           /\ Append(s, x)[Len(s) + 1] = x
  BY AppendProperties, LenProperties

-----------------------------------------------------------------------------
(* How answers are scored. *)

(* A transport error counts as a provider error on both paths. *)
LEMMA TransportErrorScore ==
    ASSUME NEW a, IsErr(a), NEW d
    PROVE  from_leg(a, history_lookup, d) = "ProviderError" /\ ~Is2xx(a.status)
  BY DEF IsErr, TransportError, from_leg, from_status, Is2xx, is_client_error

(* A status outside 2xx is scored by the status alone, and is neither a    *)
(* success nor a miss.                                                     *)
LEMMA StatusScore ==
    ASSUME NEW a, ~Is2xx(a.status), NEW d
    PROVE  /\ from_leg(a, history_lookup, d) = from_status(a.status)
           /\ from_status(a.status) \notin {"Ok", "Miss"}
  BY DEF from_leg, from_status

LEMMA RetryableIsNot2xx ==
    ASSUME NEW a, is_retryable_http(a.status)
    PROVE  ~Is2xx(a.status)
  BY DEF is_retryable_http, Is2xx

(* On a listed provider's answer to a history lookup, the miss test alone  *)
(* decides whether the leg counts as a miss: an RPC error that says `gap'  *)
(* is always a miss by it.                                                 *)
LEMMA RpcErrorScore ==
    ASSUME NEW a, Is2xx(a.status), has_rpc_error(a.body),
           NEW d, ~(history_lookup /\ is_history_miss(d, a.body))
    PROVE  /\ from_leg(a, history_lookup, d) = from_rpc_error(a.body)
           /\ from_rpc_error(a.body) # "Ok"
           /\ history_lookup /\ d \in {"Full", "Recent"} =>
                from_rpc_error(a.body) # "Miss"
<1>1. from_leg(a, history_lookup, d) = from_rpc_error(a.body)
  BY DEF from_leg
<1>2. from_rpc_error(a.body) # "Ok"
  BY DEF from_rpc_error
<1> DEFINE code == extract_rpc_error_code(a.body)
<1>3. ASSUME is_history_gap_code(code)
      PROVE  ~is_client_rpc_code(code) /\ ~is_behind_rpc_code(code) /\ code # NoCode
  BY <1>3 DEF is_history_gap_code, is_client_rpc_code, is_behind_rpc_code, NoCode
<1>4. ASSUME history_lookup, d \in {"Full", "Recent"}
      PROVE  ~is_history_gap_code(code)
  BY <1>3, <1>4 DEF is_history_miss, HasCode
<1> QED
  BY <1>1, <1>2, <1>4 DEF from_rpc_error

LEMMA MissScore ==
    ASSUME NEW a, Is2xx(a.status), NEW d, history_lookup, is_history_miss(d, a.body)
    PROVE  from_leg(a, history_lookup, d) = "Miss"
  BY DEF from_leg

LEMMA SuccessScore ==
    ASSUME NEW a, Is2xx(a.status), ~has_rpc_error(a.body),
           NEW d, ~(history_lookup /\ is_history_miss(d, a.body))
    PROVE  from_leg(a, history_lookup, d) = "Ok"
  BY DEF from_leg

-----------------------------------------------------------------------------
(* The sequential path. *)
Depths == {"Full", "Recent", "Unlisted"}

SeqType ==
    /\ depth \in Seq(Depths) /\ history_lookup \in BOOLEAN /\ rate_gate \in BOOLEAN
    /\ index \in 1..(n + 1) /\ attempt \in 0..max_attempts
    /\ miss \in 0..Len(asked) /\ retried \in 0..Len(asked) /\ prev_failed \in Nat
    /\ forwarding \in BOOLEAN
    /\ asked \in Seq(Nat \X Answers) /\ recorded \in Seq(Nat \X Outcome)
    /\ failovers \in Seq(Nat \X Nat) /\ analytics \in Seq(Nat)
    /\ response = [status |-> response.status, from |-> response.from]
    /\ response.from \in 0..Len(asked)

(* Attempts count the forwards, answered or not; the one under way is to a *)
(* listed provider, and to a full one after a miss.                        *)
Counting ==
    /\ attempt = Len(asked) + (IF forwarding \/ response = Dropped THEN 1 ELSE 0)
    /\ forwarding => /\ response = Pending /\ index <= n
                     /\ depth[index] \in {"Full", "Recent"}
                     /\ miss # 0 => depth[index] = "Full"

(* The next failover is blamed on the provider asked last, and the one of  *)
(* the forward under way names its provider.                               *)
Blaming ==
    /\ response = Pending /\ Len(asked) > 0 =>
            prev_failed # 0 /\ prev_failed = asked[Len(asked)][1]
    /\ forwarding /\ attempt > 1 => failovers[attempt - 1][2] = index

(* Every position before the loop's was passed over or asked. *)
Visiting ==
    response = Pending =>
        \A j \in 1..(index - 1) :
            j \in skipped \/ \E k \in 1..Len(asked) : asked[k][1] = j

(* What the loop remembers is enough: an answer in JSON-RPC left a miss or *)
(* a retried error behind, a miss left a miss, and neither is a success.   *)
Remembering ==
    /\ response = Pending => \A k \in 1..Len(asked) :
            \/ IsErr(asked[k][2]) \/ is_retryable_http(asked[k][2].status)
            \/ miss # 0 \/ retried # 0
    /\ response = Pending /\ history_lookup =>
            \A k \in 1..Len(asked) : LegOutcome(k) = "Miss" => miss # 0
    /\ miss # 0 => LegOutcome(miss) # "Ok"
    /\ retried # 0 => LegOutcome(retried) # "Ok"

SeqInv ==
    /\ SeqType /\ Counting /\ Blaming /\ Visiting /\ Remembering
    /\ ScoredLikeALeg /\ FailoversChain
    /\ SyntheticOnlyWithoutAnswer /\ MissIsLastResort /\ AnalyticsOnce

LEMMA SeqInvInit == Init => SeqInv
<1> SUFFICES ASSUME Init PROVE SeqInv
  OBVIOUS
<1>1. depth \in Seq(Depths) /\ n \in Nat
  <2>1. PICK len \in 0..MaxProviders : depth \in [1..len -> Depths]
    BY DEF Init, Depths
  <2>2. len \in Nat
    BY <2>1, SequentialAssumption
  <2>3. depth \in Seq(Depths)
    BY <2>1, <2>2, SeqDef
  <2> QED
    BY <2>3, LenProperties DEF n
<1>2. max_attempts \in Nat
  BY <1>1, SequentialAssumption DEF max_attempts
<1>3. asked = <<>> /\ Len(asked) = 0
  BY DEF Init
<1>4. SeqType
  <2>1. /\ depth \in Seq(Depths) /\ history_lookup \in BOOLEAN /\ rate_gate \in BOOLEAN
        /\ forwarding \in BOOLEAN /\ prev_failed \in Nat
    BY <1>1 DEF Init
  <2>2. index \in 1..(n + 1) /\ attempt \in 0..max_attempts
    BY <1>1, <1>2 DEF Init
  <2>3. miss \in 0..Len(asked) /\ retried \in 0..Len(asked)
    BY <1>3 DEF Init
  <2>4. /\ asked \in Seq(Nat \X Answers) /\ recorded \in Seq(Nat \X Outcome)
        /\ failovers \in Seq(Nat \X Nat) /\ analytics \in Seq(Nat)
    BY EmptySeq DEF Init
  <2>5. /\ response = [status |-> response.status, from |-> response.from]
        /\ response.from \in 0..Len(asked)
    BY <1>3 DEF Init, Pending
  <2> QED
    BY <2>1, <2>2, <2>3, <2>4, <2>5 DEF SeqType
<1>5. Counting /\ Blaming /\ Visiting /\ Remembering
  BY <1>3 DEF Init, Counting, Blaming, Visiting, Remembering, Pending, Dropped
<1>6. ScoredLikeALeg /\ FailoversChain
  BY <1>3 DEF Init, ScoredLikeALeg, FailoversChain
<1>7. SyntheticOnlyWithoutAnswer /\ MissIsLastResort /\ AnalyticsOnce
  BY <1>3 DEF Init, SyntheticOnlyWithoutAnswer, MissIsLastResort, AnalyticsOnce, Pending
<1> QED
  BY <1>4, <1>5, <1>6, <1>7 DEF SeqInv

(* Lengths and limits are numbers. *)
LEMMA SeqNumbers ==
    ASSUME SeqType
    PROVE  /\ n \in Nat /\ max_attempts \in Nat /\ index \in Nat /\ attempt \in Nat
           /\ Len(asked) \in Nat /\ Len(recorded) \in Nat /\ Len(failovers) \in Nat
           /\ miss \in Nat /\ retried \in Nat /\ response.from \in Nat
<1>1. n \in Nat /\ Len(asked) \in Nat /\ Len(recorded) \in Nat /\ Len(failovers) \in Nat
  BY LenProperties DEF SeqType, n
<1>2. max_attempts \in Nat
  BY <1>1, SequentialAssumption DEF max_attempts
<1> QED
  BY <1>1, <1>2 DEF SeqType

(* The loop passes a provider over. *)
LEMMA SkipStep ==
    ASSUME SeqInv, NEW client \in BOOLEAN, NEW token \in BOOLEAN, Skip(client, token)
    PROVE  SeqInv'
<1>0. /\ SeqType /\ Counting /\ Blaming /\ Visiting /\ Remembering
      /\ ScoredLikeALeg /\ FailoversChain
      /\ SyntheticOnlyWithoutAnswer /\ MissIsLastResort /\ AnalyticsOnce
  BY DEF SeqInv
<1>1. /\ index' = index + 1 /\ skipped' = skipped \cup {index}
      /\ UNCHANGED <<depth, history_lookup, rate_gate, attempt, miss, retried, prev_failed,
                     forwarding, asked, recorded, failovers, response, analytics>>
      /\ index <= n /\ ~forwarding /\ response = Pending
  BY DEF Skip, request, InLoop, Looking
<1>2. n \in Nat /\ index \in Nat /\ Len(asked) \in Nat
  BY <1>0, SeqNumbers
<1>3. n' = n /\ max_attempts' = max_attempts
  BY <1>1 DEF n, max_attempts
<1>4. \A k : LegOutcome(k)' = LegOutcome(k) /\ Depth(k)' = Depth(k)
  BY <1>1 DEF LegOutcome, Depth
<1>5. SeqType'
  <2>1. index' \in 1..(n' + 1)
    BY <1>0, <1>1, <1>2, <1>3 DEF SeqType
  <2> QED
    BY <1>0, <1>1, <1>3, <2>1 DEF SeqType
<1>6. Counting' /\ Blaming'
  BY <1>0, <1>1 DEF Counting, Blaming
<1>7. Visiting'
  BY <1>0, <1>1, <1>2 DEF Visiting
<1>8. Remembering'
  BY <1>0, <1>1, <1>4 DEF Remembering
<1>9. ScoredLikeALeg' /\ FailoversChain' /\ AnalyticsOnce'
  BY <1>0, <1>1, <1>4 DEF ScoredLikeALeg, FailoversChain, AnalyticsOnce
<1>10. SyntheticOnlyWithoutAnswer' /\ MissIsLastResort'
  BY <1>0, <1>1, <1>3, <1>4 DEF SyntheticOnlyWithoutAnswer, MissIsLastResort, Pending
<1> QED
  BY <1>5, <1>6, <1>7, <1>8, <1>9, <1>10 DEF SeqInv

(* The loop forwards to a provider. *)
LEMMA ForwardStep ==
    ASSUME SeqInv, NEW client \in BOOLEAN, NEW token \in BOOLEAN, Forward(client, token)
    PROVE  SeqInv'
<1>0. /\ SeqType /\ Counting /\ Blaming /\ Visiting /\ Remembering
      /\ ScoredLikeALeg /\ FailoversChain
      /\ SyntheticOnlyWithoutAnswer /\ MissIsLastResort /\ AnalyticsOnce
  BY DEF SeqInv
<1>1. /\ attempt' = attempt + 1 /\ forwarding' = TRUE
      /\ UNCHANGED <<depth, history_lookup, rate_gate, index, miss, retried, prev_failed,
                     asked, skipped, recorded, response, analytics>>
      /\ index <= n /\ attempt < max_attempts /\ ~forwarding /\ response = Pending
      /\ depth[index] # "Unlisted" /\ ~(miss # 0 /\ depth[index] = "Recent")
  BY DEF Forward, request, InLoop, Looking, Passes
<1>2. /\ n \in Nat /\ index \in 1..n /\ Len(asked) \in Nat /\ max_attempts \in Nat
      /\ attempt \in Nat /\ Len(failovers) \in Nat
  BY <1>0, <1>1, SeqNumbers DEF SeqType
<1>3. n' = n /\ max_attempts' = max_attempts
  BY <1>1 DEF n, max_attempts
<1>4. \A k : LegOutcome(k)' = LegOutcome(k) /\ Depth(k)' = Depth(k)
  BY <1>1 DEF LegOutcome, Depth
<1>5. attempt = Len(asked)
  BY <1>0, <1>1, <1>2 DEF Counting, Pending, Dropped
<1>6. depth[index] \in Depths
  BY <1>0, <1>2, ElementOfSeq DEF SeqType, n
<1>7. Counting'
  BY <1>1, <1>2, <1>3, <1>5, <1>6 DEF Counting, Depths
<1>8. /\ failovers' \in Seq(Nat \X Nat)
      /\ Len(failovers') = attempt
      /\ \A k \in 1..Len(failovers) : failovers'[k] = failovers[k]
      /\ attempt > 0 => failovers'[attempt] = <<prev_failed, index>>
  <2>1. CASE attempt = 0
    BY <1>0, <1>2, <2>1 DEF Forward, SeqType, FailoversChain
  <2>2. CASE attempt > 0
    <3>1. prev_failed # 0 /\ Len(failovers) = attempt - 1
      BY <1>0, <1>1, <1>2, <1>5, <2>2 DEF Blaming, FailoversChain
    <3>2. failovers' = Append(failovers, <<prev_failed, index>>)
      BY <2>2, <3>1 DEF Forward
    <3>3. failovers \in Seq(Nat \X Nat) /\ <<prev_failed, index>> \in Nat \X Nat
      BY <1>0, <1>2 DEF SeqType
    <3> QED
      BY <1>2, <3>1, <3>2, <3>3, Appended
  <2> QED
    BY <1>2, <2>1, <2>2
<1>9. SeqType'
  <2>1. attempt' \in 0..max_attempts'
    BY <1>1, <1>2, <1>3
  <2> QED
    BY <1>0, <1>1, <1>3, <1>8, <2>1 DEF SeqType
<1>10. FailoversChain'
  <2>1. Len(failovers) = IF attempt = 0 THEN 0 ELSE attempt - 1
    BY <1>0 DEF FailoversChain
  <2> SUFFICES ASSUME NEW k \in 1..attempt
               PROVE  /\ failovers'[k][1] = asked[k][1]
                      /\ k + 1 <= Len(asked) => failovers'[k][2] = asked[k + 1][1]
    BY <1>1, <1>2, <1>8 DEF FailoversChain
  <2>2. CASE k \in 1..Len(failovers)
    <3>1. failovers'[k] = failovers[k]
      BY <1>8, <2>2
    <3>2. /\ failovers[k][1] = asked[k][1]
          /\ k + 1 <= Len(asked) => failovers[k][2] = asked[k + 1][1]
      BY <1>0, <2>2 DEF FailoversChain
    <3> QED
      BY <3>1, <3>2
  <2>3. CASE k = attempt
    <3>1. failovers'[k] = <<prev_failed, index>>
      BY <1>2, <1>8, <2>3
    <3>2. prev_failed = asked[k][1]
      BY <1>0, <1>1, <1>2, <1>5, <2>3 DEF Blaming
    <3> QED
      BY <1>2, <1>5, <2>3, <3>1, <3>2
  <2> QED
    BY <1>2, <2>1, <2>2, <2>3
<1>11. Blaming'
  <2>1. ASSUME attempt' > 1
        PROVE  failovers'[attempt' - 1][2] = index'
    <3>1. attempt > 0 /\ attempt' - 1 = attempt
      BY <1>1, <1>2, <2>1
    <3>2. failovers'[attempt] = <<prev_failed, index>>
      BY <1>8, <3>1
    <3> QED
      BY <1>1, <3>1, <3>2
  <2>2. Len(asked') > 0 => prev_failed' # 0 /\ prev_failed' = asked'[Len(asked')][1]
    BY <1>0, <1>1 DEF Blaming
  <2> QED
    BY <2>1, <2>2 DEF Blaming
<1>12. Visiting' /\ ScoredLikeALeg' /\ AnalyticsOnce'
  BY <1>0, <1>1, <1>4 DEF Visiting, ScoredLikeALeg, AnalyticsOnce
<1>13. Remembering' /\ SyntheticOnlyWithoutAnswer' /\ MissIsLastResort'
  BY <1>0, <1>1, <1>3, <1>4
     DEF Remembering, SyntheticOnlyWithoutAnswer, MissIsLastResort, Pending
<1> QED
  BY <1>7, <1>9, <1>10, <1>11, <1>12, <1>13 DEF SeqInv

(* What an answer becomes: its score, and the two ways the loop goes on.   *)
Score(a) == from_leg(a, history_lookup, depth[index])

MovesOn(a) ==
    /\ TryNext /\ Score(a) # "Ok"
    /\ \/ /\ UNCHANGED <<miss, retried>>
          /\ IsErr(a) \/ is_retryable_http(a.status)
          /\ Score(a) # "Miss"
       \/ /\ miss' = IF miss = 0 THEN ThisAsk ELSE miss
          /\ UNCHANGED retried
       \/ /\ retried' = ThisAsk
          /\ UNCHANGED miss
          /\ history_lookup => Score(a) # "Miss"

AnswersWith(a) ==
    /\ \E status : Return(status, ThisAsk, IF Score(a) = "Ok" THEN index ELSE 0)
    /\ history_lookup /\ Score(a) = "Miss" =>
            ~(attempt < max_attempts /\ FullProviderFollows)

(* The branches of `sequential' record what from_leg says, and each either *)
(* tries the next provider or answers the client.                          *)
LEMMA ReceiveForms ==
    ASSUME SeqInv, NEW a \in Answers, Receive(a)
    PROVE  Record(Score(a)) /\ (MovesOn(a) \/ AnswersWith(a))
<1>1. depth[index] \in {"Full", "Recent"}
  BY DEF SeqInv, Counting, Receive, Received
<1>2. CASE TransportFailed(a)
  <2>1. Score(a) = "ProviderError"
    BY <1>2, TransportErrorScore DEF TransportFailed, Score
  <2> QED
    BY <1>2, <2>1 DEF TransportFailed, MovesOn
<1>3. CASE RetryableHttp(a)
  <2>1. Score(a) = from_status(a.status) /\ Score(a) \notin {"Ok", "Miss"}
    BY <1>3, RetryableIsNot2xx, StatusScore DEF RetryableHttp, Score
  <2> QED
    BY <1>3, <2>1 DEF RetryableHttp, MovesOn
<1>4. CASE PassStatusThrough(a)
  <2>1. Score(a) = from_status(a.status) /\ Score(a) \notin {"Ok", "Miss"}
    BY <1>4, StatusScore DEF PassStatusThrough, Score
  <2> QED
    BY <1>4, <2>1 DEF PassStatusThrough, AnswersWith
<1>5. CASE HistoryMiss(a)
  <2>1. Score(a) = "Miss"
    BY <1>5, MissScore DEF HistoryMiss, IsMiss, Score
  <2>2. CASE attempt < max_attempts /\ FullProviderFollows
    BY <1>5, <2>1, <2>2 DEF HistoryMiss, MovesOn
  <2>3. CASE ~(attempt < max_attempts /\ FullProviderFollows)
    BY <1>5, <2>1, <2>3 DEF HistoryMiss, AnswersWith
  <2> QED
    BY <1>5, <2>1, <2>2, <2>3 DEF HistoryMiss
<1>6. CASE RpcError(a)
  <2>1. /\ Score(a) = from_rpc_error(a.body) /\ Score(a) # "Ok"
        /\ history_lookup => Score(a) # "Miss"
    BY <1>1, <1>6, RpcErrorScore DEF RpcError, IsMiss, Score
  <2>2. CASE RetryableRpc(a) /\ attempt < max_attempts
    BY <1>6, <2>1, <2>2 DEF RpcError, MovesOn
  <2>3. CASE ~(RetryableRpc(a) /\ attempt < max_attempts)
    BY <1>6, <2>1, <2>3 DEF RpcError, AnswersWith
  <2> QED
    BY <1>6, <2>1, <2>2, <2>3 DEF RpcError
<1>7. CASE Success(a)
  <2>1. Score(a) = "Ok"
    BY <1>7, SuccessScore DEF Success, IsMiss, Score
  <2> QED
    BY <1>7, <2>1 DEF Success, AnswersWith
<1> QED
  BY <1>2, <1>3, <1>4, <1>5, <1>6, <1>7 DEF Receive

(* Scores are outcomes. *)
LEMMA ScoreType ==
    ASSUME NEW a, NEW d
    PROVE  from_leg(a, history_lookup, d) \in Outcome
<1>1. from_status(a.status) \in Outcome
  BY DEF from_status, Outcome
<1>2. from_rpc_error(a.body) \in Outcome
  BY DEF from_rpc_error, Outcome
<1>3. "Ok" \in Outcome /\ "Miss" \in Outcome
  BY DEF Outcome
<1> QED
  BY <1>1, <1>2, <1>3 DEF from_leg

(* The books after an answer: one more forward answered and recorded, the  *)
(* earlier ones as they were.                                              *)
LEMMA AnswerBooked ==
    ASSUME SeqInv, NEW a \in Answers, Receive(a)
    PROVE  /\ asked' \in Seq(Nat \X Answers) /\ recorded' \in Seq(Nat \X Outcome)
           /\ Len(asked) \in Nat /\ Len(asked') = Len(asked) + 1
           /\ \A k \in 1..Len(asked) : asked'[k] = asked[k]
           /\ \A k \in 1..Len(asked) : LegOutcome(k)' = LegOutcome(k)
           /\ \A k \in 1..Len(asked) : Depth(k)' = Depth(k)
           /\ asked'[Len(asked) + 1] = <<index, a>>
           /\ \A k : k = Len(asked) + 1 =>
                LegOutcome(k)' = Score(a) /\ Depth(k)' = depth[index]
           /\ ScoredLikeALeg'
<1>1. /\ asked \in Seq(Nat \X Answers) /\ recorded \in Seq(Nat \X Outcome)
      /\ <<index, a>> \in Nat \X Answers /\ index \in Nat
      /\ ScoredLikeALeg
  BY SeqNumbers DEF SeqInv, SeqType
<1>2. /\ asked' = Append(asked, <<index, a>>)
      /\ depth' = depth /\ history_lookup' = history_lookup
  BY DEF Receive, Received, request
<1>3. recorded' = Append(recorded, <<index, Score(a)>>)
  BY ReceiveForms DEF Record
<1>4. <<index, Score(a)>> \in Nat \X Outcome
  BY <1>1, ScoreType DEF Score
<1>5. /\ asked' \in Seq(Nat \X Answers)
      /\ Len(asked) \in Nat /\ Len(asked') = Len(asked) + 1
      /\ \A k \in 1..Len(asked) : asked'[k] = asked[k]
      /\ asked'[Len(asked) + 1] = <<index, a>>
  BY <1>1, <1>2, Appended
<1>6. /\ recorded' \in Seq(Nat \X Outcome)
      /\ Len(recorded) \in Nat /\ Len(recorded') = Len(recorded) + 1
      /\ \A k \in 1..Len(recorded) : recorded'[k] = recorded[k]
      /\ recorded'[Len(recorded) + 1] = <<index, Score(a)>>
  BY <1>1, <1>3, <1>4, Appended
<1>7. \A k \in 1..Len(asked) : LegOutcome(k)' = LegOutcome(k) /\ Depth(k)' = Depth(k)
  BY <1>2, <1>5 DEF LegOutcome, Depth
<1>8. ASSUME NEW k, k = Len(asked) + 1
      PROVE  LegOutcome(k)' = Score(a) /\ Depth(k)' = depth[index]
  BY <1>2, <1>5, <1>8 DEF LegOutcome, Depth, Score
<1>9. ScoredLikeALeg'
  <2>1. Len(recorded) = Len(asked)
    BY <1>1 DEF ScoredLikeALeg
  <2>2. SUFFICES ASSUME NEW k \in 1..(Len(asked) + 1)
                 PROVE  recorded'[k] = <<asked'[k][1], LegOutcome(k)'>>
    BY <1>5, <1>6, <2>1 DEF ScoredLikeALeg
  <2>3. CASE k \in 1..Len(asked)
    <3>1. recorded'[k] = recorded[k] /\ asked'[k] = asked[k] /\ LegOutcome(k)' = LegOutcome(k)
      BY <1>5, <1>6, <1>7, <2>1, <2>3
    <3> QED
      BY <1>1, <2>3, <3>1 DEF ScoredLikeALeg
  <2>4. CASE k = Len(asked) + 1
    BY <1>5, <1>6, <1>8, <2>1, <2>4
  <2> QED
    BY <1>5, <2>3, <2>4
<1> QED
  BY <1>5, <1>6, <1>7, <1>8, <1>9

(* The Failover events and the depths asked for stay right: the provider   *)
(* that answered is the one the last event named, and a full one after a   *)
(* miss.                                                                   *)
LEMMA AnswerInOrder ==
    ASSUME SeqInv, NEW a \in Answers, Receive(a)
    PROVE  /\ FailoversChain'
           /\ \A j, k \in 1..Len(asked') :
                j < k /\ history_lookup' /\ LegOutcome(j)' = "Miss" => Depth(k)' = "Full"
<1>1. /\ forwarding /\ response = Pending
      /\ UNCHANGED <<depth, history_lookup, attempt, failovers>>
  BY DEF Receive, Received, request
<1>2. /\ Counting /\ Blaming /\ Remembering /\ FailoversChain /\ MissIsLastResort
      /\ attempt \in Nat /\ Len(asked) \in Nat
  BY SeqNumbers DEF SeqInv
<1>3. attempt = Len(asked) + 1 /\ (miss # 0 => depth[index] = "Full")
  BY <1>1, <1>2 DEF Counting
<1>4. /\ Len(asked') = Len(asked) + 1
      /\ asked'[Len(asked) + 1] = <<index, a>>
      /\ \A k \in 1..Len(asked) : asked'[k] = asked[k]
      /\ \A k \in 1..Len(asked) : LegOutcome(k)' = LegOutcome(k)
      /\ \A k \in 1..Len(asked) : Depth(k)' = Depth(k)
      /\ \A k : k = Len(asked) + 1 => Depth(k)' = depth[index]
  BY AnswerBooked
<1>5. FailoversChain'
  <2>1. Len(failovers) = attempt - 1
    BY <1>2, <1>3 DEF FailoversChain
  <2>2. SUFFICES ASSUME NEW k \in 1..(attempt - 1)
                 PROVE  /\ failovers[k][1] = asked'[k][1]
                        /\ failovers[k][2] = asked'[k + 1][1]
    BY <1>1, <1>2, <1>3, <1>4, <2>1 DEF FailoversChain
  <2>3. k \in 1..Len(asked) /\ k \in 1..Len(failovers)
    BY <1>2, <1>3, <2>1
  <2>4. failovers[k][1] = asked'[k][1]
    BY <1>2, <1>4, <2>3 DEF FailoversChain
  <2>5. CASE k + 1 <= Len(asked)
    <3>1. k + 1 \in 1..Len(asked)
      BY <1>2, <2>3, <2>5
    <3>2. asked'[k + 1] = asked[k + 1]
      BY <1>4, <3>1
    <3> QED
      BY <1>2, <2>3, <2>4, <2>5, <3>2 DEF FailoversChain
  <2>6. CASE ~(k + 1 <= Len(asked))
    <3>1. k + 1 = Len(asked) + 1 /\ k = attempt - 1 /\ attempt > 1
      BY <1>2, <1>3, <2>3, <2>6
    <3>2. failovers[k][2] = index
      BY <1>1, <1>2, <3>1 DEF Blaming
    <3> QED
      BY <1>4, <2>4, <3>1, <3>2
  <2> QED
    BY <2>5, <2>6
<1>6. ASSUME NEW j \in 1..(Len(asked) + 1), NEW k \in 1..(Len(asked) + 1),
             j < k, history_lookup, LegOutcome(j)' = "Miss"
      PROVE  Depth(k)' = "Full"
  <2>1. j \in 1..Len(asked) /\ LegOutcome(j) = "Miss"
    <3>1. j \in 1..Len(asked)
      BY <1>2, <1>6
    <3> QED
      BY <1>4, <1>6, <3>1
  <2>2. CASE k \in 1..Len(asked)
    <3>1. Depth(k) = "Full"
      BY <1>2, <1>6, <2>1, <2>2 DEF MissIsLastResort
    <3> QED
      BY <1>4, <2>2, <3>1
  <2>3. CASE k = Len(asked) + 1
    <3>1. miss # 0
      BY <1>1, <1>2, <1>6, <2>1 DEF Remembering
    <3> QED
      BY <1>3, <1>4, <2>3, <3>1
  <2> QED
    BY <1>2, <2>2, <2>3
<1>7. \A j, k \in 1..Len(asked') :
          j < k /\ history_lookup' /\ LegOutcome(j)' = "Miss" => Depth(k)' = "Full"
  BY <1>1, <1>4, <1>6
<1> QED
  BY <1>5, <1>7

(* The loop goes on to the next provider after a failure. *)
LEMMA MovesOnStep ==
    ASSUME SeqInv, NEW a \in Answers, Receive(a), MovesOn(a)
    PROVE  SeqInv'
<1>0. /\ SeqType /\ Counting /\ Visiting /\ Remembering /\ AnalyticsOnce
  BY DEF SeqInv
<1>1. /\ forwarding /\ response = Pending /\ forwarding' = FALSE
      /\ UNCHANGED <<depth, history_lookup, rate_gate, attempt, skipped, failovers>>
  BY DEF Receive, Received, request
<1>2. index' = index + 1 /\ prev_failed' = index /\ UNCHANGED <<response, analytics>>
  BY DEF MovesOn, TryNext
<1>3. /\ n \in Nat /\ index \in 1..n /\ Len(asked) \in Nat /\ max_attempts \in Nat
      /\ attempt = Len(asked) + 1 /\ attempt \in 0..max_attempts
      /\ miss \in 0..Len(asked) /\ retried \in 0..Len(asked)
  BY <1>0, <1>1, SeqNumbers DEF SeqType, Counting
<1>4. n' = n /\ max_attempts' = max_attempts
  BY <1>1 DEF n, max_attempts
<1>5. /\ asked' \in Seq(Nat \X Answers) /\ recorded' \in Seq(Nat \X Outcome)
      /\ Len(asked') = Len(asked) + 1
      /\ asked'[Len(asked) + 1] = <<index, a>>
      /\ \A k \in 1..Len(asked) : asked'[k] = asked[k]
      /\ \A k \in 1..Len(asked) : LegOutcome(k)' = LegOutcome(k)
      /\ \A k : k = Len(asked) + 1 => LegOutcome(k)' = Score(a)
      /\ ScoredLikeALeg'
  BY AnswerBooked
<1>6. /\ miss' \in {miss, Len(asked) + 1} /\ (miss # 0 => miss' = miss)
      /\ retried' \in {retried, Len(asked) + 1} /\ (retried # 0 => retried' # 0)
      /\ \/ IsErr(a) \/ is_retryable_http(a.status) \/ miss' # 0 \/ retried' # 0
      /\ history_lookup /\ Score(a) = "Miss" => miss' # 0
      /\ Score(a) # "Ok"
  <2>1. CASE /\ UNCHANGED <<miss, retried>>
             /\ IsErr(a) \/ is_retryable_http(a.status)
             /\ Score(a) # "Miss"
    BY <1>3, <2>1 DEF MovesOn
  <2>2. CASE miss' = (IF miss = 0 THEN ThisAsk ELSE miss) /\ UNCHANGED retried
    BY <1>3, <2>2 DEF MovesOn, ThisAsk
  <2>3. CASE /\ retried' = ThisAsk /\ UNCHANGED miss
             /\ history_lookup => Score(a) # "Miss"
    BY <1>3, <2>3 DEF MovesOn, ThisAsk
  <2> QED
    BY <2>1, <2>2, <2>3 DEF MovesOn
<1>7. SeqType'
  <2>1. index' \in 1..(n' + 1) /\ attempt' \in 0..max_attempts'
    BY <1>1, <1>2, <1>3, <1>4
  <2>2. miss' \in 0..Len(asked') /\ retried' \in 0..Len(asked')
    <3>1. Len(asked) \in Nat /\ Len(asked') = Len(asked) + 1
      BY <1>3, <1>5
    <3>2. miss \in 0..Len(asked) /\ retried \in 0..Len(asked)
      BY <1>3
    <3>3. miss' \in {miss, Len(asked) + 1} /\ retried' \in {retried, Len(asked) + 1}
      BY <1>6
    <3> QED
      BY <3>1, <3>2, <3>3
  <2>3. prev_failed' \in Nat
    BY <1>2, <1>3
  <2>4. /\ response' = [status |-> response'.status, from |-> response'.from]
        /\ response'.from \in 0..Len(asked')
    BY <1>1, <1>2, <1>3, <1>5 DEF Pending
  <2> QED
    BY <1>0, <1>1, <1>2, <1>5, <2>1, <2>2, <2>3, <2>4 DEF SeqType
<1>8. Counting'
  BY <1>1, <1>2, <1>3, <1>5 DEF Counting, Pending, Dropped
<1>9. Blaming'
  <2>1. prev_failed' # 0 /\ prev_failed' = asked'[Len(asked')][1]
    BY <1>2, <1>3, <1>5
  <2> QED
    BY <1>1, <2>1 DEF Blaming
<1>10. Visiting'
  <2>1. SUFFICES ASSUME NEW j \in 1..index
                 PROVE  j \in skipped \/ \E k \in 1..Len(asked') : asked'[k][1] = j
    BY <1>1, <1>2, <1>3 DEF Visiting
  <2>2. CASE j = index
    <3>1. asked'[Len(asked) + 1][1] = j /\ Len(asked) + 1 \in 1..Len(asked')
      BY <1>3, <1>5, <2>2
    <3> QED
      BY <3>1
  <2>3. CASE j \in 1..(index - 1) /\ j \notin skipped
    <3>1. PICK k \in 1..Len(asked) : asked[k][1] = j
      BY <1>0, <1>1, <2>3 DEF Visiting
    <3>2. k \in 1..Len(asked') /\ asked'[k] = asked[k]
      BY <1>3, <1>5
    <3> QED
      BY <3>1, <3>2
  <2> QED
    BY <1>3, <2>2, <2>3
<1>11. Remembering'
  <2>1. ASSUME NEW k \in 1..Len(asked')
        PROVE  \/ IsErr(asked'[k][2]) \/ is_retryable_http(asked'[k][2].status)
               \/ miss' # 0 \/ retried' # 0
    <3>1. CASE k \in 1..Len(asked)
      <4>1. asked'[k] = asked[k]
        BY <1>5, <3>1
      <4> QED
        BY <1>0, <1>1, <1>6, <3>1, <4>1 DEF Remembering
    <3>2. CASE k = Len(asked) + 1
      BY <1>5, <1>6, <3>2
    <3> QED
      BY <1>3, <1>5, <3>1, <3>2
  <2>2. ASSUME NEW k \in 1..Len(asked'), history_lookup, LegOutcome(k)' = "Miss"
        PROVE  miss' # 0
    <3>1. CASE k \in 1..Len(asked)
      <4>1. LegOutcome(k) = "Miss"
        BY <1>5, <2>2, <3>1
      <4> QED
        BY <1>0, <1>1, <1>6, <2>2, <3>1, <4>1 DEF Remembering
    <3>2. CASE k = Len(asked) + 1
      BY <1>5, <1>6, <2>2, <3>2
    <3> QED
      BY <1>3, <1>5, <3>1, <3>2
  <2>3. ASSUME NEW k, k # 0,
               \/ k = Len(asked) + 1
               \/ k \in 0..Len(asked) /\ (k # 0 => LegOutcome(k) # "Ok")
        PROVE  LegOutcome(k)' # "Ok"
    <3>1. CASE k = Len(asked) + 1
      BY <1>5, <1>6, <3>1
    <3>2. CASE k \in 0..Len(asked) /\ (k # 0 => LegOutcome(k) # "Ok")
      <4>1. k \in 1..Len(asked)
        BY <1>3, <2>3, <3>2
      <4> QED
        BY <1>5, <2>3, <3>2, <4>1
    <3> QED
      BY <2>3, <3>1, <3>2
  <2>4. \A k : LegOutcome(k)' =
              from_leg(asked'[k][2], history_lookup', depth'[asked'[k][1]])
    BY DEF LegOutcome, Depth
  <2>5. miss' # 0 => (LegOutcome(miss) # "Ok")'
    <3>1. miss # 0 => LegOutcome(miss) # "Ok"
      BY <1>0 DEF Remembering
    <3>2. ASSUME NEW k, k = miss', k # 0 PROVE LegOutcome(k)' # "Ok"
      BY <1>3, <1>6, <2>3, <3>1, <3>2
    <3> QED
      BY <2>4, <3>2 DEF LegOutcome, Depth
  <2>6. retried' # 0 => (LegOutcome(retried) # "Ok")'
    <3>1. retried # 0 => LegOutcome(retried) # "Ok"
      BY <1>0 DEF Remembering
    <3>2. ASSUME NEW k, k = retried', k # 0 PROVE LegOutcome(k)' # "Ok"
      BY <1>3, <1>6, <2>3, <3>1, <3>2
    <3> QED
      BY <2>4, <3>2 DEF LegOutcome, Depth
  <2> QED
    BY <1>1, <2>1, <2>2, <2>5, <2>6 DEF Remembering
<1>12. FailoversChain'
  BY AnswerInOrder
<1>13. MissIsLastResort'
  BY <1>1, <1>2, AnswerInOrder DEF MissIsLastResort, Pending
<1>14. SyntheticOnlyWithoutAnswer' /\ AnalyticsOnce'
  BY <1>0, <1>1, <1>2 DEF SyntheticOnlyWithoutAnswer, AnalyticsOnce, Pending
<1> QED
  BY <1>5, <1>7, <1>8, <1>9, <1>10, <1>11, <1>12, <1>13, <1>14 DEF SeqInv

(* The loop answers the client with what it just received. *)
LEMMA AnswersWithStep ==
    ASSUME SeqInv, NEW a \in Answers, Receive(a), AnswersWith(a)
    PROVE  SeqInv'
<1>0. SeqType /\ Counting /\ Visiting /\ Remembering /\ AnalyticsOnce
  BY DEF SeqInv
<1>1. /\ forwarding /\ response = Pending /\ forwarding' = FALSE
      /\ UNCHANGED <<depth, history_lookup, rate_gate, attempt, skipped, failovers>>
  BY DEF Receive, Received, request
<1>2. PICK status : Return(status, ThisAsk, IF Score(a) = "Ok" THEN index ELSE 0)
  BY DEF AnswersWith
<1>3. /\ n \in Nat /\ index \in 1..n /\ Len(asked) \in Nat /\ max_attempts \in Nat
      /\ attempt = Len(asked) + 1 /\ attempt \in 0..max_attempts
      /\ miss \in 0..Len(asked) /\ retried \in 0..Len(asked)
  BY <1>0, <1>1, SeqNumbers DEF SeqType, Counting
<1>4. /\ UNCHANGED <<index, miss, retried, prev_failed>>
      /\ response' = [status |-> status, from |-> Len(asked) + 1]
      /\ response'.from = Len(asked) + 1 /\ response'.from # 0
  BY <1>2, <1>3 DEF Return, ThisAsk
<1>5. response' \notin {Pending, Dropped}
  <2>1. Pending.from = 0 /\ Dropped.from = 0
    BY DEF Pending, Dropped
  <2> QED
    BY <1>4, <2>1
<1>6. n' = n /\ max_attempts' = max_attempts
  BY <1>1 DEF n, max_attempts
<1>7. /\ asked' \in Seq(Nat \X Answers) /\ recorded' \in Seq(Nat \X Outcome)
      /\ Len(asked') = Len(asked) + 1
      /\ asked'[Len(asked) + 1] = <<index, a>>
      /\ \A k \in 1..Len(asked) : asked'[k] = asked[k]
      /\ \A k \in 1..Len(asked) : LegOutcome(k)' = LegOutcome(k)
      /\ \A k : k = Len(asked) + 1 => LegOutcome(k)' = Score(a)
      /\ ScoredLikeALeg'
  BY AnswerBooked
<1>8. /\ analytics' \in Seq(Nat) /\ Len(analytics') = 1
      /\ analytics'[1] = IF Score(a) = "Ok" THEN index ELSE 0
  <2>1. analytics = <<>>
    BY <1>0, <1>1 DEF AnalyticsOnce
  <2>2. analytics' = Append(<<>>, IF Score(a) = "Ok" THEN index ELSE 0)
    BY <1>2, <2>1 DEF Return
  <2>3. (IF Score(a) = "Ok" THEN index ELSE 0) \in Nat
    BY <1>3
  <2> QED
    BY <2>2, <2>3
<1>9. SeqType'
  <2>1. index' \in 1..(n' + 1) /\ attempt' \in 0..max_attempts'
    BY <1>1, <1>3, <1>4, <1>6
  <2>2. /\ miss' \in 0..Len(asked') /\ retried' \in 0..Len(asked')
        /\ response'.from \in 0..Len(asked')
    BY <1>3, <1>4, <1>7
  <2>3. response' = [status |-> response'.status, from |-> response'.from]
    BY <1>4
  <2> QED
    BY <1>0, <1>1, <1>4, <1>7, <1>8, <2>1, <2>2, <2>3 DEF SeqType
<1>10. Counting'
  BY <1>1, <1>3, <1>5, <1>7 DEF Counting
<1>11. Blaming' /\ Visiting'
  BY <1>1, <1>5 DEF Blaming, Visiting
<1>12. Remembering'
  <2>1. /\ miss # 0 => LegOutcome(miss) # "Ok"
        /\ retried # 0 => LegOutcome(retried) # "Ok"
    BY <1>0 DEF Remembering
  <2>2. ASSUME NEW k \in 0..Len(asked), k # 0, LegOutcome(k) # "Ok"
        PROVE  LegOutcome(k)' # "Ok"
    BY <1>3, <1>7, <2>2
  <2>3. /\ miss # 0 => (LegOutcome(miss) # "Ok")'
        /\ retried # 0 => (LegOutcome(retried) # "Ok")'
    <3>1. \A k : LegOutcome(k)' =
                from_leg(asked'[k][2], history_lookup', depth'[asked'[k][1]])
      BY DEF LegOutcome, Depth
    <3>2. /\ miss # 0 => from_leg(asked'[miss][2], history_lookup', depth'[asked'[miss][1]]) # "Ok"
          /\ retried # 0 => from_leg(asked'[retried][2], history_lookup', depth'[asked'[retried][1]]) # "Ok"
      BY <1>3, <2>1, <2>2, <3>1
    <3> QED
      BY <1>4, <3>2 DEF LegOutcome, Depth
  <2> QED
    BY <1>4, <1>5, <2>3 DEF Remembering
<1>13. (LegOutcome(response.from))' = Score(a)
  BY <1>4, <1>7 DEF LegOutcome, Depth
<1>14. AnalyticsOnce'
  <2>1. analytics'[1] # 0 <=> Score(a) = "Ok"
    BY <1>3, <1>8
  <2>2. analytics'[1] # 0 => analytics'[1] = asked'[response'.from][1]
    BY <1>4, <1>7, <1>8
  <2> QED
    BY <1>4, <1>5, <1>8, <1>13, <2>1, <2>2 DEF AnalyticsOnce
<1>15. MissIsLastResort'
  <2>1. ASSUME history_lookup, Score(a) = "Miss", attempt # max_attempts,
               NEW j \in 1..n, depth[j] = "Full", j \notin skipped
        PROVE  \E k \in 1..Len(asked') : asked'[k][1] = j
    <3>1. ~(\E i \in (index + 1)..n : depth[i] = "Full")
      BY <1>3, <2>1 DEF AnswersWith, FullProviderFollows
    <3>2. j \in 1..index
      BY <1>3, <2>1, <3>1
    <3>3. CASE j = index
      <4>1. asked'[Len(asked) + 1][1] = j /\ Len(asked) + 1 \in 1..Len(asked')
        BY <1>3, <1>7, <3>3
      <4> QED
        BY <4>1
    <3>4. CASE j \in 1..(index - 1)
      <4>1. PICK k \in 1..Len(asked) : asked[k][1] = j
        BY <1>0, <1>1, <2>1, <3>4 DEF Visiting
      <4>2. k \in 1..Len(asked') /\ asked'[k] = asked[k]
        BY <1>3, <1>7
      <4> QED
        BY <4>1, <4>2
    <3> QED
      BY <1>3, <3>2, <3>3, <3>4
  <2>2. history_lookup' /\ (LegOutcome(response.from) = "Miss")' =>
            \/ attempt' = max_attempts'
            \/ \A j \in 1..n' : depth'[j] = "Full" =>
                    \/ j \in skipped'
                    \/ \E k \in 1..Len(asked') : asked'[k][1] = j
    BY <1>1, <1>6, <1>13, <2>1
  <2> QED
    BY <2>2, AnswerInOrder DEF MissIsLastResort
<1>16. SyntheticOnlyWithoutAnswer' /\ FailoversChain'
  BY <1>4, AnswerInOrder DEF SyntheticOnlyWithoutAnswer
<1> QED
  BY <1>7, <1>9, <1>10, <1>11, <1>12, <1>14, <1>15, <1>16 DEF SeqInv

(* The loop ran out of providers or attempts. *)
LEMMA ExhaustedStep ==
    ASSUME SeqInv, Exhausted
    PROVE  SeqInv'
<1>0. /\ SeqType /\ Counting /\ Visiting /\ Remembering /\ AnalyticsOnce
      /\ ScoredLikeALeg /\ FailoversChain /\ MissIsLastResort
  BY DEF SeqInv
<1>1. /\ response = Pending /\ ~forwarding
      /\ UNCHANGED <<depth, history_lookup, rate_gate, attempt, forwarding,
                     asked, skipped, recorded, failovers>>
      /\ ~(index <= n /\ attempt < max_attempts)
  BY DEF Exhausted, Looking, InLoop, request
<1>2. PICK from \in {0, miss, retried} :
        \E status :
          /\ Return(status, from, 0)
          /\ status = 502 \/ status = 200
          /\ from = 0 => miss = 0 /\ retried = 0
  <2>1. CASE miss # 0
    BY <2>1 DEF Exhausted
  <2>2. CASE miss = 0 /\ retried # 0
    BY <2>2 DEF Exhausted
  <2>3. CASE miss = 0 /\ retried = 0
    BY <2>3 DEF Exhausted
  <2> QED
    BY <2>1, <2>2, <2>3
<1>3. PICK status :
          /\ Return(status, from, 0)
          /\ status = 502 \/ status = 200
          /\ from = 0 => miss = 0 /\ retried = 0
  BY <1>2
<1>4. /\ n \in Nat /\ index \in 1..(n + 1) /\ Len(asked) \in Nat /\ max_attempts \in Nat
      /\ attempt = Len(asked) /\ attempt \in 0..max_attempts
      /\ miss \in 0..Len(asked) /\ retried \in 0..Len(asked) /\ from \in 0..Len(asked)
  BY <1>0, <1>1, SeqNumbers DEF SeqType, Counting, Pending, Dropped
<1>5. /\ UNCHANGED <<index, miss, retried, prev_failed>>
      /\ response' = [status |-> status, from |-> from]
      /\ response'.status = status /\ response'.from = from
  BY <1>3 DEF Return
<1>6. response' \notin {Pending, Dropped}
  <2>1. Pending.status = 0 /\ Dropped.status = -1
    BY DEF Pending, Dropped
  <2> QED
    BY <1>3, <1>5, <2>1
<1>7. n' = n /\ max_attempts' = max_attempts
  BY <1>1 DEF n, max_attempts
<1>8. \A k : LegOutcome(k)' = LegOutcome(k) /\ Depth(k)' = Depth(k)
  BY <1>1 DEF LegOutcome, Depth
<1>9. analytics' \in Seq(Nat) /\ Len(analytics') = 1 /\ analytics'[1] = 0
  <2>1. analytics = <<>>
    BY <1>0, <1>1 DEF AnalyticsOnce
  <2>2. analytics' = Append(<<>>, 0)
    BY <1>3, <2>1 DEF Return
  <2> QED
    BY <2>2
<1>10. SeqType'
  <2>1. response' = [status |-> response'.status, from |-> response'.from]
    BY <1>5
  <2> QED
    BY <1>0, <1>1, <1>4, <1>5, <1>7, <1>9, <2>1 DEF SeqType
<1>11. Counting'
  BY <1>1, <1>4, <1>6 DEF Counting
<1>12. Blaming' /\ Visiting'
  BY <1>1, <1>6 DEF Blaming, Visiting
<1>13. Remembering'
  BY <1>0, <1>5, <1>6, <1>8 DEF Remembering
<1>14. (LegOutcome(response.from))' = LegOutcome(from)
  BY <1>1, <1>5 DEF LegOutcome, Depth
<1>15. AnalyticsOnce'
  <2>1. from # 0 => LegOutcome(from) # "Ok"
    BY <1>0, <1>4 DEF Remembering
  <2> QED
    BY <1>5, <1>6, <1>9, <1>14, <2>1 DEF AnalyticsOnce
<1>16. SyntheticOnlyWithoutAnswer'
  <2>1. from = 0 => \A k \in 1..Len(asked) :
            IsErr(asked[k][2]) \/ is_retryable_http(asked[k][2].status)
    BY <1>0, <1>1, <1>3 DEF Remembering
  <2> QED
    BY <1>1, <1>5, <2>1 DEF SyntheticOnlyWithoutAnswer
<1>17. MissIsLastResort'
  <2>1. \/ attempt = max_attempts
        \/ \A j \in 1..n : j \in skipped \/ \E k \in 1..Len(asked) : asked[k][1] = j
    <3>1. attempt = max_attempts \/ index = n + 1
      BY <1>1, <1>4
    <3>2. index = n + 1 => index - 1 = n
      BY <1>4
    <3> QED
      BY <1>0, <1>1, <3>1, <3>2 DEF Visiting
  <2>2. \A j, k \in 1..Len(asked') :
          j < k /\ history_lookup' /\ LegOutcome(j)' = "Miss" => Depth(k)' = "Full"
    BY <1>0, <1>1, <1>8 DEF MissIsLastResort
  <2> QED
    BY <1>1, <1>7, <2>1, <2>2 DEF MissIsLastResort
<1>18. ScoredLikeALeg' /\ FailoversChain'
  BY <1>0, <1>1, <1>8 DEF ScoredLikeALeg, FailoversChain
<1> QED
  BY <1>10, <1>11, <1>12, <1>13, <1>15, <1>16, <1>17, <1>18 DEF SeqInv

(* The client goes away while a forward is under way. *)
LEMMA DisconnectStep ==
    ASSUME SeqInv, Disconnect
    PROVE  SeqInv'
<1>0. /\ SeqType /\ Counting /\ Remembering /\ AnalyticsOnce
      /\ ScoredLikeALeg /\ FailoversChain /\ MissIsLastResort
  BY DEF SeqInv
<1>1. /\ forwarding /\ response = Pending /\ forwarding' = FALSE /\ response' = Dropped
      /\ UNCHANGED <<depth, history_lookup, rate_gate, index, attempt, miss, retried,
                     prev_failed, asked, skipped, recorded, failovers, analytics>>
  BY DEF Disconnect, request
<1>2. Dropped # Pending /\ Dropped.from = 0 /\ Dropped.status # 502
  BY DEF Dropped, Pending
<1>3. n' = n /\ max_attempts' = max_attempts
  BY <1>1 DEF n, max_attempts
<1>4. \A k : LegOutcome(k)' = LegOutcome(k) /\ Depth(k)' = Depth(k)
  BY <1>1 DEF LegOutcome, Depth
<1>5. SeqType'
  <2>1. Dropped = [status |-> Dropped.status, from |-> Dropped.from]
    BY DEF Dropped
  <2>2. Dropped.from \in 0..Len(asked)
    BY <1>2, SeqNumbers, <1>0
  <2> QED
    BY <1>0, <1>1, <1>3, <2>1, <2>2 DEF SeqType
<1>6. Counting'
  BY <1>0, <1>1 DEF Counting
<1>7. Blaming' /\ Visiting' /\ Remembering'
  BY <1>0, <1>1, <1>2, <1>4 DEF Blaming, Visiting, Remembering
<1>8. ScoredLikeALeg' /\ FailoversChain' /\ AnalyticsOnce'
  BY <1>0, <1>1, <1>4 DEF ScoredLikeALeg, FailoversChain, AnalyticsOnce
<1>9. SyntheticOnlyWithoutAnswer' /\ MissIsLastResort'
  BY <1>0, <1>1, <1>2, <1>3, <1>4 DEF SyntheticOnlyWithoutAnswer, MissIsLastResort
<1> QED
  BY <1>5, <1>6, <1>7, <1>8, <1>9 DEF SeqInv

(* Every step of the sequential path keeps its invariant. *)
LEMMA SeqInvStep ==
    ASSUME SeqInv, Next
    PROVE  SeqInv'
<1>1. ASSUME NEW a \in Answers, Receive(a) PROVE SeqInv'
  BY <1>1, ReceiveForms, MovesOnStep, AnswersWithStep
<1> QED
  BY <1>1, SkipStep, ForwardStep, ExhaustedStep, DisconnectStep DEF Next, Step

-----------------------------------------------------------------------------
(* The broadcast path. *)
RaceType ==
    /\ depth \in Seq(Depths) /\ history_lookup \in BOOLEAN /\ rate_gate \in BOOLEAN
    /\ index \in 1..(n + 1)
    /\ joined \in Seq(Nat \X LegAnswers) /\ recorded \in Seq(Nat \X Outcome)
    /\ running \subseteq 1..n
    /\ best_error \in 0..Len(joined)
    /\ response = [status |-> response.status, from |-> response.from]
    /\ response.from \in 0..Len(joined)

(* Nothing is joined while legs are still being spawned, and a leg's task  *)
(* ends once.                                                              *)
Spawning ==
    /\ index <= n => recorded = <<>> /\ panicked = {} /\ response = Pending
    /\ running \cap panicked = {}

(* Until the client is answered no leg succeeded, and best_error is the    *)
(* first of the best answers.                                              *)
Undecided ==
    response = Pending =>
        /\ \A k \in 1..Len(joined) : B!OutcomeAt(k) # "Ok"
        /\ best_error = 0 => \A k \in 1..Len(joined) : B!IsErr(joined[k][2])
        /\ best_error # 0 =>
            \A k \in 1..Len(joined) : ~B!IsErr(joined[k][2]) =>
                /\ B!RankAt(k) <= B!RankAt(best_error)
                /\ k < best_error => B!RankAt(k) < B!RankAt(best_error)

(* The best error is the response only after the last leg, and a client    *)
(* that went away has no legs left.                                        *)
Decided ==
    /\ B!Draining /\ response.from = best_error => running = {}
    /\ response = Dropped => running = {}

RaceInv ==
    /\ RaceType /\ Spawning /\ Undecided /\ Decided
    /\ B!SuccessNeverMasked /\ B!BestErrorReturned /\ B!BookedOnce

LEMMA RaceInvInit == HandleInit => RaceInv
<1> SUFFICES ASSUME HandleInit PROVE RaceInv
  OBVIOUS
<1>1. SeqType
  BY SeqInvInit DEF HandleInit, SeqInv
<1>2. /\ joined = <<>> /\ Len(joined) = 0 /\ recorded = <<>> /\ Len(recorded) = 0
      /\ running = {} /\ panicked = {} /\ best_error = 0
      /\ response = Pending /\ analytics = <<>>
  BY DEF HandleInit, Init
<1>3. Pending = B!Pending /\ Dropped = B!Dropped /\ Pending # Dropped
  BY DEF Pending, B!Pending, Dropped, B!Dropped
<1>4. RaceType
  <2>1. joined \in Seq(Nat \X LegAnswers) /\ recorded \in Seq(Nat \X Outcome)
    BY <1>2, EmptySeq
  <2>2. /\ response = [status |-> response.status, from |-> response.from]
        /\ response.from \in 0..Len(joined)
    BY <1>2 DEF Pending
  <2> QED
    BY <1>1, <1>2, <2>1, <2>2 DEF SeqType, RaceType
<1>5. Spawning /\ Undecided /\ Decided
  BY <1>2, <1>3 DEF Spawning, Undecided, Decided, B!Draining
<1>6. B!SuccessNeverMasked /\ B!BestErrorReturned /\ B!BookedOnce
  BY <1>2, <1>3 DEF B!SuccessNeverMasked, B!BestErrorReturned, B!BookedOnce
<1> QED
  BY <1>4, <1>5, <1>6 DEF RaceInv

(* What the race's invariant says, with the names of the two paths matched. *)
LEMMA RaceFacts ==
    ASSUME RaceInv
    PROVE  /\ RaceType /\ Spawning /\ Undecided /\ Decided
           /\ B!SuccessNeverMasked /\ B!BestErrorReturned /\ B!BookedOnce
           /\ n \in Nat /\ Len(joined) \in Nat /\ Len(recorded) \in Nat
           /\ best_error \in Nat /\ response.from \in Nat
           /\ B!n = n /\ B!Pending = Pending /\ B!Dropped = Dropped
           /\ Pending # Dropped
           /\ Pending.status = 0 /\ Dropped.status = -1
           /\ Pending.from = 0 /\ Dropped.from = 0
<1>1. n \in Nat /\ Len(joined) \in Nat /\ Len(recorded) \in Nat
  BY LenProperties DEF RaceInv, RaceType, n
<1>2. best_error \in Nat /\ response.from \in Nat
  BY <1>1 DEF RaceInv, RaceType
<1> QED
  BY <1>1, <1>2 DEF RaceInv, n, B!n, Pending, B!Pending, Dropped, B!Dropped

(* Scores are outcomes on this path, too. *)
LEMMA LegScoreType ==
    ASSUME NEW leg, NEW a
    PROVE  /\ B!LegOutcome(leg, a) \in Outcome
           /\ B!IsErr(a) => B!LegOutcome(leg, a) # "Ok"
<1>1. B!from_status(a.status) \in Outcome
  BY DEF B!from_status, Outcome
<1>2. B!from_rpc_error(a.body) \in Outcome
  BY DEF B!from_rpc_error, Outcome
<1>3. "Ok" \in Outcome /\ "Miss" \in Outcome
  BY DEF Outcome
<1>4. ASSUME B!IsErr(a) PROVE B!LegOutcome(leg, a) # "Ok"
  BY <1>4 DEF B!IsErr, B!TransportError, B!LegOutcome, B!from_leg, B!from_status, B!Is2xx
<1> QED
  BY <1>1, <1>2, <1>3, <1>4 DEF B!LegOutcome, B!from_leg

(* Scores and ranks depend on the joined answers alone. *)
LEMMA SameJoined ==
    ASSUME UNCHANGED <<joined, depth, history_lookup>>
    PROVE  /\ n' = n
           /\ \A k : B!OutcomeAt(k)' = B!OutcomeAt(k)
           /\ \A k : B!RankAt(k)' = B!RankAt(k)
  BY DEF B!OutcomeAt, B!RankAt, B!LegOutcome, n

(* The race ends without a success. *)
LEMMA ErrorAnswered ==
    ASSUME RaceInv, response = Pending, index > n, running = {},
           NEW from \in {0, best_error}, NEW status, from = 0 => status \in {502, 503},
           B!Return(status, from, 0),
           UNCHANGED <<depth, history_lookup, rate_gate, index, running, joined,
                       best_error, recorded, panicked>>
    PROVE  RaceInv'
<1>0. /\ RaceType /\ Spawning /\ Undecided /\ Decided /\ B!BookedOnce
      /\ n \in Nat /\ Len(joined) \in Nat /\ Pending # Dropped
      /\ B!Pending = Pending /\ B!Dropped = Dropped
      /\ Pending.status = 0 /\ Dropped.status = -1 /\ Pending.from = 0 /\ Dropped.from = 0
  BY RaceFacts
<1>1. /\ response' = [status |-> status, from |-> from]
      /\ response'.status = status /\ response'.from = from
      /\ analytics' = Append(analytics, 0)
  BY DEF B!Return
<1>2. response' \notin {Pending, Dropped}
  BY <1>0, <1>1
<1>3. from \in 0..Len(joined)
  BY <1>0 DEF RaceType
<1>4. analytics' = <<0>>
  <2>1. analytics = <<>>
    BY <1>0 DEF B!BookedOnce
  <2> QED
    BY <1>1, <2>1
<1>5. \A k \in 1..Len(joined) : B!OutcomeAt(k) # "Ok"
  BY <1>0 DEF Undecided
<1>6. RaceType'
  <2>1. /\ response' = [status |-> response'.status, from |-> response'.from]
        /\ response'.from \in 0..Len(joined')
    BY <1>1, <1>3
  <2> QED
    BY <1>0, <2>1, SameJoined DEF RaceType
<1>7. Spawning'
  <2>1. ~(index' <= n')
    BY <1>0, SameJoined DEF RaceType
  <2> QED
    BY <1>0, <2>1 DEF Spawning
<1>8. Undecided' /\ Decided'
  BY <1>2 DEF Undecided, Decided
<1>9. B!SuccessNeverMasked'
  BY <1>5, SameJoined DEF B!SuccessNeverMasked
<1>10. B!BestErrorReturned'
  <2>1. /\ best_error = 0 => \A k \in 1..Len(joined) : B!IsErr(joined[k][2])
        /\ best_error # 0 =>
            \A k \in 1..Len(joined) : ~B!IsErr(joined[k][2]) =>
                /\ B!RankAt(k) <= B!RankAt(best_error)
                /\ k < best_error => B!RankAt(k) < B!RankAt(best_error)
    BY <1>0 DEF Undecided
  <2>2. (B!RankAt(best_error))' = B!RankAt(best_error)
    BY DEF B!RankAt, B!LegOutcome
  <2> QED
    BY <2>1, <2>2, SameJoined DEF B!BestErrorReturned
<1>11. B!BookedOnce'
  <2>1. from # 0 => from \in 1..Len(joined)
    BY <1>0, <1>3
  <2>2. ~(from # 0 /\ B!OutcomeAt(from) = "Ok")
    BY <1>5, <2>1
  <2>3. (B!OutcomeAt(response.from))' = B!OutcomeAt(from)
    BY <1>1 DEF B!OutcomeAt, B!LegOutcome
  <2>4. /\ \A j, k \in 1..Len(recorded) : recorded[j][1] = recorded[k][1] => j = k
        /\ \A k \in 1..Len(recorded) : recorded[k][1] \notin running \cup panicked
    BY <1>0 DEF B!BookedOnce
  <2> QED
    BY <1>0, <1>1, <1>2, <1>4, <2>2, <2>3, <2>4 DEF B!BookedOnce
<1> QED
  BY <1>6, <1>7, <1>8, <1>9, <1>10, <1>11 DEF RaceInv

(* Nothing to send the request to. *)
LEMMA NoProvidersStep ==
    ASSUME RaceInv, B!NoProviders
    PROVE  RaceInv'
<1>1. RaceType /\ B!n = n /\ B!Pending = Pending /\ n \in Nat
  BY RaceFacts
<1>2. response = Pending /\ n = 0 /\ B!Return(503, 0, 0)
  BY <1>1 DEF B!NoProviders
<1>3. running = {} /\ index > n
  BY <1>1, <1>2 DEF RaceType
<1>4. UNCHANGED <<depth, history_lookup, rate_gate, index, running, joined,
                  best_error, recorded, panicked>>
  BY DEF B!NoProviders, B!request
<1> QED
  BY <1>2, <1>3, <1>4, ErrorAnswered

(* Every leg ended without a success. *)
LEMMA AllFailedStep ==
    ASSUME RaceInv, B!AllFailed
    PROVE  RaceInv'
<1>1. RaceType /\ B!n = n /\ B!Pending = Pending /\ n \in Nat
  BY RaceFacts
<1>2. response = Pending /\ index > n /\ running = {}
  BY <1>1 DEF B!AllFailed, B!Racing
<1>3. UNCHANGED <<depth, history_lookup, rate_gate, index, running, joined,
                  best_error, recorded, panicked>>
  BY DEF B!AllFailed, B!request
<1>4. CASE best_error # 0
  <2>1. B!Return(joined[best_error][2].status, best_error, 0)
    BY <1>4 DEF B!AllFailed
  <2> QED
    BY <1>2, <1>3, <1>4, <2>1, ErrorAnswered
<1>5. CASE best_error = 0
  <2>1. B!Return(502, 0, 0)
    BY <1>5 DEF B!AllFailed
  <2> QED
    BY <1>2, <1>3, <2>1, ErrorAnswered
<1> QED
  BY <1>4, <1>5

(* The legs are spawned. *)
LEMMA SpawnLegStep ==
    ASSUME RaceInv, NEW client \in BOOLEAN, NEW token \in BOOLEAN, B!SpawnLeg(client, token)
    PROVE  RaceInv'
<1>0. /\ RaceType /\ Spawning /\ Undecided /\ Decided
      /\ B!SuccessNeverMasked /\ B!BestErrorReturned /\ B!BookedOnce
      /\ n \in Nat /\ Len(joined) \in Nat /\ Pending # Dropped
      /\ B!n = n /\ B!Pending = Pending /\ B!Dropped = Dropped
  BY RaceFacts
<1>1. /\ response = Pending /\ index <= n /\ index' = index + 1
      /\ running' \in {running, running \cup {index}}
      /\ UNCHANGED <<depth, history_lookup, rate_gate, joined, best_error, recorded,
                     panicked, response, analytics>>
  BY <1>0 DEF B!SpawnLeg, B!request
<1>2. recorded = <<>> /\ panicked = {}
  BY <1>0, <1>1 DEF Spawning
<1>3. RaceType'
  <2>1. index' \in 1..(n' + 1) /\ running' \subseteq 1..n'
    BY <1>0, <1>1, SameJoined DEF RaceType
  <2> QED
    BY <1>0, <1>1, <2>1 DEF RaceType
<1>4. Spawning'
  BY <1>1, <1>2 DEF Spawning
<1>5. Undecided'
  <2>1. (B!RankAt(best_error))' = B!RankAt(best_error)
    BY <1>1 DEF B!RankAt, B!LegOutcome
  <2> QED
    BY <1>0, <1>1, <2>1, SameJoined DEF Undecided
<1>6. Decided'
  BY <1>0, <1>1 DEF Decided, B!Draining
<1>7. B!SuccessNeverMasked'
  BY <1>0, <1>1 DEF B!SuccessNeverMasked
<1>8. B!BestErrorReturned'
  <2>1. (B!RankAt(best_error))' = B!RankAt(best_error)
    BY <1>1 DEF B!RankAt, B!LegOutcome
  <2> QED
    BY <1>0, <1>1, <2>1, SameJoined DEF B!BestErrorReturned, Undecided
<1>9. B!BookedOnce'
  BY <1>0, <1>1, <1>2 DEF B!BookedOnce
<1> QED
  BY <1>3, <1>4, <1>5, <1>6, <1>7, <1>8, <1>9 DEF RaceInv

(* Ranks are numbers. *)
LEMMA RankType ==
    ASSUME NEW outcome, NEW a
    PROVE  B!broadcast_error_rank(outcome, a) \in Nat
  BY DEF B!broadcast_error_rank

LEMMA RankAtType ==
    ASSUME NEW k
    PROVE  B!RankAt(k) \in Nat
  BY RankType DEF B!RankAt

(* The books after a leg was joined, by the handler or by the drain: one   *)
(* more answer, the earlier ones as they were, and the leg recorded for    *)
(* the first time.                                                         *)
LEMMA LegBooked ==
    ASSUME RaceInv, index > n, NEW leg \in running, NEW a \in LegAnswers, B!Joined(leg, a)
    PROVE  /\ joined' \in Seq(Nat \X LegAnswers) /\ recorded' \in Seq(Nat \X Outcome)
           /\ Len(joined') = Len(joined) + 1
           /\ joined'[Len(joined) + 1] = <<leg, a>>
           /\ \A k \in 1..Len(joined) : joined'[k] = joined[k]
           /\ \A k \in 1..Len(joined) : B!OutcomeAt(k)' = B!OutcomeAt(k)
           /\ \A k \in 1..Len(joined) : B!RankAt(k)' = B!RankAt(k)
           /\ \A k : k = Len(joined) + 1 =>
                /\ B!OutcomeAt(k)' = B!LegOutcome(leg, a)
                /\ B!RankAt(k)' = B!broadcast_error_rank(B!LegOutcome(leg, a), a)
           /\ n' = n /\ running' = running \ {leg}
           /\ UNCHANGED <<depth, history_lookup, rate_gate, index, panicked>>
           /\ Spawning'
           /\ \A j, k \in 1..Len(recorded') : recorded'[j][1] = recorded'[k][1] => j = k
           /\ \A k \in 1..Len(recorded') : recorded'[k][1] \notin running' \cup panicked'
<1>0. /\ RaceType /\ Spawning /\ B!BookedOnce
      /\ n \in Nat /\ Len(joined) \in Nat /\ Len(recorded) \in Nat
  BY RaceFacts
<1>1. /\ running' = running \ {leg} /\ n' = n
      /\ UNCHANGED <<depth, history_lookup, rate_gate, index, panicked>>
      /\ joined' = Append(joined, <<leg, a>>)
  BY DEF B!Joined, B!request, n
<1>2. PICK o \in Outcome : recorded' = Append(recorded, <<leg, o>>)
  <2>1. "ProviderError" \in Outcome
    BY DEF Outcome
  <2> QED
    BY <2>1, LegScoreType DEF B!Joined
<1>3. leg \in Nat /\ <<leg, a>> \in Nat \X LegAnswers /\ <<leg, o>> \in Nat \X Outcome
  BY <1>0 DEF RaceType
<1>4. /\ joined' \in Seq(Nat \X LegAnswers)
      /\ Len(joined') = Len(joined) + 1
      /\ \A k \in 1..Len(joined) : joined'[k] = joined[k]
      /\ joined'[Len(joined) + 1] = <<leg, a>>
  <2>1. joined \in Seq(Nat \X LegAnswers)
    BY <1>0 DEF RaceType
  <2> QED
    BY <1>1, <1>3, <2>1, Appended
<1>5. /\ recorded' \in Seq(Nat \X Outcome)
      /\ Len(recorded') = Len(recorded) + 1
      /\ \A k \in 1..Len(recorded) : recorded'[k] = recorded[k]
      /\ recorded'[Len(recorded) + 1] = <<leg, o>>
  <2>1. recorded \in Seq(Nat \X Outcome)
    BY <1>0 DEF RaceType
  <2> QED
    BY <1>2, <1>3, <2>1, Appended
<1>6. \A k \in 1..Len(joined) : B!OutcomeAt(k)' = B!OutcomeAt(k) /\ B!RankAt(k)' = B!RankAt(k)
  BY <1>1, <1>4 DEF B!OutcomeAt, B!RankAt, B!LegOutcome
<1>7. ASSUME NEW k, k = Len(joined) + 1
      PROVE  /\ B!OutcomeAt(k)' = B!LegOutcome(leg, a)
             /\ B!RankAt(k)' = B!broadcast_error_rank(B!LegOutcome(leg, a), a)
  BY <1>1, <1>4, <1>7 DEF B!OutcomeAt, B!RankAt, B!LegOutcome
<1>8. Spawning'
  <2>1. ~(index' <= n') /\ running' \cap panicked' = {}
    BY <1>0, <1>1 DEF RaceType, Spawning
  <2> QED
    BY <2>1 DEF Spawning
<1>9. /\ \A j, k \in 1..Len(recorded) : recorded[j][1] = recorded[k][1] => j = k
      /\ \A k \in 1..Len(recorded) : recorded[k][1] \notin running \cup panicked
      /\ leg \notin panicked
  BY <1>0 DEF B!BookedOnce, Spawning
<1>10. ASSUME NEW k \in 1..Len(recorded')
       PROVE  \/ k \in 1..Len(recorded) /\ recorded'[k] = recorded[k] /\ recorded[k][1] # leg
              \/ k = Len(recorded) + 1 /\ recorded'[k][1] = leg
  <2>1. CASE k \in 1..Len(recorded)
    BY <1>5, <1>9, <2>1
  <2>2. CASE k = Len(recorded) + 1
    BY <1>5, <2>2
  <2> QED
    BY <1>0, <1>5, <2>1, <2>2
<1>11. \A j, k \in 1..Len(recorded') : recorded'[j][1] = recorded'[k][1] => j = k
  BY <1>9, <1>10
<1>12. \A k \in 1..Len(recorded') : recorded'[k][1] \notin running' \cup panicked'
  BY <1>1, <1>9, <1>10
<1> QED
  BY <1>1, <1>4, <1>5, <1>6, <1>7, <1>8, <1>11, <1>12

(* The first success answers the client. *)
LEMMA FirstSuccessStep ==
    ASSUME RaceInv, NEW leg \in running, NEW a \in LegAnswers, B!FirstSuccess(leg, a)
    PROVE  RaceInv'
<1>0. /\ RaceType /\ B!BookedOnce
      /\ n \in Nat /\ Len(joined) \in Nat /\ best_error \in 0..Len(joined)
      /\ B!n = n /\ B!Pending = Pending /\ B!Dropped = Dropped
      /\ Pending.from = 0 /\ Dropped.from = 0
  BY RaceFacts DEF RaceType
<1>1. /\ response = Pending /\ index > n
      /\ B!Joined(leg, a) /\ best_error' = best_error
      /\ B!LegOutcome(leg, a) = "Ok"
      /\ B!Return(200, Len(joined) + 1, leg)
  BY <1>0 DEF B!FirstSuccess, B!Racing
<1>2. /\ response' = [status |-> 200, from |-> Len(joined) + 1]
      /\ response'.status = 200 /\ response'.from = Len(joined) + 1
      /\ analytics' = Append(analytics, leg)
  BY <1>1 DEF B!Return
<1>3. response' \notin {Pending, Dropped} /\ response'.from # best_error'
  BY <1>0, <1>1, <1>2
<1>4. analytics' = <<leg>>
  <2>1. analytics = <<>>
    BY <1>0, <1>1 DEF B!BookedOnce
  <2> QED
    BY <1>2, <2>1
<1>5. /\ joined' \in Seq(Nat \X LegAnswers) /\ recorded' \in Seq(Nat \X Outcome)
      /\ Len(joined') = Len(joined) + 1
      /\ joined'[Len(joined) + 1] = <<leg, a>>
      /\ n' = n /\ running' = running \ {leg}
      /\ UNCHANGED <<depth, history_lookup, rate_gate, index, panicked>>
      /\ Spawning'
      /\ \A j, k \in 1..Len(recorded') : recorded'[j][1] = recorded'[k][1] => j = k
      /\ \A k \in 1..Len(recorded') : recorded'[k][1] \notin running' \cup panicked'
  BY <1>1, LegBooked
<1>6. (B!OutcomeAt(response.from))' = "Ok" /\ (joined[response.from])' = <<leg, a>>
  BY <1>1, <1>2, <1>5 DEF B!OutcomeAt, B!LegOutcome
<1>7. RaceType'
  <2>1. /\ response' = [status |-> response'.status, from |-> response'.from]
        /\ response'.from \in 0..Len(joined') /\ best_error' \in 0..Len(joined')
    BY <1>0, <1>1, <1>2, <1>5
  <2>2. running' \subseteq 1..n'
    BY <1>0, <1>5 DEF RaceType
  <2> QED
    BY <1>0, <1>5, <2>1, <2>2 DEF RaceType
<1>8. Undecided' /\ Decided'
  BY <1>3 DEF Undecided, Decided
<1>9. B!SuccessNeverMasked'
  BY <1>0, <1>2, <1>6 DEF B!SuccessNeverMasked
<1>10. B!BestErrorReturned'
  BY <1>0, <1>3 DEF B!BestErrorReturned, B!Racing
<1>11. B!BookedOnce'
  <2>1. analytics' = <<joined'[response'.from][1]>>
    BY <1>4, <1>6
  <2>2. response'.from # 0
    BY <1>0, <1>2
  <2> QED
    BY <1>0, <1>3, <1>5, <1>6, <2>1, <2>2 DEF B!BookedOnce
<1> QED
  BY <1>5, <1>7, <1>8, <1>9, <1>10, <1>11 DEF RaceInv

(* A leg fails while the race is on. *)
LEMMA FailedLegStep ==
    ASSUME RaceInv, NEW leg \in running, NEW a \in LegAnswers, B!FailedLeg(leg, a)
    PROVE  RaceInv'
<1>0. /\ RaceType /\ Undecided /\ B!BookedOnce
      /\ n \in Nat /\ Len(joined) \in Nat /\ best_error \in 0..Len(joined)
      /\ B!n = n /\ B!Pending = Pending /\ B!Dropped = Dropped /\ Pending # Dropped
      /\ Pending.from = 0
  BY RaceFacts DEF RaceType
<1>1. /\ response = Pending /\ index > n
      /\ B!Joined(leg, a) /\ UNCHANGED <<response, analytics>>
      /\ B!LegOutcome(leg, a) # "Ok"
      /\ best_error' = IF ~B!IsErr(a) /\ B!BetterError(leg, a) THEN Len(joined) + 1
                                                               ELSE best_error
  BY <1>0, LegScoreType DEF B!FailedLeg, B!Racing
<1>2. /\ joined' \in Seq(Nat \X LegAnswers) /\ recorded' \in Seq(Nat \X Outcome)
      /\ Len(joined') = Len(joined) + 1
      /\ joined'[Len(joined) + 1] = <<leg, a>>
      /\ \A k \in 1..Len(joined) : joined'[k] = joined[k]
      /\ \A k \in 1..Len(joined) : B!OutcomeAt(k)' = B!OutcomeAt(k)
      /\ \A k \in 1..Len(joined) : B!RankAt(k)' = B!RankAt(k)
      /\ \A k : k = Len(joined) + 1 =>
            /\ B!OutcomeAt(k)' = B!LegOutcome(leg, a)
            /\ B!RankAt(k)' = B!broadcast_error_rank(B!LegOutcome(leg, a), a)
      /\ n' = n /\ running' = running \ {leg}
      /\ UNCHANGED <<depth, history_lookup, rate_gate, index, panicked>>
      /\ Spawning'
      /\ \A j, k \in 1..Len(recorded') : recorded'[j][1] = recorded'[k][1] => j = k
      /\ \A k \in 1..Len(recorded') : recorded'[k][1] \notin running' \cup panicked'
  BY <1>1, LegBooked
<1>3. RaceType'
  <2>1. /\ response' = [status |-> response'.status, from |-> response'.from]
        /\ response'.from \in 0..Len(joined') /\ best_error' \in 0..Len(joined')
    BY <1>0, <1>1, <1>2 DEF Pending
  <2>2. running' \subseteq 1..n'
    BY <1>0, <1>2 DEF RaceType
  <2> QED
    BY <1>0, <1>2, <2>1, <2>2 DEF RaceType
<1>4. \A k \in 1..Len(joined') : B!OutcomeAt(k)' # "Ok"
  <2> SUFFICES ASSUME NEW k \in 1..Len(joined')
               PROVE  B!OutcomeAt(k)' # "Ok"
    OBVIOUS
  <2>1. CASE k \in 1..Len(joined)
    BY <1>0, <1>1, <1>2, <2>1 DEF Undecided
  <2>2. CASE k = Len(joined) + 1
    BY <1>1, <1>2, <2>2
  <2> QED
    BY <1>0, <1>2, <2>1, <2>2
<1> DEFINE rank == B!broadcast_error_rank(B!LegOutcome(leg, a), a)
<1>5. rank \in Nat /\ \A k : B!RankAt(k) \in Nat
  BY RankType, RankAtType
<1>6. ASSUME best_error' = 0
      PROVE  \A k \in 1..Len(joined') : B!IsErr(joined'[k][2])
  <2>1. best_error = 0 /\ B!IsErr(a)
    BY <1>0, <1>1, <1>6 DEF B!BetterError
  <2>2. \A k \in 1..Len(joined) : B!IsErr(joined[k][2])
    BY <1>0, <1>1, <2>1 DEF Undecided
  <2> SUFFICES ASSUME NEW k \in 1..Len(joined')
               PROVE  B!IsErr(joined'[k][2])
    OBVIOUS
  <2>3. CASE k \in 1..Len(joined)
    BY <1>2, <2>2, <2>3
  <2>4. CASE k = Len(joined) + 1
    BY <1>2, <2>1, <2>4
  <2> QED
    BY <1>0, <1>2, <2>3, <2>4
<1>7. ASSUME NEW k \in 1..Len(joined'), ~B!IsErr(joined'[k][2]),
             NEW best, best = best_error', best # 0
      PROVE  /\ B!RankAt(k)' <= B!RankAt(best)'
             /\ k < best => B!RankAt(k)' < B!RankAt(best)'
  <2>0. /\ best_error = 0 => \A i \in 1..Len(joined) : B!IsErr(joined[i][2])
        /\ best_error # 0 =>
            \A i \in 1..Len(joined) : ~B!IsErr(joined[i][2]) =>
                /\ B!RankAt(i) <= B!RankAt(best_error)
                /\ i < best_error => B!RankAt(i) < B!RankAt(best_error)
    BY <1>0, <1>1 DEF Undecided
  <2>1. CASE ~B!IsErr(a) /\ B!BetterError(leg, a)
    <3>1. best = Len(joined) + 1 /\ B!RankAt(best)' = rank
      BY <1>1, <1>2, <1>7, <2>1
    <3>2. CASE k = Len(joined) + 1
      BY <1>0, <1>5, <3>1, <3>2
    <3>3. CASE k \in 1..Len(joined)
      <4>1. ~B!IsErr(joined[k][2]) /\ B!RankAt(k)' = B!RankAt(k)
        BY <1>2, <1>7, <3>3
      <4>2. best_error # 0 /\ B!RankAt(k) <= B!RankAt(best_error)
        BY <2>0, <3>3, <4>1
      <4>3. rank > B!RankAt(best_error)
        BY <2>1, <4>2 DEF B!BetterError
      <4> QED
        BY <1>5, <3>1, <4>1, <4>2, <4>3
    <3> QED
      BY <1>0, <1>2, <3>2, <3>3
  <2>2. CASE ~(~B!IsErr(a) /\ B!BetterError(leg, a))
    <3>1. best = best_error /\ best \in 1..Len(joined) /\ B!RankAt(best)' = B!RankAt(best)
      <4>1. best = best_error
        BY <1>1, <1>7, <2>2
      <4>2. best \in 1..Len(joined)
        BY <1>0, <1>7, <4>1
      <4> QED
        BY <1>2, <4>1, <4>2
    <3>2. CASE k = Len(joined) + 1
      <4>1. ~B!IsErr(a) /\ B!RankAt(k)' = rank
        BY <1>2, <1>7, <3>2
      <4>2. ~(rank > B!RankAt(best_error))
        BY <2>2, <4>1 DEF B!BetterError
      <4>3. rank <= B!RankAt(best)
        BY <1>5, <3>1, <4>2
      <4>4. ~(k < best)
        BY <1>0, <3>1, <3>2
      <4> QED
        BY <3>1, <4>1, <4>3, <4>4
    <3>3. CASE k \in 1..Len(joined)
      <4>1. ~B!IsErr(joined[k][2]) /\ B!RankAt(k)' = B!RankAt(k)
        BY <1>2, <1>7, <3>3
      <4> QED
        BY <1>7, <2>0, <3>1, <3>3, <4>1
    <3> QED
      BY <1>0, <1>2, <3>2, <3>3
  <2> QED
    BY <2>1, <2>2
<1>8. best_error' # 0 =>
        \A k \in 1..Len(joined') : ~B!IsErr(joined'[k][2]) =>
            /\ B!RankAt(k)' <= (B!RankAt(best_error))'
            /\ k < best_error' => B!RankAt(k)' < (B!RankAt(best_error))'
  <2>1. ASSUME NEW best, best = best_error'
        PROVE  B!RankAt(best)' = (B!RankAt(best_error))'
    BY <2>1 DEF B!RankAt, B!LegOutcome
  <2> QED
    BY <1>7, <2>1
<1>9. Undecided'
  BY <1>4, <1>6, <1>8 DEF Undecided
<1>10. Decided' /\ B!SuccessNeverMasked'
  BY <1>0, <1>1 DEF Decided, B!Draining, B!SuccessNeverMasked
<1>11. B!BestErrorReturned'
  BY <1>6, <1>8 DEF B!BestErrorReturned
<1>12. B!BookedOnce'
  <2>1. analytics = <<>>
    BY <1>0, <1>1 DEF B!BookedOnce
  <2> QED
    BY <1>0, <1>1, <1>2, <2>1 DEF B!BookedOnce
<1> QED
  BY <1>2, <1>3, <1>9, <1>10, <1>11, <1>12 DEF RaceInv

(* The drain joins a leg after the response. *)
LEMMA StragglerStep ==
    ASSUME RaceInv, NEW leg \in running, NEW a \in LegAnswers, B!Straggler(leg, a)
    PROVE  RaceInv'
<1>0. /\ RaceType /\ Spawning /\ Decided /\ B!SuccessNeverMasked /\ B!BookedOnce
      /\ n \in Nat /\ Len(joined) \in Nat /\ best_error \in 0..Len(joined)
      /\ response.from \in 0..Len(joined)
      /\ B!n = n /\ B!Pending = Pending /\ B!Dropped = Dropped
  BY RaceFacts DEF RaceType
<1>1. /\ response \notin {Pending, Dropped} /\ B!Draining
      /\ B!Joined(leg, a) /\ UNCHANGED <<best_error, response, analytics>>
  BY <1>0 DEF B!Straggler, B!Draining
<1>2. index > n
  BY <1>0, <1>1 DEF Spawning, RaceType
<1>3. /\ joined' \in Seq(Nat \X LegAnswers) /\ recorded' \in Seq(Nat \X Outcome)
      /\ Len(joined') = Len(joined) + 1
      /\ \A k \in 1..Len(joined) : joined'[k] = joined[k]
      /\ \A k \in 1..Len(joined) : B!OutcomeAt(k)' = B!OutcomeAt(k)
      /\ n' = n /\ running' = running \ {leg}
      /\ UNCHANGED <<depth, history_lookup, rate_gate, index, panicked>>
      /\ Spawning'
      /\ \A j, k \in 1..Len(recorded') : recorded'[j][1] = recorded'[k][1] => j = k
      /\ \A k \in 1..Len(recorded') : recorded'[k][1] \notin running' \cup panicked'
  BY <1>1, <1>2, LegBooked
<1>4. response.from # best_error
  BY <1>0, <1>1 DEF Decided
<1>5. response.from # 0 /\ B!OutcomeAt(response.from) = "Ok"
  BY <1>0, <1>1 DEF B!SuccessNeverMasked
<1>6. response.from \in 1..Len(joined)
  BY <1>0, <1>5
<1>7. /\ (B!OutcomeAt(response.from))' = "Ok"
      /\ joined'[response.from] = joined[response.from]
  BY <1>1, <1>3, <1>5, <1>6 DEF B!OutcomeAt, B!LegOutcome
<1>8. RaceType'
  <2>1. response'.from \in 0..Len(joined') /\ best_error' \in 0..Len(joined')
    BY <1>0, <1>1, <1>3
  <2>2. running' \subseteq 1..n'
    BY <1>0, <1>3 DEF RaceType
  <2> QED
    BY <1>0, <1>1, <1>3, <2>1, <2>2 DEF RaceType
<1>9. Undecided' /\ Decided'
  BY <1>1, <1>4 DEF Undecided, Decided
<1>10. B!SuccessNeverMasked'
  BY <1>1, <1>5, <1>7 DEF B!SuccessNeverMasked
<1>11. B!BestErrorReturned'
  BY <1>0, <1>1, <1>4 DEF B!BestErrorReturned, B!Racing
<1>12. B!BookedOnce'
  <2>1. analytics = <<joined[response.from][1]>>
    BY <1>0, <1>1, <1>5 DEF B!BookedOnce
  <2> QED
    BY <1>0, <1>1, <1>3, <1>5, <1>7, <2>1 DEF B!BookedOnce
<1> QED
  BY <1>3, <1>8, <1>9, <1>10, <1>11, <1>12 DEF RaceInv

(* A leg's task ends without an answer, or the client goes away and all    *)
(* of them do.                                                             *)
LEMMA LegLostStep ==
    ASSUME RaceInv, B!Disconnect \/ \E leg \in running : B!Panic(leg)
    PROVE  RaceInv'
<1>0. /\ RaceType /\ Spawning /\ Undecided /\ Decided
      /\ B!SuccessNeverMasked /\ B!BestErrorReturned /\ B!BookedOnce
      /\ n \in Nat /\ Len(joined) \in Nat
      /\ B!n = n /\ B!Pending = Pending /\ B!Dropped = Dropped /\ Pending # Dropped
      /\ Dropped.from = 0
  BY RaceFacts
<1>1. /\ UNCHANGED <<depth, history_lookup, rate_gate, index, joined, best_error,
                     recorded, analytics>>
      /\ running' \subseteq running /\ index > n
  <2>1. CASE B!Disconnect
    BY <1>0, <2>1 DEF B!Disconnect, B!request, B!Racing
  <2>2. CASE \E leg \in running : B!Panic(leg)
    BY <1>0, <2>2 DEF B!Panic, B!request, B!Racing, B!Draining, Spawning, RaceType
  <2> QED
    BY <2>1, <2>2
<1>2. /\ panicked' \subseteq panicked \cup running
      /\ running' \cap panicked' = {}
  BY <1>0 DEF B!Disconnect, B!Panic, Spawning
<1>3. /\ response' = response \/ (response = Pending /\ response' = Dropped /\ running' = {})
  BY <1>0 DEF B!Disconnect, B!Panic, B!Racing
<1>4. /\ n' = n
      /\ \A k : B!OutcomeAt(k)' = B!OutcomeAt(k)
      /\ \A k : B!RankAt(k)' = B!RankAt(k)
  BY <1>1, SameJoined
<1>5. (B!RankAt(best_error))' = B!RankAt(best_error)
  BY <1>1 DEF B!RankAt, B!LegOutcome
<1>6. RaceType'
  <2>1. running' \subseteq 1..n'
    BY <1>0, <1>1, <1>4 DEF RaceType
  <2>2. /\ response' = [status |-> response'.status, from |-> response'.from]
        /\ response'.from \in 0..Len(joined')
    <3>1. Dropped = [status |-> Dropped.status, from |-> Dropped.from]
      BY DEF Dropped
    <3> QED
      BY <1>0, <1>1, <1>3, <3>1 DEF RaceType
  <2> QED
    BY <1>0, <1>1, <1>4, <2>1, <2>2 DEF RaceType
<1>7. Spawning'
  <2>1. ~(index' <= n')
    BY <1>0, <1>1, <1>4 DEF RaceType
  <2> QED
    BY <1>2, <2>1 DEF Spawning
<1>8. Undecided'
  BY <1>0, <1>1, <1>3, <1>4, <1>5 DEF Undecided
<1>9. Decided'
  BY <1>0, <1>1, <1>3 DEF Decided, B!Draining
<1>10. B!SuccessNeverMasked'
  <2>1. (B!OutcomeAt(response.from))' = B!OutcomeAt(response'.from)
    BY <1>1 DEF B!OutcomeAt, B!LegOutcome
  <2>2. CASE response' = response
    BY <1>0, <1>1, <1>4, <2>1, <2>2 DEF B!SuccessNeverMasked
  <2>3. CASE response' = Dropped
    BY <1>0, <2>3 DEF B!SuccessNeverMasked
  <2> QED
    BY <1>3, <2>2, <2>3
<1>11. B!BestErrorReturned'
  <2>1. CASE response' = response
    <3>1. B!Racing' = B!Racing /\ B!Draining' = B!Draining
      BY <1>1, <2>1 DEF B!Racing, B!Draining, B!n
    <3> QED
      BY <1>0, <1>1, <1>4, <1>5, <2>1, <3>1 DEF B!BestErrorReturned
  <2>2. CASE response' = Dropped
    BY <1>0, <2>2 DEF B!BestErrorReturned, B!Racing, B!Draining
  <2> QED
    BY <1>3, <2>1, <2>2
<1>12. B!BookedOnce'
  <2>1. \A k \in 1..Len(recorded) : recorded[k][1] \notin running' \cup panicked'
    BY <1>0, <1>1, <1>2 DEF B!BookedOnce
  <2>2. \A j, k \in 1..Len(recorded) : recorded[j][1] = recorded[k][1] => j = k
    BY <1>0 DEF B!BookedOnce
  <2>3. CASE response' = response
    <3>1. (B!OutcomeAt(response.from))' = B!OutcomeAt(response.from)
      BY <1>1, <2>3 DEF B!OutcomeAt, B!LegOutcome
    <3> QED
      BY <1>0, <1>1, <2>1, <2>2, <2>3, <3>1 DEF B!BookedOnce
  <2>4. CASE response = Pending /\ response' = Dropped
    BY <1>0, <1>1, <2>1, <2>2, <2>4 DEF B!BookedOnce
  <2> QED
    BY <1>3, <2>3, <2>4
<1> QED
  BY <1>6, <1>7, <1>8, <1>9, <1>10, <1>11, <1>12 DEF RaceInv

(* Every step of the broadcast path keeps its invariant. *)
LEMMA RaceInvStep ==
    ASSUME RaceInv, B!Next
    PROVE  RaceInv'
<1>1. CASE B!Handler
  BY <1>1, NoProvidersStep, SpawnLegStep, FirstSuccessStep, FailedLegStep, AllFailedStep
     DEF B!Handler
<1>2. CASE B!Drain
  BY <1>2, StragglerStep DEF B!Drain
<1>3. CASE B!Disconnect \/ \E leg \in running : B!Panic(leg)
  BY <1>3, LegLostStep
<1> QED
  BY <1>1, <1>2, <1>3 DEF B!Next

-----------------------------------------------------------------------------
(* One request, on whichever path. *)
HandleInv ==
    /\ broadcast \in BOOLEAN
    /\ ~broadcast => SeqInv
    /\ broadcast => RaceInv

(* The invariant of the path taken holds throughout: the decision is made  *)
(* once, before the first provider is asked.                               *)
LEMMA HandleInvariant == HandleSpec => []HandleInv
<1>1. HandleInit => HandleInv
  BY SeqInvInit, RaceInvInit DEF HandleInit, HandleInv
<1>2. ASSUME HandleInv, [HandleNext]_rpc_vars
      PROVE  HandleInv'
  <2>1. CASE OnSequential(Next)
    <3>1. ~broadcast /\ Next /\ broadcast' = broadcast
      BY <2>1 DEF OnSequential
    <3> QED
      BY <1>2, <3>1, SeqInvStep DEF HandleInv
  <2>2. CASE OnBroadcast(B!Next)
    <3>1. broadcast /\ B!Next /\ broadcast' = broadcast
      BY <2>2 DEF OnBroadcast
    <3> QED
      BY <1>2, <3>1, RaceInvStep DEF HandleInv
  <2>3. CASE UNCHANGED rpc_vars
    <3>1. /\ UNCHANGED <<depth, history_lookup, rate_gate, index, attempt, miss, retried,
                         prev_failed, forwarding, asked, skipped, recorded, failovers>>
          /\ UNCHANGED <<response, analytics, broadcast, running, joined, best_error,
                         panicked>>
      BY <2>3 DEF rpc_vars, vars, request, loop, race
    <3>2. ASSUME SeqInv PROVE SeqInv'
      <4>1. n' = n /\ max_attempts' = max_attempts
        BY <3>1 DEF n, max_attempts
      <4>2. SeqType' /\ Counting' /\ Blaming' /\ Visiting'
        BY <3>1, <3>2, <4>1 DEF SeqInv, SeqType, Counting, Blaming, Visiting
      <4>3. Remembering' /\ ScoredLikeALeg' /\ FailoversChain'
        BY <3>1, <3>2 DEF SeqInv, Remembering, ScoredLikeALeg, FailoversChain,
                          LegOutcome, Depth
      <4>4. SyntheticOnlyWithoutAnswer' /\ MissIsLastResort' /\ AnalyticsOnce'
        BY <3>1, <3>2, <4>1 DEF SeqInv, SyntheticOnlyWithoutAnswer, MissIsLastResort,
                                AnalyticsOnce, LegOutcome, Depth
      <4> QED
        BY <4>2, <4>3, <4>4 DEF SeqInv
    <3>3. ASSUME RaceInv PROVE RaceInv'
      <4>1. RaceType' /\ Spawning' /\ Decided'
        BY <3>1, <3>3 DEF RaceInv, RaceType, Spawning, Decided, n, B!n, B!Racing, B!Draining
      <4>2. Undecided'
        BY <3>1, <3>3 DEF RaceInv, Undecided, B!OutcomeAt, B!RankAt, B!LegOutcome
      <4>3. B!SuccessNeverMasked' /\ B!BestErrorReturned' /\ B!BookedOnce'
        BY <3>1, <3>3 DEF RaceInv, n, B!n, B!Racing, B!Draining, B!SuccessNeverMasked,
             B!BestErrorReturned, B!BookedOnce, B!OutcomeAt, B!RankAt, B!LegOutcome
      <4> QED
        BY <4>1, <4>2, <4>3 DEF RaceInv
    <3> QED
      BY <1>2, <3>1, <3>2, <3>3 DEF HandleInv
  <2> QED
    BY <1>2, <2>1, <2>2, <2>3 DEF HandleNext
<1> QED
  BY <1>1, <1>2, PTL DEF HandleSpec

(* Health, metrics and the Failover events hear the truth about every      *)
(* sequential request: each branch of `sequential' scores its answer as    *)
(* Outcome::from_leg would, whatever the provider answered.                *)
THEOREM ReportsCorrect == HandleSpec => []ReportsWhatHappened
<1>1. HandleInv => ReportsWhatHappened
  BY DEF HandleInv, SeqInv, ReportsWhatHappened
<1> QED
  BY <1>1, HandleInvariant, PTL

(* `sequential' answers 502 only when no provider spoke JSON-RPC, and lets *)
(* a history miss through only when the attempts or the full providers are *)
(* used up.                                                                *)
THEOREM LastResortCorrect == HandleSpec => []LastResort
<1>1. HandleInv => LastResort
  BY DEF HandleInv, SeqInv, LastResort
<1> QED
  BY <1>1, HandleInvariant, PTL

(* `broadcast' answers with an error only after every leg it spawned ended *)
(* and none succeeded, in whatever order they ended.                       *)
THEOREM SuccessWinsCorrect == HandleSpec => []SuccessWins
<1>1. HandleInv => SuccessWins
  BY DEF HandleInv, RaceInv, SuccessWins
<1> QED
  BY <1>1, HandleInvariant, PTL

(* The error `broadcast' answers with is the first of the highest          *)
(* broadcast_error_rank among all legs.                                    *)
THEOREM BestErrorCorrect == HandleSpec => []BestErrorWins
<1>1. HandleInv => BestErrorWins
  BY DEF HandleInv, RaceInv, BestErrorWins
<1> QED
  BY <1>1, HandleInvariant, PTL

(* finish_analytics runs once per answered request and credits the winner; *)
(* no leg of a broadcast is recorded twice, by the handler and by          *)
(* spawn_straggler_drain.                                                  *)
THEOREM BookedOnceCorrect == HandleSpec => []BookedOnce
<1>1. HandleInv => BookedOnce
  BY DEF HandleInv, SeqInv, RaceInv, BookedOnce
<1> QED
  BY <1>1, HandleInvariant, PTL

=============================================================================
