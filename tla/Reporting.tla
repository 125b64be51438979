----------------------------- MODULE Reporting -----------------------------
(***************************************************************************)
(* Telemetry from the request handlers to the remote endpoint, and the     *)
(* shutdown that must not lose it: TransactionAnalytics of src/proxy.rs,   *)
(* the Aggregator, RemoteReporter and flush_task of src/telemetry.rs, and  *)
(* the order of the three flushes at the end of run() in src/main.rs.      *)
(*                                                                         *)
(* Everything counted on the way is a tally: how often each measure was    *)
(* counted.  A bucket, a telemetry event and a POST are all tallies.       *)
(* A latency or a fee is abstracted to the fact that it was sampled.       *)
(***************************************************************************)
EXTENDS Integers, Sequences, FiniteSets, Functions, Sums

CONSTANTS
    Handlers,        \* request handlers, each finishing one sendTransaction body
    Providers,       \* providers that can acknowledge a submission
    None,            \* the provider label of a submission nobody acknowledged
    DecodeErrors,    \* the DecodeError labels that are told apart
    Calls,           \* JSON-RPC calls one recorded leg may stand for
    TX_DECODE_QUEUE_CAPACITY,
    buffer_size,     \* ReportingConfig.buffer_size: capacity of the event channel
    batch_size,      \* ReportingConfig.batch_size
    MaxRequests,     \* bound: legs recorded
    MaxEmits,        \* bound: raw events emitted outside the shutdown
    MaxHistorical    \* bound: aggregates the historical worker flushes at shutdown

Flush == "flush"

\* The measures other than the decode errors.
Named == {"parsed", "queue_dropped", "batch_unsupported", "accepted", "rejected",
          "fee_samples", "calls", "latencies", "raw"}

ASSUME ReportingAssumption ==
    /\ None \notin Providers /\ Flush \notin Providers \cup {None}
    /\ IsFiniteSet(Handlers) /\ IsFiniteSet(Providers)
    /\ IsFiniteSet(DecodeErrors) /\ DecodeErrors \cap Named = {}
    /\ Calls \subseteq Nat
    /\ TX_DECODE_QUEUE_CAPACITY \in Nat \ {0}
    /\ buffer_size \in Nat \ {0}    \* mpsc::channel(0) panics
    /\ batch_size \in Nat \ {0}
    /\ MaxRequests \in Nat /\ MaxEmits \in Nat /\ MaxHistorical \in Nat

VARIABLES
    hand,        \* [Handlers -> where each handler is in finish()]
    queue,       \* the decode queue: jobs and Flush messages
    worker,      \* the decode worker's job after its metrics were updated
    buckets,     \* AggState.buckets, summed over (method, provider, status)
    tx_buckets,  \* AggState.tx_buckets
    channel,     \* the bounded channel of raw events
    batch,       \* flush_task's batch
    sending,     \* the batch of the POST in flight
    task,        \* where flush_task is
    permit,      \* the permit stored in flush_signal (tokio Notify)
    waiters,     \* flush_waiters: is main's oneshot sender registered
    main,        \* where run() is
    aggregates,  \* events the historical worker still has to emit for main
    told,        \* what Prometheus was told (latencies and raw events: the reporter)
    dropped,     \* raw events dropped at a full channel
    attempted,   \* contents of the POSTs that have ended, well or badly
    due          \* what `told' had reached when main called flush_and_wait

vars == <<hand, queue, worker, buckets, tx_buckets, channel, batch, sending,
          task, permit, waiters, main, aggregates, told, dropped, attempted, due>>

Keys == Providers \cup {None}
DecodeResults == {"parsed"} \cup DecodeErrors
Results == DecodeResults \cup {"queue_dropped", "batch_unsupported"}

\* Tallies.
Measures == Named \cup DecodeErrors
Copies(n, m) == [x \in Measures |-> IF x = m THEN n ELSE 0]
One(m) == Copies(1, m)
Zero == [m \in Measures |-> 0]
a (+) b == [m \in Measures |-> a[m] + b[m]]
a \sqsubseteq b == \A m \in Measures : a[m] <= b[m]
\* What the tallies of a function or a sequence say together.
Total(tallies) == [m \in Measures |-> SumOver([x \in DOMAIN tallies |-> tallies[x][m]])]

\* accepted = acknowledging_provider.is_some(), and the label is "none" otherwise.
Submission(k) == One(IF k = None THEN "rejected" ELSE "accepted")
\* Rejected submissions are decoded too but never enter the fee distributions.
Decode(k, r) == One(r) (+) (IF r = "parsed" /\ k # None THEN One("fee_samples") ELSE Zero)

\* A handler or the worker: where it is, the provider label of its submission,
\* and what it has told Prometheus but not yet the reporter.
At(place, k, owes) == [at |-> place, key |-> k, owes |-> owes]
Idle == At("idle", None, Zero)
Done == At("done", None, Zero)

Init ==
    /\ hand = [h \in Handlers |-> Idle]
    /\ queue = <<>>
    /\ worker = Idle
    /\ buckets = Zero
    /\ tx_buckets = [k \in Keys |-> Zero]
    /\ channel = 0
    /\ batch = <<>> /\ sending = <<>>
    /\ task = "select"
    /\ permit = FALSE /\ waiters = FALSE
    /\ main = "serving"
    /\ aggregates = 0
    /\ told = Zero /\ dropped = 0 /\ attempted = Zero /\ due = Zero

Running == main # "exited"

----------------------------------------------------------------------------
(* TransactionAnalytics: the handlers' side *)

\* finish() up to its first counter: the batch's decode label, or the submission.
FinishCounts(h) ==
    /\ main = "serving"
    /\ hand[h] = Idle
    /\ \E k \in Keys :
          \/ /\ hand' = [hand EXCEPT ![h] = At("report", k, Decode(k, "batch_unsupported"))]
             /\ told' = told (+) Decode(k, "batch_unsupported")
          \/ /\ hand' = [hand EXCEPT ![h] = At("counted", k, Submission(k))]
             /\ told' = told (+) Submission(k)
    /\ UNCHANGED <<queue, worker, buckets, tx_buckets, channel, batch, sending, task,
                   permit, waiters, main, aggregates, dropped, attempted, due>>

\* try_send of the decode job; a full queue turns it into a `queue_dropped' label.
FinishSends(h) ==
    /\ hand[h].at = "counted"
    /\ IF Len(queue) < TX_DECODE_QUEUE_CAPACITY
       THEN /\ queue' = Append(queue, hand[h].key)
            /\ hand' = [hand EXCEPT ![h] = Done]
            /\ UNCHANGED told
       ELSE /\ hand' = [hand EXCEPT ![h].at = "report",
                                    ![h].owes = @ (+) Decode(hand[h].key, "queue_dropped")]
            /\ told' = told (+) Decode(hand[h].key, "queue_dropped")
            /\ UNCHANGED queue
    /\ UNCHANGED <<worker, buckets, tx_buckets, channel, batch, sending, task,
                   permit, waiters, main, aggregates, dropped, attempted, due>>

\* The reporter is told what the handler itself has to tell: a batch's label, or
\* a dropped decode together with its submission (record_transaction_result).
FinishReports(h) ==
    /\ hand[h].at = "report"
    /\ tx_buckets' = [tx_buckets EXCEPT ![hand[h].key] = @ (+) hand[h].owes]
    /\ hand' = [hand EXCEPT ![h] = Done]
    /\ UNCHANGED <<queue, worker, buckets, channel, batch, sending, task, permit,
                   waiters, main, aggregates, told, dropped, attempted, due>>

(* TransactionAnalytics: the decode worker *)

\* The worker receives a message: a Flush is answered (main resumes), a job is
\* decoded and its metrics updated.
WorkerReceives ==
    /\ Running
    /\ worker = Idle /\ queue # <<>>
    /\ queue' = Tail(queue)
    /\ IF Head(queue) = Flush
       THEN /\ main' = "decoded"
            /\ UNCHANGED <<worker, told>>
       ELSE \E r \in DecodeResults :
            /\ worker' = At("report", Head(queue),
                            Submission(Head(queue)) (+) Decode(Head(queue), r))
            /\ told' = told (+) Decode(Head(queue), r)
            /\ UNCHANGED main
    /\ UNCHANGED <<hand, buckets, tx_buckets, channel, batch, sending, task,
                   permit, waiters, aggregates, dropped, attempted, due>>

\* Mutant: the Reporter trait's default record_transaction_result, two calls and
\* two locks.
WorkerReportsTwice ==
    /\ Running
    /\ worker # Idle
    /\ LET first == Submission(worker.key)
           news == IF first \sqsubseteq worker.owes THEN first ELSE worker.owes
       IN  /\ tx_buckets' = [tx_buckets EXCEPT ![worker.key] = @ (+) news]
           /\ worker' = IF news = worker.owes THEN Idle
                        ELSE [worker EXCEPT !.owes = [m \in Measures |-> @[m] - news[m]]]
    /\ UNCHANGED <<hand, queue, buckets, channel, batch, sending, task, permit,
                   waiters, main, aggregates, told, dropped, attempted, due>>

\* record_transaction_result: submission and decode under one lock.
WorkerReports ==
    /\ Running
    /\ worker # Idle
    /\ tx_buckets' = [tx_buckets EXCEPT ![worker.key] = @ (+) worker.owes]
    /\ worker' = Idle
    /\ UNCHANGED <<hand, queue, buckets, channel, batch, sending, task, permit,
                   waiters, main, aggregates, told, dropped, attempted, due>>

----------------------------------------------------------------------------
(* RemoteReporter *)

\* One leg's outcome: `count' JSON-RPC calls and a single latency sample.  Legs
\* of detached stragglers are recorded during the shutdown too.
RecordRequest ==
    /\ Running
    /\ told["latencies"] < MaxRequests
    /\ \E n \in Calls :
          LET leg == Copies(n, "calls") (+) One("latencies")
          IN  buckets' = buckets (+) leg /\ told' = told (+) leg
    /\ UNCHANGED <<hand, queue, worker, tx_buckets, channel, batch, sending, task, permit,
                   waiters, main, aggregates, dropped, attempted, due>>

\* emit(): try_send, and a full channel drops the event silently.
Emit ==
    /\ told' = told (+) One("raw")
    /\ IF channel < buffer_size
       THEN channel' = channel + 1 /\ UNCHANGED dropped
       ELSE dropped' = dropped + 1 /\ UNCHANGED channel

\* Failover events while serving, provider health every minute until the end.
EmitEvent ==
    /\ Running
    /\ told["raw"] < MaxEmits
    /\ Emit
    /\ UNCHANGED <<hand, queue, worker, buckets, tx_buckets, batch, sending, task,
                   permit, waiters, main, aggregates, attempted, due>>

\* Mutant: the transaction buckets are copied, not drained.
DrainKeepsTransactions ==
    LET used == {k \in Keys : tx_buckets[k] # Zero}
    IN  /\ \E order \in Injection(1..Cardinality(used), used) :
              batch' = batch \o (IF buckets = Zero THEN <<>> ELSE <<buckets>>)
                             \o [i \in DOMAIN order |-> tx_buckets[order[i]]]
        /\ buckets' = Zero
        /\ UNCHANGED tx_buckets

\* Aggregator::drain: one event for each bucket that exists, in the order that the
\* hash map happens to have, and the buckets reset.
Drain ==
    LET used == {k \in Keys : tx_buckets[k] # Zero}
    IN  /\ \E order \in Injection(1..Cardinality(used), used) :
              batch' = batch \o (IF buckets = Zero THEN <<>> ELSE <<buckets>>)
                             \o [i \in DOMAIN order |-> tx_buckets[order[i]]]
        /\ buckets' = Zero
        /\ tx_buckets' = [k \in Keys |-> Zero]

----------------------------------------------------------------------------
(* flush_task *)

\* select!, rx.recv(): a full batch is sent at once.
TaskReceives ==
    /\ Running
    /\ task = "select" /\ channel > 0
    /\ channel' = channel - 1
    /\ IF Len(batch) + 1 >= batch_size
       THEN /\ sending' = Append(batch, One("raw"))
            /\ batch' = <<>>
            /\ task' = "post"
       ELSE /\ batch' = Append(batch, One("raw"))
            /\ UNCHANGED <<sending, task>>
    /\ UNCHANGED <<hand, queue, worker, buckets, tx_buckets, permit, waiters, main,
                   aggregates, told, dropped, attempted, due>>

\* select!, interval.tick().
TaskTicks ==
    /\ Running
    /\ task = "select"
    /\ Drain
    /\ task' = "tick"
    /\ UNCHANGED <<hand, queue, worker, channel, sending, permit, waiters, main,
                   aggregates, told, dropped, attempted, due>>

\* select!, flush_signal.notified(): consumes the permit.
TaskNotified ==
    /\ Running
    /\ task = "select" /\ permit
    /\ permit' = FALSE
    /\ Drain
    /\ task' = "flush"
    /\ UNCHANGED <<hand, queue, worker, channel, sending, waiters, main, aggregates,
                   told, dropped, attempted, due>>

\* Mutant: every branch releases the waiters.
EndBranchReleasesAlways(branch) ==
    /\ task' = "select"
    /\ IF waiters THEN waiters' = FALSE /\ main' = "exited"
       ELSE UNCHANGED <<waiters, main>>

\* The end of a branch: the flush branch alone releases the waiters.
EndBranch(branch) ==
    /\ task' = "select"
    /\ IF branch = "flush" /\ waiters
       THEN waiters' = FALSE /\ main' = "exited"
       ELSE UNCHANGED <<waiters, main>>

\* The try_recv loop of both timed branches; then send_batch unless all is empty.
TaskDrainsChannel ==
    /\ Running
    /\ task \in {"tick", "flush"}
    /\ \/ /\ channel > 0
          /\ channel' = channel - 1
          /\ batch' = Append(batch, One("raw"))
          /\ UNCHANGED <<sending, task, waiters, main>>
       \/ /\ channel = 0 /\ batch # <<>>
          /\ sending' = batch
          /\ batch' = <<>>
          /\ task' = IF task = "tick" THEN "post" ELSE "post_flush"
          /\ UNCHANGED <<channel, waiters, main>>
       \/ /\ channel = 0 /\ batch = <<>>
          /\ EndBranch(task)
          /\ UNCHANGED <<channel, batch, sending>>
    /\ UNCHANGED <<hand, queue, worker, buckets, tx_buckets, permit, aggregates,
                   told, dropped, attempted, due>>

\* The POST ends: a 2xx, another status, an error or the client's timeout.  The
\* events are gone whichever it is.
SendEnds ==
    /\ Running
    /\ task \in {"post", "post_flush"}
    /\ attempted' = attempted (+) Total(sending)
    /\ sending' = <<>>
    /\ EndBranch(IF task = "post_flush" THEN "flush" ELSE "tick")
    /\ UNCHANGED <<hand, queue, worker, buckets, tx_buckets, channel, batch, permit,
                   aggregates, told, dropped, due>>

----------------------------------------------------------------------------
(* run(): graceful shutdown *)

\* The server has stopped: no handler is left.  The historical worker has some
\* accepted aggregates to emit.
ServeEnds ==
    /\ main = "serving"
    /\ \A h \in Handlers : hand[h] \in {Idle, Done}
    /\ main' = "historical"
    /\ aggregates' \in 0..MaxHistorical
    /\ UNCHANGED <<hand, queue, worker, buckets, tx_buckets, channel, batch, sending,
                   task, permit, waiters, told, dropped, attempted, due>>

\* flush_historical_analytics: the worker emits its aggregates, then answers.
HistoricalFlush ==
    /\ main = "historical"
    /\ \/ /\ aggregates > 0
          /\ aggregates' = aggregates - 1
          /\ Emit
          /\ UNCHANGED main
       \/ /\ aggregates = 0
          /\ main' = "tx"
          /\ UNCHANGED <<aggregates, told, channel, dropped>>
    /\ UNCHANGED <<hand, queue, worker, buckets, tx_buckets, batch, sending, task,
                   permit, waiters, attempted, due>>

\* flush_transaction_analytics: a Flush message behind the jobs, once there is room.
TxFlush ==
    /\ main = "tx"
    /\ Len(queue) < TX_DECODE_QUEUE_CAPACITY
    /\ queue' = Append(queue, Flush)
    /\ main' = "tx_wait"
    /\ UNCHANGED <<hand, worker, buckets, tx_buckets, channel, batch, sending, task,
                   permit, waiters, aggregates, told, dropped, attempted, due>>

\* flush_and_wait: register the waiter, ...
PushWaiter ==
    /\ main = "decoded"
    /\ waiters' = TRUE
    /\ due' = told
    /\ main' = "registered"
    /\ UNCHANGED <<hand, queue, worker, buckets, tx_buckets, channel, batch, sending,
                   task, permit, aggregates, told, dropped, attempted>>

\* Mutant: notify_waiters, which stores no permit.
NotifyOneStoresNothing ==
    /\ main = "registered"
    /\ permit' = (task = "select")
    /\ main' = "waiting"
    /\ UNCHANGED <<hand, queue, worker, buckets, tx_buckets, channel, batch, sending,
                   task, waiters, aggregates, told, dropped, attempted, due>>

\* ... then notify_one: the permit is kept until flush_task is back at its select.
NotifyOne ==
    /\ main = "registered"
    /\ permit' = TRUE
    /\ main' = "waiting"
    /\ UNCHANGED <<hand, queue, worker, buckets, tx_buckets, channel, batch, sending,
                   task, waiters, aggregates, told, dropped, attempted, due>>

\* The process is gone.
Exited ==
    /\ main = "exited"
    /\ UNCHANGED vars

Finish(h) == FinishCounts(h) \/ FinishSends(h) \/ FinishReports(h)
Worker == WorkerReceives \/ WorkerReports
Main == ServeEnds \/ HistoricalFlush \/ TxFlush \/ PushWaiter \/ NotifyOne

Next ==
    \/ \E h \in Handlers : Finish(h)
    \/ Worker
    \/ RecordRequest \/ EmitEvent
    \/ TaskReceives \/ TaskTicks \/ TaskNotified \/ TaskDrainsChannel \/ SendEnds
    \/ Main
    \/ Exited

\* Tasks run when they can; select! picks among its ready branches at random, so
\* a branch that is ready again and again is taken; a POST ends by its timeout.
Fairness ==
    /\ \A h \in Handlers : WF_vars(FinishSends(h)) /\ WF_vars(FinishReports(h))
    /\ WF_vars(Worker)
    /\ WF_vars(HistoricalFlush \/ TxFlush \/ PushWaiter \/ NotifyOne)
    /\ WF_vars(TaskDrainsChannel \/ SendEnds)
    /\ SF_vars(TaskNotified)

Spec == Init /\ [][Next]_vars /\ Fairness

----------------------------------------------------------------------------
(* Properties *)

\* What a message of the decode queue stands for.
Queued(message) == IF message = Flush THEN Zero ELSE Submission(message)

\* What the handlers, the queue and the worker have counted but not yet reported.
Carried ==
    Total([h \in Handlers |-> hand[h].owes])
      (+) Total([i \in DOMAIN queue |-> Queued(queue[i])])
      (+) worker.owes

\* Nothing is lost or counted twice between Prometheus and the remote endpoint:
\* whatever the metrics were told is still on its way to the aggregator, in a
\* bucket, in the channel, in a batch or in a POST, except the raw events that
\* emit() dropped at a full channel.
ReportedOnce ==
    told = Carried (+) buckets (+) Total(tx_buckets)
             (+) Total(batch) (+) Total(sending) (+) attempted
             (+) Copies(channel + dropped, "raw")

\* How many of some measures a tally holds.
Count(measures, tally) == SumOver([m \in measures |-> tally[m]])

\* Each reporting window is whole ("Record outcome and decode data atomically in
\* one aggregation window", telemetry.rs): a TransactionSubmit event has a decode
\* result for each of its submissions, and its fee samples are exactly the parsed
\* ones among the accepted.
WindowsAreWhole ==
    \A e \in Range(batch) \cup Range(sending) :
        /\ Count({"accepted", "rejected"}, e) = Count(DecodeResults \cup {"queue_dropped"}, e)
        /\ e["fee_samples"] = IF e["accepted"] > 0 THEN e["parsed"] ELSE 0

\* When the process exits, a POST that contains it has been attempted for all
\* that had been counted when the final flush was asked for: the transactions of
\* every finished request among it, whatever the decode queue held.
ShutdownReportsAll ==
    main = "exited" =>
        /\ due \sqsubseteq (attempted (+) Copies(dropped, "raw"))
        /\ \A m \in Results \cup {"accepted", "rejected", "fee_samples"} :
              attempted[m] = told[m]

\* Once the server has stopped the process does exit, whatever the flush task
\* is doing when the final flush is signalled.
ShutdownCompletes == main = "historical" ~> main = "exited"
=============================================================================
