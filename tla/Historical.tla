----------------------------- MODULE Historical -----------------------------
(***************************************************************************)
(* historical.rs: the analysis of getTransaction calls.  Handlers offer a  *)
(* finished call to a bounded queue under a byte budget and never wait; a  *)
(* worker analyzes what was accepted, keeps what it saw of each call in an *)
(* LRU, and hands the counts to the reporter at every flush.               *)
(*                                                                         *)
(* finish runs in many handlers at once, so its locks and atomics are      *)
(* steps of their own: jobs reach the queue in another order than they     *)
(* were stamped, and a flush falls between the two counters of a drop.     *)
(*                                                                         *)
(* A job is [bytes, class, calls, parsed, fingerprint, commitment, answer];*)
(* `calls' are its eligible calls, `parsed' those of a batch that the      *)
(* worker can read, and a call that names no transaction has no            *)
(* fingerprint.  Of a window's counters those are kept that count calls,   *)
(* lifecycles and evictions; the histograms (slot age, polls, time to      *)
(* found, reuse) are left out.  Handing an event to the reporter is the    *)
(* end here: what it does with it is its own affair.                       *)
(***************************************************************************)
EXTENDS Outcomes, Sequences, FiniteSets, Sums

CONSTANTS
    Job,                \* the finished calls that handlers may offer
    Handler,            \* the handlers that may run finish at once
    Fingerprint,        \* numbers, in the order of the hashes
    QUEUE_BYTE_UNIT,
    MaxQueuedBytes, MaxJobBytes, QueueCapacity, StateCapacity, StateTtl,
    MaxOffers,          \* bound: calls offered
    MaxTime             \* bound: seconds that pass

NoFingerprint == 0

ASSUME HistoricalAssumption ==          \* Config::validate
    /\ QueueCapacity \in Nat \ {0} /\ StateCapacity \in Nat \ {0}
    /\ StateTtl \in Nat \ {0}
    /\ QUEUE_BYTE_UNIT \in Nat \ {0}
    /\ MaxQueuedBytes \in Nat /\ MaxQueuedBytes >= QUEUE_BYTE_UNIT
    /\ MaxJobBytes \in 1..MaxQueuedBytes
    /\ Fingerprint \subseteq Nat \ {NoFingerprint}
    /\ IsFiniteSet(Handler)

Commitments == {"finalized", "unknown"}     \* one known level stands for three

(* A single has one eligible call; a batch counts those it can read.        *)
ASSUME JobAssumption ==
    \A job \in Job :
        /\ job.bytes \in Nat /\ job.calls \in Nat /\ job.parsed \in 0..job.calls
        /\ job.class = "Single" => job.calls = 1
        /\ job.fingerprint \in Fingerprint \cup {NoFingerprint}
        /\ job.commitment \in Commitments

Counters == {"logical", "analyzed", "first_found", "first_null", "null_repeat",
             "null_to_found", "found_repeat", "regression",
             "evicted", "unresolved"}

VARIABLES
    now,
    handler,        \* [Handler -> [pc, job, observed_at]]
    permits,        \* byte_budget
    queue,          \* the channel: jobs with their stamps, and the flush
    quality,        \* [dropped, drops, resets]: the atomics
    core,           \* [state, lru, windows]
    worker,         \* [pc, dropped, reply]
    flusher,        \* [pc, before]: the shutdown's flush; before is history
    offered,        \* history: [calls, drops, accepted]
    emitted         \* history: [counts, drops, dropped], handed to the reporter

vars == <<now, handler, permits, queue, quality, core, worker, flusher, offered, emitted>>

Zero == [k \in Counters |-> 0]
NoEntry == [lifecycle |-> "none", commitment |-> "unknown", last_seen_at |-> 0]
Waiting == [pc |-> "idle", job |-> CHOOSE j \in Job : TRUE, observed_at |-> 0]
FlushMessage == [flush |-> TRUE, job |-> CHOOSE j \in Job : TRUE, observed_at |-> 0]

permit_count == LET n == MaxQueuedBytes \div QUEUE_BYTE_UNIT IN IF n > 1 THEN n ELSE 1

(* div_ceil, and at least one. *)
units(job) ==
    IF job.bytes = 0 THEN 1 ELSE (job.bytes + QUEUE_BYTE_UNIT - 1) \div QUEUE_BYTE_UNIT

Init ==
    /\ now = 0
    /\ handler = [h \in Handler |-> Waiting]
    /\ permits = permit_count
    /\ queue = <<>>
    /\ quality = [dropped |-> 0, drops |-> 0, resets |-> 1]
    /\ core = [state |-> [f \in Fingerprint |-> NoEntry], lru |-> {},
               windows |-> [c \in Commitments |-> Zero]]
    /\ worker = [pc |-> "idle", dropped |-> 0, reply |-> FALSE]
    /\ flusher = [pc |-> "idle", before |-> 0]
    /\ offered = [calls |-> 0, drops |-> 0, accepted |-> 0]
    /\ emitted = [counts |-> Zero, drops |-> 0, dropped |-> 0]

-----------------------------------------------------------------------------
(* HistoricalAnalytics::finish, in a handler. *)

Step(h, pc) == handler' = [handler EXCEPT ![h].pc = pc]

(* The size checks and the byte budget; a job that passes is stamped. *)
Offer(h, job) ==
    /\ handler[h].pc = "idle" /\ offered.calls < MaxOffers
    /\ job.calls > 0
    /\ LET fits == job.bytes <= MaxJobBytes /\ units(job) <= permits
       IN  /\ handler' = [handler EXCEPT ![h] =
                [pc |-> IF fits THEN "send" ELSE "drop", job |-> job,
                 observed_at |-> IF fits THEN now ELSE 0]]
           /\ permits' = IF fits THEN permits - units(job) ELSE permits
    /\ offered' = [offered EXCEPT !.calls = @ + job.calls]
    /\ UNCHANGED <<now, queue, quality, core, worker, flusher, emitted>>

(* try_send gives the job back, and with it its permits. *)
Refused(job) == permits + units(job)

(* A slot of the channel may be held for a waiting flush. *)
HasRoom == Len(queue) + (IF flusher.pc = "granted" THEN 1 ELSE 0) < QueueCapacity

Send(h) ==
    /\ handler[h].pc = "send"
    /\ LET job == handler[h].job
       IN  IF HasRoom
           THEN /\ queue' = Append(queue, [flush |-> FALSE, job |-> job,
                                           observed_at |-> handler[h].observed_at])
                /\ offered' = [offered EXCEPT !.accepted = @ + job.calls]
                /\ handler' = [handler EXCEPT ![h] = Waiting]
                /\ UNCHANGED permits
           ELSE /\ permits' = Refused(job)
                /\ Step(h, "drop")
                /\ UNCHANGED <<queue, offered>>
    /\ UNCHANGED <<now, quality, core, worker, flusher, emitted>>

(* drop_job adds to dropped_logical, then to the reason's counter. *)
DropLogical(h) ==
    /\ handler[h].pc = "drop"
    /\ quality' = [quality EXCEPT !.dropped = @ + handler[h].job.calls]
    /\ Step(h, "reason")
    /\ UNCHANGED <<now, permits, queue, core, worker, flusher, offered, emitted>>

DropReason(h) ==
    /\ handler[h].pc = "reason"
    /\ quality' = [quality EXCEPT !.drops = @ + 1]
    /\ handler' = [handler EXCEPT ![h] = Waiting]
    /\ offered' = [offered EXCEPT !.drops = @ + 1]
    /\ UNCHANGED <<now, permits, queue, core, worker, flusher, emitted>>

-----------------------------------------------------------------------------
(* AnalyzerCore, as functions of it. *)

Count(k, c, counter, n) == [k EXCEPT !.windows[c][counter] = @ + n]

(* The least of lru: by time, then by fingerprint. *)
First(lru) ==
    CHOOSE x \in lru : \A y \in lru :
        x[1] < y[1] \/ (x[1] = y[1] /\ x[2] <= y[2])

(* evict_oldest, of one place of the LRU or of a prefix of it. *)
evict(k, gone) ==
    LET In(c, lifecycles) == Cardinality({x \in gone :
            k.state[x[2]].commitment = c /\ k.state[x[2]].lifecycle \in lifecycles})
    IN  [state |-> [f \in Fingerprint |->
                        IF \E x \in gone : x[2] = f THEN NoEntry ELSE k.state[f]],
         lru |-> k.lru \ gone,
         windows |-> [c \in Commitments |-> [k.windows[c] EXCEPT
                        !["evicted"] = @ + In(c, {"NullSeen", "Found"}),
                        !["unresolved"] = @ + In(c, {"NullSeen"})]]]

(* The LRU is in the order of time, so the loop stops at the first place    *)
(* that is not due.                                                         *)
expire(k, t) == evict(k, {x \in k.lru : t - x[1] >= StateTtl})

Seen(k) == {f \in Fingerprint : k.state[f] # NoEntry}

(* Mutant: the place of the last observation stays in the LRU. *)
unlink_not(k, f) == k.lru

unlink(k, f) == k.lru \ {<<k.state[f].last_seen_at, f>>}

(* Mutant: a null after a find starts over. *)
lifecycle_starting_over(previous, found) == IF found THEN "Found" ELSE "NullSeen"

lifecycle(previous, found) ==
    IF found \/ previous = "Found" THEN "Found" ELSE "NullSeen"

TransitionName(previous, found) ==
    CASE previous = "none"     -> IF found THEN "first_found" ELSE "first_null"
      [] previous = "NullSeen" -> IF found THEN "null_to_found" ELSE "null_repeat"
      [] previous = "Found"    -> IF found THEN "found_repeat" ELSE "regression"

transition(k, f, c, found, t) ==
    LET previous == k.state[f].lifecycle
        seen == [state |-> [k.state EXCEPT ![f] =
                    [lifecycle |-> lifecycle(previous, found),
                     commitment |-> c, last_seen_at |-> t]],
                 lru |-> unlink(k, f) \cup {<<t, f>>},
                 windows |-> k.windows]
        counted == Count(seen, c, TransitionName(previous, found), 1)
    IN  IF Cardinality(Seen(counted)) > StateCapacity
        THEN evict(counted, {First(counted.lru)}) ELSE counted

(* An object with neither `error' nor `result' is a shape of its own. *)
parse_response(a) ==
    CASE ~Is2xx(a.status)         -> "RpcError"
      [] a.body.shape # "object"  -> "ParseError"
      [] a.body.code # NoError    -> "RpcError"
      [] OTHER                    -> IF a.body.result THEN "Found" ELSE "Null"

process_single(k, job, t) ==
    LET analyzed == Count(Count(k, job.commitment, "logical", 1),
                          job.commitment, "analyzed", 1)
        parsed == parse_response(job.answer)
    IN  IF job.fingerprint = NoFingerprint \/ parsed \in {"RpcError", "ParseError"}
        THEN analyzed
        ELSE transition(analyzed, job.fingerprint, job.commitment, parsed = "Found", t)

(* Calls that do not parse are counted under `unknown'. *)
process_batch(k, job) ==
    Count(Count(k, job.commitment, "logical", job.parsed),
          "unknown", "logical", job.calls - job.parsed)

process(k, job, t) ==
    IF job.class = "Single" THEN process_single(expire(k, t), job, t)
                            ELSE process_batch(expire(k, t), job)

-----------------------------------------------------------------------------
(* worker_loop. *)

(* A slot that a receive frees goes to a waiting flush. *)
Received ==
    /\ queue' = Tail(queue)
    /\ flusher' = IF flusher.pc = "waiting" THEN [flusher EXCEPT !.pc = "granted"]
                                            ELSE flusher

Analyze ==
    /\ worker.pc = "idle" /\ queue # <<>> /\ ~Head(queue).flush
    /\ core' = process(core, Head(queue).job, Head(queue).observed_at)
    /\ permits' = permits + units(Head(queue).job)
    /\ Received
    /\ UNCHANGED <<now, handler, quality, worker, offered, emitted>>

(* core.expire, then the first of flush's swaps. *)
StartFlush(reply) ==
    /\ core' = expire(core, now)
    /\ worker' = [pc |-> "flushing", dropped |-> quality.dropped, reply |-> reply]
    /\ quality' = [quality EXCEPT !.dropped = 0]
    /\ UNCHANGED <<now, handler, permits, offered, emitted>>

FlushMessageReceived ==
    /\ worker.pc = "idle" /\ queue # <<>> /\ Head(queue).flush
    /\ Received
    /\ StartFlush(TRUE)

IntervalTick ==
    /\ worker.pc = "idle"
    /\ StartFlush(FALSE)
    /\ UNCHANGED <<queue, flusher>>

is_empty(w) == w["logical"] = 0 /\ w["evicted"] = 0

(* Mutant: only the reasons tell that something was dropped. *)
quality_by_reason(dropped, q) == q.drops + q.resets > 0

quality_present(dropped, q) == dropped + q.drops + q.resets > 0

(* What the events of some windows say together of a counter. *)
take_event(told, k) ==
    LET Of(c) == IF c \in told THEN core.windows[c][k] ELSE 0
    IN  Of("finalized") + Of("unknown")

(* The rest of flush: the other swaps, and an event for each window that    *)
(* has something to say.                                                    *)
Emit ==
    /\ worker.pc = "flushing"
    /\ LET present == quality_present(worker.dropped, quality)
           told == {c \in Commitments :
                        ~is_empty(core.windows[c]) \/ (c = "unknown" /\ present)}
           dropped == IF "unknown" \in told THEN worker.dropped ELSE 0
       IN  /\ core' = [core EXCEPT !.windows =
                [c \in Commitments |-> IF c \in told THEN Zero ELSE core.windows[c]]]
           /\ emitted' = [counts |-> [k \in Counters |->
                                        emitted.counts[k] + take_event(told, k)],
                          drops |-> emitted.drops +
                                    (IF "unknown" \in told THEN quality.drops ELSE 0),
                          dropped |-> emitted.dropped + dropped]
    /\ quality' = [quality EXCEPT !.drops = 0, !.resets = 0]
    /\ flusher' = IF worker.reply THEN [flusher EXCEPT !.pc = "done"] ELSE flusher
    /\ worker' = [pc |-> "idle", dropped |-> 0, reply |-> FALSE]
    /\ UNCHANGED <<now, handler, permits, queue, offered>>

-----------------------------------------------------------------------------
(* HistoricalAnalytics::flush, awaited by the shutdown; `send' waits for a  *)
(* slot.  Serving has ended by then, so in the process no handler is left;  *)
(* here the flush may also come while handlers still offer calls, which     *)
(* says more of the method.                                                 *)
CallFlush ==
    /\ flusher.pc = "idle"
    /\ flusher' = [pc |-> IF HasRoom THEN "granted" ELSE "waiting",
                   before |-> offered.accepted]
    /\ UNCHANGED <<now, handler, permits, queue, quality, core, worker, offered, emitted>>

(* Mutant: the flush overtakes the jobs. *)
SendFlushFirst ==
    /\ flusher.pc = "granted"
    /\ queue' = <<FlushMessage>> \o queue
    /\ flusher' = [flusher EXCEPT !.pc = "sent"]
    /\ UNCHANGED <<now, handler, permits, quality, core, worker, offered, emitted>>

SendFlush ==
    /\ flusher.pc = "granted"
    /\ queue' = Append(queue, FlushMessage)
    /\ flusher' = [flusher EXCEPT !.pc = "sent"]
    /\ UNCHANGED <<now, handler, permits, quality, core, worker, offered, emitted>>

Tick ==
    /\ now < MaxTime
    /\ now' = now + 1
    /\ UNCHANGED <<handler, permits, queue, quality, core, worker, flusher, offered, emitted>>

Finish(h) == (\E job \in Job : Offer(h, job)) \/ Send(h) \/ DropLogical(h) \/ DropReason(h)
Worker == Analyze \/ FlushMessageReceived \/ IntervalTick \/ Emit

Next == (\E h \in Handler : Finish(h)) \/ Worker \/ CallFlush \/ SendFlush \/ Tick

Spec == Init /\ [][Next]_vars

-----------------------------------------------------------------------------
(* What a counter has reached, reported or not. *)
Total(k) == emitted.counts[k] + take_event(Commitments, k)

Holding(h) == handler[h].pc \in {"send", "drop"}

(* Nothing is lost or counted twice, however drops, flushes and analysis    *)
(* interleave: every eligible call that was offered is in a handler, in the *)
(* queue, in a counter or reported, every drop has a reason on record, and  *)
(* the byte budget gets back what it lends.                                 *)
NothingLost ==
    LET InHandlers == [h \in Handler |-> IF Holding(h) THEN handler[h].job.calls ELSE 0]
        InQueue == [i \in DOMAIN queue |-> IF queue[i].flush THEN 0 ELSE queue[i].job.calls]
        LentToHandlers ==
            [h \in Handler |-> IF handler[h].pc = "send" THEN units(handler[h].job) ELSE 0]
        LentToQueue ==
            [i \in DOMAIN queue |-> IF queue[i].flush THEN 0 ELSE units(queue[i].job)]
    IN  /\ offered.calls = SumOver(InHandlers) + SumOver(InQueue) + quality.dropped
                    + worker.dropped + Total("logical") + emitted.dropped
        /\ offered.drops = quality.drops + emitted.drops
        /\ permit_count = permits + SumOver(LentToHandlers) + SumOver(LentToQueue)

(* Lifecycles balance: every transaction first seen missing is found later, *)
(* evicted as unresolved, or still remembered as missing, and every one     *)
(* found is evicted or remembered, also when jobs come out of order.        *)
LifecyclesBalance ==
    LET Remembered(l) == Cardinality({f \in Fingerprint : core.state[f].lifecycle = l})
    IN  /\ Total("first_null")
                = Total("null_to_found") + Total("unresolved") + Remembered("NullSeen")
        /\ Total("first_found") + Total("null_to_found")
                = (Total("evicted") - Total("unresolved")) + Remembered("Found")

(* The LRU and the map mirror each other and stay within state_capacity,    *)
(* or evict_oldest would forget the wrong call, and its loop never end.     *)
LruMirrorsState ==
    /\ core.lru = {<<core.state[f].last_seen_at, f>> : f \in Seen(core)}
    /\ Cardinality(core.lru) <= StateCapacity

(* The shutdown's flush reports everything that was accepted before it was  *)
(* called ("emit accepted historical aggregates before the reporter's final *)
(* flush").                                                                 *)
FlushCoversAccepted ==
    flusher.pc = "done" => emitted.counts["logical"] >= flusher.before
=============================================================================
