----------------------------- MODULE SDKClient -----------------------------
(***************************************************************************)
(* sdk/error-tracer.js: the browser client's queue, its chain of flushes,  *)
(* retries with backoff, the flush timer and destroy().                    *)
(*                                                                         *)
(* JavaScript runs one callback at a time, so an action is one synchronous *)
(* stretch of code: a host call into the client, a timer, or a promise     *)
(* reaction.  The exception is capture(), which calls host code (random,   *)
(* beforeSend, clock) halfway: `suspended` says that such a callback is on *)
(* the stack, and meanwhile only calls made by the host code itself run.   *)
(*                                                                         *)
(* Events are numbered in the order capture() got as far as the queue.     *)
(* `delivered`, `lost` and `reports` are history variables.                *)
(***************************************************************************)
EXTENDS Integers, FiniteSets, Sequences, Functions

CONSTANTS
    BatchSize,     \* options.batchSize
    MaxQueueSize,  \* options.maxQueueSize
    MaxRetries,    \* options.maxRetries
    Interval,      \* options.flushInterval # 0
    Timers,        \* what a page's setTimeout may do: "work", "throw", "absent"
    Reentrant,     \* host callbacks run by capture() may call the client
    Rejects,       \* serialization may turn out too large or fail after queueing
    MaxEvents      \* bound: events offered to the queue

ASSUME ConstantsAssumption ==
    /\ BatchSize \in Nat \ {0}
    /\ MaxQueueSize \in Nat /\ MaxQueueSize >= BatchSize
    /\ MaxRetries \in Nat
    /\ MaxEvents \in Nat
    /\ Timers \subseteq {"work", "throw", "absent"}
    /\ {Interval, Reentrant, Rejects} \subseteq BOOLEAN

VARIABLES
    host,       \* what this page's setTimeout does, one of Timers
    queue,      \* this.queue
    reserved,   \* this.reservedCount
    jobs,       \* flushes not finished, oldest first; flushPromise is the last
    current,    \* the batch the oldest flush is delivering
    timer,      \* this.flushTimer # null
    stopped,    \* this.stopped
    suspended,  \* capture() is inside a host callback
    offered,    \* events numbered so far
    sent,       \* stats.sent
    dropped,    \* stats.dropped
    delivered,  \* events the transport accepted, in order
    lost,       \* events the client gave up
    reports     \* what finished flushes resolved to, with their events

vars == <<host, queue, reserved, jobs, current, timer, stopped, suspended, offered,
          sent, dropped, delivered, lost, reports>>
delivery == <<current, sent, delivered, reports>>

NoBatch == [batch |-> <<>>, attempt |-> 0, phase |-> "none"]
FirstTry(batch) == [batch |-> batch, attempt |-> 0, phase |-> "transport"]
Min2(a, b) == IF a < b THEN a ELSE b

\* What makeBatches may keep of q: it rejects any events, wherever they are in
\* q, that are too large on their own.
Rising(s) == \A i, j \in DOMAIN s : i < j => s[i] < s[j]
Picks(n, q) == {f \in [1..n -> DOMAIN q] : Rising(f)}
Subsequences(q) == UNION {{[i \in 1..n |-> q[f[i]]] : f \in Picks(n, q)} : n \in 0..Len(q)}
Keepings(q) == IF Rejects THEN Subsequences(q) ELSE {q}

\* How many events makeBatches may put in the next batch: the byte limit can
\* close a batch before batchSize does.
BatchLengths(q) == IF q = <<>> THEN {0} ELSE 1..Min2(BatchSize, Len(q))

LoseSilently(gone) ==                         \* mutant of Lose
    /\ lost' = lost \cup gone
    /\ UNCHANGED dropped
Lose(gone) ==
    /\ lost' = lost \cup gone
    /\ dropped' = dropped + Cardinality(gone)

Init ==
    /\ host \in Timers
    /\ queue = <<>> /\ reserved = 0 /\ jobs = <<>> /\ current = NoBatch
    /\ timer = FALSE /\ stopped = FALSE /\ suspended = FALSE
    /\ offered = 0 /\ sent = 0 /\ dropped = 0
    /\ delivered = <<>> /\ lost = {} /\ reports = {}

-----------------------------------------------------------------------------
\* A flush while others are active waits behind all of them.
AfterHead(active, job) ==                     \* mutant of Chained
    <<Head(active), job>> \o Tail(active)
Chained(active, job) == Append(active, job)

\* reservedCount grows by every batch of a flush but the first, which starts.
Waiting(kept, first) == Len(kept) - first

\* flush() of queue q with the flushes `active` unfinished, when the same step
\* has already dropped `gone`: chained behind the active ones and counted as
\* reserved, or started at once.
FlushQueue(q, gone, active) ==
    /\ timer' = FALSE
    /\ queue' = <<>>
    /\ \/ /\ q = <<>>
          /\ jobs' = active
          /\ Lose(gone)
          /\ UNCHANGED <<reserved, current>>
       \/ /\ q # <<>> /\ active # <<>>
          /\ jobs' = Chained(active,
                          [pending |-> q, started |-> FALSE,
                           ok |-> TRUE, events |-> Range(q)])
          /\ reserved' = reserved + Len(q)
          /\ Lose(gone)
          /\ UNCHANGED current
       \/ /\ q # <<>> /\ active = <<>>
          /\ \E kept \in Keepings(q) : \E n \in BatchLengths(kept) :
                LET rejected == Range(q) \ Range(kept) IN
                /\ jobs' = <<[pending |-> SubSeq(kept, n + 1, Len(kept)),
                              started |-> TRUE, ok |-> rejected = {},
                              events |-> Range(q)]>>
                /\ reserved' = reserved + Waiting(kept, n)
                /\ current' = IF n = 0 THEN NoBatch ELSE FirstTry(SubSeq(kept, 1, n))
                /\ Lose(gone \cup rejected)

\* scheduleFlush() has nothing to arm.
OrFlushing(q) ==                              \* mutant of NoTimerNeeded
    stopped \/ timer \/ q = <<>> \/ ~Interval \/ host = "absent" \/ jobs # <<>>
NoTimerNeeded(q) == stopped \/ timer \/ q = <<>> \/ ~Interval \/ host = "absent"

\* scheduleFlush(), with q the queue and `gone` dropped in the same step.  A
\* setTimeout that throws flushes at once.
ScheduleFlush(q, gone, active) ==
    \/ /\ NoTimerNeeded(q) \/ host = "work"
       /\ queue' = q
       /\ timer' = (timer \/ ~NoTimerNeeded(q))
       /\ jobs' = active
       /\ Lose(gone)
       /\ UNCHANGED <<reserved, current>>
    \/ /\ ~NoTimerNeeded(q) /\ host = "throw"
       /\ FlushQueue(q, gone, active)

\* Events waiting behind an active transport count against the bound too.
QueueFull == Len(queue) >= MaxQueueSize       \* mutant of Full
Full == Len(queue) + reserved >= MaxQueueSize

\* The rest of capture() once host callbacks have returned and the event is
\* within budget: enqueue, then flush a full batch or arm the timer.
Enqueue ==
    LET id == offered + 1
        gone == IF Full THEN {Head(queue)} ELSE {}
        q == Append(IF Full THEN Tail(queue) ELSE queue, id)
    IN  \/ /\ Full /\ queue = <<>>
           /\ Lose({id})
           /\ UNCHANGED <<queue, reserved, jobs, current, timer>>
        \/ /\ ~(Full /\ queue = <<>>)
           /\ Len(q) >= BatchSize /\ jobs # <<>>
           /\ queue' = q
           /\ Lose(gone)
           /\ UNCHANGED <<reserved, jobs, current, timer>>
        \/ /\ ~(Full /\ queue = <<>>)
           /\ Len(q) >= BatchSize /\ jobs = <<>>
           /\ FlushQueue(q, gone, <<>>)
        \/ /\ ~(Full /\ queue = <<>>)
           /\ Len(q) < BatchSize
           /\ ScheduleFlush(q, gone, jobs)

\* The event alone exceeds maxBatchBytes: dropped before it is queued.
DropOversized ==
    /\ Rejects
    /\ Lose({offered + 1})
    /\ UNCHANGED <<queue, reserved, jobs, current, timer>>

Accept ==
    /\ offered < MaxEvents
    /\ offered' = offered + 1
    /\ Enqueue \/ DropOversized

\* capture() whose host callbacks, if any, do not call the client.
Capture ==
    /\ ~stopped
    /\ Accept
    /\ UNCHANGED <<stopped, host, suspended, sent, delivered, reports>>

\* capture() has passed its stopped check and calls host code ...
CaptureCallsHost ==
    /\ Reentrant
    /\ ~stopped /\ ~suspended
    /\ suspended' = TRUE
    /\ UNCHANGED <<queue, reserved, jobs, timer, stopped, host, offered, dropped, lost, delivery>>

\* ... which returns: the event goes on to the queue, or is sampled out,
\* suppressed, invalid or throttled.
CaptureResumes ==
    /\ suspended
    /\ suspended' = FALSE
    /\ \/ Accept
       \/ UNCHANGED <<offered, queue, reserved, jobs, current, timer, dropped, lost>>
    /\ UNCHANGED <<stopped, host, sent, delivered, reports>>

\* An explicit flush(), pagehide or a hidden page.
Flush ==
    /\ FlushQueue(queue, {}, jobs)
    /\ UNCHANGED <<stopped, host, suspended, offered, sent, delivered, reports>>

Destroy ==
    /\ stopped' = TRUE
    /\ FlushQueue(queue, {}, jobs)
    /\ UNCHANGED <<host, suspended, offered, sent, delivered, reports>>

TimerFires ==
    /\ timer /\ ~suspended
    /\ FlushQueue(queue, {}, jobs)
    /\ UNCHANGED <<stopped, host, suspended, offered, sent, delivered, reports>>

-----------------------------------------------------------------------------
\* A chained flush gets its turn: sendPending of a reserved snapshot.
StartJob ==
    /\ ~suspended
    /\ jobs # <<>> /\ ~jobs[1].started
    /\ \E kept \in Keepings(jobs[1].pending) :
          LET rejected == Range(jobs[1].pending) \ Range(kept) IN
          /\ jobs' = [jobs EXCEPT ![1] = [pending |-> kept, started |-> TRUE,
                                          ok |-> @.ok /\ rejected = {}, events |-> @.events]]
          /\ reserved' = reserved - Cardinality(rejected)
          /\ Lose(rejected)
    /\ UNCHANGED <<queue, timer, stopped, host, suspended, offered, delivery>>

\* The next batch of the running flush leaves the reserved count.
StartBatch ==
    /\ ~suspended
    /\ jobs # <<>> /\ jobs[1].started /\ jobs[1].pending # <<>>
    /\ current = NoBatch
    /\ \E n \in BatchLengths(jobs[1].pending) :
          LET p == jobs[1].pending IN
          /\ current' = FirstTry(SubSeq(p, 1, n))
          /\ jobs' = [jobs EXCEPT ![1].pending = SubSeq(p, n + 1, Len(p))]
          /\ reserved' = reserved - n
    /\ UNCHANGED <<queue, timer, stopped, host, suspended, offered, sent, dropped,
                   delivered, lost, reports>>

\* The transport accepted the batch.
AcceptBatch ==
    /\ ~suspended
    /\ current.phase = "transport"
    /\ sent' = sent + Len(current.batch)
    /\ delivered' = delivered \o current.batch
    /\ current' = NoBatch
    /\ UNCHANGED <<queue, reserved, jobs, timer, stopped, host, suspended, offered,
                   dropped, lost, reports>>

\* The running flush will not resolve to true.
StillOk == jobs                               \* mutant of Failed
Failed == [jobs EXCEPT ![1].ok = FALSE]

\* The batch is given up: retries are exhausted, or its body came out larger
\* than maxBatchBytes.
DropBatch ==
    /\ ~suspended
    /\ current.phase = "transport"
    /\ current.attempt = MaxRetries \/ Rejects
    /\ Lose(Range(current.batch))
    /\ current' = NoBatch
    /\ jobs' = Failed
    /\ UNCHANGED <<queue, reserved, timer, stopped, host, suspended, offered, sent,
                   delivered, reports>>

\* The transport refused, threw or rejected and the batch will be retried.
RetryBatch ==
    /\ ~suspended
    /\ current.phase = "transport"
    /\ current.attempt < MaxRetries
    /\ host # "throw"
    /\ current' = [current EXCEPT !.phase = "backoff"]
    /\ UNCHANGED <<queue, reserved, jobs, timer, stopped, host, suspended, offered,
                   sent, dropped, delivered, lost, reports>>

\* wait() called a setTimeout that throws: its promise rejects, and with it
\* the rest of this flush.
WaitThrows ==
    /\ ~suspended
    /\ current.phase = "transport"
    /\ current.attempt < MaxRetries
    /\ host = "throw"
    /\ current' = NoBatch
    /\ jobs' = [Failed EXCEPT ![1].pending = <<>>]
    /\ UNCHANGED <<queue, reserved, timer, stopped, host, suspended, offered,
                   sent, dropped, delivered, lost, reports>>

\* The backoff elapsed (at once when the runtime has no timers).
NextAttempt ==
    [batch |-> current.batch, attempt |-> current.attempt + 1, phase |-> "transport"]

BackoffEnds ==
    /\ ~suspended
    /\ current.phase = "backoff"
    /\ current' = NextAttempt
    /\ UNCHANGED <<queue, reserved, jobs, timer, stopped, host, suspended, offered,
                   sent, dropped, delivered, lost, reports>>

\* The oldest flush has nothing left.  Its outcome carries over to the flush
\* chained behind it; the last one clears flushPromise and looks at the queue.
FinishJob ==
    /\ ~suspended
    /\ jobs # <<>> /\ jobs[1].started /\ jobs[1].pending = <<>>
    /\ current = NoBatch
    /\ reports' = reports \cup {[ok |-> jobs[1].ok, events |-> jobs[1].events]}
    /\ \/ /\ Len(jobs) > 1
          /\ jobs' = [Tail(jobs) EXCEPT ![1].ok = @ /\ jobs[1].ok]
          /\ UNCHANGED <<queue, reserved, current, timer, dropped, lost>>
       \/ /\ Len(jobs) = 1 /\ Len(queue) >= BatchSize
          /\ FlushQueue(queue, {}, <<>>)
       \/ /\ Len(jobs) = 1 /\ Len(queue) < BatchSize
          /\ ScheduleFlush(queue, {}, <<>>)
    /\ UNCHANGED <<stopped, host, suspended, offered, sent, delivered>>

Host == Capture \/ CaptureCallsHost \/ Flush \/ Destroy
Reaction == \/ StartJob \/ StartBatch \/ AcceptBatch \/ DropBatch
            \/ RetryBatch \/ WaitThrows \/ BackoffEnds \/ FinishJob

Next == Host \/ CaptureResumes \/ TimerFires \/ Reaction

\* Host callbacks return, timers fire, promise reactions run and the transport
\* settles every request; the host need not call the client at all.  Timers and
\* reactions wait while capture() is inside a callback, and the event loop gets
\* to them however often the host captures again: hence SF.
Fairness == WF_vars(CaptureResumes) /\ SF_vars(TimerFires) /\ SF_vars(Reaction)

Spec == Init /\ [][Next]_vars /\ Fairness
-----------------------------------------------------------------------------
InJobs == UNION {Range(jobs[i].pending) : i \in DOMAIN jobs}
Held == Range(queue) \cup InJobs \cup Range(current.batch)

\* Each event offered to the queue is in exactly one place - queued, reserved,
\* being delivered, delivered or lost - and stats.sent and stats.dropped count
\* the last two: nothing is lost silently, counted twice or sent twice.
Accounted ==
    /\ Held \cup Range(delivered) \cup lost = 1..offered
    /\ Len(queue) + Cardinality(InJobs) + Len(current.batch)
         + Len(delivered) + Cardinality(lost) = offered
    /\ sent = Len(delivered)
    /\ dropped = Cardinality(lost)

\* The same on every page whose setTimeout does not throw; on one that throws,
\* the stats still never count an event that was not delivered or given up.
AccountedWithTimers ==
    /\ host # "throw" => Accounted
    /\ sent = Len(delivered) /\ dropped = Cardinality(lost)

\* "The queue bound includes snapshots waiting behind an active transport", and
\* reservedCount counts exactly them: through chaining, rejection and retries it
\* never falls below their number, even after a retry whose setTimeout threw.
QueueBounded ==
    /\ Len(queue) + reserved <= MaxQueueSize
    /\ reserved >= Cardinality(InJobs)
    /\ host # "throw" => reserved = Cardinality(InJobs)

\* Batches leave one at a time - a flush starts when those before it are over,
\* and only a started one has a batch on its way - and in the order their events
\* were captured, even when an earlier batch has to be retried.
DeliveredInOrder ==
    /\ \A i \in DOMAIN jobs : i > 1 => ~jobs[i].started
    /\ current.phase # "none" => jobs # <<>> /\ jobs[1].started /\ current.batch # <<>>
    /\ Rising(delivered)

\* "flush() reports whether every batch in that flush was accepted": a flush
\* that resolved to true delivered all its events.
FlushTellsTheTruth ==
    \A r \in reports : r.ok => r.events \subseteq Range(delivered)

\* Every event accepted before destroy() is eventually delivered or counted
\* lost on a page with timers: no event is stranded in a queue that nothing will
\* flush, whatever flushes, rejections and callbacks happen meanwhile.
EventuallySettled ==
    \A id \in 1..MaxEvents :
        host = "work" /\ id <= offered /\ ~stopped ~> id \in Range(delivered) \cup lost
=============================================================================
