------------------------------ MODULE LoadTest ------------------------------
(***************************************************************************)
(* cmd/error-tracer-loadtest: workers that post to the collector until a   *)
(* deadline, a bounded channel of observations, and the summary.           *)
(*                                                                         *)
(* A worker is waiting for a "permit", "asking", about to "deliver" its    *)
(* observation, or "done".  `abandoned` is a history variable: the calls   *)
(* whose worker returned at the deadline.                                  *)
(***************************************************************************)
EXTENDS Ingest

CONSTANTS
    Worker,        \* -concurrency is the size of any subset but {}
    LoadBatch,     \* -batch-size
    Cardinal,      \* -cardinality: what events say is numbered 1..Cardinal
    Rates,         \* whether -rate # 0: the values tried
    FailOnError,   \* -fail-on-error
    MaxCalls       \* bound: requests

ASSUME LoadAssumption ==
    /\ IsFiniteSet(Worker) /\ Worker # {}
    /\ {LoadBatch, Cardinal} \subseteq Nat \ {0} /\ 1..Cardinal \subseteq DOMAIN Fingerprint
    /\ Rates \subseteq BOOLEAN /\ FailOnError \in BOOLEAN /\ MaxCalls \in Nat \ {0}

VARIABLES
    worker,      \* of each worker started: [at, call, saw]
    results,     \* the channel, of capacity 2 * concurrency
    permits,     \* what is in the ticker's channel of one, or Nil
    initial,     \* initialPermit
    expired,     \* loadContext is done: deadline or signal
    summary,     \* [requests, accepted, transport, refused]
    exitCode,    \* -1 while running
    abandoned

load == <<worker, results, permits, initial, expired, summary, exitCode, abandoned>>

Nil == -1
Capacity == 2 * Cardinality(DOMAIN worker)
Waiting0 == [at |-> "permit", call |-> 0, saw |-> "nothing"]

LoadInit ==
    /\ \E started \in (SUBSET Worker) \ {{}} : worker = [w \in started |-> Waiting0]
    /\ results = <<>> /\ expired = FALSE
    /\ \E rated \in Rates : permits = (IF rated THEN 0 ELSE Nil) /\ initial = rated
    /\ summary = [requests |-> 0, accepted |-> 0, transport |-> 0, refused |-> 0]
    /\ exitCode = -1 /\ abandoned = {}

\* buildPayloads: payload p holds the next LoadBatch numbers, and the
\* numbers begin again after Cardinal.
Payloads == (Cardinal + LoadBatch - 1) \div LoadBatch
Payload(p) == [e \in 1..LoadBatch |-> ((p * LoadBatch + e - 1) % Cardinal) + 1]

-----------------------------------------------------------------------------
\* waitForPermit returns true, and client.Do sends the next payload.
MayPost(w) ==
    /\ worker[w].at = "permit" /\ Len(calls) < MaxCalls
    /\ initial \/ permits = 1 \/ (permits = Nil /\ ~expired)
Permitted(w) ==
    /\ MayPost(w)
    /\ initial' = FALSE
    /\ permits' = IF ~initial /\ permits = 1 THEN 0 ELSE permits
    /\ calls' = Append(calls, Request(Payload(Len(calls) % Payloads), "fetch"))
    /\ worker' = [worker EXCEPT ![w] = [at |-> "asking", call |-> Len(calls) + 1,
                                        saw |-> "nothing"]]
    /\ UNCHANGED <<store, ingested, now, triages, results, expired, summary, exitCode, abandoned>>

\* It returns false.
MayLeave(w) == worker[w].at = "permit" /\ expired /\ ~initial
NotPermitted(w) ==
    /\ MayLeave(w)
    /\ worker' = [worker EXCEPT ![w].at = "done"]
    /\ UNCHANGED <<collector, results, permits, initial, expired, summary, exitCode, abandoned>>

Saw(w, what) == worker' = [worker EXCEPT ![w].at = "deliver", ![w].saw = what]

Answered(w) ==
    /\ worker[w].at = "asking"
    /\ LET stage == calls[worker[w].call].stage
       IN  stage \in {"accepted", "refused"} /\ Saw(w, stage)
    /\ UNCHANGED <<collector, results, permits, initial, expired, summary, exitCode, abandoned>>

\* The request or the reading of its answer fails: a timeout, the network, or
\* the deadline, which ends the worker without an observation.
TransportFails(w) ==
    /\ worker[w].at = "asking"
    /\ calls' = [calls EXCEPT ![worker[w].call].watched = FALSE]
    /\ \/ ~expired /\ Saw(w, "transport") /\ UNCHANGED abandoned
       \/ /\ expired
          /\ worker' = [worker EXCEPT ![w].at = "done"]
          /\ abandoned' = abandoned \cup {worker[w].call}
    /\ UNCHANGED <<store, ingested, now, triages, results, permits, initial, expired, summary, exitCode>>

\* The observation is sent when the channel has room, deadline or not.
MayDeliver(w) == worker[w].at = "deliver" /\ Len(results) < Capacity
Deliver(w) ==
    /\ MayDeliver(w)
    /\ results' = Append(results, worker[w].saw)
    /\ worker' = [worker EXCEPT ![w] = Waiting0]
    /\ UNCHANGED <<collector, permits, initial, expired, summary, exitCode, abandoned>>

-----------------------------------------------------------------------------
AllDone == \A w \in DOMAIN worker : worker[w].at = "done"

\* The summary counts one observation.
ErrorsAside(s, what) ==                       \* mutant of Observed
    [s EXCEPT !.requests = @ + (IF what = "transport" THEN 0 ELSE 1),
              !.accepted = @ + (IF what = "accepted" THEN 1 ELSE 0),
              !.refused = @ + (IF what = "refused" THEN 1 ELSE 0),
              !.transport = @ + (IF what = "transport" THEN 1 ELSE 0)]
Observed(s, what) ==
    [s EXCEPT !.requests = @ + 1,
              !.accepted = @ + (IF what = "accepted" THEN 1 ELSE 0),
              !.refused = @ + (IF what = "refused" THEN 1 ELSE 0),
              !.transport = @ + (IF what = "transport" THEN 1 ELSE 0)]

Collect ==
    /\ results # <<>>
    /\ summary' = Observed(summary, Head(results))
    /\ results' = Tail(results)
    /\ UNCHANGED <<collector, worker, permits, initial, expired, exitCode, abandoned>>

Failures(s) == s.accepted = 0 \/ s.transport # 0 \/ s.refused # 0

\* The workers are done and the channel is closed and empty.
MayReport == exitCode = -1 /\ AllDone /\ results = <<>>
Report ==
    /\ MayReport
    /\ exitCode' = IF FailOnError /\ Failures(summary) THEN 1 ELSE 0
    /\ UNCHANGED <<collector, worker, results, permits, initial, expired, summary, abandoned>>

TickerTicks ==
    /\ permits = 0 /\ exitCode = -1
    /\ permits' = 1
    /\ UNCHANGED <<collector, worker, results, initial, expired, summary, exitCode, abandoned>>

Expire ==
    /\ ~expired
    /\ expired' = TRUE
    /\ UNCHANGED <<collector, worker, results, permits, initial, summary, exitCode, abandoned>>

LoadActs == \/ \E w \in DOMAIN worker : \/ Permitted(w) \/ NotPermitted(w) \/ Answered(w)
                                 \/ TransportFails(w) \/ Deliver(w)
            \/ Collect \/ Report
LoadNext == LoadActs \/ TickerTicks \/ Expire \/ (Handle /\ UNCHANGED load)
-----------------------------------------------------------------------------
AskedBy(at) == {w \in DOMAIN worker : worker[w].at = at}

\* Until there is a report, nobody waits on a channel for ever once the deadline
\* has come: a worker has a guard that holds - that of a request under way is
\* that it may fail - or there is an observation to count, or the report to make.
SomebodyGoesOn ==
    expired /\ exitCode = -1 =>
        \/ \E w \in DOMAIN worker : \/ MayPost(w) \/ MayLeave(w) \/ MayDeliver(w)
                                   \/ worker[w].at = "asking"
        \/ results # <<>> \/ MayReport

\* The report counts every request once, except those the deadline cut off.  It
\* claims no more events than the collector's counter, nor the counter more than
\* is committed; success means that every request counted was accepted.
ReportIsComplete ==
    /\ Len(calls) = summary.requests + Len(results) + Cardinality(AskedBy("deliver"))
                      + Cardinality(AskedBy("asking")) + Cardinality(abandoned)
    /\ summary.accepted * LoadBatch <= ingested
    /\ ingested <= Cardinality(Occurrences)
    /\ exitCode = 0 /\ FailOnError =>
          summary.accepted = Len(calls) - Cardinality(abandoned) /\ summary.accepted > 0
    /\ SomebodyGoesOn
=============================================================================
