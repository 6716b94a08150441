------------------------------- MODULE Ingest -------------------------------
(***************************************************************************)
(* The collector's POST handlers (internal/server/ingest.go, origin.go)    *)
(* and the counters behind them (metrics.go), over the memory store.       *)
(*                                                                         *)
(* One request is one goroutine: it is let through and stamped, records    *)
(* its batch, counts it, answers.  The two charges of the rate limiters,   *)
(* the origin, the decoder and the project key can each refuse it; which   *)
(* of them does is not told apart, RateLimiter has the limiters' state.    *)
(* POST /api/v1/events is the same handler for a batch of one.             *)
(***************************************************************************)
EXTENDS MemoryStore

CONSTANTS
    StoreMayFail,   \* RecordBatch may fail although nobody cancelled it
    MaxTime,        \* bound: the collector's clock
    MaxTriages      \* bound: statuses set

ASSUME IngestAssumption ==
    /\ StoreMayFail \in BOOLEAN
    /\ {MaxTime, MaxTriages} \subseteq Nat

VARIABLES
    calls,      \* requests made, oldest first: [batch, by, stage, at, watched]
    ingested,   \* metrics.ingested
    now,        \* s.now
    triages

collector == <<store, calls, ingested, now, triages>>

CollectorInit ==
    /\ EmptyStore
    /\ calls = <<>> /\ ingested = 0 /\ now = 1 /\ triages = 0

\* A request is "sent", "prepared", "recorded" and answered, "accepted" or
\* "refused"; `at` is its received_at until it is recorded.  Nobody reads the
\* answer of one not `watched`, and its context is cancelled.
Request(batch, by) ==
    [batch |-> batch, by |-> by, stage |-> "sent", at |-> 0, watched |-> by = "fetch"]

At(i, stage) == [calls EXCEPT ![i].stage = stage, ![i].at = 0]

\* allowIngestRequest, decoding, prepareEvent of every item, allowIngestTokens:
\* one item that does not validate refuses the batch.  The clock is read for
\* each item; here they all get one reading.
Prepare(i) ==
    /\ calls[i].stage = "sent"
    /\ \/ calls' = At(i, "refused")
       \/ calls' = [At(i, "prepared") EXCEPT ![i].at = now]
    /\ UNCHANGED <<store, ingested, now, triages>>

\* RecordBatch commits, whether or not anybody still waits ...
Record(i) ==
    /\ calls[i].stage = "prepared"
    /\ RecordBatch(calls[i].batch, calls[i].at)
    /\ calls' = At(i, "recorded")
    /\ UNCHANGED <<ingested, now, triages>>

\* ... or fails and has recorded nothing: 500.
FailedLate(i) == RecordBatch(calls[i].batch, calls[i].at)   \* mutant of Failing
Failing(i) == UNCHANGED store
RecordFails(i) ==
    /\ calls[i].stage = "prepared"
    /\ StoreMayFail \/ ~calls[i].watched
    /\ Failing(i)
    /\ calls' = At(i, "refused")
    /\ UNCHANGED <<ingested, now, triages>>

\* metrics.addIngested and the answer 202.
IngestedAfter(i) == ingested + Len(calls[i].batch)
Accept202(i) ==
    /\ calls[i].stage = "recorded"
    /\ ingested' = IngestedAfter(i)
    /\ calls' = At(i, "accepted")
    /\ UNCHANGED <<store, now, triages>>

Handle == \E i \in DOMAIN calls :
    Prepare(i) \/ Record(i) \/ RecordFails(i) \/ Accept202(i)

\* PATCH /api/v1/issues/{fingerprint}.
Triage ==
    /\ triages < MaxTriages
    /\ triages' = triages + 1
    /\ \E k \in DOMAIN issues, status \in {"resolved", "ignored"} :
          SetIssueStatus(k, status)
    /\ UNCHANGED <<calls, ingested, now>>

Tick ==
    /\ now < MaxTime
    /\ now' = now + 1
    /\ UNCHANGED <<store, calls, ingested, triages>>

CollectorNext == Handle \/ Triage \/ Tick
-----------------------------------------------------------------------------
Occurrences == UNION {seen[k] : k \in DOMAIN seen}

LedgerView == [k \in DOMAIN issues |-> [status |-> issues[k].status, seen |-> seen[k]]]

\* The batches handlers have prepared and not yet recorded.
Asking == {i \in DOMAIN calls : calls[i].stage = "prepared" /\ calls[i].batch # <<>>}
AskedView == [i \in Asking |-> [n \in DOMAIN calls[i].batch |->
                                   [shape |-> calls[i].batch[n], at |-> calls[i].at]]]

Ledger == INSTANCE IssueLedger WITH
    Group <- {Fingerprint[s] : s \in DOMAIN Fingerprint},
    LegacyKey <- {},
    Shape <- DOMAIN Fingerprint,
    ledger <- LedgerView,
    asked <- AskedView

\* The memory store under its handlers keeps the promise SQLiteStore keeps: the
\* batch a request was let through with is recorded whole (memory.go:57-58) or,
\* when RecordBatch fails, not at all; recurrences reopen what was resolved.
LedgerSpec == Ledger!Spec
=============================================================================
