---------------------------- MODULE SQLiteStore ----------------------------
(***************************************************************************)
(* internal/store/sqlite.go: issue aggregates and their retained event     *)
(* history in one SQLite database, written by concurrent requests.         *)
(*                                                                         *)
(* `db` is what is committed.  A writer takes SQLite's single write lock   *)
(* with BEGIN IMMEDIATE (or by its first UPDATE), works on its own view    *)
(* `work[w]` statement by statement, and either commits that view or rolls *)
(* back; the process may die between any two statements.                   *)
(*                                                                         *)
(* One project is modelled: every statement carries project_id = ? and a   *)
(* process serves exactly one project.  The row field `lineage`, the       *)
(* database field `arrivals` and the variables `acked` and `removed` are   *)
(* history: nothing the program does depends on them.                      *)
(***************************************************************************)
EXTENDS Naturals, FiniteSets, Sequences, Functions

CONSTANTS
    Writer,              \* concurrent requests that write
    NoWriter,            \* nobody holds the write lock
    Shape,               \* what an event says: the fields fingerprints read
    Group,               \* v2 fingerprints
    LegacyKey,           \* v1 fingerprints
    Fingerprint,         \* [Shape -> Group], event.Fingerprint
    LegacyFingerprint,   \* [Shape -> LegacyKey], event.LegacyFingerprint
    Columns,             \* Shape |-> (kind, message, source_url, line, column)
    Time,                \* received_at values, possibly out of order
    MaxEventsPerIssue,   \* retained events per issue
    PruneBatchSize,      \* issues removed by one retention statement
    MaxBatch,            \* bound: events per batch
    MaxArrivals,         \* bound: events ever inserted
    Seeds,               \* databases an earlier build may have left
    PreHistory           \* ids of seed occurrences older than event history

Key == Group \cup LegacyKey
Status == {"open", "resolved", "ignored"}

ASSUME ConstantsAssumption ==
    /\ NoWriter \notin Writer
    /\ Group \cap LegacyKey = {}
    /\ Fingerprint \in [Shape -> Group]
    /\ LegacyFingerprint \in [Shape -> LegacyKey]
    /\ DOMAIN Columns = Shape
    /\ \A s, t \in Shape :       \* the v2 key hashes the columns among others
          Fingerprint[s] = Fingerprint[t] => Columns[s] = Columns[t]
    /\ Time \subseteq Nat
    /\ MaxEventsPerIssue \in Nat \ {0}
    /\ PruneBatchSize \in Nat \ {0}
    /\ MaxBatch \in Nat /\ MaxArrivals \in Nat /\ PreHistory \subseteq Nat

(***************************************************************************)
(* Rows and databases.  An occurrence is one accepted event: `id` is its   *)
(* place in the order of insertion, `at` its received_at.                  *)
(***************************************************************************)
Occurrence == [id : Nat, at : Nat, shape : Shape]

Row == [version : {1, 2}, columns : {Columns[s] : s \in Shape}, status : Status,
        occurrences : Nat, first : Nat, last : Nat,
        lastEvent : Occurrence, lineage : SUBSET Occurrence]

EventRow == [seq : Nat \ {0}, key : Key, event : Occurrence]

IsDatabase(d) ==
    /\ d = [issues |-> d.issues, events |-> d.events, arrivals |-> d.arrivals]
    /\ DOMAIN d.issues \subseteq Key
    /\ d.issues \in [DOMAIN d.issues -> Row]
    /\ d.events \subseteq EventRow
    /\ d.arrivals \in Nat

\* v2 keys are exactly the keys of version 2 rows; lineages are finite.
VersionsMatchKeys(d) ==
    \A k \in DOMAIN d.issues :
        /\ d.issues[k].version = 2 <=> k \in Group
        /\ IsFiniteSet(d.issues[k].lineage)

\* An occurrence belongs to one issue, and its id was handed out once.
OccurrencesUnique(d) ==
    \A k, j \in DOMAIN d.issues :
        \A o \in d.issues[k].lineage, p \in d.issues[j].lineage :
            /\ o.id <= d.arrivals
            /\ o.id = p.id => o = p /\ k = j

\* The columns of an aggregate say what its occurrences say.
RowMatches(row) ==
    /\ row.occurrences = Cardinality(row.lineage)
    /\ \E o \in row.lineage : o.at = row.first
    /\ \A o \in row.lineage : row.first <= o.at /\ o.at <= row.last
    /\ row.lastEvent \in row.lineage /\ row.lastEvent.at = row.last

AggregatesMatch(d) == \A k \in DOMAIN d.issues : RowMatches(d.issues[k])

\* FOREIGN KEY (project_id, fingerprint) REFERENCES issues.
EventsBelong(d) ==
    \A e \in d.events :
        /\ e.key \in DOMAIN d.issues
        /\ e.event \in d.issues[e.key].lineage

\* Sequences number the rows present in the order they were inserted.
SequencesOrdered(d) ==
    /\ \A e \in d.events : e.seq <= d.arrivals
    /\ \A e, f \in d.events : e.seq <= f.seq <=> e.event.id <= f.event.id

SoundDatabase(d) ==
    /\ IsDatabase(d)
    /\ VersionsMatchKeys(d)
    /\ OccurrencesUnique(d)
    /\ AggregatesMatch(d)
    /\ EventsBelong(d)
    /\ SequencesOrdered(d)

\* A v1 row has the key of all its events and the columns of the event that
\* created it: the v1 build's upsert did not update columns either, so events
\* whose v1 keys collided (event.go joined the fields with NULs) left a row whose
\* columns need not be those of its last event.
LegacyRowsMatch(d) ==
    \A k \in DOMAIN d.issues :
        LET row == d.issues[k] IN
        row.version = 1 =>
           /\ \A o \in row.lineage : LegacyFingerprint[o.shape] = k
           /\ \E o \in row.lineage : /\ row.columns = Columns[o.shape]
                                     /\ \A p \in row.lineage : o.id <= p.id
Collided(row) == row.columns # Columns[row.lastEvent.shape]

\* No v1 row is beside the v2 issue of its group, but for collided ones: when an
\* event of the group recurs, equal columns lead to any other, and to these only
\* their exact key does.
Unsplit(d) ==
    \A k \in DOMAIN d.issues :
        LET row == d.issues[k] IN
        row.version = 1 /\ ~Collided(row) =>
            Fingerprint[row.lastEvent.shape] \notin DOMAIN d.issues

RowsOf(events, k) == {e \in events : e.key = k}

Newer(p, o) == p.at > o.at \/ (p.at = o.at /\ p.id > o.id)
Newest(seen, n) ==
    {o \in seen : Cardinality({p \in seen : Newer(p, o)}) < n}

\* The history of an issue is its newest occurrences since histories exist.
Remembered(d, k) == {o \in d.issues[k].lineage : o.id \notin PreHistory}
HistoryExact(d, k) ==
    {e.event : e \in RowsOf(d.events, k)} =
        Newest(Remembered(d, k), MaxEventsPerIssue)

ASSUME SeedsAssumption ==
    \A d \in Seeds :
        /\ SoundDatabase(d) /\ LegacyRowsMatch(d) /\ Unsplit(d)
        /\ \A k \in DOMAIN d.issues : HistoryExact(d, k)
        /\ \A id \in PreHistory : id <= d.arrivals

VARIABLES
    db,        \* [issues |-> key |-> row, events |-> set of event rows,
               \*  arrivals |-> number of events ever inserted]
    work,      \* the transaction's view of each writer
    tx,        \* where each writer is in its transaction
    lock,      \* the writer holding SQLite's write lock
    acked,     \* ids whose RecordBatch returned without error
    removed    \* ids of the occurrences retention deleted with their issue

vars == <<db, work, tx, lock, acked, removed>>

EmptyDB == [issues |-> <<>>, events |-> {}, arrivals |-> 0]
IdleTx == [phase |-> "idle", batch |-> <<>>, index |-> 0,
           migrated |-> {}, touched |-> {}, ids |-> {}]

\* The function f with k mapped to v.
Put(f, k, v) == [j \in DOMAIN f \cup {k} |-> IF j = k THEN v ELSE f[j]]

\* MAX and MIN as the upserts use them on (stored, incoming) values.
LastWritten(a, b) == b                        \* mutant of AtLeast
AtLeast(a, b) == IF a < b THEN b ELSE a
AtMost(a, b) == IF a < b THEN a ELSE b

\* status = CASE WHEN issues.status = 'resolved' THEN excluded.status ...
Reopened(status) == IF status = "resolved" THEN "open" ELSE status

-----------------------------------------------------------------------------
(***************************************************************************)
(* The statements RecordBatch is made of, as functions on a database.      *)
(***************************************************************************)

\* INSERT INTO issues ... ON CONFLICT DO UPDATE, one occurrence.
UpsertIssue(issues, o) ==
    LET k == Fingerprint[o.shape]
        old == issues[k]
        row == IF k \in DOMAIN issues
               THEN [version |-> 2, columns |-> old.columns,
                     status |-> Reopened(old.status),
                     occurrences |-> old.occurrences + 1,
                     first |-> AtMost(old.first, o.at),
                     last |-> AtLeast(old.last, o.at),
                     lastEvent |-> IF o.at >= old.last THEN o ELSE old.lastEvent,
                     lineage |-> old.lineage \cup {o}]
               ELSE [version |-> 2, columns |-> Columns[o.shape],
                     status |-> "open", occurrences |-> 1,
                     first |-> o.at, last |-> o.at, lastEvent |-> o,
                     lineage |-> {o}]
    IN  Put(issues, k, row)

\* sequence INTEGER PRIMARY KEY without AUTOINCREMENT: one more than the
\* largest sequence in the table now, so those of deleted rows come back.
FirstFreeSequence(events) ==                  \* mutant of NextSequence
    CHOOSE n \in 1..(Cardinality(events) + 1) : \A e \in events : e.seq # n
NextSequence(events) ==
    IF events = {} THEN 1
    ELSE (CHOOSE e \in events : \A f \in events : f.seq <= e.seq).seq + 1

InsertEvent(events, o) ==
    events \cup {[seq |-> NextSequence(events), key |-> Fingerprint[o.shape], event |-> o]}

\* ORDER BY received_at DESC, sequence DESC
RowNewer(e, f) == \/ e.event.at > f.event.at
                  \/ e.event.at = f.event.at /\ e.seq > f.seq

\* Keep the newest `limit` rows of one issue.
TrimEvents(events, k, limit) ==
    {e \in events : e.key = k =>
        Cardinality({f \in RowsOf(events, k) : RowNewer(f, e)}) < limit}

\* DELETE FROM issues, with ON DELETE CASCADE on the event rows.
DeleteIssues(d, gone) ==
    [issues |-> Restrict(d.issues, DOMAIN d.issues \ gone),
     events |-> {e \in d.events : e.key \notin gone},
     arrivals |-> d.arrivals]

\* Legacy issues to carry into the group of event o: the exact v1 key, or the
\* same grouping columns, whose last event has that v1 key and that v2 group.
ExactCandidate(d, o) ==                       \* mutant of LegacyCandidates
    {k \in DOMAIN d.issues : k = LegacyFingerprint[o.shape]}
LegacyCandidates(d, o) ==
    {k \in DOMAIN d.issues :
        LET row == d.issues[k] IN
        /\ row.version = 1
        /\ k = LegacyFingerprint[o.shape] \/ row.columns = Columns[o.shape]
        /\ LegacyFingerprint[row.lastEvent.shape] = k
        /\ Fingerprint[row.lastEvent.shape] = Fingerprint[o.shape]}

MergedStatus(statuses) ==
    IF "ignored" \in statuses THEN "ignored"
    ELSE IF "open" \in statuses THEN "open" ELSE "resolved"

\* INSERT ... SELECT from the v1 row ON CONFLICT DO UPDATE.
MergeRow(issues, from, o) ==
    LET k == Fingerprint[o.shape]
        old == issues[k]
        new == issues[from]
        row == IF k \in DOMAIN issues
               THEN [version |-> 2, columns |-> old.columns,
                     status |-> MergedStatus({old.status, new.status}),
                     occurrences |-> old.occurrences + new.occurrences,
                     first |-> AtMost(old.first, new.first),
                     last |-> AtLeast(old.last, new.last),
                     lastEvent |-> IF new.last >= old.last
                                   THEN new.lastEvent ELSE old.lastEvent,
                     lineage |-> old.lineage \cup new.lineage]
               ELSE [new EXCEPT !.version = 2, !.columns = Columns[o.shape]]
    IN  Put(issues, k, row)

\* UPDATE events SET fingerprint
MoveEvents(events, from, k) ==
    {IF e.key = from THEN [e EXCEPT !.key = k] ELSE e : e \in events}

\* Merge, then move the history, then delete the v1 row, in that order: the
\* delete would cascade to rows that had not been moved.
DeleteThenMove(d, from, o) ==                 \* mutant of MergeLegacyIssue
    LET merged == DeleteIssues([d EXCEPT !.issues = MergeRow(@, from, o)], {from})
    IN  [merged EXCEPT !.events = MoveEvents(@, from, Fingerprint[o.shape])]
MergeLegacyIssue(d, from, o) ==
    DeleteIssues([issues |-> MergeRow(d.issues, from, o),
                  events |-> MoveEvents(d.events, from, Fingerprint[o.shape]),
                  arrivals |-> d.arrivals],
                 {from})

\* The sets of n issues a statement ordered by last_seen ASC may select from
\* pool.  The order of equal timestamps is left open.
OldestOf(d, pool, n) ==
    {gone \in SUBSET pool :
        /\ Cardinality(gone) = n
        /\ \A k \in gone, j \in pool \ gone : d.issues[k].last <= d.issues[j].last}

-----------------------------------------------------------------------------
Init ==
    /\ db \in Seeds
    /\ work = [w \in Writer |-> EmptyDB]
    /\ tx = [w \in Writer |-> IdleTx]
    /\ lock = NoWriter
    /\ acked = {}
    /\ removed = {}

Batches == UNION {[1..n -> [shape : Shape, at : Time]] : n \in 1..MaxBatch}

\* SQLite admits one writer; the others wait out the busy timeout and retry or
\* fail without a change.
NoExclusion == TRUE                           \* mutant of WriteLockFree
WriteLockFree == lock = NoWriter

\* BEGIN IMMEDIATE: the write lock is taken before anything is read.
BeginRecordBatch(w, batch) ==
    /\ tx[w].phase = "idle"
    /\ WriteLockFree
    /\ db.arrivals + Len(batch) <= MaxArrivals
    /\ lock' = w
    /\ work' = [work EXCEPT ![w] = db]
    /\ tx' = [tx EXCEPT ![w] = [IdleTx EXCEPT !.phase = "migrate",
                                              !.batch = batch, !.index = 1]]
    /\ UNCHANGED <<db, acked, removed>>

\* migrateLegacyIssueFingerprints, one candidate.
MergeCandidate(w) ==
    LET r == tx[w].batch[tx[w].index] IN
    /\ tx[w].phase = "migrate"
    /\ Fingerprint[r.shape] \notin tx[w].migrated
    /\ \E from \in LegacyCandidates(work[w], r) :
          work' = [work EXCEPT ![w] = MergeLegacyIssue(@, from, r)]
    /\ UNCHANGED <<db, tx, lock, acked, removed>>

\* The record's group has no candidate left (or was handled for an earlier
\* record of the batch): on to the next record, and after the last one to the
\* inserts.
NextMigration(w) ==
    LET t == tx[w]
        r == t.batch[t.index]
        g == Fingerprint[r.shape]
        last == t.index = Len(t.batch)
    IN  /\ t.phase = "migrate"
        /\ g \in t.migrated \/ LegacyCandidates(work[w], r) = {}
        /\ tx' = [tx EXCEPT ![w] =
                    [t EXCEPT !.migrated = @ \cup {g},
                              !.phase = IF last THEN "record" ELSE "migrate",
                              !.index = IF last THEN 1 ELSE @ + 1]]
        /\ UNCHANGED <<db, work, lock, acked, removed>>

AfterOne(t) == TRUE                           \* mutant of AllRecorded
AllRecorded(t) == t.index = Len(t.batch)

\* Upsert the issue and insert the event row of one record.
RecordEvent(w) ==
    LET t == tx[w]
        r == t.batch[t.index]
        o == [id |-> work[w].arrivals + 1, at |-> r.at, shape |-> r.shape]
        last == AllRecorded(t)
    IN  /\ t.phase = "record"
        /\ work' = [work EXCEPT ![w] =
                      [issues |-> UpsertIssue(@.issues, o),
                       events |-> InsertEvent(@.events, o),
                       arrivals |-> o.id]]
        /\ tx' = [tx EXCEPT ![w] =
                    [t EXCEPT !.touched = @ \cup {Fingerprint[o.shape]},
                              !.ids = @ \cup {o.id},
                              !.phase = IF last THEN "trim" ELSE "record",
                              !.index = IF last THEN 1 ELSE @ + 1]]
        /\ UNCHANGED <<db, lock, acked, removed>>

\* Trim one touched history; Go's map iteration fixes no order.
TrimTouched(w) ==
    LET t == tx[w] IN
    /\ t.phase = "trim"
    /\ \E k \in t.touched :
          /\ work' = [work EXCEPT ![w].events = TrimEvents(@, k, MaxEventsPerIssue)]
          /\ tx' = [tx EXCEPT ![w] =
                      [t EXCEPT !.touched = @ \ {k},
                                !.phase = IF t.touched = {k} THEN "commit" ELSE "trim"]]
    /\ UNCHANGED <<db, lock, acked, removed>>

\* SetIssueStatus: BEGIN, then the UPDATE takes the write lock.  A missing
\* issue (no row affected) rolls back without a change and is not a step.
BeginSetStatus(w, k, status) ==
    /\ tx[w].phase = "idle"
    /\ WriteLockFree
    /\ k \in DOMAIN db.issues
    /\ lock' = w
    /\ work' = [work EXCEPT ![w] = [db EXCEPT !.issues[k].status = status]]
    /\ tx' = [tx EXCEPT ![w] = [IdleTx EXCEPT !.phase = "commit"]]
    /\ UNCHANGED <<db, acked, removed>>

\* The connection goes back to the pool without a transaction.
EndHoldingLock(w) ==                          \* mutant of EndTransaction
    /\ work' = [work EXCEPT ![w] = EmptyDB]
    /\ tx' = [tx EXCEPT ![w] = IdleTx]
    /\ UNCHANGED lock
EndTransaction(w) ==
    /\ lock' = NoWriter
    /\ work' = [work EXCEPT ![w] = EmptyDB]
    /\ tx' = [tx EXCEPT ![w] = IdleTx]

\* COMMIT succeeds and the call returns without error.
Commit(w) ==
    /\ tx[w].phase = "commit"
    /\ db' = work[w]
    /\ acked' = acked \cup tx[w].ids
    /\ EndTransaction(w)
    /\ UNCHANGED removed

\* A statement fails or the request's context is cancelled: deferred ROLLBACK.
Rollback(w) ==
    /\ tx[w].phase # "idle"
    /\ EndTransaction(w)
    /\ UNCHANGED <<db, acked, removed>>

Remove(gone) ==
    /\ db' = DeleteIssues(db, gone)
    /\ removed' = removed \cup {o.id : o \in UNION {db.issues[k].lineage : k \in gone}}
    /\ UNCHANGED <<work, tx, lock, acked>>

\* One auto-commit DELETE of at most PruneBatchSize issues not seen since the
\* cutoff; one seen exactly at the cutoff stays.
PruneIssues(cutoff) ==
    LET expired == {k \in DOMAIN db.issues : db.issues[k].last < cutoff}
    IN  /\ WriteLockFree
        /\ \E gone \in OldestOf(db, expired,
                                AtMost(PruneBatchSize, Cardinality(expired))) :
              Remove(gone)

\* One auto-commit DELETE of the oldest issues above the limit.
EnforceIssueLimit(limit) ==
    LET live == DOMAIN db.issues
        count == Cardinality(live)
        excess == IF count > limit THEN count - limit ELSE 0
    IN  /\ WriteLockFree
        /\ \E gone \in OldestOf(db, live, AtMost(PruneBatchSize, excess)) :
              Remove(gone)

\* The process dies; SQLite discards the open transaction on reopen.
Crash ==
    /\ tx' = [w \in Writer |-> IdleTx]
    /\ work' = [w \in Writer |-> EmptyDB]
    /\ lock' = NoWriter
    /\ UNCHANGED <<db, acked, removed>>

Begin(w) ==
    \/ \E batch \in Batches : BeginRecordBatch(w, batch)
    \/ \E k \in Key, status \in Status : BeginSetStatus(w, k, status)

Proceed(w) ==
    \/ MergeCandidate(w) \/ NextMigration(w) \/ RecordEvent(w)
    \/ TrimTouched(w) \/ Commit(w) \/ Rollback(w)

Next ==
    \/ \E w \in Writer : Begin(w) \/ Proceed(w)
    \/ \E cutoff \in Time : PruneIssues(cutoff)
    \/ \E limit \in 1..Cardinality(Key) : EnforceIssueLimit(limit)
    \/ Crash

\* A request that holds the write lock keeps running: every statement returns,
\* with an error at worst.
Spec == Init /\ [][Next]_vars /\ \A w \in Writer : WF_vars(Proceed(w))
-----------------------------------------------------------------------------
(***************************************************************************)
(* Properties of the committed database.                                   *)
(***************************************************************************)
Transaction ==
    [phase : {"idle", "migrate", "record", "trim", "commit"},
     batch : Seq([shape : Shape, at : Nat]), index : Nat,
     migrated : SUBSET Group, touched : SUBSET Group, ids : SUBSET Nat]

\* Every variable has its type; a request is in a transaction exactly while it
\* holds the write lock (BEGIN IMMEDIATE ... COMMIT or ROLLBACK).
TypeOK ==
    /\ IsDatabase(db)
    /\ DOMAIN work = Writer
    /\ \A w \in Writer : lock = w => IsDatabase(work[w])
    /\ tx \in [Writer -> Transaction]
    /\ \A w \in Writer : tx[w].phase # "idle" <=> lock = w
    /\ lock \in Writer \cup {NoWriter}
    /\ acked \subseteq Nat /\ removed \subseteq Nat

\* The columns of an aggregate row (sqliteUpsertIssue, sqliteMergeLegacyIssue)
\* always say what its occurrences say, whatever order received_at values
\* arrive in and however many rows were merged into it.
AggregatesMatchLineage == AggregatesMatch(db)

\* Event rows never outlive or precede their issue (FOREIGN KEY): merging a
\* legacy issue moves its history before the cascade can delete it.
EventsHaveIssues == EventsBelong(db)

\* Sequences of deleted rows are handed out again, and still the rows present
\* at any time are numbered in the order they were inserted.
SequencesFollowArrival == SequencesOrdered(db)

\* The history retained for an issue is exactly its newest MaxEventsPerIssue
\* occurrences since event history exists: trimming batch by batch, reusing
\* sequences and merging trimmed histories lose nothing that should be kept,
\* and no row is left over without its issue.
HistoryIsNewest ==
    /\ EventsHaveIssues
    /\ \A k \in DOMAIN db.issues : HistoryExact(db, k)

\* An event whose RecordBatch returned without error is part of an issue from
\* then on, until retention removes that issue: crashes, rollbacks and other
\* writers never lose it.
AckedAreDurable ==
    \A id \in acked \ removed :
        \E k \in DOMAIN db.issues : \E o \in db.issues[k].lineage : o.id = id

\* No legacy aggregate is left beside the v2 issue of its own group unless its v1
\* key had collided and its columns are another event's.  README.md:409-410 says
\* without that exception that SQLite locates every v1 aggregate whose last event
\* belongs to the same v2 group; sqlite.go:144-156 looks for the exact v1 key of
\* the recurring event or for its columns, and only once per group of a batch.
NoSplitGroup == Unsplit(db)

\* Every transaction ends: the single write lock is always released again.
LockReleased == \A w \in Writer : lock = w ~> lock # w

LedgerView == [k \in DOMAIN db.issues |->
                  [status |-> db.issues[k].status, seen |-> db.issues[k].lineage]]

AskedView == [w \in {v \in Writer : tx[v].batch # <<>>} |-> tx[w].batch]

Ledger == INSTANCE IssueLedger WITH ledger <- LedgerView, asked <- AskedView

\* Whatever the interleaving of statements, writers, rollbacks and crashes, the
\* committed issues move as the abstract ledger: the batch of a request (RecordBatch,
\* sqlite.go:598-599) all at once or not at all, recurrences reopening resolved
\* issues, retention from the oldest end.
LedgerSpec == Ledger!Spec
=============================================================================
