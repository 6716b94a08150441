---------------------------- MODULE MemoryStore ----------------------------
(***************************************************************************)
(* internal/store/memory.go: the issue store of tests, of development and  *)
(* of the demo.  Its mutex makes every operation one step, so the work is  *)
(* in what RecordBatch does to aggregates and histories when received_at,  *)
(* stamped before the mutex, arrives out of order.                         *)
(*                                                                         *)
(* `seen` is a history variable: the occurrences each issue stands for.    *)
(* No operation reads it.                                                  *)
(***************************************************************************)
EXTENDS Integers, FiniteSets, Sequences, FiniteSetsExt, Functions

CONSTANTS
    Fingerprint,        \* [what an event says -> its group]
    MaxEventsPerIssue   \* options.MaxEventsPerIssue

ASSUME MemoryAssumption == MaxEventsPerIssue \in Nat \ {0}

VARIABLES
    issues,     \* m.issues, with the occurrence behind LastEvent
    events,     \* m.events: retained occurrences, newest first
    sequence,   \* m.nextEventSequence
    seen        \* [fingerprints -> occurrences recorded]

store == <<issues, events, sequence, seen>>

EmptyStore == issues = <<>> /\ events = <<>> /\ sequence = 0 /\ seen = <<>>

\* f with the value v at k.
Put(f, k, v) == [x \in DOMAIN f \cup {k} |-> IF x = k THEN v ELSE f[x]]
Get(f, k, otherwise) == IF k \in DOMAIN f THEN f[k] ELSE otherwise

-----------------------------------------------------------------------------
\* A triaged group that recurs: only "resolved" is taken back.
Reopened(status) == IF status = "resolved" THEN "open" ELSE status

AlwaysNewest(o, issue) == TRUE                \* mutant of Supersedes
Supersedes(o, issue) == o.at >= issue.last

\* One item of the batch, counted.
Counted(old, o) ==
    LET issue == IF old # <<>> THEN [old EXCEPT !.status = Reopened(@)]
                 ELSE [status |-> "open", occurrences |-> 0,
                       first |-> o.at, last |-> o.at, lastEvent |-> o]
    IN  [issue EXCEPT
            !.occurrences = @ + 1,
            !.first = IF o.at < @ THEN o.at ELSE @,
            !.last = IF Supersedes(o, issue) THEN o.at ELSE @,
            !.lastEvent = IF Supersedes(o, issue) THEN o ELSE @]

RecordItem(s, o) ==
    LET k == Fingerprint[o.shape] IN
    [issues |-> Put(s.issues, k, Counted(Get(s.issues, k, <<>>), o)),
     events |-> Put(s.events, k, Append(Get(s.events, k, <<>>), o)),
     seen   |-> Put(s.seen, k, Get(s.seen, k, {}) \cup {o})]

\* Newest first.  No two occurrences have the same id, so their order is their rank.
Newer(o, p) == o.at > p.at \/ (o.at = p.at /\ o.id > p.id)
Rank(o, occurrences) == Cardinality({p \in occurrences : Newer(p, o)})
NewestFirst(occurrences) ==
    [i \in 1..Cardinality(occurrences) |->
        CHOOSE o \in occurrences : Rank(o, occurrences) = i - 1]

Cut(history) ==
    SubSeq(history, 1, IF Len(history) < MaxEventsPerIssue THEN Len(history)
                       ELSE MaxEventsPerIssue)
Unsorted(history) == Cut(history)             \* mutant of Trimmed
Trimmed(history) == Cut(NewestFirst(Range(history)))

\* The occurrences of a batch received at `at`, and what is stored after its
\* first i items.
Occurrence(shapes, at, i) == [id |-> sequence + i, at |-> at, shape |-> shapes[i]]
AfterItems(shapes, at) ==
    LET after[i \in 0..Len(shapes)] ==
            IF i = 0 THEN [issues |-> issues, events |-> events, seen |-> seen]
            ELSE RecordItem(after[i - 1], Occurrence(shapes, at, i))
    IN  after

FirstItem(shapes) == 1                        \* mutant of LastItem
LastItem(shapes) == Len(shapes)

\* RecordBatch(shapes): every item is upserted, then the touched histories are
\* sorted and cut.
RecordBatch(shapes, at) ==
    LET after   == AfterItems(shapes, at)[LastItem(shapes)]
        touched == {Fingerprint[shapes[i]] : i \in DOMAIN shapes}
    IN  /\ issues' = after.issues
        /\ events' = [k \in DOMAIN after.events |->
                         IF k \in touched THEN Trimmed(after.events[k])
                         ELSE after.events[k]]
        /\ sequence' = sequence + Len(shapes)
        /\ seen' = after.seen

\* SetIssueStatus of an existing issue.
SetIssueStatus(k, status) ==
    /\ k \in DOMAIN issues
    /\ issues' = [issues EXCEPT ![k].status = status]
    /\ UNCHANGED <<events, sequence, seen>>

-----------------------------------------------------------------------------
NewestOf(occurrences) == Cut(NewestFirst(occurrences))

\* Whatever order stamps reach the mutex in, an issue reports exactly its
\* occurrences - how many, the first, the last, and the newest as its last
\* event - and its history is the newest of them, newest first.
StoreIsItsRecords ==
    /\ DOMAIN issues = DOMAIN seen /\ DOMAIN events = DOMAIN seen
    /\ \A k \in DOMAIN issues :
          LET times == {o.at : o \in seen[k]} IN
          /\ issues[k].occurrences = Cardinality(seen[k])
          /\ issues[k].first = Min(times) /\ issues[k].last = Max(times)
          /\ issues[k].lastEvent = NewestOf(seen[k])[1]
          /\ events[k] = NewestOf(seen[k])
=============================================================================
