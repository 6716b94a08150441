----------------------------- MODULE IssuePages -----------------------------
(***************************************************************************)
(* Cursor walks over a table that changes meanwhile: ListIssues and        *)
(* ListIssueEvents of internal/store/sqlite.go and memory.go, the cursors  *)
(* of internal/server/issues.go, and the retention goroutine of            *)
(* cmd/error-tracer/main.go, which deletes in batches between pages.       *)
(*                                                                         *)
(* Both lists descend in time and break ties by a number, the fingerprint  *)
(* upwards for issues and the sequence downwards for events.  A key holds  *)
(* both as [at, tie], tie being the fingerprint or the negated sequence.   *)
(*                                                                         *)
(* A page is read in one transaction, so it is one step.  walk.seen,       *)
(* walk.stable and walk.removed are history: the keys returned, the keys   *)
(* listed ever since the walk began, the issues deleted since.             *)
(***************************************************************************)
EXTENDS Integers, FiniteSets, Sequences, FiniteSetsExt, Functions

CONSTANTS
    Issue,             \* fingerprints, numbers in their order
    Limits,            \* page sizes asked for
    Status,            \* statuses in use, of "open", "resolved", "ignored"
    Filters,           \* statuses filtered by, "" for none
    MaxEventsPerIssue,
    MaxIssues,         \* ERROR_TRACER_MAX_ISSUES
    Days,              \* ERROR_TRACER_RETENTION_DAYS, in ticks of the clock
    PruneBatchSize,
    Histories,         \* bound: issues whose history is listed
    MaxTime,           \* bound: ticks of the clock
    MaxChanges         \* bound: occurrences recorded and statuses set

ASSUME ConstantsAssumption ==
    /\ Issue \subseteq Nat \ {0} /\ IsFiniteSet(Issue)
    /\ Limits \subseteq Nat \ {0} /\ Filters \subseteq Status \cup {""}
    /\ "open" \in Status /\ Status \subseteq {"open", "resolved", "ignored"}
    /\ {MaxEventsPerIssue, MaxIssues, Days, PruneBatchSize} \subseteq Nat \ {0}
    /\ Histories \subseteq Issue /\ {MaxTime, MaxChanges} \subseteq Nat

VARIABLES
    issues,    \* [fingerprints -> [status, last]], last for last_seen
    events,    \* rows [seq, issue, at]
    now,       \* the clock
    changes,
    walk,      \* the client's walk and what it was given
    sweep      \* the retention goroutine

vars == <<issues, events, now, changes, walk, sweep>>

None == [at |-> -1, tie |-> 0]    \* no cursor
NoWalk == [list |-> "none", status |-> "", issue |-> 0, limit |-> 1, after |-> None, state |-> "none",
           seen |-> <<>>, stable |-> {}, removed |-> {}]

Init ==
    /\ now = 2 /\ changes = 0
    /\ issues \in [Issue -> [status : {"open"}, last : {1, 2}]]
    /\ events = {[seq |-> f, issue |-> f, at |-> issues[f].last] : f \in Issue}
    /\ walk = NoWalk
    /\ sweep = [state |-> "age", cutoff |-> now - Days, failed |-> FALSE]

-----------------------------------------------------------------------------
\* Pages.
Precedes(k, l) == k.at > l.at \/ (k.at = l.at /\ k.tie < l.tie)

AfterOrAt(k, cursor) == k.at <= cursor.at     \* mutants of After
InTimeOnly(k, cursor) == k.at < cursor.at
After(k, cursor) == cursor = None \/ Precedes(cursor, k)

\* Keys in the order of the list, each at the place its rank gives it.
Rank(k, keys) == Cardinality({l \in keys : Precedes(l, k)})
Sorted(keys) ==
    [i \in 1..Cardinality(keys) |-> CHOOSE k \in keys : Rank(k, keys) = i - 1]

\* SQLite asks for one row more than the page to learn whether any follow.
SQLitePage(keys, after, limit, offset) ==
    LET skip == IF after = None THEN offset ELSE 0
        all  == Sorted({k \in keys : After(k, after)})
        rows == SubSeq(all, skip + 1, Min({skip + limit + 1, Len(all)}))
    IN  IF Len(rows) > limit
        THEN [items |-> SubSeq(rows, 1, limit), total |-> Cardinality(keys),
              next |-> rows[limit]]
        ELSE [items |-> rows, total |-> Cardinality(keys), next |-> None]

\* The memory store sorts everything and searches for the cursor (sort.Search).
Passed(all, cursor) ==
    CHOOSE i \in 0..Len(all) :
        /\ i = Len(all) \/ Precedes(cursor, all[i + 1])
        /\ \A j \in 1..i : ~Precedes(cursor, all[j])

MemoryPage(keys, after, limit, offset) ==
    LET all   == Sorted(keys)
        total == Len(all)
        start == IF after = None THEN Min({offset, total})
                 ELSE Passed(all, after)
        end   == Min({start + limit, total})
    IN  [items |-> SubSeq(all, start + 1, end), total |-> total,
         next  |-> IF end < total /\ end > start THEN all[end] ELSE None]

IssueKeys(table, status) ==
    {[at |-> table[f].last, tie |-> f] :
        f \in {g \in DOMAIN table : status \in {"", table[g].status}}}
EventKeys(rows, f) ==
    {[at |-> e.at, tie |-> -e.seq] : e \in {r \in rows : r.issue = f}}

\* What the walk w lists, in a given table.
Listed(w, table, rows) ==
    IF w.list = "issues" THEN IssueKeys(table, w.status)
    ELSE IF w.list = "events" THEN EventKeys(rows, w.issue) ELSE {}

-----------------------------------------------------------------------------
\* The client of the API.
Begin(w) ==
    /\ walk.list = "none"
    /\ walk' = [w EXCEPT !.state = "going", !.stable = Listed(w, issues, events)]
    /\ UNCHANGED <<issues, events, now, changes, sweep>>

BeginWalk ==
    \E limit \in Limits :
        \/ \E status \in Filters :
              Begin([NoWalk EXCEPT !.list = "issues", !.status = status, !.limit = limit])
        \/ \E f \in Histories \cap DOMAIN issues :
              Begin([NoWalk EXCEPT !.list = "events", !.issue = f, !.limit = limit])

\* A cursor that could not be encoded is an error, never a missing next_cursor;
\* those of real rows always can: a fingerprint is 32 bytes in hexadecimal, a
\* sequence at least 1, and both times are whole nanoseconds.
NextPage ==
    /\ walk.state = "going"
    /\ walk.list = "events" => walk.issue \in DOMAIN issues
    /\ LET page == SQLitePage(Listed(walk, issues, events), walk.after, walk.limit, 0)
       IN  walk' = [walk EXCEPT !.seen = @ \o page.items, !.after = page.next,
                        !.state = IF page.next = None THEN "done" ELSE "going"]
    /\ UNCHANGED <<issues, events, now, changes, sweep>>

\* ErrIssueNotFound.
NotFound ==
    /\ walk.state = "going" /\ walk.list = "events" /\ walk.issue \notin DOMAIN issues
    /\ walk' = [walk EXCEPT !.state = "gone"]
    /\ UNCHANGED <<issues, events, now, changes, sweep>>

\* History of the walk at a step that changes the table.
Watch ==
    walk' = [walk EXCEPT
        !.stable = @ \cap Listed(walk, issues', events'),
        !.removed = IF walk.list = "issues" THEN @ \cup (DOMAIN issues \ DOMAIN issues')
                    ELSE {}]

-----------------------------------------------------------------------------
\* One event recorded, late by at most a tick (the subject of SQLiteStore).
NextSequence == 1 + Max({0} \cup {e.seq : e \in events})

Newest(rows, n) ==
    {e \in rows : Cardinality({r \in rows :
        Precedes([at |-> r.at, tie |-> -r.seq], [at |-> e.at, tie |-> -e.seq])}) < n}

Upserted(f, at) ==
    IF f \notin DOMAIN issues THEN [status |-> "open", last |-> at]
    ELSE [status |-> IF issues[f].status = "resolved" THEN "open" ELSE issues[f].status,
          last   |-> Max({issues[f].last, at})]

Record(f, at) ==
    /\ changes < MaxChanges
    /\ changes' = changes + 1
    /\ issues' = [g \in DOMAIN issues \cup {f} |->
                     IF g = f THEN Upserted(f, at) ELSE issues[g]]
    /\ LET mine == {e \in events : e.issue = f}
                      \cup {[seq |-> NextSequence, issue |-> f, at |-> at]}
       IN  events' = {e \in events : e.issue # f} \cup Newest(mine, MaxEventsPerIssue)
    /\ Watch
    /\ UNCHANGED <<now, sweep>>

SetIssueStatus(f, status) ==
    /\ issues[f].status # status /\ changes < MaxChanges
    /\ changes' = changes + 1
    /\ issues' = [issues EXCEPT ![f].status = status]
    /\ events' = events
    /\ Watch
    /\ UNCHANGED <<now, sweep>>

Tick == now < MaxTime /\ now' = now + 1 /\ UNCHANGED <<issues, events, changes, walk, sweep>>

-----------------------------------------------------------------------------
\* Retention.  ON DELETE CASCADE takes the history with the issue.
Delete(gone) ==
    /\ issues' = [f \in DOMAIN issues \ gone |-> issues[f]]
    /\ events' = {e \in events : e.issue \notin gone}
    /\ Watch
    /\ UNCHANGED <<now, changes>>

\* The sweep goes on until a batch comes back short.
AfterOneBatch(n) == TRUE                      \* mutant of Short
Short(n) == n < PruneBatchSize

SweepTo(state, failed) ==
    sweep' = [state |-> state, failed |-> failed,
              cutoff |-> IF state = "age" THEN sweep.cutoff ELSE 0]

\* ORDER BY last_seen ASC LIMIT PruneBatchSize, ties as the index has them.
PruneIssues ==
    /\ sweep.state = "age"
    /\ LET expired == {f \in DOMAIN issues : issues[f].last < sweep.cutoff}
       IN  \E gone \in SUBSET expired :
              /\ Cardinality(gone) = IF Short(Cardinality(expired))
                                     THEN Cardinality(expired) ELSE PruneBatchSize
              /\ \A f \in gone, g \in expired \ gone : issues[f].last <= issues[g].last
              /\ Delete(gone)
              /\ SweepTo(IF Short(Cardinality(gone)) THEN "limit" ELSE "age", FALSE)

\* ORDER BY last_seen ASC, fingerprint DESC: the list from its end.
NewestOfExcess(n, batch) ==                   \* mutant of Evicted
    LET order == Sorted(IssueKeys(issues, ""))
    IN  {order[i].tie : i \in MaxIssues + 1..Min({MaxIssues + batch, Len(order)})}
Evicted(n, batch) ==
    LET order == Sorted(IssueKeys(issues, ""))
    IN  {order[i].tie : i \in Len(order) - Min({n, batch}) + 1..Len(order)}

EnforceIssueLimit ==
    /\ sweep.state = "limit"
    /\ LET excess == Max({0, Cardinality(DOMAIN issues) - MaxIssues})
           gone   == Evicted(excess, PruneBatchSize)
       IN  /\ Delete(gone)
           /\ SweepTo(IF Short(Cardinality(gone)) THEN "idle" ELSE "limit", FALSE)

\* A statement fails: sweepAge() or sweepLimit() logs it and returns.
SweepFails ==
    /\ \/ sweep.state = "age" /\ SweepTo("limit", TRUE)
       \/ sweep.state = "limit" /\ SweepTo("idle", TRUE)
    /\ UNCHANGED <<issues, events, now, changes, walk>>

AgeTick ==
    /\ sweep.state = "idle"
    /\ sweep' = [state |-> "age", cutoff |-> now - Days, failed |-> FALSE]
    /\ UNCHANGED <<issues, events, now, changes, walk>>

LimitTick ==
    /\ sweep.state = "idle"
    /\ SweepTo("limit", FALSE)
    /\ UNCHANGED <<issues, events, now, changes, walk>>

Next ==
    \/ BeginWalk \/ NextPage \/ NotFound
    \/ \E f \in Issue, at \in {now - 1, now} : Record(f, at)
    \/ \E f \in DOMAIN issues, status \in Status : SetIssueStatus(f, status)
    \/ Tick
    \/ PruneIssues \/ EnforceIssueLimit \/ SweepFails \/ AgeTick \/ LimitTick

Spec == Init /\ [][Next]_vars

-----------------------------------------------------------------------------
Reached(k) == walk.state = "done" \/ (walk.after # None /\ ~Precedes(walk.after, k))

\* However issues move, appear, change status and are deleted between its
\* pages, a walk descends, never returns an issue twice unless it was deleted
\* in between, and returns everything that kept its place from the first page
\* on: such an issue or event is in the pages so far exactly when the cursor
\* has passed it, and the missing next_cursor means nothing was left out.
WalkIsComplete ==
    /\ \A i, j \in DOMAIN walk.seen : i < j => Precedes(walk.seen[i], walk.seen[j])
    /\ \A i, j \in DOMAIN walk.seen :
          walk.list = "issues" /\ i < j /\ walk.seen[i].tie = walk.seen[j].tie =>
             walk.seen[i].tie \in walk.removed
    /\ \A k \in walk.stable : k \in Range(walk.seen) <=> Reached(k)

\* The store of the demo and the tests pages exactly as SQLite does, from every
\* cursor or offset (parseListOptions takes no request with both).
StoresAgree ==
    \A keys \in {IssueKeys(issues, ""), IssueKeys(issues, "open")}
                   \cup {EventKeys(events, f) : f \in Histories} :
    \A after \in keys \cup {None, walk.after}, limit \in 1..2 :
    \A offset \in IF after = None THEN 0..1 ELSE {0} :
        MemoryPage(keys, after, limit, offset) = SQLitePage(keys, after, limit, offset)

\* Retention deletes from the old end: whatever it leaves behind when a batch
\* fails or ends is at least as recent as what it took, and it takes nothing
\* that is neither past the cutoff nor beyond the limit.
OldestGoFirst ==
    [][\A f \in DOMAIN issues \ DOMAIN issues' :
          /\ \A g \in DOMAIN issues' : issues[f].last <= issues[g].last
          /\ issues[f].last < sweep.cutoff \/ Cardinality(DOMAIN issues') >= MaxIssues]_vars

\* A sweep that ends without an error has done its work, in however many
\* batches and whatever was recorded between them.
SweepIsThorough ==
    [][~sweep'.failed =>
          /\ sweep.state = "age" /\ sweep'.state = "limit" =>
                \A f \in DOMAIN issues' : issues'[f].last >= sweep.cutoff
          /\ sweep.state = "limit" /\ sweep'.state = "idle" =>
                Cardinality(DOMAIN issues') <= MaxIssues]_vars
=============================================================================
