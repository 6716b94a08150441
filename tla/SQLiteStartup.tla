--------------------------- MODULE SQLiteStartup ---------------------------
(***************************************************************************)
(* internal/store/sqlite.go, OpenSQLiteWithOptions: processes that start   *)
(* on one database file, possibly at the same time and with different      *)
(* builds and limits, migrate its schema in one immediate transaction and  *)
(* then cut every event history to their limit, some groups per commit.    *)
(*                                                                         *)
(* A schema is the set of migrations applied to it and the version number  *)
(* recorded beside it.  A history is abstracted to its number of rows:     *)
(* which rows a trim keeps is the subject of SQLiteStore.                  *)
(***************************************************************************)
EXTENDS Integers, Sequences, FiniteSets, FiniteSetsExt

CONSTANTS
    Process,        \* processes started on the file
    Supported,      \* [Process -> newest schema its build knows]
    Limit,          \* [Process -> MaxEventsPerIssue]
    Group,          \* issues in the order of (project_id, fingerprint): 1..n
    GroupBatch,     \* sqliteHistoryReconcileGroupBatch
    Rows,           \* rows a history may hold in the database found
    Found,          \* schema versions the file may be found with
    None,
    MaxCrashes      \* bound: crashes and failed starts

ASSUME ConstantsAssumption ==
    /\ Supported \in [Process -> Nat] /\ Limit \in [Process -> Nat \ {0}]
    /\ Group \subseteq Nat \ {0} /\ IsFiniteSet(Group)
    /\ GroupBatch \in Nat \ {0}
    /\ Rows \subseteq Nat /\ Found \subseteq Nat
    /\ None \notin Process
    /\ MaxCrashes \in Nat

VARIABLES
    db,       \* committed: [version, applied, rows]
    work,     \* the same as the writer sees it, when there is one
    lock,     \* the process that holds SQLite's write lock
    pc,       \* "down", "begun", "migrating", "scanning", "trimming", "serving"
    current,  \* [Process -> currentVersion]
    cursor,   \* [Process -> last group reconciled, 0 at first]
    groups,   \* [Process -> groups found oversized, to be trimmed]
    crashes

vars == <<db, work, lock, pc, current, cursor, groups, crashes>>
reconcile == <<cursor, groups>>

EventHistory == 2    \* the migration that creates the events table
InOrder(v) == [i \in 1..v |-> i]

Init ==
    /\ db \in {[version |-> v, applied |-> InOrder(v), rows |-> n] :
                 v \in Found, n \in [Group -> Rows]}
    /\ db.version < EventHistory => \A g \in Group : db.rows[g] = 0
    /\ work = db /\ lock = None
    /\ pc = [p \in Process |-> "down"]
    /\ current = [p \in Process |-> 0]
    /\ cursor = [p \in Process |-> 0]
    /\ groups = [p \in Process |-> {}]
    /\ crashes = 0

Goto(p, l) == pc' = [pc EXCEPT ![p] = l]

\* What p reads, and the lock a statement of p that writes needs.
View(p) == IF lock = p THEN work ELSE db
MayWrite(p) == lock \in {None, p}
Unlocked(p) == IF lock = p THEN None ELSE lock

-----------------------------------------------------------------------------
\* BEGIN IMMEDIATE takes the write lock before the version is read.
Deferred(p) == FALSE                          \* mutant of Immediate
Immediate(p) == TRUE

Begin(p) ==
    /\ pc[p] = "down"
    /\ \/ /\ Immediate(p) /\ MayWrite(p)
          /\ lock' = p /\ work' = db
       \/ /\ ~Immediate(p)
          /\ UNCHANGED <<lock, work>>
    /\ Goto(p, "begun")
    /\ cursor' = [cursor EXCEPT ![p] = 0]
    /\ UNCHANGED <<db, current, groups, crashes>>

\* A database newer than the build is refused.
NeverTooNew(p) == FALSE                       \* mutant of TooNew
TooNew(p) == View(p).version > Supported[p]

ReadVersion(p) ==
    /\ pc[p] = "begun" /\ ~TooNew(p)
    /\ current' = [current EXCEPT ![p] = View(p).version]
    /\ Goto(p, "migrating")
    /\ UNCHANGED <<db, work, lock, reconcile, crashes>>

\* One migration and the version it records.
Migrate(p) ==
    LET next == current[p] + 1 IN
    /\ pc[p] = "migrating" /\ next <= Supported[p] /\ MayWrite(p)
    /\ work' = [View(p) EXCEPT !.version = next, !.applied = Append(@, next)]
    /\ lock' = p
    /\ current' = [current EXCEPT ![p] = next]
    /\ UNCHANGED <<db, pc, reconcile, crashes>>

CommitMigration(p) ==
    /\ pc[p] = "migrating" /\ current[p] >= Supported[p]
    /\ db' = View(p) /\ lock' = Unlocked(p)
    /\ Goto(p, "scanning")
    /\ UNCHANGED <<work, current, reconcile, crashes>>

\* A start fails, is cancelled or dies, or a serving process dies; the open
\* transaction is rolled back.
Stop(p) ==
    /\ Goto(p, "down")
    /\ lock' = Unlocked(p)
    /\ UNCHANGED <<db, work, current, reconcile>>

Refuse(p) ==
    /\ pc[p] = "begun" /\ TooNew(p)
    /\ Stop(p)
    /\ UNCHANGED crashes

Crash(p) ==
    /\ pc[p] # "down" /\ crashes < MaxCrashes
    /\ crashes' = crashes + 1
    /\ Stop(p)

-----------------------------------------------------------------------------
\* The groups one SELECT of reconcileSQLiteEventHistory returns.
Oversized(p) == {g \in Group : g > cursor[p] /\ db.rows[g] > Limit[p]}

FirstGroups(S) ==
    {g \in S : Cardinality({h \in S : h < g}) < GroupBatch}

Scan(p) ==
    /\ pc[p] = "scanning"
    /\ groups' = [groups EXCEPT ![p] = FirstGroups(Oversized(p))]
    /\ Goto(p, IF Oversized(p) = {} THEN "serving" ELSE "trimming")
    /\ UNCHANGED <<db, work, lock, current, cursor, crashes>>

Trimmed(n, max) == IF n > max THEN max ELSE n

\* The last group of the batch is where the next SELECT goes on.
EndOfTable(p) == Max(Group)                   \* mutants of LastOfBatch
StartOfTable(p) == 0
LastOfBatch(p) == Max(groups[p])

\* The transaction that trims the batch, commit included: its first statement
\* takes the write lock and nobody reads what it has not committed.
TrimBatch(p) ==
    /\ pc[p] = "trimming" /\ lock = None
    /\ db' = [db EXCEPT !.rows = [g \in Group |->
          IF g \in groups[p] THEN Trimmed(db.rows[g], Limit[p]) ELSE db.rows[g]]]
    /\ cursor' = [cursor EXCEPT ![p] = LastOfBatch(p)]
    /\ Goto(p, "scanning")
    /\ UNCHANGED <<work, lock, current, groups, crashes>>

\* A serving process records: one transaction inserts a row and trims.
Record(p, g) ==
    /\ pc[p] = "serving" /\ lock = None
    /\ db' = [db EXCEPT !.rows[g] = Trimmed(@ + 1, Limit[p])]
    /\ UNCHANGED <<work, lock, pc, current, reconcile, crashes>>

Start(p) ==
    \/ Begin(p) \/ ReadVersion(p) \/ Migrate(p) \/ CommitMigration(p)
    \/ Scan(p) \/ TrimBatch(p)

Next ==
    \E p \in Process :
        \/ Start(p) \/ Refuse(p) \/ Crash(p)
        \/ \E g \in Group : Record(p, g)

\* A start gets the write lock when it waits for it long enough; whoever loses
\* patience after the busy timeout is among the crashes.
Spec ==
    /\ Init /\ [][Next]_vars
    /\ \A p \in Process : SF_vars(Start(p)) /\ WF_vars(Refuse(p))

-----------------------------------------------------------------------------
\* The version recorded in the file is the schema it has: every migration up to
\* it was applied, in order and once, although processes start together and die
\* between any two statements.
SchemaIsItsVersion == db.applied = InOrder(db.version)

\* No process opens a file whose schema is newer than its build, even when a
\* newer process upgrades the file at the same time.
NewerSchemaRefused ==
    [][\A p \in Process : pc[p] = "migrating" /\ pc'[p] = "scanning" =>
          db'.version <= Supported[p]]_vars

\* Once a process serves, no history is longer than every limit in use: the
\* reconciliation that crashed between two batches is finished by the next
\* start, and groups behind the cursor stay within bounds.
HistoriesWithinLimit ==
    (\E p \in Process : pc[p] = "serving") =>
        \A g \in Group : \E p \in Process : db.rows[g] <= Limit[p]

\* Every start ends although other processes go on recording: the cursor only
\* moves on.
StartEnds ==
    \A p \in Process : pc[p] \in {"begun", "scanning"} ~> pc[p] \in {"down", "serving"}
=============================================================================
