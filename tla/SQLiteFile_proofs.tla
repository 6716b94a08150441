------------------------ MODULE SQLiteFile_proofs ------------------------
(***************************************************************************)
(* What processes do with a database file besides recording: its start,    *)
(* for every number of processes, builds and histories (SQLiteStartup),    *)
(* and its backup, for every number of commands (SQLiteBackup).            *)
(***************************************************************************)
EXTENDS SQLiteStartup, SQLiteBackup, FiniteSetTheorems, NaturalsInduction, WellFoundedInduction, TLAPS

(***************************************************************************)
(* Startup.  A process holds the write lock from BEGIN IMMEDIATE on, so    *)
(* the version it read is still the version of the file when it commits.   *)
(***************************************************************************)
\* What the file, or a transaction's view of it, may be.
Schema == [version : Nat, applied : Seq(Nat), rows : [Group -> Nat]]
Sound(s) == s \in Schema /\ s.applied = InOrder(s.version)

PC == {"down", "begun", "migrating", "scanning", "trimming", "serving"}

\* The processes inside migrateSQLite's transaction.
Migrating(p) == pc[p] \in {"begun", "migrating"}

IInv ==
    /\ Sound(db)
    /\ lock \in Process \cup {None}
    /\ pc \in [Process -> PC]
    /\ current \in [Process -> Nat]
    /\ \A p \in Process : Migrating(p) <=> lock = p
    /\ lock # None => Sound(work)
    /\ \A p \in Process : pc[p] = "migrating" =>
          work.version = current[p] /\ current[p] <= Supported[p]

-----------------------------------------------------------------------------
\* Applying the next migration keeps the order.
LEMMA NextInOrder ==
    ASSUME NEW v \in Nat
    PROVE  /\ InOrder(v) \in Seq(Nat) /\ Len(InOrder(v)) = v
           /\ Append(InOrder(v), v + 1) = InOrder(v + 1)
  BY DEF InOrder

\* What one migration makes of a view (Migrate).
LEMMA MigrationIsSound ==
    ASSUME NEW s, Sound(s), NEW next \in Nat, next = s.version + 1,
           NEW t, t = [s EXCEPT !.version = next, !.applied = Append(@, next)]
    PROVE  Sound(t) /\ t.version = next
<1>1. s \in Schema /\ s.applied = InOrder(s.version) /\ s.version \in Nat
  BY DEF Sound, Schema
<1>2. t.version = next /\ t.applied = Append(s.applied, next) /\ t.rows = s.rows
  BY <1>1 DEF Schema
<1>3. t.applied = InOrder(next) /\ t.applied \in Seq(Nat)
  BY <1>1, <1>2, NextInOrder
<1>4. t \in Schema
  BY <1>1, <1>2, <1>3 DEF Schema
<1> QED
  BY <1>2, <1>3, <1>4 DEF Sound

\* Statements that only change histories leave the schema alone.
LEMMA RowsAreNotSchema ==
    ASSUME NEW s, Sound(s), NEW rows \in [Group -> Nat],
           NEW t, t = [s EXCEPT !.rows = rows]
    PROVE  Sound(t) /\ t.version = s.version
  BY DEF Sound, Schema

\* A trimmed history has a natural number of rows.
LEMMA TrimmedIsNat ==
    ASSUME NEW p \in Process, NEW n \in Nat
    PROVE  Trimmed(n, Limit[p]) \in Nat
  BY ConstantsAssumption DEF Trimmed

-----------------------------------------------------------------------------
\* The file found is one some build migrated.
LEMMA InitInvariant == Init => IInv
<1> SUFFICES ASSUME Init PROVE IInv
  OBVIOUS
<1>1. PICK v \in Found, n \in [Group -> Rows] :
         db = [version |-> v, applied |-> InOrder(v), rows |-> n]
  BY DEF Init
<1>2. v \in Nat /\ n \in [Group -> Nat]
  BY ConstantsAssumption
<1>3. Sound(db)
  BY <1>1, <1>2, NextInOrder DEF Sound, Schema
<1> QED
  BY <1>3, ConstantsAssumption DEF Init, IInv, Migrating, PC

\* The steps of migrateSQLite.
LEMMA MigrationInvariant ==
    ASSUME IInv, NEW p \in Process,
           Begin(p) \/ ReadVersion(p) \/ Migrate(p) \/ CommitMigration(p)
    PROVE  IInv'
<1>0. None \notin Process /\ Supported[p] \in Nat
  BY ConstantsAssumption
<1>1. CASE Begin(p)
  BY <1>0, <1>1 DEF IInv, Begin, Immediate, MayWrite, Goto, Migrating, PC, Sound
<1>2. CASE ReadVersion(p)
  <2>1. lock = p /\ View(p) = work /\ Sound(work)
    BY <1>0, <1>2 DEF IInv, ReadVersion, View, Migrating
  <2>2. work.version \in Nat /\ work.version <= Supported[p]
    BY <1>0, <1>2, <2>1 DEF ReadVersion, TooNew, Sound, Schema
  <2> QED
    BY <1>2, <2>1, <2>2 DEF IInv, ReadVersion, Goto, Migrating, PC
<1>3. CASE Migrate(p)
  <2>1. lock = p /\ View(p) = work /\ Sound(work)
    BY <1>0, <1>3 DEF IInv, Migrate, View, Migrating
  <2> DEFINE next == current[p] + 1
  <2>2. next \in Nat /\ next = work.version + 1 /\ next <= Supported[p]
    BY <1>3 DEF IInv, Migrate
  <2>3. Sound(work') /\ work'.version = next
    BY <1>3, <2>1, <2>2, MigrationIsSound DEF Migrate
  <2>4. \A q \in Process : q # p => pc[q] # "migrating"
    BY <2>1 DEF IInv, Migrating
  <2>5. current' = [current EXCEPT ![p] = next] /\ lock' = p /\ UNCHANGED <<db, pc>>
    BY <1>3 DEF Migrate
  <2> HIDE DEF next
  <2> QED
    BY <2>1, <2>2, <2>3, <2>4, <2>5 DEF IInv, Migrating, Sound
<1>4. CASE CommitMigration(p)
  <2>1. lock = p /\ View(p) = work /\ Sound(work)
    BY <1>0, <1>4 DEF IInv, CommitMigration, View, Migrating
  <2> QED
    BY <1>0, <1>4, <2>1 DEF IInv, CommitMigration, Unlocked, Goto, Migrating, PC, Sound
<1> QED
  BY <1>1, <1>2, <1>3, <1>4

\* Reconciliation, recording and the ends of a start change no schema.
LEMMA OtherInvariant ==
    ASSUME IInv, NEW p \in Process,
           \/ Scan(p) \/ TrimBatch(p) \/ Refuse(p) \/ Crash(p)
           \/ \E g \in Group : Record(p, g)
    PROVE  IInv'
<1>0. None \notin Process
  BY ConstantsAssumption
<1>1. db \in Schema /\ db.rows \in [Group -> Nat]
  BY DEF IInv, Sound, Schema
<1>2. CASE Scan(p)
  BY <1>2 DEF IInv, Scan, Goto, Migrating, PC, Sound
<1>3. CASE TrimBatch(p)
  <2> DEFINE rows == [g \in Group |->
        IF g \in groups[p] THEN Trimmed(db.rows[g], Limit[p]) ELSE db.rows[g]]
  <2>1. rows \in [Group -> Nat]
    BY <1>1, TrimmedIsNat
  <2>2. db' = [db EXCEPT !.rows = rows]
    BY <1>3 DEF TrimBatch
  <2> HIDE DEF rows
  <2>3. Sound(db')
    BY <2>1, <2>2, RowsAreNotSchema DEF IInv
  <2> QED
    BY <1>3, <2>3 DEF IInv, TrimBatch, Goto, Migrating, PC, Sound
<1>4. CASE Refuse(p) \/ Crash(p)
  BY <1>0, <1>4 DEF IInv, Refuse, Crash, Stop, Unlocked, Goto, Migrating, PC, Sound
<1>5. ASSUME NEW g \in Group, Record(p, g) PROVE IInv'
  <2> DEFINE rows == [db.rows EXCEPT ![g] = Trimmed(@ + 1, Limit[p])]
  <2>1. rows \in [Group -> Nat]
    BY <1>1, TrimmedIsNat
  <2>2. db' = [db EXCEPT !.rows = rows]
    BY <1>5 DEF Record
  <2> HIDE DEF rows
  <2>3. Sound(db')
    BY <2>1, <2>2, RowsAreNotSchema DEF IInv
  <2> QED
    BY <1>5, <2>3 DEF IInv, Record, Migrating, Sound
<1> QED
  BY <1>2, <1>3, <1>4, <1>5

\* Every step keeps the invariant.
LEMMA NextInvariant == IInv /\ [Next]_vars => IInv'
<1> SUFFICES ASSUME IInv, [Next]_vars PROVE IInv'
  OBVIOUS
<1>1. CASE UNCHANGED vars
  BY <1>1 DEF vars, IInv, Migrating, Sound
<1>2. CASE Next
  BY <1>2, MigrationInvariant, OtherInvariant DEF Next, Start
<1> QED
  BY <1>1, <1>2

\* Whoever starts, dies and migrates at the same time, the version recorded in
\* the file is the schema it has (migrateSQLite's immediate transaction).
THEOREM SchemaAlwaysItsVersion == Spec => []SchemaIsItsVersion
<1>1. IInv => SchemaIsItsVersion
  BY DEF IInv, Sound, SchemaIsItsVersion
<1> QED
  BY <1>1, InitInvariant, NextInvariant, PTL DEF Spec

\* No build ever opens a file whose schema is newer than it knows: the version
\* it compared is the one it commits (ErrSQLiteSchemaTooNew).
THEOREM NewerSchemaAlwaysRefused == Spec => NewerSchemaRefused
<1> DEFINE Opens == \A p \in Process : pc[p] = "migrating" /\ pc'[p] = "scanning" =>
                        db'.version <= Supported[p]
<1>1. IInv /\ [Next]_vars => [Opens]_vars
  <2> SUFFICES ASSUME IInv, Next, NEW p \in Process,
                      pc[p] = "migrating", pc'[p] = "scanning"
               PROVE  db'.version <= Supported[p]
    OBVIOUS
  <2>1. pc \in [Process -> PC]
    BY DEF IInv
  <2>2. CommitMigration(p)
    BY <2>1 DEF Next, Start, Begin, ReadVersion, Migrate, CommitMigration, Scan,
                TrimBatch, Record, Refuse, Crash, Stop, Goto
  <2>3. lock = p /\ View(p) = work
    BY DEF IInv, Migrating, View
  <2> QED
    BY <2>2, <2>3 DEF IInv, CommitMigration
<1> QED
  BY <1>1, InitInvariant, NextInvariant, PTL DEF Spec, NewerSchemaRefused
-----------------------------------------------------------------------------
(***************************************************************************)
(* The reconciliation of histories.  Behind the cursor of a process every  *)
(* history is within some process's limit, and stays so whoever records    *)
(* or trims next; a batch takes the first oversized groups, so what lies   *)
(* between two of them is within a limit too.                              *)
(***************************************************************************)
Short(n) == \E q \in Process : n <= Limit[q]

Reconciled(p) ==
    /\ Migrating(p) => cursor[p] = 0
    /\ pc[p] = "scanning" => \A g \in Group : g <= cursor[p] => Short(db.rows[g])
    /\ pc[p] = "trimming" =>
          /\ groups[p] # {}
          /\ \A g \in Group \ groups[p], h \in groups[p] : g < h => Short(db.rows[g])
    /\ pc[p] = "serving" => \A g \in Group : Short(db.rows[g])

HistoryInv ==
    /\ IInv
    /\ lock # None => work.rows = db.rows
    /\ cursor \in [Process -> Nat]
    /\ groups \in [Process -> SUBSET Group]
    /\ \A p \in Process : Reconciled(p)

-----------------------------------------------------------------------------
\* A finite nonempty set of naturals has a largest element.
LEMMA MaxOfFinite ==
    ASSUME NEW S, S \subseteq Nat, IsFiniteSet(S), S # {}
    PROVE  Max(S) \in S /\ \A n \in S : n <= Max(S)
<1> DEFINE Above(m) == {n \in S : n > m}
           T == {Above(m) : m \in S}
           R == StrictSubsetOrdering(S)
<1>1. T \subseteq FiniteSubsetsOf(S) /\ T # {}
  <2>1. FiniteSubsetsOf(S) = SUBSET S
    BY FS_FiniteSubsetsOfFinite
  <2>2. PICK m \in S : TRUE
    OBVIOUS
  <2>3. Above(m) \in T /\ T \subseteq SUBSET S
    OBVIOUS
  <2> HIDE DEF T
  <2> QED
    BY <2>1, <2>3
<1>2. IsWellFoundedOn(R, FiniteSubsetsOf(S))
  BY FS_StrictSubsetOrderingWellFounded
<1>3. PICK x \in T : \A y \in T : ~ (<<y, x>> \in R)
  <2> HIDE DEF T, R
  <2> QED
    BY <1>1, <1>2, WFMin
<1>4. PICK m \in S : x = Above(m)
  OBVIOUS
<1>5. ASSUME NEW n \in S, n > m PROVE FALSE
  <2>1. n \in Nat /\ m \in Nat /\ \A k \in S : k \in Nat
    OBVIOUS
  <2>2. ~(n > n) /\ \A k \in S : k > n => k > m
    BY <1>5, <2>1
  <2>3. Above(n) \subseteq Above(m) /\ n \in Above(m) /\ n \notin Above(n)
    BY <1>5, <2>2
  <2>4. <<Above(n), Above(m)>> \in R
    BY <2>3 DEF StrictSubsetOrdering
  <2> QED
    BY <1>3, <1>4, <2>4
<1>6. m \in S /\ \A n \in S : m >= n
  BY <1>5
<1>7. Max(S) \in S /\ \A n \in S : Max(S) >= n
  BY <1>6 DEF Max
<1> QED
  BY <1>7

\* A nonempty set of groups has a first batch, and whoever is before a member
\* of the batch is in it.
LEMMA FirstOfOversized ==
    ASSUME NEW S, S \subseteq Group
    PROVE  /\ FirstGroups(S) \subseteq S
           /\ S # {} => FirstGroups(S) # {}
           /\ \A h \in FirstGroups(S), g \in S : g < h => g \in FirstGroups(S)
<1> DEFINE Before(g) == {h \in S : h < g}
<1>1. S \subseteq Nat /\ IsFiniteSet(S) /\ GroupBatch \in Nat /\ GroupBatch > 0
  <2>1. Group \subseteq Nat /\ IsFiniteSet(Group) /\ GroupBatch \in Nat /\ GroupBatch > 0
    BY ConstantsAssumption
  <2>2. IsFiniteSet(S)
    BY <2>1, FS_Subset
  <2> QED
    BY <2>1, <2>2
<1>2. ASSUME S # {} PROVE FirstGroups(S) # {}
  <2>1. PICK m \in S : \A n \in S : ~ (<<n, m>> \in OpToRel(<, Nat))
    BY <1>1, <1>2, NatLessThanWellFounded, WFMin
  <2>2. \A n \in S : ~(n < m)
    BY <1>1, <2>1 DEF OpToRel
  <2>3. Before(m) = {}
    BY <2>2
  <2>4. Cardinality(Before(m)) = 0
    BY <2>3, FS_EmptySet
  <2> HIDE DEF Before
  <2>5. Cardinality(Before(m)) < GroupBatch
    BY <1>1, <2>4
  <2> QED
    BY <2>5 DEF FirstGroups, Before
<1>3. ASSUME NEW h \in FirstGroups(S), NEW g \in S, g < h PROVE g \in FirstGroups(S)
  <2>1. h \in S /\ Cardinality(Before(h)) < GroupBatch
    BY DEF FirstGroups
  <2>2. Before(g) \subseteq Before(h) /\ Before(h) \subseteq S
    <3>1. g \in Nat /\ h \in Nat /\ \A k \in S : k \in Nat
      BY <1>1, <2>1
    <3>2. \A k \in S : k < g => k < h
      BY <1>3, <3>1
    <3> QED
      BY <3>2
  <2> HIDE DEF Before
  <2>3. IsFiniteSet(Before(h))
    BY <1>1, <2>2, FS_Subset
  <2>4. IsFiniteSet(Before(g)) /\ Cardinality(Before(g)) <= Cardinality(Before(h))
    BY <2>2, <2>3, FS_Subset
  <2>5. Cardinality(Before(g)) \in Nat /\ Cardinality(Before(h)) \in Nat
    BY <2>3, <2>4, FS_CardinalityType
  <2>6. Cardinality(Before(g)) < GroupBatch
    BY <1>1, <2>1, <2>4, <2>5
  <2> QED
    BY <2>6 DEF FirstGroups, Before
<1>4. FirstGroups(S) \subseteq S
  BY DEF FirstGroups
<1> QED
  BY <1>2, <1>3, <1>4

\* A trimmed history is within a limit, and one within a limit stays so.
LEMMA TrimmedIsShort ==
    ASSUME NEW p \in Process, NEW n \in Nat
    PROVE  /\ Trimmed(n, Limit[p]) <= Limit[p] /\ Short(Trimmed(n, Limit[p]))
<1>1. Limit[p] \in Nat /\ \A q \in Process : Limit[q] \in Nat
  BY ConstantsAssumption
<1>2. Trimmed(n, Limit[p]) <= Limit[p]
  BY <1>1 DEF Trimmed
<1> QED
  BY <1>2 DEF Short

\* Histories within a limit stay so in every step.
KeptShort == \A g \in Group : Short(db.rows[g]) => Short(db'.rows[g])

LEMMA NobodyElse ==
    ASSUME HistoryInv, KeptShort, NEW p \in Process, Reconciled(p)',
           \A q \in Process : q # p =>
              pc'[q] = pc[q] /\ cursor'[q] = cursor[q] /\ groups'[q] = groups[q]
    PROVE  \A q \in Process : Reconciled(q)'
  BY DEF HistoryInv, Reconciled, KeptShort, Migrating

LEMMA HistoryStarts == Init => HistoryInv
<1> SUFFICES ASSUME Init PROVE HistoryInv
  OBVIOUS
<1>1. IInv
  BY InitInvariant
<1>2. cursor \in [Process -> Nat] /\ groups \in [Process -> SUBSET Group]
  BY DEF Init
<1>3. \A p \in Process : Reconciled(p)
  BY DEF Init, Reconciled, Migrating
<1> QED
  BY <1>1, <1>2, <1>3 DEF Init, HistoryInv

\* The migration moves no row, and a new start begins before the first group.
LEMMA MigrationKeepsHistories ==
    ASSUME HistoryInv, IInv', NEW p \in Process,
           Begin(p) \/ ReadVersion(p) \/ Migrate(p) \/ CommitMigration(p)
    PROVE  HistoryInv'
<1>0. None \notin Process /\ pc \in [Process -> PC] /\ cursor \in [Process -> Nat]
  BY ConstantsAssumption DEF HistoryInv, IInv
<1>1. CASE Begin(p)
  <2>1. /\ db' = db /\ work' = db /\ cursor' = [cursor EXCEPT ![p] = 0] /\ groups' = groups
        /\ pc' = [pc EXCEPT ![p] = "begun"]
    BY <1>1 DEF Begin, Immediate, Goto
  <2>2. KeptShort
    BY <2>1 DEF KeptShort
  <2>3. Reconciled(p)'
    BY <1>0, <2>1 DEF Reconciled
  <2>4. \A q \in Process : Reconciled(q)'
    BY <1>0, <2>1, <2>2, <2>3, NobodyElse
  <2> QED
    BY <2>1, <2>4 DEF HistoryInv
<1>2. CASE ReadVersion(p)
  <2>1. /\ UNCHANGED <<db, work, lock, cursor, groups>>
        /\ pc[p] = "begun" /\ pc' = [pc EXCEPT ![p] = "migrating"]
    BY <1>2 DEF ReadVersion, Goto, reconcile
  <2>2. KeptShort
    BY <2>1 DEF KeptShort
  <2>3. Reconciled(p)'
    BY <1>0, <2>1 DEF Reconciled, HistoryInv, Migrating
  <2>4. \A q \in Process : Reconciled(q)'
    BY <1>0, <2>1, <2>2, <2>3, NobodyElse
  <2> QED
    BY <2>1, <2>4 DEF HistoryInv
<1>3. CASE Migrate(p)
  <2>1. lock = p /\ View(p) = work /\ work \in Schema
    BY <1>0, <1>3 DEF HistoryInv, IInv, Migrate, View, Migrating, Sound
  <2>2. work'.rows = work.rows /\ UNCHANGED <<db, pc, cursor, groups>> /\ lock' = p
    BY <1>3, <2>1 DEF Migrate, Schema, reconcile
  <2>3. \A q \in Process : Reconciled(q)'
    BY <2>2 DEF HistoryInv, Reconciled, Migrating
  <2> QED
    BY <1>0, <2>1, <2>2, <2>3 DEF HistoryInv
<1>4. CASE CommitMigration(p)
  <2>1. lock = p /\ View(p) = work
    BY <1>0, <1>4 DEF HistoryInv, IInv, CommitMigration, View, Migrating
  <2>2. /\ db'.rows = db.rows /\ lock' = None /\ UNCHANGED <<work, cursor, groups>>
        /\ pc[p] = "migrating" /\ pc' = [pc EXCEPT ![p] = "scanning"]
    BY <1>0, <1>4, <2>1 DEF CommitMigration, HistoryInv, Unlocked, Goto, reconcile
  <2>3. KeptShort
    BY <2>2 DEF KeptShort
  <2>4. Reconciled(p)'
    <3>1. cursor[p] = 0
      BY <2>2 DEF HistoryInv, Reconciled, Migrating
    <3>2. \A g \in Group : ~(g <= cursor'[p])
      BY <2>2, <3>1, ConstantsAssumption
    <3> QED
      BY <1>0, <2>2, <3>2 DEF Reconciled, Migrating
  <2>5. \A q \in Process : Reconciled(q)'
    BY <1>0, <2>2, <2>3, <2>4, NobodyElse
  <2> QED
    BY <2>2, <2>5 DEF HistoryInv
<1> QED
  BY <1>1, <1>2, <1>3, <1>4

\* One SELECT: nothing oversized is left behind the batch it returns.
LEMMA ScanKeepsHistories ==
    ASSUME HistoryInv, IInv', NEW p \in Process, Scan(p)
    PROVE  HistoryInv'
<1> DEFINE S == Oversized(p)
<1>0. /\ pc \in [Process -> PC] /\ cursor \in [Process -> Nat] /\ Limit[p] \in Nat
      /\ groups \in [Process -> SUBSET Group] /\ Group \subseteq Nat
      /\ db.rows \in [Group -> Nat]
  BY ConstantsAssumption DEF HistoryInv, IInv, Sound, Schema
<1>1. /\ UNCHANGED <<db, work, lock, cursor>> /\ pc[p] = "scanning"
      /\ groups' = [groups EXCEPT ![p] = FirstGroups(S)]
      /\ pc' = [pc EXCEPT ![p] = IF S = {} THEN "serving" ELSE "trimming"]
  BY DEF Scan, Goto
<1>2. S \subseteq Group
  BY DEF Oversized
<1>3. ASSUME NEW g \in Group, g \notin S PROVE Short(db.rows[g])
  <2>1. CASE g <= cursor[p]
    BY <1>1, <2>1 DEF HistoryInv, Reconciled
  <2>2. CASE ~(g <= cursor[p])
    <3>1. g > cursor[p]
      BY <1>0, <2>2
    <3>2. db.rows[g] \in Nat /\ ~(db.rows[g] > Limit[p])
      BY <1>0, <1>3, <3>1 DEF Oversized
    <3> QED
      BY <1>0, <3>2 DEF Short
  <2> QED
    BY <2>1, <2>2
<1> HIDE DEF S
<1>4. /\ FirstGroups(S) \subseteq S
      /\ S # {} => FirstGroups(S) # {}
      /\ \A h \in FirstGroups(S), g \in S : g < h => g \in FirstGroups(S)
  BY <1>2, FirstOfOversized
<1>5. Reconciled(p)'
  BY <1>0, <1>1, <1>3, <1>4 DEF Reconciled, Migrating
<1>6. KeptShort
  BY <1>1 DEF KeptShort
<1>7. \A q \in Process : Reconciled(q)'
  BY <1>0, <1>1, <1>5, <1>6, NobodyElse
<1>8. groups' \in [Process -> SUBSET Group]
  BY <1>0, <1>1, <1>2, <1>4
<1> QED
  BY <1>1, <1>7, <1>8 DEF HistoryInv

\* One batch of trims: the cursor moves over nothing oversized.
LEMMA TrimKeepsHistories ==
    ASSUME HistoryInv, IInv', NEW p \in Process, TrimBatch(p)
    PROVE  HistoryInv'
<1> DEFINE G == groups[p]
<1>0. /\ pc \in [Process -> PC] /\ cursor \in [Process -> Nat]
      /\ groups \in [Process -> SUBSET Group] /\ Group \subseteq Nat /\ IsFiniteSet(Group)
      /\ db.rows \in [Group -> Nat] /\ db \in Schema
  BY ConstantsAssumption DEF HistoryInv, IInv, Sound, Schema
<1>1. /\ UNCHANGED <<work, lock, groups>> /\ pc[p] = "trimming" /\ lock = None
      /\ cursor' = [cursor EXCEPT ![p] = Max(G)]
      /\ pc' = [pc EXCEPT ![p] = "scanning"]
      /\ \A g \in Group :
            db'.rows[g] = IF g \in G THEN Trimmed(db.rows[g], Limit[p]) ELSE db.rows[g]
  BY <1>0 DEF TrimBatch, Goto, LastOfBatch, Schema
<1>2. /\ G # {} /\ G \subseteq Group
      /\ \A g \in Group \ G, h \in G : g < h => Short(db.rows[g])
  BY <1>0, <1>1 DEF HistoryInv, Reconciled
<1> HIDE DEF G
<1>3. Max(G) \in G /\ Max(G) \in Nat
  <2>1. IsFiniteSet(G) /\ G \subseteq Nat
    BY <1>0, <1>2, FS_Subset
  <2>2. Max(G) \in G
    BY <1>2, <2>1, MaxOfFinite
  <2> QED
    BY <2>1, <2>2
<1>4. \A g \in G : Short(db'.rows[g])
  BY <1>0, <1>1, <1>2, TrimmedIsShort
<1>5. KeptShort
  BY <1>1, <1>4 DEF KeptShort
<1>6. ASSUME NEW g \in Group, g <= Max(G) PROVE Short(db'.rows[g])
  <2>1. CASE g \in G
    BY <1>4, <2>1
  <2>2. CASE g \notin G
    <3>1. g < Max(G)
      BY <1>0, <1>3, <1>6, <2>2
    <3> QED
      BY <1>1, <1>2, <1>3, <2>2, <3>1
  <2> QED
    BY <2>1, <2>2
<1>7. Reconciled(p)'
  BY <1>0, <1>1, <1>6 DEF Reconciled, Migrating
<1>8. \A q \in Process : Reconciled(q)'
  BY <1>0, <1>1, <1>5, <1>7, NobodyElse
<1> QED
  BY <1>0, <1>1, <1>3, <1>8 DEF HistoryInv

\* A recorded event is trimmed with its history, whatever the limit of the
\* process that records it.
LEMMA RecordKeepsHistories ==
    ASSUME HistoryInv, IInv', NEW p \in Process, NEW g \in Group, Record(p, g)
    PROVE  HistoryInv'
<1>1. db.rows \in [Group -> Nat] /\ db \in Schema
  BY DEF HistoryInv, IInv, Sound, Schema
<1>2. /\ UNCHANGED <<work, lock, pc, cursor, groups>> /\ lock = None
      /\ db'.rows = [db.rows EXCEPT ![g] = Trimmed(db.rows[g] + 1, Limit[p])]
  BY <1>1 DEF Record, reconcile, Schema
<1>3. Short(db'.rows[g])
  <2>1. db.rows[g] + 1 \in Nat /\ db'.rows[g] = Trimmed(db.rows[g] + 1, Limit[p])
    BY <1>1, <1>2
  <2> QED
    BY <2>1, TrimmedIsShort
<1>4. KeptShort
  BY <1>1, <1>2, <1>3 DEF KeptShort
<1>5. \A q \in Process : Reconciled(q)'
  BY <1>2, <1>4 DEF HistoryInv, Reconciled, KeptShort, Migrating
<1> QED
  BY <1>2, <1>5 DEF HistoryInv

\* A process that ends leaves the histories as they are.
LEMMA StopKeepsHistories ==
    ASSUME HistoryInv, IInv', NEW p \in Process, Stop(p)
    PROVE  HistoryInv'
<1>0. pc \in [Process -> PC] /\ None \notin Process
  BY ConstantsAssumption DEF HistoryInv, IInv
<1>1. /\ UNCHANGED <<db, work, cursor, groups>> /\ lock' \in {lock, None}
      /\ pc' = [pc EXCEPT ![p] = "down"]
  BY DEF Stop, Goto, Unlocked, reconcile
<1>2. Reconciled(p)'
  BY <1>0, <1>1 DEF Reconciled, Migrating
<1>3. \A q \in Process : Reconciled(q)'
  BY <1>0, <1>1, <1>2, NobodyElse DEF KeptShort
<1> QED
  BY <1>1, <1>3 DEF HistoryInv

LEMMA HistoryNext == HistoryInv /\ [Next]_vars => HistoryInv'
<1> SUFFICES ASSUME HistoryInv, [Next]_vars PROVE HistoryInv'
  OBVIOUS
<1>0. IInv'
  BY NextInvariant DEF HistoryInv
<1>1. CASE UNCHANGED vars
  BY <1>0, <1>1 DEF vars, HistoryInv, Reconciled, Migrating
<1>2. ASSUME NEW p \in Process, Start(p) PROVE HistoryInv'
  BY <1>0, <1>2, MigrationKeepsHistories, ScanKeepsHistories, TrimKeepsHistories DEF Start
<1>3. ASSUME NEW p \in Process, Refuse(p) \/ Crash(p) PROVE HistoryInv'
  BY <1>0, <1>3, StopKeepsHistories DEF Refuse, Crash
<1>4. ASSUME NEW p \in Process, NEW g \in Group, Record(p, g) PROVE HistoryInv'
  BY <1>0, <1>4, RecordKeepsHistories
<1> QED
  BY <1>1, <1>2, <1>3, <1>4 DEF Next

\* Whoever crashed between two batches, and whatever is recorded behind the
\* cursor meanwhile: once a process serves, every history is within a limit
\* (reconcileSQLiteEventHistory).
THEOREM HistoriesAlwaysWithinLimit == Spec => []HistoriesWithinLimit
<1>1. HistoryInv => HistoriesWithinLimit
  BY DEF HistoryInv, Reconciled, Short, HistoriesWithinLimit
<1> QED
  BY <1>1, HistoryStarts, HistoryNext, PTL DEF Spec
-----------------------------------------------------------------------------
(***************************************************************************)
(* Backup.  A command writes only its own temporary file, and nobody else  *)
(* does; so what it verified there is what it links.                       *)
(***************************************************************************)

\* The temporary file of a command that is about to publish holds a snapshot
\* of a commit made since the command began.
ReadyToPublish(c) ==
    stage[c] = "publish" =>
        \E n \in began[c]..commits : files[Temporary[c]] = Snapshot(n)

\* Between the end of VACUUM INTO and the check, the file holds such a snapshot
\* or what a faulty disk left of it.
Written(c) ==
    stage[c] = "verify" =>
        \/ files[Temporary[c]] = Partial
        \/ \E n \in began[c]..commits : files[Temporary[c]] = Snapshot(n)

\* A command that is about to create its file has none yet.
NotCreated(c) == stage[c] = "create" => files[Temporary[c]] = Absent

BackupInv ==
    /\ BackupTypeOK
    /\ began \in [Command -> 0..commits]
    /\ \A c \in Command : NotCreated(c) /\ Written(c) /\ ReadyToPublish(c)

-----------------------------------------------------------------------------
\* Every name is the destination or somebody's temporary file, and these differ.
LEMMA NamesDiffer ==
    /\ Destination \in Name
    /\ \A c \in Command : Temporary[c] \in Name /\ Temporary[c] # Destination
    /\ \A c, d \in Command : c # d => Temporary[c] # Temporary[d]
  BY BackupAssumption DEF Name

\* What a file may hold, and that the check tells a snapshot from the rest.
LEMMA Contents ==
    /\ Absent \in Content /\ Empty \in Content /\ Partial \in Content /\ Foreign \in Content
    /\ \A n \in 0..MaxCommits : Snapshot(n) \in Content
    /\ \A n : Snapshot(n) # Absent
    /\ ~PassesCheck(Partial)
    /\ \A n : PassesCheck(Snapshot(n))
  BY DEF Content, Absent, Empty, Partial, Foreign, Snapshot, PassesCheck

\* No command has begun and only the destination may exist.
LEMMA BackupInitInvariant == BackupInit => BackupInv
  BY BackupAssumption, NamesDiffer, Contents
     DEF BackupInit, BackupInv, BackupTypeOK, NotCreated, Written, ReadyToPublish

\* Each step of a command keeps its own file in order and leaves those of the
\* others alone.
LEMMA BackupInvariant ==
    ASSUME BackupInv, NEW c \in Command, Backup(c)
    PROVE  BackupInv'
<1> USE NamesDiffer, Contents DEF BackupInv, BackupTypeOK, NotCreated, Written, ReadyToPublish, Step, Return
<1>0. MaxCommits \in Nat
  BY BackupAssumption
<1>1. CASE Inspect(c)
  BY <1>0, <1>1 DEF Inspect
<1>2. CASE CreateTemp(c)
  BY <1>0, <1>2 DEF CreateTemp
<1>3. CASE BeginVacuum(c)
  BY <1>0, <1>3 DEF BeginVacuum
<1>4. CASE EndVacuum(c)
  BY <1>0, <1>4 DEF EndVacuum, SnapshotOf
<1>5. CASE Verify(c)
  BY <1>0, <1>5 DEF Verify
<1>6. CASE Publish(c)
  BY <1>0, <1>6 DEF Publish, Linkable
<1>7. CASE Remove(c)
  BY <1>0, <1>7 DEF Remove, Removed
<1> QED
  BY <1>1, <1>2, <1>3, <1>4, <1>5, <1>6, <1>7 DEF Backup

\* The service, other programs, faulty disks and death: none of them writes a
\* temporary file but the disk, and that only before the check.
LEMMA OthersInvariant ==
    ASSUME BackupInv,
           \/ CommitDatabase \/ ForeignFile \/ RemoveDestination
           \/ \E c \in Command : DiskFault(c) \/ Die(c)
    PROVE  BackupInv'
<1> USE NamesDiffer, Contents DEF BackupInv, BackupTypeOK, NotCreated, Written, ReadyToPublish
<1>0. MaxCommits \in Nat
  BY BackupAssumption
<1>1. CASE CommitDatabase
  BY <1>0, <1>1 DEF CommitDatabase
<1>2. CASE ForeignFile
  BY <1>0, <1>2 DEF ForeignFile
<1>3. CASE RemoveDestination
  BY <1>0, <1>3 DEF RemoveDestination
<1>4. ASSUME NEW c \in Command, DiskFault(c) PROVE BackupInv'
  BY <1>0, <1>4 DEF DiskFault
<1>5. ASSUME NEW c \in Command, Die(c) PROVE BackupInv'
  BY <1>0, <1>5 DEF Die
<1> QED
  BY <1>1, <1>2, <1>3, <1>4, <1>5

\* Every step keeps the invariant.
LEMMA BackupNextInvariant == BackupInv /\ [BackupNext]_backupVars => BackupInv'
<1> SUFFICES ASSUME BackupInv, [BackupNext]_backupVars PROVE BackupInv'
  OBVIOUS
<1>1. CASE UNCHANGED backupVars
  BY <1>1 DEF backupVars, BackupInv, BackupTypeOK, NotCreated, Written, ReadyToPublish
<1>2. CASE BackupNext
  BY <1>2, BackupInvariant, OthersInvariant DEF BackupNext
<1> QED
  BY <1>1, <1>2

\* Files keep their types, and only a command at work or dead leaves a temporary
\* file behind (Backup's deferred Remove).
THEOREM BackupTypes == BackupSpec => []BackupTypeOK
<1>1. BackupInv => BackupTypeOK
  BY DEF BackupInv
<1> QED
  BY <1>1, BackupInitInvariant, BackupNextInvariant, PTL DEF BackupSpec

\* However many commands and other programs work in the directory, Backup
\* publishes in one step, over nothing, a snapshot verified and recent.
THEOREM PublicationIsSafe == BackupSpec => PublishesRecentSnapshots
<1> DEFINE Published ==
      \/ files'[Destination] = files[Destination]
      \/ files'[Destination] \in {Absent, Foreign}
      \/ \E c \in Command :
            /\ stage[c] = "publish" /\ result'[c] = "ok"
            /\ files[Destination] = Absent
            /\ files'[Destination] \in {Snapshot(n) : n \in began[c]..commits}
<1>1. BackupInv /\ [BackupNext]_backupVars => [Published]_backupVars
  <2> SUFFICES ASSUME BackupInv, BackupNext PROVE Published
    OBVIOUS
  <2> USE NamesDiffer DEF BackupInv, BackupTypeOK, Step, Return
  <2>1. CASE CommitDatabase
    BY <2>1 DEF CommitDatabase
  <2>2. CASE ForeignFile \/ RemoveDestination
    BY <2>2 DEF ForeignFile, RemoveDestination
  <2>3. ASSUME NEW c \in Command, DiskFault(c) \/ Die(c) PROVE Published
    BY <2>3 DEF DiskFault, Die
  <2>4. ASSUME NEW c \in Command, Publish(c) PROVE Published
    BY <2>4 DEF Publish, Linkable, ReadyToPublish
  <2>5. ASSUME NEW c \in Command, Backup(c), ~Publish(c) PROVE Published
    BY <2>5 DEF Backup, Inspect, CreateTemp, BeginVacuum, EndVacuum, Verify, Remove, Removed
  <2> QED
    BY <2>1, <2>2, <2>3, <2>4, <2>5 DEF BackupNext
<1> QED
  BY <1>1, BackupInitInvariant, BackupNextInvariant, PTL DEF BackupSpec, PublishesRecentSnapshots
=============================================================================
