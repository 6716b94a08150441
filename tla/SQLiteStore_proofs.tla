------------------------- MODULE SQLiteStore_proofs -------------------------
(***************************************************************************)
(* Safety of SQLiteStore for every number of writers, every set of events, *)
(* every history limit and every sound database to start from.             *)
(*                                                                         *)
(* Each SQL statement is shown once to keep a database sound, whoever runs *)
(* it; the invariant then only has to follow the transactions.             *)
(*                                                                         *)
(* The second half follows a transaction from BEGIN to COMMIT: the history *)
(* it leaves is the newest, no group stays split, and what it commits is   *)
(* one step of IssueLedger.                                                *)
(***************************************************************************)
EXTENDS SQLiteStore, FiniteSetTheorems, WellFoundedInduction, TLAPS

-----------------------------------------------------------------------------
(* Operators on functions and sets of event rows.                          *)

\* Putting a row under a valid key keeps a table of rows one.
LEMMA PutRow ==
    ASSUME NEW issues, NEW k \in Key, NEW row \in Row,
           DOMAIN issues \subseteq Key, issues \in [DOMAIN issues -> Row]
    PROVE  /\ DOMAIN Put(issues, k, row) \subseteq Key
           /\ Put(issues, k, row) \in [DOMAIN Put(issues, k, row) -> Row]
  BY DEF Put

\* A nonempty set of naturals with an upper bound has a largest element.
LEMMA LargestExists ==
    ASSUME NEW S, S \subseteq Nat, S # {}, NEW bound \in Nat,
           \A n \in S : n <= bound
    PROVE  \E m \in S : \A n \in S : n <= m
<1> DEFINE Above(n) == {s \in S : n < s}
           T == {Above(n) : n \in S}
           R == StrictSubsetOrdering(S)
<1>1. IsFiniteSet(S)
  BY FS_BoundedSetOfNaturals
<1>2. T \subseteq FiniteSubsetsOf(S) /\ T # {}
  <2>1. FiniteSubsetsOf(S) = SUBSET S
    BY <1>1, FS_FiniteSubsetsOfFinite
  <2>2. ASSUME NEW t \in T PROVE t \in SUBSET S
    <3>1. PICK n \in S : t = Above(n)
      OBVIOUS
    <3> QED
      BY <3>1
  <2>3. T # {}
    <3>1. PICK n \in S : TRUE
      OBVIOUS
    <3>2. Above(n) \in T
      OBVIOUS
    <3> QED
      BY <3>2
  <2> HIDE DEF T
  <2> QED
    BY <2>1, <2>2, <2>3
<1>3. IsWellFoundedOn(R, FiniteSubsetsOf(S))
  BY FS_StrictSubsetOrderingWellFounded
<1>4. PICK x \in T : \A y \in T : ~ (<<y, x>> \in R)
  <2> HIDE DEF T, R
  <2> QED
    BY <1>2, <1>3, WFMin
<1>5. PICK m \in S : x = Above(m)
  OBVIOUS
<1>6. ASSUME NEW n \in S, ~ (n <= m) PROVE FALSE
  <2>1. m < n /\ m \in Nat /\ n \in Nat
    BY <1>6
  <2>2. ~ (n < n) /\ \A s \in S : n < s => m < s
    BY <2>1
  <2>4. Above(n) \subseteq Above(m) /\ n \in Above(m) /\ n \notin Above(n)
    BY <2>1, <2>2
  <2>5. <<Above(n), Above(m)>> \in R
    BY <2>4 DEF StrictSubsetOrdering
  <2> QED
    BY <1>4, <1>5, <2>5
<1> QED
  BY <1>6

\* A new event row is numbered above every row present, and not above the
\* number of events ever inserted.
LEMMA NextSequenceIsNext ==
    ASSUME NEW events, NEW bound \in Nat, events \subseteq EventRow,
           \A e \in events : e.seq <= bound
    PROVE  /\ NextSequence(events) \in Nat \ {0}
           /\ NextSequence(events) <= bound + 1
           /\ \A e \in events : e.seq < NextSequence(events)
<1>1. CASE events = {}
  BY <1>1 DEF NextSequence
<1>2. CASE events # {}
  <2> DEFINE S == {e.seq : e \in events}
             Top(e) == e \in events /\ \A f \in events : f.seq <= e.seq
  <2>1. S \subseteq Nat /\ S # {} /\ \A n \in S : n <= bound
    BY <1>2 DEF EventRow
  <2>2. \E m \in S : \A n \in S : n <= m
    BY <2>1, LargestExists
  <2>3. \E e \in events : \A f \in events : f.seq <= e.seq
    BY <2>2
  <2> DEFINE top == CHOOSE e \in events : \A f \in events : f.seq <= e.seq
  <2>4. top \in events /\ \A f \in events : f.seq <= top.seq
    BY <2>3
  <2>5. NextSequence(events) = top.seq + 1
    BY <1>2 DEF NextSequence
  <2>6. top.seq \in Nat \ {0} /\ top.seq <= bound /\ \A f \in events : f.seq \in Nat
    BY <2>4 DEF EventRow
  <2> QED
    BY <2>4, <2>5, <2>6
<1> QED
  BY <1>1, <1>2

-----------------------------------------------------------------------------
(* What each statement does to a sound database.                           *)

\* Taking event rows away keeps a database sound.
LEMMA FewerEventsSound ==
    ASSUME NEW d, SoundDatabase(d), NEW events, events \subseteq d.events
    PROVE  SoundDatabase([d EXCEPT !.events = events])
<1> DEFINE d2 == [d EXCEPT !.events = events]
<1>1. /\ d2.issues = d.issues /\ d2.events = events /\ d2.arrivals = d.arrivals
      /\ d2 = [issues |-> d.issues, events |-> events, arrivals |-> d.arrivals]
  BY DEF SoundDatabase, IsDatabase
<1> HIDE DEF d2
<1>2. IsDatabase(d2)
  BY <1>1 DEF SoundDatabase, IsDatabase
<1>3. VersionsMatchKeys(d2) /\ OccurrencesUnique(d2) /\ AggregatesMatch(d2)
  BY <1>1 DEF SoundDatabase, VersionsMatchKeys, OccurrencesUnique, AggregatesMatch
<1>4. EventsBelong(d2) /\ SequencesOrdered(d2)
  BY <1>1 DEF SoundDatabase, EventsBelong, SequencesOrdered
<1> QED
  BY <1>2, <1>3, <1>4 DEF SoundDatabase, d2

\* DELETE FROM issues with its cascade keeps a database sound.
LEMMA DeleteSound ==
    ASSUME NEW d, SoundDatabase(d), NEW gone
    PROVE  /\ SoundDatabase(DeleteIssues(d, gone))
           /\ DOMAIN DeleteIssues(d, gone).issues = DOMAIN d.issues \ gone
           /\ \A k \in DOMAIN d.issues \ gone :
                 DeleteIssues(d, gone).issues[k] = d.issues[k]
           /\ DeleteIssues(d, gone).arrivals = d.arrivals
<1> DEFINE d2 == DeleteIssues(d, gone)
           kept == DOMAIN d.issues \ gone
<1>1. /\ d2.issues = [k \in kept |-> d.issues[k]]
      /\ d2.events = {e \in d.events : e.key \notin gone}
      /\ d2.arrivals = d.arrivals
      /\ d2 = [issues |-> d2.issues, events |-> d2.events, arrivals |-> d2.arrivals]
  BY DEF DeleteIssues, Restrict
<1>2. /\ DOMAIN d2.issues = kept
      /\ \A k \in kept : d2.issues[k] = d.issues[k]
  BY <1>1
<1> HIDE DEF d2
<1>3. IsDatabase(d2)
  BY <1>1, <1>2 DEF SoundDatabase, IsDatabase
<1>4. VersionsMatchKeys(d2) /\ OccurrencesUnique(d2) /\ AggregatesMatch(d2)
  BY <1>1, <1>2 DEF SoundDatabase, VersionsMatchKeys, OccurrencesUnique, AggregatesMatch
<1>5. EventsBelong(d2) /\ SequencesOrdered(d2)
  BY <1>1, <1>2 DEF SoundDatabase, EventsBelong, SequencesOrdered
<1> QED
  BY <1>1, <1>2, <1>3, <1>4, <1>5 DEF SoundDatabase, d2

\* UPDATE issues SET status keeps a database sound.
LEMMA SetStatusSound ==
    ASSUME NEW d, SoundDatabase(d), NEW k \in DOMAIN d.issues, NEW status \in Status
    PROVE  SoundDatabase([d EXCEPT !.issues[k].status = status])
<1> DEFINE d2 == [d EXCEPT !.issues[k].status = status]
           row == [d.issues[k] EXCEPT !.status = status]
<1>1. /\ d2.issues = [d.issues EXCEPT ![k] = row]
      /\ d2.events = d.events /\ d2.arrivals = d.arrivals
      /\ d2 = [issues |-> d2.issues, events |-> d2.events, arrivals |-> d2.arrivals]
  BY DEF SoundDatabase, IsDatabase
<1>2. /\ row \in Row
      /\ row.version = d.issues[k].version /\ row.lineage = d.issues[k].lineage
      /\ row.occurrences = d.issues[k].occurrences
      /\ row.first = d.issues[k].first /\ row.last = d.issues[k].last
      /\ row.lastEvent = d.issues[k].lastEvent
  BY DEF SoundDatabase, IsDatabase, Row
<1> HIDE DEF row
<1>3. /\ DOMAIN d2.issues = DOMAIN d.issues
      /\ d2.issues[k] = row
      /\ \A j \in DOMAIN d.issues : j # k => d2.issues[j] = d.issues[j]
      /\ d2.issues \in [DOMAIN d.issues -> Row]
  BY <1>1, <1>2 DEF SoundDatabase, IsDatabase
<1> HIDE DEF d2
<1>4. \A j \in DOMAIN d.issues :
         /\ d2.issues[j].version = d.issues[j].version
         /\ d2.issues[j].lineage = d.issues[j].lineage
         /\ d2.issues[j].occurrences = d.issues[j].occurrences
         /\ d2.issues[j].first = d.issues[j].first
         /\ d2.issues[j].last = d.issues[j].last
         /\ d2.issues[j].lastEvent = d.issues[j].lastEvent
  BY <1>2, <1>3
<1>5. IsDatabase(d2)
  BY <1>1, <1>3 DEF SoundDatabase, IsDatabase
<1>6. VersionsMatchKeys(d2) /\ OccurrencesUnique(d2)
  BY <1>1, <1>3, <1>4 DEF SoundDatabase, VersionsMatchKeys, OccurrencesUnique
<1>7. AggregatesMatch(d2)
  BY <1>3, <1>4 DEF SoundDatabase, AggregatesMatch, RowMatches
<1>8. EventsBelong(d2) /\ SequencesOrdered(d2)
  BY <1>1, <1>3, <1>4 DEF SoundDatabase, EventsBelong, SequencesOrdered
<1> QED
  BY <1>5, <1>6, <1>7, <1>8 DEF SoundDatabase, d2

\* Table `issues` is that of d with row k replaced or added and the rows `gone`
\* deleted; the new row is sound and shares no occurrence with the others.
Replaces(d, gone, k, issues, arrivals) ==
    /\ k \in Key /\ k \notin gone
    /\ arrivals \in Nat /\ d.arrivals <= arrivals
    /\ DOMAIN issues = (DOMAIN d.issues \ gone) \cup {k}
    /\ issues \in [DOMAIN issues -> Row]
    /\ \A j \in DOMAIN d.issues \ gone : j # k => issues[j] = d.issues[j]
    /\ issues[k].version = 2 <=> k \in Group
    /\ IsFiniteSet(issues[k].lineage) /\ RowMatches(issues[k])
    /\ \A o \in issues[k].lineage :
          /\ o.id <= arrivals
          /\ \A p \in issues[k].lineage : o.id = p.id => o = p
          /\ \A j \in DOMAIN d.issues \ gone :
                j # k => \A p \in d.issues[j].lineage : o.id # p.id

\* Such a replacement keeps the rows of a database sound.
LEMMA RowReplaced ==
    ASSUME NEW d, SoundDatabase(d), NEW gone, NEW k,
           NEW issues, NEW events, NEW arrivals,
           Replaces(d, gone, k, issues, arrivals)
    PROVE  LET d2 == [issues |-> issues, events |-> events, arrivals |-> arrivals]
           IN  /\ d2.issues \in [DOMAIN d2.issues -> Row] /\ DOMAIN d2.issues \subseteq Key
               /\ VersionsMatchKeys(d2) /\ OccurrencesUnique(d2) /\ AggregatesMatch(d2)
<1> DEFINE d2 == [issues |-> issues, events |-> events, arrivals |-> arrivals]
           old == DOMAIN d.issues \ gone
<1>1. d2.issues = issues /\ d2.arrivals = arrivals
  OBVIOUS
<1> HIDE DEF d2
<1>2. VersionsMatchKeys(d2)
  BY <1>1 DEF SoundDatabase, VersionsMatchKeys, Replaces
<1>3. AggregatesMatch(d2)
  BY <1>1 DEF SoundDatabase, AggregatesMatch, Replaces
<1>4. \A j \in old : \A o \in d.issues[j].lineage : o.id <= arrivals
  <2>1. \A j \in old : d.issues[j].lineage \subseteq Occurrence
    BY DEF SoundDatabase, IsDatabase, Row
  <2>2. d.arrivals \in Nat
    BY DEF SoundDatabase, IsDatabase
  <2> QED
    BY <2>1, <2>2 DEF SoundDatabase, OccurrencesUnique, Occurrence, Replaces
<1>5. OccurrencesUnique(d2)
  BY <1>1, <1>4 DEF SoundDatabase, OccurrencesUnique, Replaces
<1>6. DOMAIN issues \subseteq Key /\ issues \in [DOMAIN issues -> Row]
  BY DEF SoundDatabase, IsDatabase, Replaces
<1> QED
  BY <1>1, <1>2, <1>3, <1>5, <1>6 DEF d2

\* The occurrences counted under key k; none when there is no such row.
Lineage(issues, k) == IF k \in DOMAIN issues THEN issues[k].lineage ELSE {}

\* The first, last and lastEvent of an upsert cover one more occurrence.
LEMMA UpsertedRow ==
    ASSUME NEW issues, NEW o \in Occurrence,
           DOMAIN issues \subseteq Key, issues \in [DOMAIN issues -> Row],
           \A k \in DOMAIN issues :
              /\ k \in Group => issues[k].version = 2
              /\ IsFiniteSet(issues[k].lineage) /\ RowMatches(issues[k])
              /\ o \notin issues[k].lineage
    PROVE  LET k == Fingerprint[o.shape]
               row == UpsertIssue(issues, o)[k]
           IN  /\ k \in Group /\ k \in Key
               /\ DOMAIN UpsertIssue(issues, o) = DOMAIN issues \cup {k}
               /\ \A j \in DOMAIN issues : j # k => UpsertIssue(issues, o)[j] = issues[j]
               /\ row \in Row /\ row.version = 2
               /\ row.lineage = {o} \cup Lineage(issues, k)
               /\ IsFiniteSet(row.lineage) /\ RowMatches(row)
<1> DEFINE k == Fingerprint[o.shape]
           old == issues[k]
           updated == [version |-> 2, columns |-> old.columns,
                       status |-> Reopened(old.status),
                       occurrences |-> old.occurrences + 1,
                       first |-> AtMost(old.first, o.at),
                       last |-> AtLeast(old.last, o.at),
                       lastEvent |-> IF o.at >= old.last THEN o ELSE old.lastEvent,
                       lineage |-> old.lineage \cup {o}]
           inserted == [version |-> 2, columns |-> Columns[o.shape],
                        status |-> "open", occurrences |-> 1,
                        first |-> o.at, last |-> o.at, lastEvent |-> o,
                        lineage |-> {o}]
<1>1. k \in Group /\ k \in Key /\ o.at \in Nat /\ o.shape \in Shape
  BY ConstantsAssumption DEF Occurrence, Key
<1>2. UpsertIssue(issues, o) = Put(issues, k, IF k \in DOMAIN issues THEN updated ELSE inserted)
  BY DEF UpsertIssue
<1>3. CASE k \in DOMAIN issues
  <2>1. old \in Row /\ IsFiniteSet(old.lineage) /\ RowMatches(old) /\ o \notin old.lineage
    BY <1>3
  <2>2. /\ old.columns \in {Columns[s] : s \in Shape} /\ old.status \in Status
        /\ old.occurrences \in Nat /\ old.first \in Nat /\ old.last \in Nat
        /\ old.lastEvent \in Occurrence /\ old.lineage \subseteq Occurrence
    BY <2>1 DEF Row
  <2> HIDE DEF old
  <2>3. updated \in Row
    BY <1>1, <2>2 DEF Row, Reopened, AtMost, AtLeast, Status
  <2>4. IsFiniteSet(updated.lineage)
        /\ Cardinality(updated.lineage) = Cardinality(old.lineage) + 1
    BY <2>1, FS_AddElement
  <2>5. \A p \in old.lineage : p.at \in Nat
    BY <2>2 DEF Occurrence
  <2>6. RowMatches(updated)
    BY <1>1, <2>1, <2>2, <2>4, <2>5 DEF RowMatches, AtMost, AtLeast
  <2>7. UpsertIssue(issues, o) = Put(issues, k, updated)
    BY <1>2, <1>3
  <2>8. /\ updated.version = 2 /\ updated.lineage = old.lineage \cup {o}
    OBVIOUS
  <2> HIDE DEF updated, k
  <2>9. /\ DOMAIN UpsertIssue(issues, o) = DOMAIN issues \cup {k}
        /\ UpsertIssue(issues, o)[k] = updated
        /\ \A j \in DOMAIN issues : j # k => UpsertIssue(issues, o)[j] = issues[j]
    BY <2>7 DEF Put
  <2>10. updated.lineage = {o} \cup Lineage(issues, k)
    BY <1>3, <2>8 DEF old, Lineage
  <2> QED
    BY <1>1, <2>3, <2>4, <2>6, <2>8, <2>9, <2>10 DEF k
<1>4. CASE k \notin DOMAIN issues
  <2>1. inserted \in Row
    BY <1>1 DEF Row, Status
  <2>2. IsFiniteSet({o}) /\ Cardinality({o}) = 1
    BY FS_Singleton
  <2>3. RowMatches(inserted)
    BY <1>1, <2>2 DEF RowMatches
  <2>4. UpsertIssue(issues, o) = Put(issues, k, inserted)
    BY <1>2, <1>4
  <2>5. inserted.version = 2 /\ inserted.lineage = {o}
    OBVIOUS
  <2> HIDE DEF inserted, k
  <2>6. /\ DOMAIN UpsertIssue(issues, o) = DOMAIN issues \cup {k}
        /\ UpsertIssue(issues, o)[k] = inserted
        /\ \A j \in DOMAIN issues : j # k => UpsertIssue(issues, o)[j] = issues[j]
    BY <2>4 DEF Put
  <2>7. inserted.lineage = {o} \cup Lineage(issues, k)
    BY <1>4, <2>5 DEF Lineage
  <2> QED
    BY <1>1, <2>1, <2>2, <2>3, <2>5, <2>6, <2>7 DEF k
<1> QED
  BY <1>3, <1>4

Recorded(d, o) == [issues |-> UpsertIssue(d.issues, o),
                   events |-> InsertEvent(d.events, o),
                   arrivals |-> o.id]

\* Upserting the issue and inserting the event of a new occurrence keeps a
\* database sound.
LEMMA RecordSound ==
    ASSUME NEW d, SoundDatabase(d), NEW o \in Occurrence, o.id = d.arrivals + 1
    PROVE  /\ SoundDatabase(Recorded(d, o))
           /\ DOMAIN Recorded(d, o).issues = DOMAIN d.issues \cup {Fingerprint[o.shape]}
           /\ o \in Recorded(d, o).issues[Fingerprint[o.shape]].lineage
           /\ \A k \in DOMAIN d.issues :
                 d.issues[k].lineage \subseteq Recorded(d, o).issues[k].lineage
<1> DEFINE k == Fingerprint[o.shape]
           d2 == Recorded(d, o)
           e == [seq |-> NextSequence(d.events), key |-> k, event |-> o]
<1>1. /\ d.arrivals \in Nat /\ DOMAIN d.issues \subseteq Key
      /\ d.issues \in [DOMAIN d.issues -> Row] /\ d.events \subseteq EventRow
  BY DEF SoundDatabase, IsDatabase
<1>2. \A j \in DOMAIN d.issues : \A p \in d.issues[j].lineage :
         p \in Occurrence /\ p.id <= d.arrivals
  BY <1>1 DEF SoundDatabase, OccurrencesUnique, Row
<1>3. \A j \in DOMAIN d.issues : \A p \in d.issues[j].lineage : p.id # o.id /\ p.id <= o.id
  BY <1>1, <1>2 DEF Occurrence
<1>4. \A j \in DOMAIN d.issues :
         /\ j \in Group => d.issues[j].version = 2
         /\ IsFiniteSet(d.issues[j].lineage) /\ RowMatches(d.issues[j])
         /\ o \notin d.issues[j].lineage
  BY <1>3 DEF SoundDatabase, VersionsMatchKeys, AggregatesMatch
<1>5. /\ k \in Group /\ k \in Key
      /\ DOMAIN d2.issues = DOMAIN d.issues \cup {k}
      /\ \A j \in DOMAIN d.issues : j # k => d2.issues[j] = d.issues[j]
      /\ d2.issues[k] \in Row /\ d2.issues[k].version = 2
      /\ d2.issues[k].lineage =
           {o} \cup Lineage(d.issues, k)
      /\ IsFiniteSet(d2.issues[k].lineage) /\ RowMatches(d2.issues[k])
  <2> DEFINE new == UpsertIssue(d.issues, o)
  <2>1. /\ k \in Group /\ k \in Key
        /\ DOMAIN new = DOMAIN d.issues \cup {k}
        /\ \A j \in DOMAIN d.issues : j # k => new[j] = d.issues[j]
        /\ new[k] \in Row /\ new[k].version = 2
        /\ new[k].lineage =
             {o} \cup Lineage(d.issues, k)
        /\ IsFiniteSet(new[k].lineage) /\ RowMatches(new[k])
    BY <1>1, <1>4, UpsertedRow
  <2>2. d2.issues = new
    BY DEF Recorded
  <2> HIDE DEF new, d2
  <2> QED
    BY <2>1, <2>2
<1>6. /\ d2 = [issues |-> d2.issues, events |-> d2.events, arrivals |-> d2.arrivals]
      /\ d2.arrivals = o.id /\ d2.events = d.events \cup {e}
      /\ d2.issues = UpsertIssue(d.issues, o)
  BY DEF Recorded, InsertEvent
<1>7. /\ e.seq \in Nat \ {0} /\ e.seq <= o.id /\ \A f \in d.events : f.seq < e.seq
      /\ e.key = k /\ e.event = o
  BY <1>1, NextSequenceIsNext DEF SoundDatabase, SequencesOrdered
<1> HIDE DEF d2, e
<1>8. e \in EventRow
  BY <1>5, <1>7 DEF e, EventRow
<1>9. Replaces(d, {}, k, d2.issues, o.id)
  <2>1. \A p \in d2.issues[k].lineage :
           /\ p.id <= o.id
           /\ \A q \in d2.issues[k].lineage : p.id = q.id => p = q
           /\ \A j \in DOMAIN d.issues :
                 j # k => \A q \in d.issues[j].lineage : p.id # q.id
    BY <1>3, <1>5 DEF SoundDatabase, OccurrencesUnique, Occurrence, Lineage
  <2>2. d.arrivals <= o.id /\ o.id \in Nat
    BY <1>1
  <2>3. d2.issues \in [DOMAIN d2.issues -> Row]
    <3>1. d2.issues = Put(d.issues, k, d2.issues[k])
      BY <1>6 DEF UpsertIssue, Put
    <3>2. Put(d.issues, k, d2.issues[k]) \in [DOMAIN Put(d.issues, k, d2.issues[k]) -> Row]
      BY <1>1, <1>5, PutRow
    <3> QED
      BY <3>1, <3>2, SMTT(60)
  <2> QED
    BY <1>5, <2>1, <2>2, <2>3 DEF Replaces
<1>10. /\ d2.issues \in [DOMAIN d2.issues -> Row] /\ DOMAIN d2.issues \subseteq Key
       /\ VersionsMatchKeys(d2) /\ OccurrencesUnique(d2) /\ AggregatesMatch(d2)
  BY <1>6, <1>9, RowReplaced
<1>11. IsDatabase(d2)
  BY <1>1, <1>5, <1>6, <1>8, <1>10 DEF IsDatabase, Occurrence
<1>12. EventsBelong(d2)
  BY <1>5, <1>6, <1>7 DEF SoundDatabase, EventsBelong, Lineage
<1>13. SequencesOrdered(d2)
  <2>1. \A f \in d.events : /\ f.seq \in Nat /\ f.seq <= o.id /\ f.seq < e.seq
                             /\ f.event.id \in Nat /\ f.event.id < o.id
    <3>1. \A f \in d.events : f.event.id <= d.arrivals /\ f.seq <= d.arrivals
      BY <1>2 DEF SoundDatabase, EventsBelong, SequencesOrdered
    <3>2. \A f \in d.events : f.seq \in Nat /\ f.event.id \in Nat
      BY <1>1 DEF EventRow, Occurrence
    <3> QED
      BY <1>1, <1>7, <3>1, <3>2
  <2>2. o.id \in Nat /\ e.seq \in Nat
    BY <1>1, <1>7
  <2> QED
    BY <1>6, <1>7, <2>1, <2>2 DEF SoundDatabase, SequencesOrdered
<1> QED
  BY <1>5, <1>10, <1>11, <1>12, <1>13 DEF SoundDatabase, d2, Lineage

\* A table of sound rows in which `from` shares no occurrence with the others.
Mergeable(issues, from) ==
    /\ DOMAIN issues \subseteq Key /\ issues \in [DOMAIN issues -> Row]
    /\ from \in DOMAIN issues
    /\ \A k \in DOMAIN issues :
          /\ IsFiniteSet(issues[k].lineage) /\ RowMatches(issues[k])
          /\ k # from => issues[k].lineage \cap issues[from].lineage = {}

\* In `table`, row k has taken over the occurrences of row `from`.
MergedInto(table, issues, from, k) ==
    /\ k \in Group /\ k \in Key
    /\ DOMAIN table = DOMAIN issues \cup {k}
    /\ \A j \in DOMAIN issues : j # k => table[j] = issues[j]
    /\ table[k] \in Row /\ table[k].version = 2
    /\ table[k].lineage = issues[from].lineage \cup Lineage(issues, k)
    /\ IsFiniteSet(table[k].lineage) /\ RowMatches(table[k])

\* The row two aggregates are merged into covers the occurrences of both.
LEMMA MergedRow ==
    ASSUME NEW issues, NEW o, o.shape \in Shape, NEW from,
           Mergeable(issues, from), from # Fingerprint[o.shape]
    PROVE  MergedInto(MergeRow(issues, from, o), issues, from, Fingerprint[o.shape])
<1> DEFINE k == Fingerprint[o.shape]
           old == issues[k]
           new == issues[from]
           merged == [version |-> 2, columns |-> old.columns,
                      status |-> MergedStatus({old.status, new.status}),
                      occurrences |-> old.occurrences + new.occurrences,
                      first |-> AtMost(old.first, new.first),
                      last |-> AtLeast(old.last, new.last),
                      lastEvent |-> IF new.last >= old.last
                                    THEN new.lastEvent ELSE old.lastEvent,
                      lineage |-> old.lineage \cup new.lineage]
           rekeyed == [new EXCEPT !.version = 2, !.columns = Columns[o.shape]]
<1>1. k \in Group /\ k \in Key
  BY ConstantsAssumption DEF Key
<1>2. /\ new \in Row /\ IsFiniteSet(new.lineage) /\ RowMatches(new)
      /\ new.occurrences \in Nat /\ new.first \in Nat /\ new.last \in Nat
      /\ new.lastEvent \in Occurrence /\ new.lineage \subseteq Occurrence
      /\ new.status \in Status
  BY DEF Mergeable, Row
<1>3. MergeRow(issues, from, o) = Put(issues, k, IF k \in DOMAIN issues THEN merged ELSE rekeyed)
  BY DEF MergeRow
<1>4. CASE k \in DOMAIN issues
  <2>1. old \in Row /\ IsFiniteSet(old.lineage) /\ RowMatches(old)
        /\ old.lineage \cap new.lineage = {}
    BY <1>4 DEF Mergeable
  <2>2. /\ old.columns \in {Columns[s] : s \in Shape} /\ old.status \in Status
        /\ old.occurrences \in Nat /\ old.first \in Nat /\ old.last \in Nat
        /\ old.lastEvent \in Occurrence /\ old.lineage \subseteq Occurrence
    BY <2>1 DEF Row
  <2> HIDE DEF old, new
  <2>3. merged \in Row
    BY <1>2, <2>2 DEF Row, MergedStatus, AtMost, AtLeast, Status
  <2>4. /\ IsFiniteSet(merged.lineage)
        /\ Cardinality(merged.lineage) =
             Cardinality(old.lineage) + Cardinality(new.lineage)
    <3>1. Cardinality(old.lineage \cap new.lineage) = 0
      BY <2>1, FS_EmptySet
    <3>2. Cardinality(old.lineage) \in Nat /\ Cardinality(new.lineage) \in Nat
      BY <1>2, <2>1, FS_CardinalityType
    <3>3. /\ IsFiniteSet(old.lineage \cup new.lineage)
          /\ Cardinality(old.lineage \cup new.lineage) =
               Cardinality(old.lineage) + Cardinality(new.lineage)
                 - Cardinality(old.lineage \cap new.lineage)
      BY <1>2, <2>1, FS_Union
    <3>4. merged.lineage = old.lineage \cup new.lineage
      OBVIOUS
    <3> HIDE DEF merged
    <3> QED
      BY <3>1, <3>2, <3>3, <3>4
  <2>5. \A p \in old.lineage \cup new.lineage : p.at \in Nat
    BY <1>2, <2>2 DEF Occurrence
  <2>6. RowMatches(merged)
    BY <1>2, <2>1, <2>2, <2>4, <2>5 DEF RowMatches, AtMost, AtLeast
  <2>7. MergeRow(issues, from, o) = Put(issues, k, merged)
    BY <1>3, <1>4
  <2>8. /\ merged.version = 2
        /\ merged.lineage = new.lineage \cup Lineage(issues, k)
    BY <1>4 DEF old, Lineage
  <2> HIDE DEF merged, k
  <2>9. /\ DOMAIN MergeRow(issues, from, o) = DOMAIN issues \cup {k}
        /\ MergeRow(issues, from, o)[k] = merged
        /\ \A j \in DOMAIN issues : j # k => MergeRow(issues, from, o)[j] = issues[j]
    BY <2>7 DEF Put
  <2> QED
    BY <1>1, <2>3, <2>4, <2>6, <2>8, <2>9 DEF k, new, MergedInto
<1>5. CASE k \notin DOMAIN issues
  <2> HIDE DEF new
  <2>1. /\ rekeyed \in Row /\ rekeyed.version = 2 /\ rekeyed.lineage = new.lineage
        /\ rekeyed.occurrences = new.occurrences /\ rekeyed.first = new.first
        /\ rekeyed.last = new.last /\ rekeyed.lastEvent = new.lastEvent
    BY <1>2 DEF Row
  <2>2. MergeRow(issues, from, o) = Put(issues, k, rekeyed)
    BY <1>3, <1>5
  <2> HIDE DEF rekeyed, k
  <2>3. RowMatches(rekeyed) /\ IsFiniteSet(rekeyed.lineage)
    BY <1>2, <2>1 DEF RowMatches
  <2>4. /\ DOMAIN MergeRow(issues, from, o) = DOMAIN issues \cup {k}
        /\ MergeRow(issues, from, o)[k] = rekeyed
        /\ \A j \in DOMAIN issues : j # k => MergeRow(issues, from, o)[j] = issues[j]
    BY <2>2 DEF Put
  <2>5. rekeyed.lineage = new.lineage \cup Lineage(issues, k)
    BY <1>5, <2>1 DEF Lineage
  <2> QED
    BY <1>1, <2>1, <2>3, <2>4, <2>5 DEF k, new, MergedInto
<1> QED
  BY <1>4, <1>5

\* Merging a legacy issue into the group of record o, moving its history and
\* deleting its row keeps a database sound and loses no occurrence.
LEMMA MergeSound ==
    ASSUME NEW d, SoundDatabase(d), NEW o, o.shape \in Shape,
           NEW from \in LegacyCandidates(d, o)
    PROVE  LET d2 == MergeLegacyIssue(d, from, o)
               k == Fingerprint[o.shape]
           IN  /\ SoundDatabase(d2)
               /\ d2.arrivals = d.arrivals
               /\ k \in DOMAIN d2.issues
               /\ \A j \in DOMAIN d.issues :
                     \E i \in DOMAIN d2.issues : d.issues[j].lineage \subseteq d2.issues[i].lineage
<1> DEFINE k == Fingerprint[o.shape]
           table == MergeRow(d.issues, from, o)
           kept == DOMAIN table \ {from}
           issues == [j \in kept |-> table[j]]
           moved == MoveEvents(d.events, from, k)
           d2 == MergeLegacyIssue(d, from, o)
<1>1. /\ d.arrivals \in Nat /\ DOMAIN d.issues \subseteq Key
      /\ d.issues \in [DOMAIN d.issues -> Row] /\ d.events \subseteq EventRow
  BY DEF SoundDatabase, IsDatabase
<1>2. from \in DOMAIN d.issues /\ from \notin Group
  BY DEF LegacyCandidates, SoundDatabase, VersionsMatchKeys
<1>3. from # k /\ k \in Group
  BY <1>2, ConstantsAssumption
<1>4. \A j \in DOMAIN d.issues :
         /\ IsFiniteSet(d.issues[j].lineage) /\ RowMatches(d.issues[j])
         /\ j # from => d.issues[j].lineage \cap d.issues[from].lineage = {}
  BY <1>2 DEF SoundDatabase, VersionsMatchKeys, AggregatesMatch, OccurrencesUnique
<1>5. /\ k \in Key
      /\ DOMAIN table = DOMAIN d.issues \cup {k}
      /\ \A j \in DOMAIN d.issues : j # k => table[j] = d.issues[j]
      /\ table[k] \in Row /\ table[k].version = 2
      /\ table[k].lineage = d.issues[from].lineage \cup Lineage(d.issues, k)
      /\ IsFiniteSet(table[k].lineage) /\ RowMatches(table[k])
  <2>1. Mergeable(d.issues, from)
    BY <1>1, <1>2, <1>4 DEF Mergeable
  <2>2. from # Fingerprint[o.shape] /\ o.shape \in Shape
    BY <1>3
  <2>3. MergedInto(table, d.issues, from, k)
    BY <2>1, <2>2, MergedRow
  <2> HIDE DEF table, k
  <2> QED
    BY <2>3 DEF MergedInto
<1> HIDE DEF table
<1>6. /\ kept = (DOMAIN d.issues \ {from}) \cup {k}
      /\ DOMAIN issues = kept /\ issues[k] = table[k]
      /\ \A j \in DOMAIN d.issues \ {from} : j # k => issues[j] = d.issues[j]
      /\ issues \in [kept -> Row]
  BY <1>1, <1>3, <1>5
<1>7. \A e \in moved : e.key # from
  BY <1>1, <1>3 DEF MoveEvents, EventRow
<1>8. d2 = [issues |-> issues, events |-> moved, arrivals |-> d.arrivals]
  <2>1. moved = {e \in moved : e.key \notin {from}}
    BY <1>7
  <2> QED
    BY <2>1 DEF MergeLegacyIssue, DeleteIssues, Restrict, table
<1>9. \A m \in moved : \E e \in d.events :
         /\ m.seq = e.seq /\ m.event = e.event /\ m \in EventRow
         /\ m.key = IF e.key = from THEN k ELSE e.key
  <2> SUFFICES ASSUME NEW e \in d.events,
                      NEW m, m = IF e.key = from THEN [e EXCEPT !.key = k] ELSE e
               PROVE  /\ m.seq = e.seq /\ m.event = e.event /\ m \in EventRow
                      /\ m.key = IF e.key = from THEN k ELSE e.key
    BY DEF MoveEvents
  <2> QED
    BY <1>1, <1>5 DEF EventRow
<1> HIDE DEF issues, moved, d2, kept, k
<1>10. Replaces(d, {from}, k, issues, d.arrivals)
  <2>1. \A p \in table[k].lineage :
           /\ p.id <= d.arrivals
           /\ \A q \in table[k].lineage : p.id = q.id => p = q
           /\ \A j \in DOMAIN d.issues \ {from} :
                 j # k => \A q \in d.issues[j].lineage : p.id # q.id
    BY <1>2, <1>5 DEF SoundDatabase, OccurrencesUnique, Lineage
  <2>2. d.arrivals <= d.arrivals
    BY <1>1
  <2> QED
    BY <1>1, <1>3, <1>5, <1>6, <2>1, <2>2 DEF Replaces
<1>11. /\ d2.issues = issues /\ d2.events = moved /\ d2.arrivals = d.arrivals
       /\ d2 = [issues |-> d2.issues, events |-> d2.events, arrivals |-> d2.arrivals]
  BY <1>8
<1>12. /\ issues \in [DOMAIN issues -> Row] /\ DOMAIN issues \subseteq Key
       /\ VersionsMatchKeys(d2) /\ OccurrencesUnique(d2) /\ AggregatesMatch(d2)
  BY <1>8, <1>10, RowReplaced
<1>13. IsDatabase(d2)
  BY <1>1, <1>9, <1>11, <1>12 DEF IsDatabase
<1>14. EventsBelong(d2)
  <2> SUFFICES ASSUME NEW m \in moved
               PROVE  m.key \in kept /\ m.event \in issues[m.key].lineage
    BY <1>6, <1>11 DEF EventsBelong
  <2>1. PICK e \in d.events : /\ m.event = e.event
                              /\ m.key = IF e.key = from THEN k ELSE e.key
    BY <1>9
  <2>2. e.key \in DOMAIN d.issues /\ e.event \in d.issues[e.key].lineage
    BY DEF SoundDatabase, EventsBelong
  <2> QED
    BY <1>5, <1>6, <2>1, <2>2 DEF Lineage
<1>15. SequencesOrdered(d2)
  BY <1>9, <1>11 DEF SoundDatabase, SequencesOrdered
<1>16. \A j \in DOMAIN d.issues :
          \E i \in DOMAIN issues : d.issues[j].lineage \subseteq issues[i].lineage
  <2> SUFFICES ASSUME NEW j \in DOMAIN d.issues
               PROVE  \E i \in kept : d.issues[j].lineage \subseteq issues[i].lineage
    BY <1>6
  <2>1. CASE j \in {from, k}
    <3>1. d.issues[j].lineage \subseteq issues[k].lineage /\ k \in kept
      BY <1>5, <1>6, <2>1 DEF Lineage
    <3> QED
      BY <3>1
  <2>2. CASE j \notin {from, k}
    BY <1>6, <2>2
  <2> QED
    BY <2>1, <2>2
<1> QED
  BY <1>6, <1>11, <1>12, <1>13, <1>14, <1>15, <1>16 DEF SoundDatabase, d2, k

-----------------------------------------------------------------------------
(***************************************************************************)
(* The inductive invariant.  The committed database is sound, and so is    *)
(* the view of the one writer that holds the lock; that view still counts  *)
(* every occurrence the committed database counts, and those the writer    *)
(* has recorded itself, so committing it can lose none.                    *)
(***************************************************************************)
Known(d, id) == \E k \in DOMAIN d.issues : \E o \in d.issues[k].lineage : o.id = id

Keeps(old, new) == \A id : Known(old, id) => Known(new, id)

TransactionOK(w) ==
    /\ SoundDatabase(work[w])
    /\ tx[w].phase \in {"migrate", "record"} => tx[w].index \in 1..Len(tx[w].batch)
    /\ Keeps(db, work[w])
    /\ \A id \in tx[w].ids : Known(work[w], id)

IInv ==
    /\ TypeOK
    /\ SoundDatabase(db)
    /\ \A w \in Writer : lock = w => TransactionOK(w)
    /\ \A id \in acked \ removed : Known(db, id)

\* What a transaction does to its own view: the committed state stays as it
\* is, and the other writers stay outside any transaction.
LEMMA OwnStep ==
    ASSUME IInv, NEW w \in Writer, lock = w, UNCHANGED <<db, lock, acked, removed>>,
           NEW d, DOMAIN work' = Writer, work'[w] = d,
           NEW t \in Transaction, tx' = [tx EXCEPT ![w] = t], t.phase # "idle",
           SoundDatabase(d), Keeps(db, d), \A id \in t.ids : Known(d, id),
           t.phase \in {"migrate", "record"} => t.index \in 1..Len(t.batch)
    PROVE  IInv'
<1>1. /\ \A v \in Writer : lock = v => v = w
      /\ tx' \in [Writer -> Transaction]
      /\ tx'[w] = t /\ \A v \in Writer : v # w => tx'[v] = tx[v]
  BY DEF IInv, TypeOK
<1>2. IsDatabase(d)
  BY DEF SoundDatabase
<1>3. \A v \in Writer : lock' = v => v = w
  BY <1>1
<1>4. TypeOK'
  BY <1>1, <1>2, <1>3 DEF IInv, TypeOK
<1>5. TransactionOK(w)'
  BY <1>1 DEF TransactionOK
<1> QED
  BY <1>3, <1>4, <1>5 DEF IInv

\* Taking the write lock with a first view of the database.
LEMMA BeginStep ==
    ASSUME IInv, NEW w \in Writer, lock = NoWriter, lock' = w,
           UNCHANGED <<db, acked, removed>>,
           NEW d, work' = [work EXCEPT ![w] = d],
           NEW t \in Transaction, tx' = [tx EXCEPT ![w] = t], t.phase # "idle",
           SoundDatabase(d), Keeps(db, d), t.ids = {},
           t.phase \in {"migrate", "record"} => t.index \in 1..Len(t.batch)
    PROVE  IInv'
<1>1. /\ tx' \in [Writer -> Transaction]
      /\ tx'[w] = t /\ \A v \in Writer : v # w => tx'[v] = tx[v]
      /\ \A v \in Writer : tx[v].phase = "idle"
  BY ConstantsAssumption DEF IInv, TypeOK
<1>2. IsDatabase(d)
  BY DEF SoundDatabase
<1>3. \A v \in Writer : lock' = v => v = w
  OBVIOUS
<1>4. DOMAIN work' = Writer /\ work'[w] = d
  BY DEF IInv, TypeOK
<1>5. TypeOK'
  BY <1>1, <1>2, <1>3, <1>4 DEF IInv, TypeOK
<1>6. TransactionOK(w)'
  BY <1>1, <1>4 DEF TransactionOK
<1> QED
  BY <1>3, <1>5, <1>6 DEF IInv

\* Without a writer only the committed database matters.
LEMMA NobodyWriting ==
    ASSUME TypeOK, IsDatabase(db'), lock' = NoWriter, DOMAIN work' = Writer,
           tx' \in [Writer -> Transaction], \A v \in Writer : tx'[v].phase = "idle",
           acked' \subseteq Nat, removed' \subseteq Nat
    PROVE  TypeOK' /\ \A v \in Writer : lock' # v
  BY ConstantsAssumption DEF TypeOK

\* Releasing the lock ends the one transaction there was.
LEMMA Released ==
    ASSUME IInv, NEW w \in Writer, lock = w, EndTransaction(w)
    PROVE  /\ lock' = NoWriter /\ DOMAIN work' = Writer
           /\ tx' \in [Writer -> Transaction]
           /\ \A v \in Writer : tx'[v].phase = "idle"
<1>1. IdleTx \in Transaction /\ IdleTx.phase = "idle"
  BY DEF IdleTx, Transaction
<1>2. \A v \in Writer : v # w => tx[v].phase = "idle"
  BY DEF IInv, TypeOK
<1> QED
  BY <1>1, <1>2 DEF EndTransaction, IInv, TypeOK

\* The elements of a sequence belong to its set.
LEMMA SequenceElement ==
    ASSUME NEW S, NEW s \in Seq(S)
    PROVE  Len(s) \in Nat /\ \A i \in 1..Len(s) : s[i] \in S
  OBVIOUS

\* A function on 1..n is a sequence of length n.
LEMMA FunctionIsSequence ==
    ASSUME NEW S, NEW n \in Nat, NEW s \in [1..n -> S]
    PROVE  s \in Seq(S) /\ Len(s) = n
  OBVIOUS

-----------------------------------------------------------------------------
\* The initial database is sound and nobody is writing.
LEMMA InitInvariant == Init => IInv
<1> SUFFICES ASSUME Init PROVE IInv
  OBVIOUS
<1>1. SoundDatabase(db) /\ IsDatabase(db)
  BY SeedsAssumption DEF Init, SoundDatabase
<1>2. IdleTx \in Transaction /\ IdleTx.phase = "idle"
  BY DEF IdleTx, Transaction
<1>3. \A w \in Writer : lock # w
  BY ConstantsAssumption DEF Init
<1>4. TypeOK
  BY <1>1, <1>2, <1>3 DEF Init, TypeOK
<1> QED
  BY <1>1, <1>3, <1>4 DEF Init, IInv

\* A writer in a transaction holds the lock, and its record and view are typed.
LEMMA InTransaction ==
    ASSUME IInv, NEW w \in Writer, tx[w].phase # "idle"
    PROVE  /\ lock = w /\ TransactionOK(w) /\ tx[w] \in Transaction
           /\ tx[w].phase \in {"migrate", "record"} =>
                /\ tx[w].batch[tx[w].index].shape \in Shape
                /\ tx[w].batch[tx[w].index].at \in Nat
                /\ tx[w].index \in 1..Len(tx[w].batch)
                /\ Len(tx[w].batch) \in Nat
<1>1. lock = w /\ TransactionOK(w) /\ tx[w] \in Transaction
  BY DEF IInv, TypeOK
<1>2. tx[w].batch \in Seq([shape : Shape, at : Nat])
  BY <1>1 DEF Transaction
<1>3. ASSUME tx[w].phase \in {"migrate", "record"}
      PROVE  /\ tx[w].index \in 1..Len(tx[w].batch)
             /\ tx[w].batch[tx[w].index] \in [shape : Shape, at : Nat]
  <2>1. tx[w].index \in 1..Len(tx[w].batch)
    BY <1>1, <1>3 DEF TransactionOK
  <2> QED
    BY <1>2, <2>1, SequenceElement
<1>4. Len(tx[w].batch) \in Nat
  BY <1>2, SequenceElement
<1> QED
  BY <1>1, <1>3, <1>4

\* BEGIN IMMEDIATE takes the lock with a view equal to the committed database.
LEMMA BeginRecordBatchStep ==
    ASSUME IInv, NEW w \in Writer, NEW batch \in Batches, BeginRecordBatch(w, batch)
    PROVE  IInv'
<1> DEFINE t == [IdleTx EXCEPT !.phase = "migrate", !.batch = batch, !.index = 1]
<1>1. batch \in Seq([shape : Shape, at : Nat]) /\ 1 \in 1..Len(batch)
  <2>1. PICK n \in 1..MaxBatch : batch \in [1..n -> [shape : Shape, at : Time]]
    BY DEF Batches
  <2>2. [shape : Shape, at : Time] \subseteq [shape : Shape, at : Nat]
    BY ConstantsAssumption
  <2>3. n \in Nat /\ n >= 1
    BY ConstantsAssumption
  <2>4. batch \in [1..n -> [shape : Shape, at : Nat]]
    BY <2>1, <2>2
  <2>5. batch \in Seq([shape : Shape, at : Nat]) /\ Len(batch) = n
    BY <2>3, <2>4, FunctionIsSequence
  <2> QED
    BY <2>3, <2>5
<1>2. /\ t \in Transaction /\ t.phase = "migrate" /\ t.ids = {}
      /\ t.batch = batch /\ t.index = 1
  BY <1>1 DEF IdleTx, Transaction
<1>3. /\ lock = NoWriter /\ lock' = w /\ UNCHANGED <<db, acked, removed>>
      /\ work' = [work EXCEPT ![w] = db] /\ tx' = [tx EXCEPT ![w] = t]
  BY DEF BeginRecordBatch, WriteLockFree
<1>4. SoundDatabase(db) /\ Keeps(db, db)
  BY DEF IInv, Keeps
<1> HIDE DEF t
<1> QED
  BY <1>1, <1>2, <1>3, <1>4, BeginStep

\* The UPDATE of SetIssueStatus takes the lock; it counts what was counted.
LEMMA BeginSetStatusStep ==
    ASSUME IInv, NEW w \in Writer, NEW k \in Key, NEW status \in Status,
           BeginSetStatus(w, k, status)
    PROVE  IInv'
<1> DEFINE t == [IdleTx EXCEPT !.phase = "commit"]
           d == [db EXCEPT !.issues[k].status = status]
<1>1. k \in DOMAIN db.issues /\ SoundDatabase(db)
  BY DEF BeginSetStatus, IInv
<1>2. SoundDatabase(d)
  BY <1>1, SetStatusSound
<1>3. Keeps(db, d)
  <2>1. /\ DOMAIN d.issues = DOMAIN db.issues
        /\ \A j \in DOMAIN db.issues : d.issues[j].lineage = db.issues[j].lineage
    BY <1>1 DEF SoundDatabase, IsDatabase, Row
  <2> HIDE DEF d
  <2> QED
    BY <2>1 DEF Keeps, Known
<1>4. t \in Transaction /\ t.phase = "commit" /\ t.ids = {}
  <2>1. IdleTx \in Transaction /\ IdleTx.ids = {}
    BY DEF IdleTx, Transaction
  <2> QED
    BY <2>1 DEF Transaction
<1>5. /\ lock = NoWriter /\ lock' = w /\ UNCHANGED <<db, acked, removed>>
      /\ work' = [work EXCEPT ![w] = d] /\ tx' = [tx EXCEPT ![w] = t]
  BY DEF BeginSetStatus, WriteLockFree
<1> HIDE DEF t, d
<1> QED
  BY <1>2, <1>3, <1>4, <1>5, BeginStep

Phase == {"idle", "migrate", "record", "trim", "commit"}

\* One legacy issue is merged in the writer's view.
LEMMA MergeCandidateStep ==
    ASSUME IInv, NEW w \in Writer, MergeCandidate(w)
    PROVE  IInv'
<1> DEFINE t == tx[w]
           r == t.batch[t.index]
<1>1. /\ lock = w /\ TransactionOK(w) /\ t \in Transaction
      /\ r.shape \in Shape /\ t.index \in 1..Len(t.batch)
      /\ t.phase = "migrate"
  BY InTransaction DEF MergeCandidate
<1>2. PICK from \in LegacyCandidates(work[w], r) :
         work' = [work EXCEPT ![w] = MergeLegacyIssue(work[w], from, r)]
  BY DEF MergeCandidate
<1> DEFINE d == MergeLegacyIssue(work[w], from, r)
<1>3. /\ SoundDatabase(d)
      /\ \A j \in DOMAIN work[w].issues :
            \E i \in DOMAIN d.issues : work[w].issues[j].lineage \subseteq d.issues[i].lineage
  BY <1>1, MergeSound DEF TransactionOK
<1> HIDE DEF d
<1>4. Keeps(work[w], d)
  BY <1>3 DEF Keeps, Known
<1>5. Keeps(db, d) /\ \A id \in t.ids : Known(d, id)
  BY <1>1, <1>4 DEF TransactionOK, Keeps
<1>6. /\ UNCHANGED <<db, lock, acked, removed>>
      /\ DOMAIN work' = Writer /\ work'[w] = d /\ tx' = [tx EXCEPT ![w] = t]
  BY <1>2 DEF MergeCandidate, d, IInv, TypeOK
<1> QED
  BY <1>1, <1>3, <1>5, <1>6, OwnStep

\* The next record, or the inserts.
LEMMA NextMigrationStep ==
    ASSUME IInv, NEW w \in Writer, NextMigration(w)
    PROVE  IInv'
<1> DEFINE t == tx[w]
           g == Fingerprint[t.batch[t.index].shape]
           last == t.index = Len(t.batch)
           u == [t EXCEPT !.migrated = @ \cup {g},
                          !.phase = IF last THEN "record" ELSE "migrate",
                          !.index = IF last THEN 1 ELSE @ + 1]
<1>1. /\ lock = w /\ TransactionOK(w) /\ t \in Transaction
      /\ t.batch[t.index].shape \in Shape
      /\ t.index \in 1..Len(t.batch) /\ Len(t.batch) \in Nat
  BY InTransaction DEF NextMigration
<1>2. g \in Group
  BY <1>1, ConstantsAssumption
<1>3. /\ u \in Transaction /\ u.phase # "idle" /\ u.ids = t.ids
      /\ u.index \in 1..Len(u.batch)
  <2> DEFINE phase == IF last THEN "record" ELSE "migrate"
             index == IF last THEN 1 ELSE t.index + 1
             keys == t.migrated \cup {g}
  <2>1. /\ keys \in SUBSET Group /\ index \in Nat /\ index \in 1..Len(t.batch)
        /\ phase \in Phase /\ phase # "idle"
    BY <1>1, <1>2 DEF Transaction, Phase
  <2>2. u = [t EXCEPT !.migrated = keys, !.phase = phase, !.index = index]
    OBVIOUS
  <2> HIDE DEF u, keys, phase, index, t, last
  <2>3. u \in Transaction /\ u.phase = phase /\ u.ids = t.ids /\ u.index = index /\ u.batch = t.batch
    BY <1>1, <2>1, <2>2 DEF Transaction, Phase
  <2> QED
    BY <2>1, <2>3
<1>4. /\ UNCHANGED <<db, lock, acked, removed>>
      /\ DOMAIN work' = Writer /\ work'[w] = work[w] /\ tx' = [tx EXCEPT ![w] = u]
  BY DEF NextMigration, IInv, TypeOK
<1> HIDE DEF t, u
<1>5. \A id \in u.ids : Known(work[w], id)
  BY <1>1, <1>3 DEF TransactionOK, t
<1>6. SoundDatabase(work[w]) /\ Keeps(db, work[w])
  BY <1>1 DEF TransactionOK
<1> QED
  BY <1>1, <1>3, <1>4, <1>5, <1>6, OwnStep

\* One record becomes an occurrence of its issue and an event row.
LEMMA RecordEventStep ==
    ASSUME IInv, NEW w \in Writer, RecordEvent(w)
    PROVE  IInv'
<1> DEFINE t == tx[w]
           r == t.batch[t.index]
           o == [id |-> work[w].arrivals + 1, at |-> r.at, shape |-> r.shape]
           last == t.index = Len(t.batch)
           phase == IF last THEN "trim" ELSE "record"
           index == IF last THEN 1 ELSE t.index + 1
           keys == t.touched \cup {Fingerprint[o.shape]}
           ids == t.ids \cup {o.id}
           u == [t EXCEPT !.touched = keys, !.ids = ids, !.phase = phase, !.index = index]
           d == Recorded(work[w], o)
<1>1. /\ lock = w /\ TransactionOK(w) /\ t \in Transaction
      /\ r.shape \in Shape /\ r.at \in Nat
      /\ t.index \in 1..Len(t.batch) /\ Len(t.batch) \in Nat
  BY InTransaction DEF RecordEvent
<1>2. work[w].arrivals \in Nat
  BY <1>1 DEF TransactionOK, SoundDatabase, IsDatabase
<1>3. /\ o \in Occurrence /\ o.id = work[w].arrivals + 1 /\ o.shape \in Shape
      /\ o.id \in Nat
  BY <1>1, <1>2 DEF Occurrence
<1>4. /\ UNCHANGED <<db, lock, acked, removed>>
      /\ DOMAIN work' = Writer /\ work'[w] = d /\ tx' = [tx EXCEPT ![w] = u]
  BY DEF RecordEvent, AllRecorded, Recorded, IInv, TypeOK
<1>5. /\ keys \in SUBSET Group /\ ids \in SUBSET Nat
      /\ index \in Nat /\ index \in 1..Len(t.batch)
      /\ phase \in Phase /\ phase # "idle"
  BY <1>1, <1>3, ConstantsAssumption DEF Transaction, Phase
<1>6. u = [t EXCEPT !.touched = keys, !.ids = ids, !.phase = phase, !.index = index]
  OBVIOUS
<1>7. ids = t.ids \cup {o.id}
  OBVIOUS
<1> HIDE DEF u, keys, ids, phase, index, t, o, last, d
<1>8. /\ u \in Transaction /\ u.phase = phase /\ u.ids = ids
      /\ u.index = index /\ u.batch = t.batch
  BY <1>1, <1>5, <1>6 DEF Transaction, Phase
<1>9. /\ SoundDatabase(d)
      /\ DOMAIN d.issues = DOMAIN work[w].issues \cup {Fingerprint[o.shape]}
      /\ o \in d.issues[Fingerprint[o.shape]].lineage
      /\ \A k \in DOMAIN work[w].issues : work[w].issues[k].lineage \subseteq d.issues[k].lineage
  BY <1>1, <1>3, RecordSound DEF TransactionOK, d
<1>10. Keeps(work[w], d) /\ Known(d, o.id)
  BY <1>9 DEF Keeps, Known
<1>11. Keeps(db, d) /\ \A id \in ids : Known(d, id)
  BY <1>1, <1>7, <1>10 DEF TransactionOK, Keeps, t
<1> QED
  BY <1>1, <1>4, <1>5, <1>8, <1>9, <1>11, OwnStep

\* Trimming takes event rows away and no occurrence.
LEMMA TrimTouchedStep ==
    ASSUME IInv, NEW w \in Writer, TrimTouched(w)
    PROVE  IInv'
<1> DEFINE t == tx[w]
<1>1. /\ lock = w /\ TransactionOK(w) /\ t \in Transaction
  BY InTransaction DEF TrimTouched
<1>2. PICK k \in t.touched :
         /\ work' = [work EXCEPT ![w].events = TrimEvents(@, k, MaxEventsPerIssue)]
         /\ tx' = [tx EXCEPT ![w] =
                     [t EXCEPT !.touched = t.touched \ {k},
                               !.phase = IF t.touched = {k} THEN "commit" ELSE "trim"]]
  BY DEF TrimTouched
<1> DEFINE keys == t.touched \ {k}
           phase == IF t.touched = {k} THEN "commit" ELSE "trim"
           u == [t EXCEPT !.touched = keys, !.phase = phase]
           events == TrimEvents(work[w].events, k, MaxEventsPerIssue)
           d == [work[w] EXCEPT !.events = events]
<1>3. /\ UNCHANGED <<db, lock, acked, removed>>
      /\ DOMAIN work' = Writer /\ work'[w] = d /\ tx' = [tx EXCEPT ![w] = u]
  BY <1>2 DEF TrimTouched, IInv, TypeOK
<1>4. keys \in SUBSET Group /\ phase \in {"commit", "trim"}
  BY <1>1 DEF Transaction
<1>5. u = [t EXCEPT !.touched = keys, !.phase = phase]
  OBVIOUS
<1>6. events \subseteq work[w].events
  BY DEF TrimEvents
<1> HIDE DEF u, keys, phase, events
<1>7. /\ u \in Transaction /\ u.phase = phase /\ u.ids = t.ids
  BY <1>1, <1>4, <1>5 DEF Transaction
<1>8. SoundDatabase(d) /\ d.issues = work[w].issues
  BY <1>1, <1>6, FewerEventsSound DEF TransactionOK, SoundDatabase, IsDatabase
<1> HIDE DEF d, t
<1>9. Keeps(db, d) /\ \A id \in u.ids : Known(d, id)
  BY <1>1, <1>7, <1>8 DEF TransactionOK, Keeps, Known, t
<1>10. u.phase # "idle" /\ u.phase \notin {"migrate", "record"}
  BY <1>4, <1>7
<1> QED
  BY <1>1, <1>3, <1>7, <1>8, <1>9, <1>10, OwnStep

\* COMMIT publishes the writer's view and acknowledges its events.
LEMMA CommitStep ==
    ASSUME IInv, NEW w \in Writer, Commit(w)
    PROVE  IInv'
<1>1. /\ lock = w /\ TransactionOK(w) /\ tx[w] \in Transaction
  BY InTransaction DEF Commit
<1>2. /\ db' = work[w] /\ acked' = acked \cup tx[w].ids /\ removed' = removed
      /\ EndTransaction(w)
  BY DEF Commit
<1>3. SoundDatabase(db)' /\ IsDatabase(db')
  BY <1>1, <1>2 DEF TransactionOK, SoundDatabase
<1>4. /\ lock' = NoWriter /\ DOMAIN work' = Writer
      /\ tx' \in [Writer -> Transaction]
      /\ \A v \in Writer : tx'[v].phase = "idle"
  BY <1>1, <1>2, Released
<1>5. acked' \subseteq Nat /\ removed' \subseteq Nat
  BY <1>1, <1>2 DEF IInv, TypeOK, Transaction
<1>6. TypeOK' /\ \A v \in Writer : lock' # v
  BY <1>3, <1>4, <1>5, NobodyWriting DEF IInv
<1>7. \A id \in acked' \ removed' : Known(db', id)
  BY <1>1, <1>2 DEF IInv, TransactionOK, Keeps
<1> QED
  BY <1>3, <1>6, <1>7 DEF IInv

\* ROLLBACK publishes nothing.
LEMMA RollbackStep ==
    ASSUME IInv, NEW w \in Writer, Rollback(w)
    PROVE  IInv'
<1>1. lock = w
  BY InTransaction DEF Rollback
<1>2. UNCHANGED <<db, acked, removed>> /\ EndTransaction(w)
  BY DEF Rollback
<1>3. /\ lock' = NoWriter /\ DOMAIN work' = Writer
      /\ tx' \in [Writer -> Transaction]
      /\ \A v \in Writer : tx'[v].phase = "idle"
  BY <1>1, <1>2, Released
<1>4. TypeOK' /\ \A v \in Writer : lock' # v
  BY <1>2, <1>3, NobodyWriting DEF IInv, TypeOK
<1> QED
  BY <1>2, <1>4 DEF IInv

\* A crash ends every transaction and keeps what was committed.
LEMMA CrashStep ==
    ASSUME IInv, Crash
    PROVE  IInv'
<1>1. IdleTx \in Transaction /\ IdleTx.phase = "idle"
  BY DEF IdleTx, Transaction
<1>2. UNCHANGED <<db, acked, removed>>
  BY DEF Crash
<1>3. /\ lock' = NoWriter /\ DOMAIN work' = Writer
      /\ tx' \in [Writer -> Transaction]
      /\ \A v \in Writer : tx'[v].phase = "idle"
  BY <1>1 DEF Crash
<1>4. TypeOK' /\ \A v \in Writer : lock' # v
  BY <1>2, <1>3, NobodyWriting DEF IInv, TypeOK
<1> QED
  BY <1>2, <1>4 DEF IInv

\* Retention deletes issues with their events and notes what it removed.
LEMMA RemoveStep ==
    ASSUME IInv, NEW gone, gone \subseteq DOMAIN db.issues, lock = NoWriter, Remove(gone)
    PROVE  IInv'
<1>1. /\ db' = DeleteIssues(db, gone)
      /\ removed' = removed \cup {o.id : o \in UNION {db.issues[k].lineage : k \in gone}}
      /\ UNCHANGED <<work, tx, lock, acked>>
  BY DEF Remove
<1>2. SoundDatabase(db)
  BY DEF IInv
<1>3. /\ SoundDatabase(db')
      /\ DOMAIN db'.issues = DOMAIN db.issues \ gone
      /\ \A k \in DOMAIN db.issues \ gone : db'.issues[k] = db.issues[k]
  BY <1>1, <1>2, DeleteSound
<1>4. \A w \in Writer : lock # w
  BY ConstantsAssumption
<1>5. removed' \subseteq Nat
  <2>1. \A k \in gone : \A o \in db.issues[k].lineage : o.id \in Nat
    BY <1>2 DEF SoundDatabase, IsDatabase, Row, Occurrence
  <2>2. \A o \in UNION {db.issues[k].lineage : k \in gone} : o.id \in Nat
    BY <2>1
  <2> DEFINE ids == {o.id : o \in UNION {db.issues[k].lineage : k \in gone}}
  <2>3. ids \subseteq Nat
    BY <2>2
  <2> HIDE DEF ids
  <2> QED
    BY <1>1, <2>3 DEF IInv, TypeOK, ids
<1>6. TypeOK'
  <2>1. IsDatabase(db')
    BY <1>3 DEF SoundDatabase
  <2> QED
    BY <1>1, <1>4, <1>5, <2>1 DEF IInv, TypeOK
<1>7. ASSUME NEW id \in acked' \ removed' PROVE Known(db', id)
  <2>1. PICK k \in DOMAIN db.issues : \E o \in db.issues[k].lineage : o.id = id
    BY <1>1 DEF IInv, Known
  <2>2. k \notin gone
    BY <1>1, <2>1
  <2> QED
    BY <1>3, <2>1, <2>2 DEF Known
<1> QED
  BY <1>1, <1>3, <1>4, <1>6, <1>7 DEF IInv

\* Every step of the store keeps the invariant.
LEMMA NextInvariant == IInv /\ [Next]_vars => IInv'
<1> SUFFICES ASSUME IInv, [Next]_vars PROVE IInv'
  OBVIOUS
<1>1. ASSUME NEW w \in Writer, Begin(w) PROVE IInv'
  BY <1>1, BeginRecordBatchStep, BeginSetStatusStep DEF Begin
<1>2. ASSUME NEW w \in Writer, Proceed(w) PROVE IInv'
  BY <1>2, MergeCandidateStep, NextMigrationStep, RecordEventStep,
     TrimTouchedStep, CommitStep, RollbackStep DEF Proceed
<1>3. ASSUME NEW cutoff \in Time, PruneIssues(cutoff) PROVE IInv'
  <2>1. PICK gone : gone \subseteq DOMAIN db.issues /\ Remove(gone)
    BY <1>3 DEF PruneIssues, OldestOf
  <2> QED
    BY <1>3, <2>1, RemoveStep DEF PruneIssues, WriteLockFree
<1>4. ASSUME NEW limit, EnforceIssueLimit(limit) PROVE IInv'
  <2>1. PICK gone : gone \subseteq DOMAIN db.issues /\ Remove(gone)
    BY <1>4 DEF EnforceIssueLimit, OldestOf
  <2> QED
    BY <1>4, <2>1, RemoveStep DEF EnforceIssueLimit, WriteLockFree
<1>5. CASE Crash
  BY <1>5, CrashStep
<1>6. CASE UNCHANGED vars
  BY <1>6 DEF vars, IInv, TypeOK, TransactionOK
<1> QED
  BY <1>1, <1>2, <1>3, <1>4, <1>5, <1>6 DEF Next

\* Whatever the interleaving of statements, writers, rollbacks, retention and
\* crashes, the invariant holds.
THEOREM StoreInvariant == Spec => []IInv
<1>1. Init => IInv
  BY InitInvariant
<1>2. IInv /\ [Next]_vars => IInv'
  BY NextInvariant
<1> QED
  BY <1>1, <1>2, PTL DEF Spec

\* Type correctness, and one writer at a time: a request is in a transaction
\* exactly while it holds SQLite's write lock.
THEOREM StoreTypes == Spec => []TypeOK
  BY StoreInvariant, PTL DEF IInv

\* Upserts in any order of received_at, and merges of any number of legacy
\* rows, leave occurrences, first_seen, last_seen and last_event what the
\* recorded occurrences say (sqliteUpsertIssue, sqliteMergeLegacyIssue).
THEOREM AggregatesAreRight == Spec => []AggregatesMatchLineage
<1>1. IInv => AggregatesMatchLineage
  BY DEF IInv, SoundDatabase, AggregatesMatchLineage
<1> QED
  BY <1>1, StoreInvariant, PTL

\* The history of a merged legacy issue moves before the cascade deletes it:
\* no event row is ever without its issue.
THEOREM EventsAlwaysHaveIssues == Spec => []EventsHaveIssues
<1>1. IInv => EventsHaveIssues
  BY DEF IInv, SoundDatabase, EventsHaveIssues
<1> QED
  BY <1>1, StoreInvariant, PTL

\* Reusing the sequences of deleted rows (no AUTOINCREMENT) never puts a later
\* event before an earlier one.
THEOREM SequencesAlwaysFollowArrival == Spec => []SequencesFollowArrival
<1>1. IInv => SequencesFollowArrival
  BY DEF IInv, SoundDatabase, SequencesFollowArrival
<1> QED
  BY <1>1, StoreInvariant, PTL

\* An acknowledged event stays in an issue until retention removes the issue,
\* through other writers, rollbacks and crashes (RecordBatch's COMMIT).
THEOREM AcknowledgedEventsAreDurable == Spec => []AckedAreDurable
<1>1. IInv => AckedAreDurable
  BY DEF IInv, Known, AckedAreDurable
<1> QED
  BY <1>1, StoreInvariant, PTL
-----------------------------------------------------------------------------
(* The newest occurrences of a set.                                        *)

LEMMA NewerOrder ==
    /\ \A o \in Occurrence : ~Newer(o, o)
    /\ \A o, p, q \in Occurrence : Newer(o, p) /\ Newer(p, q) => Newer(o, q)
  BY DEF Newer, Occurrence

\* A finite nonempty set of occurrences has a newest one.
LEMMA NewestExists ==
    ASSUME NEW S, S \subseteq Occurrence, IsFiniteSet(S), S # {}
    PROVE  \E m \in S : \A o \in S : ~Newer(o, m)
<1> DEFINE Above(m) == {o \in S : Newer(o, m)}
           T == {Above(m) : m \in S}
           R == StrictSubsetOrdering(S)
<1>1. T \subseteq FiniteSubsetsOf(S) /\ T # {}
  <2>1. FiniteSubsetsOf(S) = SUBSET S
    BY FS_FiniteSubsetsOfFinite
  <2>2. ASSUME NEW t \in T PROVE t \in SUBSET S
    <3>1. PICK m \in S : t = Above(m)
      OBVIOUS
    <3> QED
      BY <3>1
  <2>3. T # {}
    <3>1. PICK m \in S : TRUE
      OBVIOUS
    <3>2. Above(m) \in T
      OBVIOUS
    <3> QED
      BY <3>2
  <2> HIDE DEF T
  <2> QED
    BY <2>1, <2>2, <2>3
<1>2. IsWellFoundedOn(R, FiniteSubsetsOf(S))
  BY FS_StrictSubsetOrderingWellFounded
<1>3. PICK x \in T : \A y \in T : ~ (<<y, x>> \in R)
  <2> HIDE DEF T, R
  <2> QED
    BY <1>1, <1>2, WFMin
<1>4. PICK m \in S : x = Above(m)
  OBVIOUS
<1>5. ASSUME NEW o \in S, Newer(o, m) PROVE FALSE
  <2>1. o \in Occurrence /\ m \in Occurrence /\ \A p \in S : p \in Occurrence
    OBVIOUS
  <2>2. ~Newer(o, o) /\ \A p \in S : Newer(p, o) => Newer(p, m)
    BY <1>5, <2>1, NewerOrder
  <2>3. Above(o) \subseteq Above(m) /\ o \in Above(m) /\ o \notin Above(o)
    BY <1>5, <2>2
  <2>4. <<Above(o), Above(m)>> \in R
    BY <2>3 DEF StrictSubsetOrdering
  <2> QED
    BY <1>3, <1>4, <2>4
<1> QED
  BY <1>5

\* An occurrence that is among the newest of a set is so in every part of it.
LEMMA NewestOfPart ==
    ASSUME NEW S, IsFiniteSet(S), NEW T, T \subseteq S, NEW n \in Nat
    PROVE  Newest(S, n) \cap T \subseteq Newest(T, n)
<1> SUFFICES ASSUME NEW o \in T, o \in Newest(S, n)
             PROVE  Cardinality({p \in T : Newer(p, o)}) < n
  BY DEF Newest
<1> DEFINE A == {p \in S : Newer(p, o)}
           B == {p \in T : Newer(p, o)}
<1>1. A \in SUBSET S /\ B \in SUBSET A
  OBVIOUS
<1>2. Cardinality(A) < n
  BY DEF Newest
<1> HIDE DEF A, B
<1>3. IsFiniteSet(A)
  BY <1>1, FS_Subset
<1>4. IsFiniteSet(B) /\ Cardinality(B) <= Cardinality(A)
  BY <1>1, <1>3, FS_Subset
<1>5. Cardinality(A) \in Nat /\ Cardinality(B) \in Nat
  BY <1>3, <1>4, FS_CardinalityType
<1>6. Cardinality(B) < n
  BY <1>2, <1>4, <1>5
<1> QED
  BY <1>6 DEF B

\* Trimming a history that still has the newest occurrences leaves just those.
LEMMA TrimLeavesNewest ==
    ASSUME NEW S, S \subseteq Occurrence, IsFiniteSet(S), NEW n \in Nat,
           NEW H, H \subseteq S, Newest(S, n) \subseteq H
    PROVE  Newest(H, n) = Newest(S, n)
<1>1. Newest(S, n) \subseteq Newest(H, n)
  BY NewestOfPart
<1>2. ASSUME NEW o \in Newest(H, n), o \notin Newest(S, n) PROVE FALSE
  <2> DEFINE B == {p \in S : Newer(p, o)}
             C == {p \in H : Newer(p, o)}
  <2>1. o \in H /\ o \in S /\ Cardinality(C) < n /\ ~(Cardinality(B) < n)
    BY <1>2 DEF Newest
  <2>2. C \subseteq B /\ B \subseteq S
    OBVIOUS
  <2>3. IsFiniteSet(B) /\ IsFiniteSet(C) /\ IsFiniteSet(B \ C)
    BY <2>2, FS_Subset
  <2>4. B \ C # {}
    <3>1. B \ C = {} => B = C
      BY <2>2
    <3> QED
      BY <2>1, <3>1
  <2>5. PICK m \in B \ C : \A q \in B \ C : ~Newer(q, m)
    BY <2>2, <2>3, <2>4, NewestExists
  <2>6. m \in S /\ m \notin H /\ Newer(m, o)
    OBVIOUS
  <2> DEFINE A == {p \in S : Newer(p, m)}
  <2>7. A \subseteq C
    <3> SUFFICES ASSUME NEW q \in S, Newer(q, m) PROVE q \in C
      OBVIOUS
    <3>1. Newer(q, o)
      BY <2>1, <2>6, NewerOrder
    <3> QED
      BY <2>5, <3>1
  <2>8. ~(Cardinality(A) < n)
    BY <2>6 DEF Newest
  <2> HIDE DEF A, B, C
  <2>9. IsFiniteSet(A) /\ Cardinality(A) <= Cardinality(C)
    BY <2>3, <2>7, FS_Subset
  <2>10. Cardinality(A) \in Nat /\ Cardinality(C) \in Nat
    BY <2>3, <2>9, FS_CardinalityType
  <2> QED
    BY <2>1, <2>8, <2>9, <2>10
<1>3. Newest(H, n) \subseteq Newest(S, n)
  BY <1>2
<1> QED
  BY <1>1, <1>3

-----------------------------------------------------------------------------
(* The rows of a history and the occurrences they hold.                    *)

History(events, k) == {e.event : e \in RowsOf(events, k)}

\* Rows are ordered as their occurrences: equal times go by sequence.
LEMMA RowsInOrder ==
    ASSUME NEW d, SoundDatabase(d), NEW e \in d.events, NEW f \in d.events
    PROVE  /\ RowNewer(f, e) <=> Newer(f.event, e.event)
           /\ e.key = f.key /\ e.event = f.event => e = f
<1>1. /\ e \in EventRow /\ f \in EventRow
      /\ e.seq <= f.seq <=> e.event.id <= f.event.id
      /\ f.seq <= e.seq <=> f.event.id <= e.event.id
  BY DEF SoundDatabase, IsDatabase, SequencesOrdered
<1>2. /\ e.seq \in Nat /\ f.seq \in Nat /\ e.event \in Occurrence /\ f.event \in Occurrence
  BY <1>1 DEF EventRow
<1>3. e.event.id \in Nat /\ f.event.id \in Nat
  BY <1>2 DEF Occurrence
<1>4. RowNewer(f, e) <=> Newer(f.event, e.event)
  BY <1>1, <1>2, <1>3 DEF RowNewer, Newer
<1>5. ASSUME e.key = f.key, e.event = f.event PROVE e = f
  <2>1. e.seq = f.seq
    BY <1>1, <1>2, <1>3, <1>5
  <2> QED
    BY <1>1, <1>5, <2>1 DEF EventRow
<1> QED
  BY <1>4, <1>5

\* sqliteTrimEvents keeps the newest occurrences of one history.
LEMMA TrimmedHistory ==
    ASSUME NEW d, SoundDatabase(d), NEW k \in DOMAIN d.issues, NEW n \in Nat
    PROVE  /\ History(TrimEvents(d.events, k, n), k) = Newest(History(d.events, k), n)
           /\ \A j : j # k => RowsOf(TrimEvents(d.events, k, n), j) = RowsOf(d.events, j)
<1> DEFINE rows == RowsOf(d.events, k)
           H == History(d.events, k)
           Over(e) == {f \in rows : RowNewer(f, e)}
           Above(o) == {p \in H : Newer(p, o)}
<1>1. H \subseteq d.issues[k].lineage /\ IsFiniteSet(H)
  <2>1. H \subseteq d.issues[k].lineage
    BY DEF History, RowsOf, SoundDatabase, EventsBelong
  <2>2. IsFiniteSet(d.issues[k].lineage)
    BY DEF SoundDatabase, VersionsMatchKeys
  <2> QED
    BY <2>1, <2>2, FS_Subset
<1>2. ASSUME NEW e \in rows
      PROVE  Cardinality(Over(e)) = Cardinality(Above(e.event))
  <2> DEFINE g == [f \in Over(e) |-> f.event]
  <2>1. e \in d.events /\ \A f \in rows : f \in d.events /\ f.key = k
    BY DEF RowsOf
  <2>2. \A f \in rows : /\ RowNewer(f, e) <=> Newer(f.event, e.event)
                        /\ f.event \in H
    BY <2>1, RowsInOrder DEF History
  <2>3. \A f, h \in rows : f.event = h.event => f = h
    BY <2>1, RowsInOrder
  <2>4. g \in [Over(e) -> Above(e.event)]
    BY <2>2
  <2>5. g \in Injection(Over(e), Above(e.event))
    BY <2>3, <2>4 DEF Injection, IsInjective
  <2>6. g \in Surjection(Over(e), Above(e.event))
    <3>1. ASSUME NEW p \in Above(e.event) PROVE \E f \in Over(e) : g[f] = p
      <4>1. PICK f \in rows : f.event = p
        BY DEF History
      <4> QED
        BY <2>2, <4>1
    <3> QED
      BY <2>4, <3>1 DEF Surjection
  <2>7. IsFiniteSet(Above(e.event))
    BY <1>1, FS_Subset
  <2> HIDE DEF Over, Above, g
  <2> QED
    BY <2>5, <2>6, <2>7, FS_Injection
<1>3. RowsOf(TrimEvents(d.events, k, n), k) = {e \in rows : Cardinality(Over(e)) < n}
  BY DEF TrimEvents, RowsOf
<1>4. {e \in rows : Cardinality(Over(e)) < n} = {e \in rows : Cardinality(Above(e.event)) < n}
  BY <1>2
<1>5. History(TrimEvents(d.events, k, n), k) = {o \in H : Cardinality(Above(o)) < n}
  <2> HIDE DEF Over, Above
  <2> QED
    BY <1>3, <1>4 DEF History
<1>6. \A j : j # k => RowsOf(TrimEvents(d.events, k, n), j) = RowsOf(d.events, j)
  BY DEF TrimEvents, RowsOf
<1> QED
  BY <1>5, <1>6 DEF Newest
-----------------------------------------------------------------------------
(* What each statement writes, row by row.                                 *)

\* The v2 group of issue k, as its last event says.
GroupOf(d, k) == Fingerprint[d.issues[k].lastEvent.shape]

StatusOf(issues, k, none) == IF k \in DOMAIN issues THEN issues[k].status ELSE none

\* Recording occurrence o: its issue counts and reopens, its history grows.
RecordedInto(d, d2, o, g) ==
    /\ g \in Group
    /\ DOMAIN d2.issues = DOMAIN d.issues \cup {g}
    /\ \A j \in DOMAIN d.issues : j # g => d2.issues[j] = d.issues[j]
    /\ d2.issues[g].version = 2
    /\ d2.issues[g].lineage = {o} \cup Lineage(d.issues, g)
    /\ d2.issues[g].status = Reopened(StatusOf(d.issues, g, "open"))
    /\ History(d2.events, g) = {o} \cup History(d.events, g)
    /\ \A j : j # g => RowsOf(d2.events, j) = RowsOf(d.events, j)
    /\ d2.arrivals = o.id

LEMMA RecordWrites ==
    ASSUME NEW d, SoundDatabase(d), NEW o \in Occurrence,
           NEW d2, d2 = Recorded(d, o), NEW g, g = Fingerprint[o.shape]
    PROVE  RecordedInto(d, d2, o, g)
<1> DEFINE e == [seq |-> NextSequence(d.events), key |-> g, event |-> o]
           row == UpsertIssue(d.issues, o)[g]
<1>1. g \in Group
  BY ConstantsAssumption DEF Occurrence
<1>2. d2.issues = UpsertIssue(d.issues, o) /\ d2.events = d.events \cup {e} /\ d2.arrivals = o.id
  BY DEF Recorded, InsertEvent
<1>3. /\ DOMAIN UpsertIssue(d.issues, o) = DOMAIN d.issues \cup {g}
      /\ \A j \in DOMAIN d.issues : j # g => UpsertIssue(d.issues, o)[j] = d.issues[j]
  BY DEF UpsertIssue, Put
<1>4. /\ row.version = 2
      /\ row.lineage = {o} \cup Lineage(d.issues, g)
      /\ row.status = Reopened(StatusOf(d.issues, g, "open"))
  <2>1. CASE g \in DOMAIN d.issues
    BY <2>1 DEF UpsertIssue, Put, Lineage, StatusOf, Reopened
  <2>2. CASE g \notin DOMAIN d.issues
    BY <2>2 DEF UpsertIssue, Put, Lineage, StatusOf, Reopened
  <2> QED
    BY <2>1, <2>2
<1>5. e.key = g /\ e.event = o
  OBVIOUS
<1> HIDE DEF e, row
<1>6. RowsOf(d2.events, g) = {e} \cup RowsOf(d.events, g)
  BY <1>2, <1>5 DEF RowsOf
<1>7. History(d2.events, g) = {o} \cup History(d.events, g)
  BY <1>5, <1>6 DEF History
<1>8. \A j : j # g => RowsOf(d2.events, j) = RowsOf(d.events, j)
  BY <1>2, <1>5 DEF RowsOf
<1> QED
  BY <1>1, <1>2, <1>3, <1>4, <1>7, <1>8 DEF RecordedInto, row

\* Merging v1 issue `from`: its occurrences, triage and history move to the group.
MergedFrom(d, d2, from, g) ==
    /\ g \in Group /\ from # g /\ from \in DOMAIN d.issues
    /\ d.issues[from].version = 1
    /\ GroupOf(d, from) = g
    /\ DOMAIN d2.issues = (DOMAIN d.issues \ {from}) \cup {g}
    /\ \A j \in DOMAIN d.issues \ {from} : j # g => d2.issues[j] = d.issues[j]
    /\ d2.issues[g].version = 2
    /\ d2.issues[g].lineage = d.issues[from].lineage \cup Lineage(d.issues, g)
    /\ d2.issues[g].status =
          MergedStatus({d.issues[from].status,
                        StatusOf(d.issues, g, d.issues[from].status)})
    /\ History(d2.events, g) = History(d.events, from) \cup History(d.events, g)
    /\ \A j : j \notin {from, g} => RowsOf(d2.events, j) = RowsOf(d.events, j)
    /\ d2.arrivals = d.arrivals

LEMMA MergeWrites ==
    ASSUME NEW d, SoundDatabase(d), NEW o, o.shape \in Shape,
           NEW from \in LegacyCandidates(d, o),
           NEW d2, d2 = MergeLegacyIssue(d, from, o),
           NEW g, g = Fingerprint[o.shape]
    PROVE  MergedFrom(d, d2, from, g)
<1> DEFINE table == MergeRow(d.issues, from, o)
           moved == MoveEvents(d.events, from, g)
           new == d.issues[from]
<1>1. /\ from \in DOMAIN d.issues /\ from \notin Group /\ new.version = 1
      /\ Fingerprint[new.lastEvent.shape] = g /\ new \in Row
  BY DEF LegacyCandidates, SoundDatabase, VersionsMatchKeys, IsDatabase
<1>2. g \in Group /\ from # g
  BY <1>1, ConstantsAssumption
<1>3. /\ DOMAIN table = DOMAIN d.issues \cup {g}
      /\ \A j \in DOMAIN d.issues : j # g => table[j] = d.issues[j]
  BY DEF MergeRow, Put
<1>4. /\ table[g].version = 2
      /\ table[g].lineage = new.lineage \cup Lineage(d.issues, g)
      /\ table[g].status = MergedStatus({new.status, StatusOf(d.issues, g, new.status)})
  <2>1. CASE g \in DOMAIN d.issues
    <3>1. {d.issues[g].status, new.status} = {new.status, d.issues[g].status}
      OBVIOUS
    <3> QED
      BY <2>1, <3>1 DEF MergeRow, Put, Lineage, StatusOf
  <2>2. CASE g \notin DOMAIN d.issues
    <3> DEFINE rekeyed == [new EXCEPT !.version = 2, !.columns = Columns[o.shape]]
    <3>1. table[g] = rekeyed
      BY <2>2 DEF MergeRow, Put
    <3>2. /\ rekeyed.version = 2 /\ rekeyed.lineage = new.lineage
          /\ rekeyed.status = new.status
      BY <1>1 DEF Row
    <3>3. MergedStatus({new.status, new.status}) = new.status
      BY <1>1 DEF MergedStatus, Row, Status
    <3> HIDE DEF rekeyed, new, table
    <3> QED
      BY <2>2, <3>1, <3>2, <3>3 DEF Lineage, StatusOf
  <2> QED
    BY <2>1, <2>2, SMTT(60)
<1> HIDE DEF table, new
<1>5. /\ \A e \in d.events : e \in EventRow
      /\ \A e \in moved : \E f \in d.events :
            e = IF f.key = from THEN [f EXCEPT !.key = g] ELSE f
      /\ \A f \in d.events :
            (IF f.key = from THEN [f EXCEPT !.key = g] ELSE f) \in moved
  BY DEF MoveEvents, SoundDatabase, IsDatabase
<1> HIDE DEF moved
<1>6. /\ \A e \in moved : \E f \in d.events :
            /\ e.event = f.event
            /\ e.key = IF f.key = from THEN g ELSE f.key
            /\ f.key # from => e = f
      /\ \A f \in d.events : \E e \in moved :
            /\ e.event = f.event
            /\ e.key = IF f.key = from THEN g ELSE f.key
            /\ f.key # from => e = f
  <2>1. \A f \in d.events :
           /\ [f EXCEPT !.key = g].event = f.event
           /\ [f EXCEPT !.key = g].key = g
    BY <1>5 DEF EventRow
  <2> QED
    BY <1>5, <2>1
<1>7. /\ d2.issues = [j \in DOMAIN table \ {from} |-> table[j]]
      /\ d2.events = moved /\ d2.arrivals = d.arrivals
  <2>1. \A e \in moved : e.key # from
    BY <1>2, <1>6
  <2>2. moved = {e \in moved : e.key \notin {from}}
    BY <2>1
  <2> QED
    BY <2>2 DEF MergeLegacyIssue, DeleteIssues, Restrict, table, moved
<1>8. History(moved, g) = History(d.events, from) \cup History(d.events, g)
  BY <1>2, <1>6 DEF History, RowsOf
<1>9. \A j : j \notin {from, g} => RowsOf(moved, j) = RowsOf(d.events, j)
  BY <1>6 DEF RowsOf
<1> QED
  BY <1>1, <1>2, <1>3, <1>4, <1>7, <1>8, <1>9 DEF MergedFrom, GroupOf, new
-----------------------------------------------------------------------------
(***************************************************************************)
(* The inductive invariant.  It follows a transaction t from the committed *)
(* database b to its view d:                                               *)
(*  - the history of an issue always has its newest occurrences, and just  *)
(*    those wherever this transaction has nothing left to trim;            *)
(*  - a v1 row whose columns are those of its last event stands beside its *)
(*    v2 group only while that group is being merged, and never again once *)
(*    it has been handled;                                                 *)
(*  - every row of d is a row of b, or collects the rows of b that went    *)
(*    into it, the occurrences this transaction recorded, and the status   *)
(*    both together call for;                                              *)
(*  - all rows of d together hold what those of b hold, and the batch as   *)
(*    far as it has been inserted.                                         *)
(***************************************************************************)
GroupAt(t, i) == Fingerprint[t.batch[i].shape]
BatchGroups(t) == {GroupAt(t, i) : i \in 1..Len(t.batch)}

\* The history of an issue holds its newest occurrences, and only its own.
Covered(d, k) ==
    /\ Newest(Remembered(d, k), MaxEventsPerIssue) \subseteq History(d.events, k)
    /\ History(d.events, k) \subseteq Remembered(d, k)

\* Histories this transaction has still to trim.
Untrimmed(t) ==
    IF t.phase \in {"migrate", "record"} THEN BatchGroups(t)
    ELSE IF t.phase = "trim" THEN t.touched ELSE {}

HistoryInv(d, t) ==
    /\ \A id \in PreHistory : id <= d.arrivals
    /\ \A k \in DOMAIN d.issues :
          Covered(d, k) /\ (k \notin Untrimmed(t) => HistoryExact(d, k))
    /\ t.phase = "record" =>
          \A i \in 1..Len(t.batch) : i < t.index => GroupAt(t, i) \in t.touched

SplitInv(d, t) ==
    /\ LegacyRowsMatch(d)
    /\ \A k \in DOMAIN d.issues : d.issues[k].version = 1 /\ ~Collided(d.issues[k]) =>
          /\ GroupOf(d, k) \notin t.migrated
          /\ GroupOf(d, k) \in DOMAIN d.issues =>
                t.phase = "migrate" /\ GroupOf(d, k) = GroupAt(t, t.index)
    /\ t.phase = "migrate" =>
          \A i \in 1..Len(t.batch) : i < t.index => GroupAt(t, i) \in t.migrated
    /\ t.phase = "record" => BatchGroups(t) \subseteq t.migrated

Merged(b, d) == DOMAIN b.issues \ DOMAIN d.issues
Parts(b, d, g) ==
    {k \in Merged(b, d) : GroupOf(b, k) = g} \cup ({g} \cap DOMAIN b.issues)
Recurred(b, d, g) == \E o \in d.issues[g].lineage : o.id > b.arrivals

\* The status of an issue made of parts with these statuses.
Collected(statuses, recurred) ==
    IF "ignored" \in statuses THEN "ignored"
    ELSE IF recurred \/ "open" \in statuses THEN "open" ELSE "resolved"

Collects(b, d, g) ==
    /\ \A k \in Parts(b, d, g) : b.issues[k].lineage \subseteq d.issues[g].lineage
    /\ \A o \in d.issues[g].lineage :
          IF o.id > b.arrivals THEN Fingerprint[o.shape] = g
          ELSE \E k \in Parts(b, d, g) : o \in b.issues[k].lineage
    /\ d.issues[g].status =
          Collected({b.issues[k].status : k \in Parts(b, d, g)}, Recurred(b, d, g))

RecordInv(b, d, t) ==
    /\ b.arrivals <= d.arrivals
    /\ \A k \in Merged(b, d) :
          /\ b.issues[k].version = 1
          /\ GroupOf(b, k) \in DOMAIN d.issues \cap BatchGroups(t)
    /\ \A k \in DOMAIN d.issues \ BatchGroups(t) :
          k \in DOMAIN b.issues /\ d.issues[k] = b.issues[k]
    /\ \A g \in DOMAIN d.issues \cap BatchGroups(t) : Collects(b, d, g)
    /\ \A i \in 1..Len(t.batch) :
          t.phase \in {"trim", "commit"} \/ (t.phase = "record" /\ i < t.index) =>
              GroupAt(t, i) \in DOMAIN d.issues /\ Recurred(b, d, GroupAt(t, i))

\* Every occurrence a database counts.
Accepted(d) == UNION {d.issues[k].lineage : k \in DOMAIN d.issues}

\* How much of the batch this transaction has inserted, and as which occurrences.
Inserted(t) ==
    IF t.phase = "migrate" THEN 0
    ELSE IF t.phase = "record" THEN t.index - 1 ELSE Len(t.batch)
Inserting(b, t, i) ==
    [id |-> b.arrivals + i, at |-> t.batch[i].at, shape |-> t.batch[i].shape]

WholeInv(b, d, t) ==
    /\ d.arrivals = b.arrivals + Inserted(t)
    /\ Accepted(d) = Accepted(b) \cup {Inserting(b, t, i) : i \in 1..Inserted(t)}

\* SetIssueStatus has an empty batch.
TriageInv(b, d, t) ==
    /\ t.phase = "commit"
    /\ \E k \in DOMAIN b.issues, status \in Status :
          d = [b EXCEPT !.issues[k].status = status]

StepInv(b, d, t) ==
    IF t.batch = <<>> THEN TriageInv(b, d, t)
    ELSE RecordInv(b, d, t) /\ WholeInv(b, d, t)

Settled(d) ==
    /\ LegacyRowsMatch(d) /\ Unsplit(d)
    /\ \A k \in DOMAIN d.issues : HistoryExact(d, k)
    /\ \A id \in PreHistory : id <= d.arrivals

TransactionInv(b, d, t) == HistoryInv(d, t) /\ SplitInv(d, t) /\ StepInv(b, d, t)

LedgerInv ==
    /\ IInv
    /\ Settled(db)
    /\ \A w \in Writer : lock = w => TransactionInv(db, work[w], tx[w])
-----------------------------------------------------------------------------
(* Histories through a transaction.                                        *)

\* What is known of the issues and histories of a sound database.
LEMMA SoundHistories ==
    ASSUME NEW d, SoundDatabase(d), NEW k
    PROVE  /\ k \in DOMAIN d.issues =>
                /\ d.issues[k] \in Row /\ d.issues[k].lineage \subseteq Occurrence
                /\ IsFiniteSet(d.issues[k].lineage)
                /\ History(d.events, k) \subseteq d.issues[k].lineage
           /\ k \notin DOMAIN d.issues => History(d.events, k) = {}
<1>1. ASSUME k \in DOMAIN d.issues
      PROVE  /\ d.issues[k] \in Row /\ d.issues[k].lineage \subseteq Occurrence
             /\ IsFiniteSet(d.issues[k].lineage)
  <2>1. d.issues[k] \in Row /\ IsFiniteSet(d.issues[k].lineage)
    BY <1>1 DEF SoundDatabase, IsDatabase, VersionsMatchKeys
  <2>2. d.issues[k].lineage \in SUBSET Occurrence
    BY <2>1 DEF Row
  <2> QED
    BY <2>1, <2>2
<1>2. \A e \in RowsOf(d.events, k) :
         k \in DOMAIN d.issues /\ e.event \in d.issues[k].lineage
  BY DEF RowsOf, SoundDatabase, EventsBelong
<1> QED
  BY <1>1, <1>2 DEF History

\* A statement that leaves the occurrences and rows of an issue alone leaves
\* what is known of its history.
LEMMA HistoryUntouched ==
    ASSUME NEW d, NEW e, NEW k, e.issues[k].lineage = d.issues[k].lineage,
           RowsOf(e.events, k) = RowsOf(d.events, k)
    PROVE  /\ Covered(d, k) => Covered(e, k)
           /\ HistoryExact(d, k) => HistoryExact(e, k)
  BY DEF Covered, HistoryExact, History, Remembered

\* An exact history covers, and trimming a history that covers makes it exact.
LEMMA ExactCovers ==
    ASSUME NEW d, NEW k, HistoryExact(d, k)
    PROVE  Covered(d, k)
  BY DEF HistoryExact, Covered, History, Newest

LEMMA TrimMakesExact ==
    ASSUME NEW d, SoundDatabase(d), NEW k \in DOMAIN d.issues, Covered(d, k),
           NEW e, e.issues = d.issues,
           e.events = TrimEvents(d.events, k, MaxEventsPerIssue)
    PROVE  HistoryExact(e, k)
<1> DEFINE S == Remembered(d, k)
           H == History(d.events, k)
<1>1. MaxEventsPerIssue \in Nat
  BY ConstantsAssumption
<1>2. S \subseteq Occurrence /\ IsFiniteSet(S)
  <2>1. S \subseteq d.issues[k].lineage
    BY DEF Remembered
  <2> HIDE DEF S
  <2> QED
    BY <2>1, SoundHistories, FS_Subset
<1>3. History(e.events, k) = Newest(H, MaxEventsPerIssue)
  BY <1>1, TrimmedHistory
<1>4. H \subseteq S /\ Newest(S, MaxEventsPerIssue) \subseteq H
  BY DEF Covered
<1>5. Remembered(e, k) = S
  BY DEF Remembered
<1> HIDE DEF S, H
<1>6. Newest(H, MaxEventsPerIssue) = Newest(S, MaxEventsPerIssue)
  BY <1>1, <1>2, <1>4, TrimLeavesNewest
<1> QED
  BY <1>3, <1>5, <1>6 DEF HistoryExact, History

\* Histories that cover, put together, cover.
LEMMA CoveringUnion ==
    ASSUME NEW A, NEW B, IsFiniteSet(A), IsFiniteSet(B), NEW n \in Nat,
           NEW H, NEW K, Newest(A, n) \subseteq H, Newest(B, n) \subseteq K
    PROVE  Newest(A \cup B, n) \subseteq H \cup K
<1>1. IsFiniteSet(A \cup B)
  BY FS_Union
<1>2. /\ Newest(A \cup B, n) \cap A \subseteq Newest(A, n)
      /\ Newest(A \cup B, n) \cap B \subseteq Newest(B, n)
  BY <1>1, NewestOfPart
<1>3. Newest(A \cup B, n) \subseteq A \cup B
  BY DEF Newest
<1> QED
  BY <1>2, <1>3

\* What an issue remembers before a statement, whether or not it exists yet.
Former(d, g) == {q \in Lineage(d.issues, g) : q.id \notin PreHistory}

LEMMA FormerHistory ==
    ASSUME NEW d, SoundDatabase(d), NEW g, g \in DOMAIN d.issues => Covered(d, g)
    PROVE  /\ IsFiniteSet(Former(d, g))
           /\ Newest(Former(d, g), MaxEventsPerIssue) \subseteq History(d.events, g)
           /\ History(d.events, g) \subseteq Former(d, g)
<1> DEFINE B == Former(d, g)
           n == MaxEventsPerIssue
<1>1. CASE g \in DOMAIN d.issues
  <2>1. B = Remembered(d, g) /\ B \subseteq d.issues[g].lineage
    BY <1>1 DEF Lineage, Remembered, Former
  <2> HIDE DEF B
  <2>2. IsFiniteSet(B)
    BY <1>1, <2>1, SoundHistories, FS_Subset
  <2> QED
    BY <1>1, <2>1, <2>2 DEF Covered, B
<1>2. CASE g \notin DOMAIN d.issues
  <2>1. B = {}
    BY <1>2 DEF Lineage, Former
  <2>2. History(d.events, g) = {}
    BY <1>2, SoundHistories
  <2>3. IsFiniteSet(B) /\ Newest(B, n) = {}
    BY <2>1, FS_EmptySet DEF Newest
  <2> QED
    BY <2>1, <2>2, <2>3
<1> QED
  BY <1>1, <1>2

\* A merge moves the history of the v1 issue behind that of its group.
LEMMA MergeKeepsHistory ==
    ASSUME NEW d, SoundDatabase(d), NEW t, t.phase = "migrate", HistoryInv(d, t),
           NEW g \in BatchGroups(t), NEW from, NEW e, MergedFrom(d, e, from, g)
    PROVE  HistoryInv(e, t)
<1> DEFINE n == MaxEventsPerIssue
<1>1. /\ from # g /\ from \in DOMAIN d.issues
      /\ DOMAIN e.issues = (DOMAIN d.issues \ {from}) \cup {g}
      /\ \A j \in DOMAIN d.issues \ {from} : j # g => e.issues[j] = d.issues[j]
      /\ e.issues[g].lineage = d.issues[from].lineage \cup Lineage(d.issues, g)
      /\ History(e.events, g) = History(d.events, from) \cup History(d.events, g)
      /\ \A j : j \notin {from, g} => RowsOf(e.events, j) = RowsOf(d.events, j)
      /\ e.arrivals = d.arrivals
  BY DEF MergedFrom
<1>2. n \in Nat /\ Untrimmed(t) = BatchGroups(t)
  BY ConstantsAssumption DEF Untrimmed
<1>3. ASSUME NEW k \in DOMAIN e.issues, k # g
      PROVE  Covered(e, k) /\ (k \notin Untrimmed(t) => HistoryExact(e, k))
  <2>1. k \in DOMAIN d.issues /\ k # from
    BY <1>1, <1>3
  <2>2. e.issues[k].lineage = d.issues[k].lineage /\ RowsOf(e.events, k) = RowsOf(d.events, k)
    BY <1>1, <1>3, <2>1
  <2>3. Covered(d, k) /\ (k \notin Untrimmed(t) => HistoryExact(d, k))
    BY <2>1 DEF HistoryInv
  <2> QED
    BY <2>2, <2>3, HistoryUntouched
<1>4. Covered(e, g)
  <2> DEFINE A == Remembered(d, from)
             B == Former(d, g)
  <2>1. Remembered(e, g) = A \cup B
    BY <1>1 DEF Remembered, Former
  <2>2. A \subseteq d.issues[from].lineage /\ IsFiniteSet(A)
    <3>1. A \subseteq d.issues[from].lineage
      BY DEF Remembered
    <3> HIDE DEF A
    <3> QED
      BY <1>1, <3>1, SoundHistories, FS_Subset
  <2>3. Newest(A, n) \subseteq History(d.events, from) /\ History(d.events, from) \subseteq A
    BY <1>1 DEF HistoryInv, Covered
  <2>4. /\ IsFiniteSet(B)
        /\ Newest(B, n) \subseteq History(d.events, g) /\ History(d.events, g) \subseteq B
    BY FormerHistory DEF HistoryInv
  <2> HIDE DEF A, B
  <2>5. Newest(A \cup B, n) \subseteq History(d.events, from) \cup History(d.events, g)
    BY <1>2, <2>2, <2>3, <2>4, CoveringUnion
  <2> QED
    BY <1>1, <2>1, <2>3, <2>4, <2>5 DEF Covered
<1>5. \A k \in DOMAIN e.issues :
         Covered(e, k) /\ (k \notin Untrimmed(t) => HistoryExact(e, k))
  BY <1>2, <1>3, <1>4
<1> QED
  BY <1>1, <1>5 DEF HistoryInv

\* The record after record t.index, or the first trim: what RecordEvent makes
\* of the transaction t.
Recording(t, u, g) ==
    /\ t.phase = "record" /\ g = GroupAt(t, t.index)
    /\ Len(t.batch) \in Nat /\ t.index \in 1..Len(t.batch)
    /\ u.batch = t.batch /\ u.migrated = t.migrated
    /\ u.touched = t.touched \cup {g}
    /\ u.phase = IF t.index = Len(t.batch) THEN "trim" ELSE "record"
    /\ u.index = IF t.index = Len(t.batch) THEN 1 ELSE t.index + 1

\* A recorded occurrence joins the history of its issue, to be trimmed later.
LEMMA RecordKeepsHistory ==
    ASSUME NEW d, SoundDatabase(d), NEW t, HistoryInv(d, t),
           NEW o \in Occurrence, o.id = d.arrivals + 1,
           NEW g, NEW u, Recording(t, u, g), NEW e, RecordedInto(d, e, o, g)
    PROVE  HistoryInv(e, u)
<1> DEFINE n == MaxEventsPerIssue
<1>1. /\ DOMAIN e.issues = DOMAIN d.issues \cup {g}
      /\ \A j \in DOMAIN d.issues : j # g => e.issues[j] = d.issues[j]
      /\ e.issues[g].lineage = {o} \cup Lineage(d.issues, g)
      /\ History(e.events, g) = {o} \cup History(d.events, g)
      /\ \A j : j # g => RowsOf(e.events, j) = RowsOf(d.events, j)
      /\ e.arrivals = o.id
  BY DEF RecordedInto
<1>2. /\ n \in Nat /\ Untrimmed(t) = BatchGroups(t) /\ d.arrivals \in Nat
      /\ \A id \in PreHistory : id <= d.arrivals
      /\ t.phase = "record" /\ g = GroupAt(t, t.index)
      /\ Len(t.batch) \in Nat /\ t.index \in 1..Len(t.batch)
  BY ConstantsAssumption
     DEF Untrimmed, Recording, SoundDatabase, IsDatabase, HistoryInv
<1>3. o.id \notin PreHistory /\ \A id \in PreHistory : id <= e.arrivals
  <2>1. PreHistory \subseteq Nat
    BY ConstantsAssumption
  <2> QED
    BY <1>1, <1>2, <2>1
<1>4. g \in BatchGroups(t)
  BY <1>2 DEF BatchGroups
<1>5. \A i \in 1..Len(t.batch) : i <= t.index => GroupAt(t, i) \in u.touched
  <2>1. \A i \in 1..Len(t.batch) : i < t.index => GroupAt(t, i) \in t.touched
    BY <1>2 DEF HistoryInv
  <2> QED
    BY <1>2, <2>1 DEF Recording
<1>6. \A i : GroupAt(u, i) = GroupAt(t, i)
  BY DEF Recording, GroupAt
<1>7. BatchGroups(t) \subseteq Untrimmed(u)
  <2>1. BatchGroups(u) = BatchGroups(t)
    BY <1>6 DEF BatchGroups, Recording
  <2>2. CASE u.phase = "record"
    BY <2>1, <2>2 DEF Untrimmed
  <2>3. CASE u.phase = "trim"
    <3>1. t.index = Len(t.batch)
      BY <2>3 DEF Recording
    <3>2. \A i \in 1..Len(t.batch) : GroupAt(t, i) \in u.touched
      BY <1>2, <1>5, <3>1
    <3> QED
      BY <2>3, <3>2 DEF Untrimmed, BatchGroups
  <2> QED
    BY <2>2, <2>3 DEF Recording
<1>8. ASSUME NEW k \in DOMAIN e.issues, k # g
      PROVE  Covered(e, k) /\ (k \notin Untrimmed(u) => HistoryExact(e, k))
  <2>1. k \in DOMAIN d.issues
    BY <1>1, <1>8
  <2>2. e.issues[k].lineage = d.issues[k].lineage /\ RowsOf(e.events, k) = RowsOf(d.events, k)
    BY <1>1, <1>8, <2>1
  <2>3. Covered(d, k) /\ (k \notin BatchGroups(t) => HistoryExact(d, k))
    BY <1>2, <2>1 DEF HistoryInv
  <2> QED
    BY <1>7, <2>2, <2>3, HistoryUntouched
<1>9. Covered(e, g)
  <2> DEFINE B == Former(d, g)
  <2>1. Remembered(e, g) = {o} \cup B
    BY <1>1, <1>3 DEF Remembered, Former
  <2>2. /\ IsFiniteSet(B)
        /\ Newest(B, n) \subseteq History(d.events, g) /\ History(d.events, g) \subseteq B
    BY FormerHistory DEF HistoryInv
  <2>3. IsFiniteSet({o}) /\ Newest({o}, n) \subseteq {o}
    BY FS_Singleton DEF Newest
  <2> HIDE DEF B
  <2>4. Newest({o} \cup B, n) \subseteq {o} \cup History(d.events, g)
    BY <1>2, <2>2, <2>3, CoveringUnion
  <2> QED
    BY <1>1, <2>1, <2>2, <2>4 DEF Covered
<1>10. \A k \in DOMAIN e.issues :
          Covered(e, k) /\ (k \notin Untrimmed(u) => HistoryExact(e, k))
  BY <1>4, <1>7, <1>8, <1>9
<1>11. u.phase = "record" =>
          \A i \in 1..Len(u.batch) : i < u.index => GroupAt(u, i) \in u.touched
  <2>1. ASSUME u.phase = "record", NEW i \in 1..Len(t.batch), i < u.index
        PROVE  i <= t.index
    BY <1>2, <2>1 DEF Recording
  <2> QED
    BY <1>5, <1>6, <2>1 DEF Recording
<1> QED
  BY <1>3, <1>10, <1>11 DEF HistoryInv

\* sqliteTrimEvents of one touched issue.
LEMMA TrimKeepsHistory ==
    ASSUME NEW d, SoundDatabase(d), NEW t, t.phase = "trim", HistoryInv(d, t),
           NEW k, NEW u, u.touched = t.touched \ {k},
           u.phase = IF t.touched = {k} THEN "commit" ELSE "trim",
           NEW e, e.issues = d.issues, e.arrivals = d.arrivals,
           e.events = TrimEvents(d.events, k, MaxEventsPerIssue)
    PROVE  HistoryInv(e, u)
<1>1. t.touched \subseteq Untrimmed(u) \cup {k}
  BY DEF Untrimmed
<1>2. ASSUME NEW j \in DOMAIN d.issues
      PROVE  Covered(e, j) /\ (j \notin Untrimmed(u) => HistoryExact(e, j))
  <2>1. Covered(d, j) /\ (j \notin t.touched => HistoryExact(d, j))
    BY DEF HistoryInv, Untrimmed
  <2>2. CASE j = k
    BY <2>1, <2>2, TrimMakesExact, ExactCovers
  <2>3. CASE j # k
    <3>1. RowsOf(e.events, j) = RowsOf(d.events, j)
      BY <2>3 DEF TrimEvents, RowsOf
    <3> QED
      BY <1>1, <2>1, <2>3, <3>1, HistoryUntouched
  <2> QED
    BY <2>2, <2>3
<1> QED
  BY <1>2 DEF HistoryInv
-----------------------------------------------------------------------------
(* Groups through a transaction.                                           *)

\* A merge takes one v1 row of the group at hand away and adds none.
LEMMA MergeKeepsSplit ==
    ASSUME NEW d, SoundDatabase(d), NEW t, t.phase = "migrate", SplitInv(d, t),
           NEW g, g = GroupAt(t, t.index),
           NEW from, NEW e, MergedFrom(d, e, from, g)
    PROVE  SplitInv(e, t)
<1>1. /\ DOMAIN e.issues = (DOMAIN d.issues \ {from}) \cup {g}
      /\ \A j \in DOMAIN d.issues \ {from} : j # g => e.issues[j] = d.issues[j]
      /\ e.issues[g].version = 2
  BY DEF MergedFrom
<1>2. \A k \in DOMAIN e.issues : e.issues[k].version = 1 =>
         k \in DOMAIN d.issues /\ e.issues[k] = d.issues[k] /\ GroupOf(e, k) = GroupOf(d, k)
  BY <1>1 DEF GroupOf
<1>3. LegacyRowsMatch(e)
  BY <1>2 DEF SplitInv, LegacyRowsMatch
<1>4. \A k \in DOMAIN e.issues : e.issues[k].version = 1 /\ ~Collided(e.issues[k]) =>
         /\ GroupOf(e, k) \notin t.migrated
         /\ GroupOf(e, k) \in DOMAIN e.issues => GroupOf(e, k) = GroupAt(t, t.index)
  BY <1>1, <1>2 DEF SplitInv
<1> QED
  BY <1>3, <1>4 DEF SplitInv

\* The next record, or the first insert: what NextMigration makes of t.
Migrating(t, u, g) ==
    /\ t.phase = "migrate" /\ g = GroupAt(t, t.index)
    /\ Len(t.batch) \in Nat /\ t.index \in 1..Len(t.batch)
    /\ u.batch = t.batch /\ u.migrated = t.migrated \cup {g} /\ u.touched = t.touched
    /\ u.phase = IF t.index = Len(t.batch) THEN "record" ELSE "migrate"
    /\ u.index = IF t.index = Len(t.batch) THEN 1 ELSE t.index + 1

\* When a group has no candidate left it has no v1 row left that carries the
\* columns of its last event: legacyCandidates finds every one of them, whichever
\* its v1 key.
LEMMA NextKeepsSplit ==
    ASSUME NEW d, SoundDatabase(d), NEW t, SplitInv(d, t),
           NEW g, NEW u, Migrating(t, u, g),
           NEW r, r = t.batch[t.index], r.shape \in Shape,
           g \in t.migrated \/ LegacyCandidates(d, r) = {}
    PROVE  SplitInv(d, u)
<1>1. /\ g = Fingerprint[r.shape] /\ g = GroupAt(t, t.index)
      /\ Len(t.batch) \in Nat /\ t.index \in 1..Len(t.batch)
      /\ t.phase = "migrate" /\ u.migrated = t.migrated \cup {g}
  BY DEF Migrating, GroupAt
<1>2. ASSUME NEW k \in DOMAIN d.issues, d.issues[k].version = 1, ~Collided(d.issues[k])
      PROVE  GroupOf(d, k) # g
  <2>1. CASE g \in t.migrated
    BY <1>2, <2>1 DEF SplitInv
  <2>2. CASE LegacyCandidates(d, r) = {}
    <3>1. SUFFICES ASSUME GroupOf(d, k) = g PROVE FALSE
      OBVIOUS
    <3>2. /\ LegacyFingerprint[d.issues[k].lastEvent.shape] = k
          /\ d.issues[k].columns = Columns[d.issues[k].lastEvent.shape]
      <4>1. d.issues[k].lastEvent \in d.issues[k].lineage
        BY DEF SoundDatabase, AggregatesMatch, RowMatches
      <4> QED
        BY <1>2, <4>1 DEF SplitInv, LegacyRowsMatch, Collided
    <3>3. d.issues[k].lastEvent.shape \in Shape
      BY SoundHistories DEF Row, Occurrence
    <3>4. Fingerprint[d.issues[k].lastEvent.shape] = Fingerprint[r.shape]
      BY <1>1, <3>1 DEF GroupOf
    <3>5. d.issues[k].columns = Columns[r.shape]
      BY <3>2, <3>3, <3>4, ConstantsAssumption
    <3>6. k \in LegacyCandidates(d, r)
      BY <1>2, <3>2, <3>4, <3>5 DEF LegacyCandidates
    <3> QED
      BY <2>2, <3>6
  <2> QED
    BY <2>1, <2>2
<1>3. \A k \in DOMAIN d.issues : d.issues[k].version = 1 /\ ~Collided(d.issues[k]) =>
         GroupOf(d, k) \notin u.migrated /\ GroupOf(d, k) \notin DOMAIN d.issues
  BY <1>1, <1>2 DEF SplitInv
<1>4. \A i \in 1..Len(t.batch) : i <= t.index => GroupAt(t, i) \in u.migrated
  <2>1. \A i \in 1..Len(t.batch) : i < t.index => GroupAt(t, i) \in t.migrated
    BY <1>1 DEF SplitInv
  <2> QED
    BY <1>1, <2>1
<1>5. /\ \A i : GroupAt(u, i) = GroupAt(t, i)
      /\ BatchGroups(u) = {GroupAt(t, i) : i \in 1..Len(t.batch)}
      /\ u.batch = t.batch
  BY DEF Migrating, GroupAt, BatchGroups
<1>6. u.phase = "migrate" =>
          \A i \in 1..Len(u.batch) : i < u.index => GroupAt(u, i) \in u.migrated
  <2>1. ASSUME u.phase = "migrate", NEW i \in 1..Len(t.batch), i < u.index
        PROVE  i <= t.index
    BY <1>1, <2>1 DEF Migrating
  <2> QED
    BY <1>4, <1>5, <2>1
<1>7. u.phase = "record" => BatchGroups(u) \subseteq u.migrated
  <2>1. u.phase = "record" => t.index = Len(t.batch)
    BY DEF Migrating
  <2> QED
    BY <1>1, <1>4, <1>5, <2>1
<1> QED
  BY <1>3, <1>6, <1>7 DEF SplitInv

\* Recording creates issues of groups already handled only.
LEMMA RecordKeepsSplit ==
    ASSUME NEW d, SoundDatabase(d), NEW t, SplitInv(d, t),
           NEW g, NEW u, Recording(t, u, g), NEW o, NEW e, RecordedInto(d, e, o, g)
    PROVE  SplitInv(e, u)
<1>1. /\ DOMAIN e.issues = DOMAIN d.issues \cup {g}
      /\ \A j \in DOMAIN d.issues : j # g => e.issues[j] = d.issues[j]
      /\ e.issues[g].version = 2
  BY DEF RecordedInto
<1>2. \A k \in DOMAIN e.issues : e.issues[k].version = 1 =>
         k \in DOMAIN d.issues /\ e.issues[k] = d.issues[k] /\ GroupOf(e, k) = GroupOf(d, k)
  BY <1>1 DEF GroupOf
<1>3. g \in t.migrated
  <2>1. g \in BatchGroups(t)
    BY DEF Recording, BatchGroups
  <2> QED
    BY <2>1 DEF SplitInv, Recording
<1>4. \A k \in DOMAIN e.issues : e.issues[k].version = 1 /\ ~Collided(e.issues[k]) =>
         GroupOf(e, k) \notin u.migrated /\ GroupOf(e, k) \notin DOMAIN e.issues
  BY <1>1, <1>2, <1>3 DEF SplitInv, Recording
<1>5. LegacyRowsMatch(e)
  BY <1>2 DEF SplitInv, LegacyRowsMatch
<1>6. u.phase # "migrate" /\ BatchGroups(u) \subseteq u.migrated
  BY DEF Recording, SplitInv, BatchGroups, GroupAt
<1> QED
  BY <1>4, <1>5, <1>6 DEF SplitInv

\* Trimming touches no issue.
LEMMA TrimKeepsSplit ==
    ASSUME NEW d, NEW t, t.phase = "trim", SplitInv(d, t),
           NEW u, u.phase \in {"trim", "commit"}, u.migrated = t.migrated,
           NEW e, e.issues = d.issues
    PROVE  SplitInv(e, u)
  BY DEF SplitInv, LegacyRowsMatch, GroupOf
-----------------------------------------------------------------------------
(* From the committed database to a transaction's view.                    *)

\* Merged issues are v1: an issue of a group is never merged into another.
LEMMA OnlyLegacyMerged ==
    ASSUME NEW b, SoundDatabase(b), NEW d, NEW t, RecordInv(b, d, t)
    PROVE  \A k \in Merged(b, d) : k \in DOMAIN b.issues /\ k \notin Group
  BY DEF RecordInv, Merged, SoundDatabase, VersionsMatchKeys

\* What was committed arrived before anything this transaction records.
LEMMA CommittedBefore ==
    ASSUME NEW b, SoundDatabase(b), NEW k \in DOMAIN b.issues,
           NEW o \in b.issues[k].lineage
    PROVE  o \in Occurrence /\ o.id \in Nat /\ b.arrivals \in Nat /\ ~(o.id > b.arrivals)
<1>1. o \in Occurrence
  BY SoundHistories
<1>2. o.id \in Nat
  BY <1>1 DEF Occurrence
<1>3. b.arrivals \in Nat /\ o.id <= b.arrivals
  BY DEF SoundDatabase, IsDatabase, OccurrencesUnique
<1> QED
  BY <1>1, <1>2, <1>3

\* Statuses put together one by one or all at once.
LEMMA CollectedStatus ==
    ASSUME NEW S, S \subseteq Status, NEW s \in Status, NEW recurred \in BOOLEAN
    PROVE  /\ Collected({s}, FALSE) = s
           /\ MergedStatus({s, s}) = s
           /\ MergedStatus({s, Collected(S, recurred)}) = Collected(S \cup {s}, recurred)
           /\ Reopened(Collected(S, recurred)) = Collected(S, TRUE)
           /\ Reopened("open") = Collected({}, TRUE)
  BY DEF Collected, MergedStatus, Reopened, Status

\* A statement that changes one issue of the batch leaves the others collected.
LEMMA StillCollects ==
    ASSUME NEW b, NEW d, NEW e, NEW h, Collects(b, d, h),
           e.issues[h] = d.issues[h], Parts(b, e, h) = Parts(b, d, h)
    PROVE  Collects(b, e, h)
  BY DEF Collects, Recurred

\* Merging v1 issue `from`: it becomes one more part of its group.
LEMMA MergeKeepsRecord ==
    ASSUME NEW b, SoundDatabase(b), NEW d, SoundDatabase(d),
           NEW t, t.phase = "migrate", RecordInv(b, d, t), BatchGroups(t) \subseteq Group,
           NEW g \in BatchGroups(t), NEW from, NEW e, MergedFrom(d, e, from, g)
    PROVE  RecordInv(b, e, t)
<1>1. /\ from # g /\ from \in DOMAIN d.issues /\ d.issues[from].version = 1
      /\ GroupOf(d, from) = g
      /\ DOMAIN e.issues = (DOMAIN d.issues \ {from}) \cup {g}
      /\ \A j \in DOMAIN d.issues \ {from} : j # g => e.issues[j] = d.issues[j]
      /\ e.issues[g].lineage = d.issues[from].lineage \cup Lineage(d.issues, g)
      /\ e.issues[g].status =
            MergedStatus({d.issues[from].status, StatusOf(d.issues, g, d.issues[from].status)})
      /\ e.arrivals = d.arrivals
  BY DEF MergedFrom
<1>2. from \notin Group
  BY <1>1 DEF SoundDatabase, VersionsMatchKeys
<1>3. /\ from \in DOMAIN b.issues /\ d.issues[from] = b.issues[from]
      /\ GroupOf(b, from) = g
  <2>1. from \in DOMAIN b.issues /\ d.issues[from] = b.issues[from]
    BY <1>1, <1>2 DEF RecordInv
  <2> QED
    BY <1>1, <2>1 DEF GroupOf
<1>4. \A k \in Merged(b, d) : k \in DOMAIN b.issues /\ k \notin Group
  BY OnlyLegacyMerged
<1>5. Merged(b, e) = Merged(b, d) \cup {from}
  BY <1>1, <1>3, <1>4 DEF Merged
<1>6. /\ Parts(b, e, g) = Parts(b, d, g) \cup {from}
      /\ \A h : h # g => Parts(b, e, h) = Parts(b, d, h)
  BY <1>3, <1>5 DEF Parts
<1>7. Parts(b, d, g) \subseteq DOMAIN b.issues
  BY <1>4 DEF Parts
<1>8. \A k \in DOMAIN b.issues : b.issues[k].status \in Status
  BY SoundHistories DEF Row
<1>9. \A o \in b.issues[from].lineage : ~(o.id > b.arrivals)
  BY <1>3, CommittedBefore
<1> DEFINE S == {b.issues[k].status : k \in Parts(b, d, g)}
           s == b.issues[from].status
<1>10. {b.issues[k].status : k \in Parts(b, e, g)} = S \cup {s}
  BY <1>6
<1>11. S \subseteq Status /\ s \in Status
  BY <1>3, <1>7, <1>8
<1> HIDE DEF S, s
<1>12. Collects(b, e, g)
  <2>1. CASE g \in DOMAIN d.issues
    <3>1. Collects(b, d, g) /\ Recurred(b, d, g) \in BOOLEAN
      BY <2>1 DEF RecordInv, Recurred
    <3>2. /\ e.issues[g].lineage = b.issues[from].lineage \cup d.issues[g].lineage
          /\ e.issues[g].status = MergedStatus({s, d.issues[g].status})
      BY <1>1, <1>3, <2>1 DEF Lineage, StatusOf, s
    <3>3. Recurred(b, e, g) = Recurred(b, d, g)
      BY <1>9, <3>2 DEF Recurred
    <3>4. d.issues[g].status = Collected(S, Recurred(b, d, g))
      BY <3>1 DEF Collects, S
    <3>5. e.issues[g].status = Collected(S \cup {s}, Recurred(b, e, g))
      <4>1. MergedStatus({s, Collected(S, Recurred(b, d, g))}) =
               Collected(S \cup {s}, Recurred(b, d, g))
        BY <1>11, <3>1, CollectedStatus, ZenonT(60)
      <4> QED
        BY <3>2, <3>3, <3>4, <4>1, Zenon
    <3>6. \A k \in Parts(b, e, g) : b.issues[k].lineage \subseteq e.issues[g].lineage
      BY <1>6, <3>1, <3>2 DEF Collects
    <3>7. \A o \in e.issues[g].lineage :
             IF o.id > b.arrivals THEN Fingerprint[o.shape] = g
             ELSE \E k \in Parts(b, e, g) : o \in b.issues[k].lineage
      BY <1>6, <1>9, <3>1, <3>2 DEF Collects
    <3> QED
      BY <1>10, <3>5, <3>6, <3>7 DEF Collects
  <2>2. CASE g \notin DOMAIN d.issues
    <3>1. Parts(b, d, g) = {}
      BY <2>2, <1>4 DEF Parts, RecordInv, Merged
    <3>2. /\ e.issues[g].lineage = b.issues[from].lineage
          /\ e.issues[g].status = MergedStatus({s, s})
      BY <1>1, <1>3, <2>2 DEF Lineage, StatusOf, s
    <3>3. Parts(b, e, g) = {from} /\ S = {}
      BY <1>6, <3>1 DEF S
    <3>4. Recurred(b, e, g) = FALSE
      BY <1>9, <3>2 DEF Recurred
    <3>5. MergedStatus({s, s}) = s /\ Collected({s}, FALSE) = s
      BY <1>11, CollectedStatus
    <3>6. S \cup {s} = {s}
      BY <3>3
    <3>7. e.issues[g].status = Collected(S \cup {s}, Recurred(b, e, g))
      BY <3>2, <3>4, <3>5, <3>6
    <3> QED
      BY <1>9, <1>10, <3>2, <3>3, <3>7 DEF Collects
  <2> QED
    BY <2>1, <2>2
<1>13. ASSUME NEW h \in DOMAIN e.issues \cap BatchGroups(t), h # g
       PROVE  Collects(b, e, h)
  <2>1. h \in DOMAIN d.issues /\ e.issues[h] = d.issues[h]
    BY <1>1, <1>2, <1>13
  <2> QED
    BY <1>6, <1>13, <2>1, StillCollects DEF RecordInv
<1>14. \A k \in Merged(b, e) :
          /\ b.issues[k].version = 1
          /\ GroupOf(b, k) \in DOMAIN e.issues \cap BatchGroups(t)
  <2>1. \A k \in Merged(b, d) :
           /\ b.issues[k].version = 1
           /\ GroupOf(b, k) \in DOMAIN d.issues \cap BatchGroups(t)
    BY DEF RecordInv
  <2> QED
    BY <1>1, <1>2, <1>3, <1>5, <2>1
<1>15. \A k \in DOMAIN e.issues \ BatchGroups(t) :
          k \in DOMAIN b.issues /\ e.issues[k] = b.issues[k]
  BY <1>1 DEF RecordInv
<1>16. b.arrivals <= e.arrivals
  BY <1>1 DEF RecordInv
<1> QED
  BY <1>12, <1>13, <1>14, <1>15, <1>16 DEF RecordInv

\* The next record, or the first insert: the view is as it was.
LEMMA NextKeepsRecord ==
    ASSUME NEW b, NEW d, NEW t, RecordInv(b, d, t), NEW g, NEW u, Migrating(t, u, g)
    PROVE  RecordInv(b, d, u)
<1>1. \A i : GroupAt(u, i) = GroupAt(t, i)
  BY DEF Migrating, GroupAt
<1>2. BatchGroups(u) = BatchGroups(t)
  BY <1>1 DEF Migrating, BatchGroups
<1>3. /\ u.phase \notin {"trim", "commit"}
      /\ u.phase = "record" => u.index = 1
  BY DEF Migrating
<1>4. \A i \in 1..Len(u.batch) : ~(u.phase = "record" /\ i < u.index)
  <2>1. Len(u.batch) \in Nat
    BY DEF Migrating
  <2> QED
    BY <1>3, <2>1
<1> QED
  BY <1>2, <1>3, <1>4 DEF RecordInv

\* Recording occurrence o: its group recurs.
LEMMA RecordKeepsRecord ==
    ASSUME NEW b, SoundDatabase(b), NEW d, SoundDatabase(d),
           NEW t, RecordInv(b, d, t), BatchGroups(t) \subseteq Group,
           NEW g, NEW u, Recording(t, u, g),
           NEW o \in Occurrence, o.id = d.arrivals + 1, Fingerprint[o.shape] = g,
           NEW e, RecordedInto(d, e, o, g)
    PROVE  RecordInv(b, e, u)
<1>1. /\ DOMAIN e.issues = DOMAIN d.issues \cup {g}
      /\ \A j \in DOMAIN d.issues : j # g => e.issues[j] = d.issues[j]
      /\ e.issues[g].lineage = {o} \cup Lineage(d.issues, g)
      /\ e.issues[g].status = Reopened(StatusOf(d.issues, g, "open"))
      /\ e.arrivals = o.id
  BY DEF RecordedInto
<1>2. /\ t.phase = "record" /\ g = GroupAt(t, t.index)
      /\ Len(t.batch) \in Nat /\ t.index \in 1..Len(t.batch) /\ u.batch = t.batch
  BY DEF Recording
<1>3. g \in BatchGroups(t) /\ g \in Group
  BY <1>2 DEF BatchGroups
<1>4. \A i : GroupAt(u, i) = GroupAt(t, i)
  BY <1>2 DEF GroupAt
<1>5. BatchGroups(u) = BatchGroups(t)
  BY <1>2, <1>4 DEF BatchGroups
<1>6. b.arrivals <= d.arrivals /\ o.id > b.arrivals /\ b.arrivals <= e.arrivals
  <2>1. b.arrivals \in Nat /\ d.arrivals \in Nat
    BY DEF SoundDatabase, IsDatabase
  <2>2. b.arrivals <= d.arrivals
    BY DEF RecordInv
  <2> QED
    BY <1>1, <2>1, <2>2
<1>7. \A k \in Merged(b, d) : k \in DOMAIN b.issues /\ k \notin Group
  BY OnlyLegacyMerged
<1>8. Merged(b, e) = Merged(b, d)
  BY <1>1, <1>3, <1>7 DEF Merged
<1>9. \A h : Parts(b, e, h) = Parts(b, d, h)
  BY <1>8 DEF Parts
<1>10. \A k \in DOMAIN b.issues : b.issues[k].status \in Status
  BY SoundHistories DEF Row
<1> DEFINE S == {b.issues[k].status : k \in Parts(b, d, g)}
<1>11. S \subseteq Status
  <2>1. Parts(b, d, g) \subseteq DOMAIN b.issues
    BY <1>7 DEF Parts
  <2> QED
    BY <1>10, <2>1
<1>12. S = {b.issues[k].status : k \in Parts(b, e, g)}
  BY <1>9
<1> HIDE DEF S
<1>13. Recurred(b, e, g) = TRUE
  BY <1>1, <1>6 DEF Recurred
<1>14. Collects(b, e, g)
  <2>1. CASE g \in DOMAIN d.issues
    <3>1. Collects(b, d, g) /\ Recurred(b, d, g) \in BOOLEAN
      BY <1>3, <2>1 DEF RecordInv, Recurred
    <3>2. /\ e.issues[g].lineage = {o} \cup d.issues[g].lineage
          /\ e.issues[g].status = Reopened(d.issues[g].status)
      BY <1>1, <2>1 DEF Lineage, StatusOf
    <3>3. d.issues[g].status = Collected(S, Recurred(b, d, g))
      BY <3>1 DEF Collects, S
    <3>4. "open" \in Status
      BY DEF Status
    <3>5. e.issues[g].status = Collected(S, TRUE)
      BY <1>11, <3>1, <3>2, <3>3, <3>4, CollectedStatus, ZenonT(60)
    <3>6. \A k \in Parts(b, e, g) : b.issues[k].lineage \subseteq e.issues[g].lineage
      BY <1>9, <3>1, <3>2 DEF Collects
    <3>7. \A p \in e.issues[g].lineage :
             IF p.id > b.arrivals THEN Fingerprint[p.shape] = g
             ELSE \E k \in Parts(b, e, g) : p \in b.issues[k].lineage
      BY <1>6, <1>9, <3>1, <3>2 DEF Collects
    <3> QED
      BY <1>12, <1>13, <3>5, <3>6, <3>7 DEF Collects
  <2>2. CASE g \notin DOMAIN d.issues
    <3>1. Parts(b, e, g) = {}
      BY <1>3, <1>7, <1>9, <2>2 DEF Parts, RecordInv, Merged
    <3>2. e.issues[g].lineage = {o} /\ e.issues[g].status = Reopened("open")
      BY <1>1, <2>2 DEF Lineage, StatusOf
    <3>3. Reopened("open") = Collected({}, TRUE)
      BY DEF Reopened, Collected
    <3>4. S = {}
      BY <1>12, <3>1
    <3> QED
      BY <1>6, <1>12, <1>13, <3>1, <3>2, <3>3, <3>4 DEF Collects
  <2> QED
    BY <2>1, <2>2
<1>15. ASSUME NEW h \in DOMAIN e.issues \cap BatchGroups(u) PROVE Collects(b, e, h)
  <2>1. CASE h = g
    BY <1>14, <2>1
  <2>2. CASE h # g
    <3>1. h \in DOMAIN d.issues /\ e.issues[h] = d.issues[h]
      BY <1>1, <2>2
    <3> QED
      BY <1>5, <1>9, <3>1, StillCollects DEF RecordInv
  <2> QED
    BY <2>1, <2>2
<1>16. \A k \in Merged(b, e) :
          /\ b.issues[k].version = 1
          /\ GroupOf(b, k) \in DOMAIN e.issues \cap BatchGroups(u)
  BY <1>1, <1>5, <1>8 DEF RecordInv
<1>17. \A k \in DOMAIN e.issues \ BatchGroups(u) :
          k \in DOMAIN b.issues /\ e.issues[k] = b.issues[k]
  BY <1>1, <1>3, <1>5 DEF RecordInv
<1>18. \A i \in 1..Len(u.batch) :
          u.phase \in {"trim", "commit"} \/ (u.phase = "record" /\ i < u.index) =>
              GroupAt(u, i) \in DOMAIN e.issues /\ Recurred(b, e, GroupAt(u, i))
  <2> SUFFICES ASSUME NEW i \in 1..Len(t.batch),
                      u.phase = "trim" \/ (u.phase = "record" /\ i < u.index)
               PROVE  GroupAt(t, i) \in DOMAIN e.issues /\ Recurred(b, e, GroupAt(t, i))
    BY <1>2, <1>4 DEF Recording
  <2>1. i <= t.index
    <3>1. CASE t.index = Len(t.batch)
      BY <1>2, <3>1
    <3>2. CASE t.index # Len(t.batch)
      <4>1. i < t.index + 1
        BY <3>2 DEF Recording
      <4> QED
        BY <1>2, <4>1
    <3> QED
      BY <3>1, <3>2
  <2>2. CASE GroupAt(t, i) = g
    BY <1>1, <1>13, <2>2
  <2>3. CASE GroupAt(t, i) # g
    <3>1. i < t.index
      BY <1>2, <2>1, <2>3
    <3>2. GroupAt(t, i) \in DOMAIN d.issues /\ Recurred(b, d, GroupAt(t, i))
      BY <1>2, <3>1 DEF RecordInv
    <3>3. e.issues[GroupAt(t, i)] = d.issues[GroupAt(t, i)]
      BY <1>1, <2>3, <3>2
    <3> QED
      BY <1>1, <3>2, <3>3 DEF Recurred
  <2> QED
    BY <2>2, <2>3
<1> QED
  BY <1>6, <1>15, <1>16, <1>17, <1>18 DEF RecordInv

\* Trimming touches no issue.
LEMMA TrimKeepsRecord ==
    ASSUME NEW b, NEW d, NEW t, t.phase = "trim", RecordInv(b, d, t),
           NEW u, u.batch = t.batch, u.phase \in {"trim", "commit"},
           NEW e, e.issues = d.issues, e.arrivals = d.arrivals
    PROVE  RecordInv(b, e, u)
<1>1. \A i : GroupAt(u, i) = GroupAt(t, i)
  BY DEF GroupAt
<1>2. BatchGroups(u) = BatchGroups(t)
  BY <1>1 DEF BatchGroups
<1>3. /\ Merged(b, e) = Merged(b, d)
      /\ \A h : Parts(b, e, h) = Parts(b, d, h) /\ Recurred(b, e, h) = Recurred(b, d, h)
  BY DEF Merged, Parts, Recurred
<1>4. \A h : Collects(b, d, h) => Collects(b, e, h)
  BY <1>3, StillCollects
<1> QED
  BY <1>1, <1>2, <1>3, <1>4 DEF RecordInv

-----------------------------------------------------------------------------
(* How much of the batch is in the view.                                   *)

\* At BEGIN nothing of the batch is.
LEMMA BeginsWhole ==
    ASSUME NEW b, SoundDatabase(b), NEW t, t.phase = "migrate"
    PROVE  WholeInv(b, b, t)
<1>1. Inserted(t) = 0
  BY DEF Inserted
<1>2. b.arrivals \in Nat
  BY DEF SoundDatabase, IsDatabase
<1>3. 1..Inserted(t) = {}
  BY <1>1
<1> QED
  BY <1>1, <1>2, <1>3 DEF WholeInv

\* A merge moves occurrences from one issue to another.
LEMMA MergeKeepsWhole ==
    ASSUME NEW b, NEW d, NEW t, WholeInv(b, d, t),
           NEW from, NEW g, NEW e, MergedFrom(d, e, from, g)
    PROVE  WholeInv(b, e, t)
<1>1. /\ DOMAIN e.issues = (DOMAIN d.issues \ {from}) \cup {g}
      /\ from # g /\ from \in DOMAIN d.issues
      /\ \A j \in DOMAIN d.issues \ {from} : j # g => e.issues[j] = d.issues[j]
      /\ e.issues[g].lineage = d.issues[from].lineage \cup Lineage(d.issues, g)
      /\ e.arrivals = d.arrivals
  BY DEF MergedFrom
<1>2. ASSUME NEW o \in Accepted(e) PROVE o \in Accepted(d)
  BY <1>1, <1>2 DEF Accepted, Lineage
<1>3. ASSUME NEW o \in Accepted(d) PROVE o \in Accepted(e)
  BY <1>1, <1>3 DEF Accepted, Lineage
<1> QED
  BY <1>1, <1>2, <1>3 DEF WholeInv

\* Moving on to the next record, or to the first insert, inserts nothing.
LEMMA NextKeepsWhole ==
    ASSUME NEW b, NEW d, NEW t, WholeInv(b, d, t), NEW u, NEW g, Migrating(t, u, g)
    PROVE  WholeInv(b, d, u)
<1>1. Inserted(t) = 0 /\ Inserted(u) = 0
  BY DEF Inserted, Migrating
<1>2. u.batch = t.batch
  BY DEF Migrating
<1> QED
  BY <1>1, <1>2 DEF WholeInv, Inserting

\* RecordEvent inserts the next event of the batch.
LEMMA RecordKeepsWhole ==
    ASSUME NEW b, SoundDatabase(b), NEW d, SoundDatabase(d), NEW t, WholeInv(b, d, t),
           NEW g, NEW u, Recording(t, u, g),
           NEW o, o = [id |-> d.arrivals + 1, at |-> t.batch[t.index].at,
                       shape |-> t.batch[t.index].shape],
           NEW e, RecordedInto(d, e, o, g)
    PROVE  WholeInv(b, e, u)
<1>1. /\ DOMAIN e.issues = DOMAIN d.issues \cup {g}
      /\ \A j \in DOMAIN d.issues : j # g => e.issues[j] = d.issues[j]
      /\ e.issues[g].lineage = {o} \cup Lineage(d.issues, g)
      /\ e.arrivals = o.id
  BY DEF RecordedInto
<1>2. /\ t.phase = "record" /\ u.batch = t.batch
      /\ Len(t.batch) \in Nat /\ t.index \in 1..Len(t.batch)
      /\ u.phase = IF t.index = Len(t.batch) THEN "trim" ELSE "record"
      /\ u.index = IF t.index = Len(t.batch) THEN 1 ELSE t.index + 1
  BY DEF Recording
<1>3. b.arrivals \in Nat
  BY DEF SoundDatabase, IsDatabase
<1>4. Inserted(t) = t.index - 1 /\ Inserted(u) = t.index
  BY <1>2 DEF Inserted
<1>5. d.arrivals = b.arrivals + (t.index - 1)
  BY <1>4 DEF WholeInv
<1>6. o = Inserting(b, t, t.index)
  BY <1>2, <1>3, <1>5 DEF Inserting
<1>7. e.arrivals = b.arrivals + Inserted(u)
  BY <1>1, <1>2, <1>3, <1>4, <1>6 DEF Inserting
<1>8. Accepted(e) = Accepted(d) \cup {o}
  <2>1. ASSUME NEW p \in Accepted(e) PROVE p \in Accepted(d) \cup {o}
    BY <1>1, <2>1 DEF Accepted, Lineage
  <2>2. ASSUME NEW p \in Accepted(d) \cup {o} PROVE p \in Accepted(e)
    <3>1. CASE p = o
      BY <1>1, <3>1 DEF Accepted
    <3>2. CASE p \in Accepted(d)
      BY <1>1, <3>2 DEF Accepted, Lineage
    <3> QED
      BY <3>1, <3>2
  <2> QED
    BY <2>1, <2>2
<1>9. 1..t.index = (1..(t.index - 1)) \cup {t.index}
  BY <1>2
<1>10. \A i : Inserting(b, u, i) = Inserting(b, t, i)
  BY <1>2 DEF Inserting
<1>11. Accepted(d) = Accepted(b) \cup {Inserting(b, t, i) : i \in 1..(t.index - 1)}
  BY <1>4 DEF WholeInv
<1> HIDE DEF Inserting
<1>12. Accepted(e) = Accepted(b) \cup {Inserting(b, u, i) : i \in 1..Inserted(u)}
  BY <1>4, <1>6, <1>8, <1>9, <1>10, <1>11
<1> QED
  BY <1>7, <1>12 DEF WholeInv

\* Trimming deletes event rows only.
LEMMA TrimKeepsWhole ==
    ASSUME NEW b, NEW d, NEW t, t.phase = "trim", WholeInv(b, d, t),
           NEW u, u.phase \in {"trim", "commit"}, u.batch = t.batch,
           NEW e, e.issues = d.issues, e.arrivals = d.arrivals
    PROVE  WholeInv(b, e, u)
<1>1. Inserted(u) = Inserted(t)
  BY DEF Inserted
<1> QED
  BY <1>1 DEF WholeInv, Inserting, Accepted

\* Moving on to the next record leaves the histories as they are.
LEMMA NextKeepsHistory ==
    ASSUME NEW d, NEW t, HistoryInv(d, t), NEW g, NEW u, Migrating(t, u, g)
    PROVE  HistoryInv(d, u)
<1>1. \A i : GroupAt(u, i) = GroupAt(t, i)
  BY DEF Migrating, GroupAt
<1>2. BatchGroups(u) = BatchGroups(t)
  BY <1>1 DEF Migrating, BatchGroups
<1>3. Untrimmed(u) = Untrimmed(t)
  BY <1>2 DEF Migrating, Untrimmed
<1>4. u.phase = "record" => u.index = 1
  BY DEF Migrating
<1>5. u.phase = "record" => \A i \in 1..Len(u.batch) : ~(i < u.index)
  <2>1. Len(u.batch) \in Nat
    BY DEF Migrating
  <2> QED
    BY <1>4, <2>1
<1> QED
  BY <1>3, <1>5 DEF HistoryInv
-----------------------------------------------------------------------------
(* Every action keeps the invariant.                                       *)

LEMMA GroupsOfBatch ==
    ASSUME NEW t \in Transaction
    PROVE  BatchGroups(t) \subseteq Group
<1>1. t.batch \in Seq([shape : Shape, at : Nat])
  BY DEF Transaction
<1>2. \A i \in 1..Len(t.batch) : t.batch[i] \in [shape : Shape, at : Nat]
  BY <1>1, SequenceElement
<1> QED
  BY <1>2, ConstantsAssumption DEF BatchGroups, GroupAt

\* A writer's statement concerns its own view only.
LEMMA OwnLedgerStep ==
    ASSUME LedgerInv, IInv', NEW w \in Writer, lock = w, UNCHANGED <<db, lock>>,
           TransactionInv(db, work'[w], tx'[w])
    PROVE  LedgerInv'
  BY DEF LedgerInv

\* Without a writer only the committed database matters.
LEMMA NobodyLedger ==
    ASSUME IInv', Settled(db'), \A v \in Writer : lock' # v
    PROVE  LedgerInv'
  BY DEF LedgerInv

\* What a writer knows in the middle of a transaction.
LEMMA InLedgerTransaction ==
    ASSUME LedgerInv, NEW w \in Writer, tx[w].phase # "idle"
    PROVE  /\ lock = w /\ SoundDatabase(db) /\ SoundDatabase(work[w])
           /\ TransactionInv(db, work[w], tx[w])
           /\ BatchGroups(tx[w]) \subseteq Group
           /\ tx[w].phase # "commit" =>
                 /\ tx[w].batch # <<>> /\ RecordInv(db, work[w], tx[w])
                 /\ WholeInv(db, work[w], tx[w])
<1>1. lock = w /\ TransactionOK(w) /\ tx[w] \in Transaction
  BY InTransaction DEF LedgerInv
<1>2. SoundDatabase(db) /\ SoundDatabase(work[w])
  BY <1>1 DEF LedgerInv, IInv, TransactionOK
<1>3. TransactionInv(db, work[w], tx[w])
  BY <1>1 DEF LedgerInv
<1>4. tx[w].phase # "commit" =>
         /\ tx[w].batch # <<>> /\ RecordInv(db, work[w], tx[w])
         /\ WholeInv(db, work[w], tx[w])
  BY <1>3 DEF TransactionInv, StepInv, TriageInv
<1> QED
  BY <1>1, <1>2, <1>3, <1>4, GroupsOfBatch

\* BEGIN IMMEDIATE: the view is the committed database.
LEMMA BeginRecordBatchLedger ==
    ASSUME LedgerInv, IInv', NEW w \in Writer, NEW batch \in Batches,
           BeginRecordBatch(w, batch)
    PROVE  LedgerInv'
<1> DEFINE t == [IdleTx EXCEPT !.phase = "migrate", !.batch = batch, !.index = 1]
<1>1. batch # <<>> /\ Len(batch) \in Nat
  <2>1. PICK n \in 1..MaxBatch : batch \in [1..n -> [shape : Shape, at : Time]]
    BY DEF Batches
  <2>2. n \in Nat /\ n >= 1
    BY ConstantsAssumption
  <2>3. Len(batch) = n
    BY <2>1, <2>2, FunctionIsSequence
  <2>4. batch # <<>>
    BY <2>2, <2>3
  <2> QED
    BY <2>2, <2>3, <2>4
<1>2. /\ t.phase = "migrate" /\ t.batch = batch /\ t.index = 1 /\ t.migrated = {}
  BY DEF IdleTx
<1>3. /\ lock' = w /\ db' = db /\ work'[w] = db /\ tx'[w] = t
  BY DEF BeginRecordBatch, LedgerInv, IInv, TypeOK
<1> HIDE DEF t
<1>4. SoundDatabase(db) /\ Settled(db)
  BY DEF LedgerInv, IInv
<1>5. HistoryInv(db, t)
  BY <1>2, <1>4, ExactCovers DEF Settled, HistoryInv
<1>6. SplitInv(db, t)
  <2>1. \A i \in 1..Len(t.batch) : ~(i < t.index)
    BY <1>1, <1>2
  <2> QED
    BY <1>2, <1>4, <2>1 DEF Settled, Unsplit, GroupOf, SplitInv
<1>7. RecordInv(db, db, t)
  <2>1. Merged(db, db) = {}
    BY DEF Merged
  <2>2. ASSUME NEW g \in DOMAIN db.issues PROVE Collects(db, db, g)
    <3>1. Parts(db, db, g) = {g}
      BY <2>1 DEF Parts
    <3>2. \A o \in db.issues[g].lineage : ~(o.id > db.arrivals)
      BY <1>4, CommittedBefore
    <3>3. Recurred(db, db, g) = FALSE
      BY <3>2 DEF Recurred
    <3>4. db.issues[g].status \in Status
      BY <1>4, SoundHistories DEF Row
    <3>5. Collected({db.issues[g].status}, FALSE) = db.issues[g].status
      BY <3>4 DEF Collected, Status
    <3>6. {db.issues[k].status : k \in Parts(db, db, g)} = {db.issues[g].status}
      BY <3>1
    <3> QED
      BY <3>1, <3>2, <3>3, <3>5, <3>6 DEF Collects
  <2>3. db.arrivals <= db.arrivals
    BY <1>4 DEF SoundDatabase, IsDatabase
  <2> QED
    BY <1>2, <2>1, <2>2, <2>3 DEF RecordInv
<1>8. WholeInv(db, db, t)
  BY <1>2, <1>4, BeginsWhole
<1>9. TransactionInv(db, db, t)
  BY <1>1, <1>2, <1>5, <1>6, <1>7, <1>8 DEF TransactionInv, StepInv
<1>10. \A v \in Writer : lock' = v => v = w
  BY <1>3
<1> QED
  BY <1>3, <1>4, <1>9, <1>10 DEF LedgerInv

\* The UPDATE of SetIssueStatus: one row, one column.
LEMMA BeginSetStatusLedger ==
    ASSUME LedgerInv, IInv', NEW w \in Writer, NEW k \in Key, NEW status \in Status,
           BeginSetStatus(w, k, status)
    PROVE  LedgerInv'
<1> DEFINE t == [IdleTx EXCEPT !.phase = "commit"]
           d == [db EXCEPT !.issues[k].status = status]
<1>1. /\ lock' = w /\ db' = db /\ work'[w] = d /\ tx'[w] = t /\ k \in DOMAIN db.issues
  BY DEF BeginSetStatus, LedgerInv, IInv, TypeOK
<1>2. t.phase = "commit" /\ t.batch = <<>>
  BY DEF IdleTx
<1>3. SoundDatabase(db) /\ Settled(db)
  BY DEF LedgerInv, IInv
<1>4. /\ DOMAIN d.issues = DOMAIN db.issues /\ d.events = db.events /\ d.arrivals = db.arrivals
      /\ \A j \in DOMAIN db.issues :
            /\ d.issues[j].lineage = db.issues[j].lineage
            /\ d.issues[j].version = db.issues[j].version
            /\ d.issues[j].columns = db.issues[j].columns
            /\ d.issues[j].lastEvent = db.issues[j].lastEvent
  BY <1>1, <1>3 DEF SoundDatabase, IsDatabase, Row
<1>5. TriageInv(db, d, t)
  BY <1>1, <1>2 DEF TriageInv
<1> HIDE DEF t, d
<1>6. HistoryInv(d, t)
  <2>1. ASSUME NEW j \in DOMAIN db.issues PROVE Covered(d, j) /\ HistoryExact(d, j)
    <3>1. HistoryExact(db, j)
      BY <1>3 DEF Settled
    <3>2. RowsOf(d.events, j) = RowsOf(db.events, j)
      BY <1>4
    <3> QED
      BY <1>4, <3>1, <3>2, HistoryUntouched, ExactCovers
  <2> QED
    BY <1>2, <1>3, <1>4, <2>1 DEF HistoryInv, Settled
<1>7. SplitInv(d, t)
  <2>1. t.migrated = {}
    BY DEF t, IdleTx
  <2> QED
    BY <1>2, <1>3, <1>4, <2>1
       DEF SplitInv, Settled, LegacyRowsMatch, Unsplit, GroupOf, Collided
<1>8. TransactionInv(db, d, t)
  BY <1>2, <1>5, <1>6, <1>7 DEF TransactionInv, StepInv
<1>9. \A v \in Writer : lock' = v => v = w
  BY <1>1
<1> QED
  BY <1>1, <1>3, <1>8, <1>9 DEF LedgerInv

LEMMA MergeCandidateLedger ==
    ASSUME LedgerInv, IInv', NEW w \in Writer, MergeCandidate(w)
    PROVE  LedgerInv'
<1> DEFINE t == tx[w]
           r == t.batch[t.index]
           g == Fingerprint[r.shape]
<1>1. /\ lock = w /\ SoundDatabase(db) /\ SoundDatabase(work[w])
      /\ HistoryInv(work[w], t) /\ SplitInv(work[w], t) /\ RecordInv(db, work[w], t)
      /\ t.phase = "migrate" /\ t.batch # <<>> /\ BatchGroups(t) \subseteq Group
      /\ WholeInv(db, work[w], t)
  BY InLedgerTransaction DEF MergeCandidate, TransactionInv
<1>2. /\ r.shape \in Shape /\ t.index \in 1..Len(t.batch)
  BY InTransaction DEF MergeCandidate, LedgerInv
<1>3. g = GroupAt(t, t.index) /\ g \in BatchGroups(t)
  BY <1>2 DEF GroupAt, BatchGroups
<1>4. PICK from \in LegacyCandidates(work[w], r) :
         work' = [work EXCEPT ![w] = MergeLegacyIssue(work[w], from, r)]
  BY DEF MergeCandidate
<1>5. /\ UNCHANGED <<db, tx, lock>>
      /\ work'[w] = MergeLegacyIssue(work[w], from, r)
  BY <1>4 DEF MergeCandidate, LedgerInv, IInv, TypeOK
<1>6. MergedFrom(work[w], work'[w], from, g)
  BY <1>1, <1>2, <1>5, MergeWrites
<1> HIDE DEF t, r, g
<1>7. HistoryInv(work'[w], t)
  BY <1>1, <1>3, <1>6, MergeKeepsHistory
<1>8. SplitInv(work'[w], t)
  BY <1>1, <1>3, <1>6, MergeKeepsSplit
<1>9. RecordInv(db, work'[w], t)
  BY <1>1, <1>3, <1>6, MergeKeepsRecord
<1>10. tx'[w] = t
  BY <1>5 DEF t
<1>11. WholeInv(db, work'[w], t)
  BY <1>1, <1>6, MergeKeepsWhole
<1>12. TransactionInv(db, work'[w], tx'[w])
  BY <1>1, <1>7, <1>8, <1>9, <1>10, <1>11 DEF TransactionInv, StepInv
<1> QED
  BY <1>1, <1>5, <1>12, OwnLedgerStep

LEMMA NextMigrationLedger ==
    ASSUME LedgerInv, IInv', NEW w \in Writer, NextMigration(w)
    PROVE  LedgerInv'
<1> DEFINE t == tx[w]
           r == t.batch[t.index]
           g == Fingerprint[r.shape]
           u == tx'[w]
<1>1. /\ lock = w /\ SoundDatabase(db) /\ SoundDatabase(work[w])
      /\ HistoryInv(work[w], t) /\ SplitInv(work[w], t) /\ RecordInv(db, work[w], t)
      /\ t.phase = "migrate" /\ t.batch # <<>> /\ WholeInv(db, work[w], t)
  BY InLedgerTransaction DEF NextMigration, TransactionInv
<1>2. /\ r.shape \in Shape /\ t.index \in 1..Len(t.batch) /\ Len(t.batch) \in Nat
      /\ t \in Transaction
  BY InTransaction DEF NextMigration, LedgerInv
<1>3. /\ UNCHANGED <<db, work, lock>>
      /\ g \in t.migrated \/ LegacyCandidates(work[w], r) = {}
      /\ u = [t EXCEPT !.migrated = t.migrated \cup {g},
                       !.phase = IF t.index = Len(t.batch) THEN "record" ELSE "migrate",
                       !.index = IF t.index = Len(t.batch) THEN 1 ELSE t.index + 1]
  BY DEF NextMigration, LedgerInv, IInv, TypeOK
<1>4. Migrating(t, u, g)
  <2>1. g = GroupAt(t, t.index)
    BY DEF GroupAt
  <2> HIDE DEF t, u, g
  <2>2. /\ u.batch = t.batch /\ u.migrated = t.migrated \cup {g} /\ u.touched = t.touched
        /\ u.phase = IF t.index = Len(t.batch) THEN "record" ELSE "migrate"
        /\ u.index = IF t.index = Len(t.batch) THEN 1 ELSE t.index + 1
    BY <1>2, <1>3 DEF Transaction
  <2> QED
    BY <1>1, <1>2, <2>1, <2>2 DEF Migrating
<1> HIDE DEF t, r, u, g
<1>5. HistoryInv(work[w], u)
  BY <1>1, <1>2, <1>4, NextKeepsHistory
<1>6. SplitInv(work[w], u)
  BY <1>1, <1>2, <1>3, <1>4, NextKeepsSplit DEF r
<1>7. RecordInv(db, work[w], u)
  BY <1>1, <1>4, NextKeepsRecord
<1>8. u.batch # <<>>
  BY <1>1, <1>4 DEF Migrating
<1>9. WholeInv(db, work[w], u)
  BY <1>1, <1>4, NextKeepsWhole
<1>10. TransactionInv(db, work'[w], tx'[w])
  BY <1>3, <1>5, <1>6, <1>7, <1>8, <1>9 DEF TransactionInv, StepInv, u
<1> QED
  BY <1>1, <1>3, <1>10, OwnLedgerStep

LEMMA RecordEventLedger ==
    ASSUME LedgerInv, IInv', NEW w \in Writer, RecordEvent(w)
    PROVE  LedgerInv'
<1> DEFINE t == tx[w]
           r == t.batch[t.index]
           o == [id |-> work[w].arrivals + 1, at |-> r.at, shape |-> r.shape]
           g == Fingerprint[o.shape]
           u == tx'[w]
<1>1. /\ lock = w /\ SoundDatabase(db) /\ SoundDatabase(work[w])
      /\ HistoryInv(work[w], t) /\ SplitInv(work[w], t) /\ RecordInv(db, work[w], t)
      /\ t.phase = "record" /\ t.batch # <<>> /\ BatchGroups(t) \subseteq Group
      /\ WholeInv(db, work[w], t)
  BY InLedgerTransaction DEF RecordEvent, TransactionInv
<1>2. /\ r.shape \in Shape /\ r.at \in Nat
      /\ t.index \in 1..Len(t.batch) /\ Len(t.batch) \in Nat /\ t \in Transaction
  BY InTransaction DEF RecordEvent, LedgerInv
<1>3. /\ o \in Occurrence /\ o.id = work[w].arrivals + 1 /\ o.shape = r.shape
  BY <1>1, <1>2 DEF Occurrence, SoundDatabase, IsDatabase
<1>4. /\ UNCHANGED <<db, lock>> /\ work'[w] = Recorded(work[w], o)
      /\ u = [t EXCEPT !.touched = t.touched \cup {g}, !.ids = t.ids \cup {o.id},
                       !.phase = IF t.index = Len(t.batch) THEN "trim" ELSE "record",
                       !.index = IF t.index = Len(t.batch) THEN 1 ELSE t.index + 1]
  BY DEF RecordEvent, AllRecorded, Recorded, LedgerInv, IInv, TypeOK
<1>5. g = GroupAt(t, t.index)
  BY DEF GroupAt
<1>6. RecordedInto(work[w], work'[w], o, g)
  <2> HIDE DEF o
  <2> QED
    BY <1>1, <1>3, <1>4, RecordWrites
<1>7. Fingerprint[o.shape] = g
  OBVIOUS
<1>8. o = [id |-> work[w].arrivals + 1, at |-> t.batch[t.index].at,
            shape |-> t.batch[t.index].shape]
  OBVIOUS
<1> HIDE DEF t, r, o, u, g
<1>9. Recording(t, u, g)
  <2>1. /\ u.batch = t.batch /\ u.migrated = t.migrated /\ u.touched = t.touched \cup {g}
        /\ u.phase = IF t.index = Len(t.batch) THEN "trim" ELSE "record"
        /\ u.index = IF t.index = Len(t.batch) THEN 1 ELSE t.index + 1
    BY <1>2, <1>4 DEF Transaction
  <2> QED
    BY <1>1, <1>2, <1>5, <2>1 DEF Recording
<1>10. HistoryInv(work'[w], u)
  BY <1>1, <1>3, <1>6, <1>9, RecordKeepsHistory
<1>11. SplitInv(work'[w], u)
  BY <1>1, <1>6, <1>9, RecordKeepsSplit
<1>12. RecordInv(db, work'[w], u)
  BY <1>1, <1>3, <1>6, <1>7, <1>9, RecordKeepsRecord
<1>13. u.batch # <<>>
  BY <1>1, <1>9 DEF Recording
<1>14. WholeInv(db, work'[w], u)
  BY <1>1, <1>6, <1>9, <1>8, RecordKeepsWhole
<1>15. TransactionInv(db, work'[w], tx'[w])
  BY <1>10, <1>11, <1>12, <1>13, <1>14 DEF TransactionInv, StepInv, u
<1> QED
  BY <1>1, <1>4, <1>15, OwnLedgerStep

LEMMA TrimTouchedLedger ==
    ASSUME LedgerInv, IInv', NEW w \in Writer, TrimTouched(w)
    PROVE  LedgerInv'
<1> DEFINE t == tx[w]
           u == tx'[w]
           d == work[w]
           e == work'[w]
<1>1. /\ lock = w /\ SoundDatabase(d)
      /\ HistoryInv(d, t) /\ SplitInv(d, t) /\ RecordInv(db, d, t)
      /\ t.phase = "trim" /\ t.batch # <<>> /\ WholeInv(db, d, t)
  BY InLedgerTransaction DEF TrimTouched, TransactionInv
<1>2. PICK k \in t.touched :
         /\ work' = [work EXCEPT ![w].events = TrimEvents(@, k, MaxEventsPerIssue)]
         /\ tx' = [tx EXCEPT ![w] =
                     [t EXCEPT !.touched = t.touched \ {k},
                               !.phase = IF t.touched = {k} THEN "commit" ELSE "trim"]]
  BY DEF TrimTouched
<1>3. /\ UNCHANGED <<db, lock>>
      /\ e = [d EXCEPT !.events = TrimEvents(d.events, k, MaxEventsPerIssue)]
      /\ u = [t EXCEPT !.touched = t.touched \ {k},
                       !.phase = IF t.touched = {k} THEN "commit" ELSE "trim"]
  BY <1>2 DEF TrimTouched, LedgerInv, IInv, TypeOK
<1>4. t \in Transaction
  BY DEF LedgerInv, IInv, TypeOK
<1> HIDE DEF t, u, d, e
<1>5. /\ e.issues = d.issues /\ e.arrivals = d.arrivals
      /\ e.events = TrimEvents(d.events, k, MaxEventsPerIssue)
  BY <1>1, <1>3 DEF SoundDatabase, IsDatabase
<1>6. /\ u.batch = t.batch /\ u.migrated = t.migrated /\ u.touched = t.touched \ {k}
      /\ u.phase = IF t.touched = {k} THEN "commit" ELSE "trim"
  BY <1>3, <1>4 DEF Transaction
<1>7. u.phase \in {"trim", "commit"}
  BY <1>6
<1>8. HistoryInv(e, u)
  BY <1>1, <1>5, <1>6, TrimKeepsHistory
<1>9. SplitInv(e, u)
  BY <1>1, <1>5, <1>6, <1>7, TrimKeepsSplit
<1>10. RecordInv(db, e, u)
  BY <1>1, <1>5, <1>6, <1>7, TrimKeepsRecord
<1>11. WholeInv(db, e, u)
  BY <1>1, <1>5, <1>6, <1>7, TrimKeepsWhole
<1>12. TransactionInv(db, work'[w], tx'[w])
  BY <1>1, <1>6, <1>8, <1>9, <1>10, <1>11 DEF TransactionInv, StepInv, u, e
<1> QED
  BY <1>1, <1>3, <1>12, OwnLedgerStep

\* At COMMIT the view is settled: every group merged, every history trimmed.
LEMMA CommitLedger ==
    ASSUME LedgerInv, IInv', NEW w \in Writer, Commit(w)
    PROVE  LedgerInv'
<1>1. /\ HistoryInv(work[w], tx[w]) /\ SplitInv(work[w], tx[w]) /\ tx[w].phase = "commit"
  BY InLedgerTransaction DEF Commit, TransactionInv
<1>2. Untrimmed(tx[w]) = {}
  BY <1>1 DEF Untrimmed
<1>3. Settled(work[w])
  BY <1>1, <1>2 DEF HistoryInv, SplitInv, Settled, Unsplit, GroupOf
<1>4. db' = work[w] /\ lock' = NoWriter
  BY DEF Commit, EndTransaction
<1> QED
  BY <1>3, <1>4, NobodyLedger, ConstantsAssumption

LEMMA RollbackLedger ==
    ASSUME LedgerInv, IInv', NEW w \in Writer, Rollback(w)
    PROVE  LedgerInv'
<1>1. db' = db /\ lock' = NoWriter
  BY DEF Rollback, EndTransaction
<1> QED
  BY <1>1, NobodyLedger, ConstantsAssumption DEF LedgerInv

LEMMA CrashLedger ==
    ASSUME LedgerInv, IInv', Crash
    PROVE  LedgerInv'
<1>1. db' = db /\ lock' = NoWriter
  BY DEF Crash
<1> QED
  BY <1>1, NobodyLedger, ConstantsAssumption DEF LedgerInv

\* Retention takes an issue away with its whole history.
LEMMA RemoveLedger ==
    ASSUME LedgerInv, IInv', NEW gone, lock = NoWriter, Remove(gone)
    PROVE  LedgerInv'
<1>1. db' = DeleteIssues(db, gone) /\ lock' = NoWriter
  BY DEF Remove
<1>2. SoundDatabase(db) /\ Settled(db)
  BY DEF LedgerInv, IInv
<1>3. /\ DOMAIN db'.issues = DOMAIN db.issues \ gone
      /\ \A k \in DOMAIN db.issues \ gone : db'.issues[k] = db.issues[k]
      /\ db'.arrivals = db.arrivals
  BY <1>1, <1>2, DeleteSound
<1>4. db'.events = {e \in db.events : e.key \notin gone}
  BY <1>1 DEF DeleteIssues
<1>5. ASSUME NEW k \in DOMAIN db'.issues PROVE HistoryExact(db', k)
  <2>1. k \in DOMAIN db.issues /\ k \notin gone /\ db'.issues[k] = db.issues[k]
    BY <1>3
  <2>2. RowsOf(db'.events, k) = RowsOf(db.events, k)
    BY <1>4, <2>1 DEF RowsOf
  <2>3. HistoryExact(db, k)
    BY <1>2, <2>1 DEF Settled
  <2> QED
    BY <2>1, <2>2, <2>3, HistoryUntouched
<1>6. LegacyRowsMatch(db') /\ Unsplit(db')
  BY <1>2, <1>3 DEF Settled, LegacyRowsMatch, Unsplit
<1>7. Settled(db')
  BY <1>2, <1>3, <1>5, <1>6 DEF Settled
<1> QED
  BY <1>1, <1>7, NobodyLedger, ConstantsAssumption

\* Seeds are settled, and every step of the store keeps the invariant.
LEMMA LedgerInit == Init => LedgerInv
<1> SUFFICES ASSUME Init PROVE LedgerInv
  OBVIOUS
<1>1. IInv
  BY InitInvariant
<1>2. Settled(db)
  BY SeedsAssumption DEF Init, Settled
<1>3. \A w \in Writer : lock # w
  BY ConstantsAssumption DEF Init
<1> QED
  BY <1>1, <1>2, <1>3 DEF LedgerInv

LEMMA LedgerNext == LedgerInv /\ [Next]_vars => LedgerInv'
<1> SUFFICES ASSUME LedgerInv, [Next]_vars PROVE LedgerInv'
  OBVIOUS
<1>1. IInv'
  BY NextInvariant DEF LedgerInv
<1>2. ASSUME NEW w \in Writer, Begin(w) PROVE LedgerInv'
  BY <1>1, <1>2, BeginRecordBatchLedger, BeginSetStatusLedger DEF Begin
<1>3. ASSUME NEW w \in Writer, Proceed(w) PROVE LedgerInv'
  BY <1>1, <1>3, MergeCandidateLedger, NextMigrationLedger, RecordEventLedger,
     TrimTouchedLedger, CommitLedger, RollbackLedger DEF Proceed
<1>4. ASSUME NEW cutoff \in Time, PruneIssues(cutoff) PROVE LedgerInv'
  BY <1>1, <1>4, RemoveLedger DEF PruneIssues, WriteLockFree
<1>5. ASSUME NEW limit, EnforceIssueLimit(limit) PROVE LedgerInv'
  BY <1>1, <1>5, RemoveLedger DEF EnforceIssueLimit, WriteLockFree
<1>6. CASE Crash
  BY <1>1, <1>6, CrashLedger
<1>7. CASE UNCHANGED vars
  BY <1>1, <1>7 DEF vars, LedgerInv
<1> QED
  BY <1>2, <1>3, <1>4, <1>5, <1>6, <1>7 DEF Next

\* Whatever the interleaving, the invariant holds.
THEOREM LedgerInvariant == Spec => []LedgerInv
<1>1. Init => LedgerInv
  BY LedgerInit
<1>2. LedgerInv /\ [Next]_vars => LedgerInv'
  BY LedgerNext
<1> QED
  BY <1>1, <1>2, PTL DEF Spec

\* The history of every issue is its newest MaxEventsPerIssue occurrences:
\* trimming batch by batch, reusing sequences and merging the trimmed histories
\* of v1 issues lose nothing that should be kept (sqliteTrimEvents).
THEOREM HistoryAlwaysNewest == Spec => []HistoryIsNewest
<1>1. LedgerInv => HistoryIsNewest
  BY DEF LedgerInv, IInv, SoundDatabase, Settled, EventsHaveIssues, HistoryIsNewest
<1> QED
  BY <1>1, LedgerInvariant, PTL

\* RecordBatch merges every v1 aggregate of the groups it records before it
\* creates them: whatever seeds there are, no committed database holds a v1 issue
\* beside the v2 issue of its group, unless that v1 issue has the columns of an
\* event other than its last (its v1 key had collided); legacyCandidates need not
\* find those.
THEOREM GroupsNeverSplit == Spec => []NoSplitGroup
<1>1. LedgerInv => NoSplitGroup
  BY DEF LedgerInv, Settled, NoSplitGroup
<1> QED
  BY <1>1, LedgerInvariant, PTL
-----------------------------------------------------------------------------
(* What the store commits is what IssueLedger allows.                      *)

\* The row fields the ledger is made of.
LEMMA LedgerRows ==
    /\ DOMAIN LedgerView = DOMAIN db.issues
    /\ \A k \in DOMAIN db.issues :
          /\ LedgerView[k].status = db.issues[k].status
          /\ LedgerView[k].seen = db.issues[k].lineage
          /\ LedgerView[k] = [status |-> db.issues[k].status, seen |-> db.issues[k].lineage]
  BY DEF LedgerView

LEMMA OccurrenceOfLedger ==
    ASSUME NEW o \in Occurrence
    PROVE  Ledger!IsOccurrence(o)
  BY DEF Occurrence, Ledger!IsOccurrence

\* Every column of a row is about its occurrences: the last event is among the
\* latest, and last_seen is their time.
LEMMA LastOfRow ==
    ASSUME NEW d, SoundDatabase(d), NEW k \in DOMAIN d.issues
    PROVE  /\ d.issues[k].lastEvent \in Ledger!Latest(d.issues[k].lineage)
           /\ Ledger!LastSeen(d.issues[k].lineage) = d.issues[k].last
           /\ d.issues[k].last \in Nat
<1> DEFINE row == d.issues[k]
           L == Ledger!Latest(row.lineage)
<1>1. /\ row.lineage \subseteq Occurrence /\ row.last \in Nat
  BY SoundHistories DEF Row
<1>2. /\ \A o \in row.lineage : o.at <= row.last
      /\ row.lastEvent \in row.lineage /\ row.lastEvent.at = row.last
  BY DEF SoundDatabase, AggregatesMatch, RowMatches
<1>3. \A o \in row.lineage : o.at \in Nat
  BY <1>1 DEF Occurrence
<1> HIDE DEF row
<1>4. row.lastEvent \in L
  BY <1>2 DEF Ledger!Latest
<1>5. \A o \in row.lineage : o \in L => o.at = row.last
  BY <1>1, <1>2, <1>3 DEF Ledger!Latest
<1> DEFINE chosen == CHOOSE o \in row.lineage : o \in L
<1>6. chosen \in row.lineage /\ chosen \in L
  BY <1>2, <1>4
<1>7. chosen.at = row.last
  BY <1>5, <1>6
<1> QED
  BY <1>1, <1>4, <1>7 DEF row, Ledger!LastSeen

\* A writer asks for something in a transaction only.
NothingAskedIdle == \A w \in Writer : tx[w].phase = "idle" => tx[w].batch = <<>>

LEMMA NothingAskedNext == IInv /\ NothingAskedIdle /\ [Next]_vars => NothingAskedIdle'
<1> SUFFICES ASSUME IInv, NothingAskedIdle, [Next]_vars PROVE NothingAskedIdle'
  OBVIOUS
<1>1. DOMAIN tx = Writer /\ \A w \in Writer : tx[w] \in Transaction
  BY DEF IInv, TypeOK
<1>2. IdleTx.batch = <<>>
  BY DEF IdleTx
<1>3. ASSUME NEW w \in Writer, Begin(w) PROVE NothingAskedIdle'
  BY <1>1, <1>3 DEF Begin, BeginRecordBatch, BeginSetStatus, IdleTx, NothingAskedIdle
<1>4. ASSUME NEW w \in Writer, NEW t, tx' = [tx EXCEPT ![w] = t],
             t.phase = "idle" => t.batch = <<>>
      PROVE  NothingAskedIdle'
  BY <1>1, <1>4 DEF NothingAskedIdle
<1>5. ASSUME NEW w \in Writer, Proceed(w) PROVE NothingAskedIdle'
  <2>1. CASE MergeCandidate(w)
    BY <2>1 DEF MergeCandidate, NothingAskedIdle
  <2>2. CASE NextMigration(w)
    <3>1. tx[w] \in Transaction
      BY <1>1
    <3> QED
      BY <1>1, <2>2, <3>1 DEF NextMigration, NothingAskedIdle, Transaction
  <2>3. CASE RecordEvent(w)
    <3>1. tx[w] \in Transaction
      BY <1>1
    <3> QED
      BY <1>1, <2>3, <3>1 DEF RecordEvent, NothingAskedIdle, Transaction
  <2>4. CASE TrimTouched(w)
    <3>1. tx[w] \in Transaction
      BY <1>1
    <3> QED
      BY <1>1, <2>4, <3>1 DEF TrimTouched, NothingAskedIdle, Transaction
  <2>5. CASE Commit(w) \/ Rollback(w)
    BY <1>2, <1>4, <2>5 DEF Commit, Rollback, EndTransaction
  <2> QED
    BY <1>5, <2>1, <2>2, <2>3, <2>4, <2>5 DEF Proceed
<1>6. CASE UNCHANGED tx
  BY <1>6 DEF NothingAskedIdle
<1>7. CASE Crash
  BY <1>2, <1>7 DEF Crash, NothingAskedIdle
<1>8. (\E cutoff \in Time : PruneIssues(cutoff)) => UNCHANGED tx
  BY DEF PruneIssues, Remove
<1>9. (\E limit \in 1..Cardinality(Key) : EnforceIssueLimit(limit)) => UNCHANGED tx
  BY DEF EnforceIssueLimit, Remove
<1>10. UNCHANGED vars => UNCHANGED tx
  BY DEF vars
<1> QED
  BY <1>3, <1>5, <1>6, <1>7, <1>8, <1>9, <1>10 DEF Next

\* A step that leaves the batches alone leaves what is asked.
LEMMA AskedAsBefore ==
    ASSUME \A w \in Writer : tx'[w].batch = tx[w].batch
    PROVE  AskedView' = AskedView
  BY DEF AskedView

\* The first ledger is one of the seeds.
LEMMA LedgerStarts == Init => Ledger!Init
<1> SUFFICES ASSUME Init PROVE Ledger!Init
  OBVIOUS
<1>1. SoundDatabase(db)
  BY SeedsAssumption DEF Init
<1>2. DOMAIN db.issues \subseteq Key
  BY <1>1 DEF SoundDatabase, IsDatabase
<1>3. ASSUME NEW k \in DOMAIN db.issues
      PROVE  /\ db.issues[k].status \in Status /\ db.issues[k].lineage # {}
             /\ \A o \in db.issues[k].lineage : Ledger!IsOccurrence(o)
  <2>1. db.issues[k] \in Row /\ db.issues[k].lineage \subseteq Occurrence
    BY <1>1, SoundHistories
  <2>2. db.issues[k].lineage # {}
    BY <1>1 DEF SoundDatabase, AggregatesMatch, RowMatches
  <2> QED
    BY <2>1, <2>2, OccurrenceOfLedger DEF Row
<1>4. AskedView = <<>>
  <2>1. \A w \in Writer : tx[w].batch = <<>>
    BY DEF Init, IdleTx
  <2> QED
    BY <2>1 DEF AskedView
<1> QED
  BY <1>2, <1>3, <1>4, LedgerRows DEF Ledger!Init, Ledger!Key, Ledger!Status, Key, Status

\* BEGIN IMMEDIATE: the request asks for its batch.
LEMMA BeginAsks ==
    ASSUME IInv, NothingAskedIdle, NEW w \in Writer, NEW batch \in Batches,
           BeginRecordBatch(w, batch)
    PROVE  Ledger!Ask
<1>1. DOMAIN tx = Writer /\ tx[w].batch = <<>>
  BY DEF BeginRecordBatch, NothingAskedIdle, IInv, TypeOK
<1>2. tx'[w].batch = batch /\ \A v \in Writer : v # w => tx'[v].batch = tx[v].batch
  BY <1>1 DEF BeginRecordBatch, IdleTx
<1>3. LedgerView' = LedgerView
  BY DEF BeginRecordBatch, LedgerView
<1>4. Ledger!IsBatch(batch)
  <2>1. PICK n \in 1..MaxBatch : batch \in [1..n -> [shape : Shape, at : Time]]
    BY DEF Batches
  <2>2. n \in Nat /\ n >= 1 /\ Time \subseteq Nat
    BY ConstantsAssumption
  <2>3. Len(batch) = n
    BY <2>1, <2>2, FunctionIsSequence
  <2>4. batch # <<>>
    BY <2>2, <2>3
  <2> QED
    BY <2>1, <2>2, <2>3, <2>4 DEF Ledger!IsBatch
<1>5. batch # <<>>
  BY <1>4 DEF Ledger!IsBatch
<1>6. /\ w \notin DOMAIN AskedView /\ DOMAIN AskedView' = DOMAIN AskedView \cup {w}
      /\ AskedView'[w] = batch
      /\ \A v \in DOMAIN AskedView : AskedView'[v] = AskedView[v]
  BY <1>1, <1>2, <1>5 DEF AskedView
<1> QED
  BY <1>3, <1>4, <1>6 DEF Ledger!Ask

\* The end of a transaction: what it asked for is asked no more.
LEMMA EndsAsked ==
    ASSUME IInv, NEW w \in Writer, EndTransaction(w)
    PROVE  /\ AskedView' = Ledger!Restrict(AskedView, DOMAIN AskedView \ {w})
           /\ tx[w].batch = <<>> => AskedView' = AskedView
<1>1. tx'[w].batch = <<>> /\ \A v \in Writer : v # w => tx'[v].batch = tx[v].batch
  BY DEF EndTransaction, IdleTx, IInv, TypeOK
<1> QED
  BY <1>1 DEF AskedView, Ledger!Restrict

LEMMA RollbackGivesUp ==
    ASSUME IInv, NEW w \in Writer, Rollback(w)
    PROVE  Ledger!GiveUp
<1>1. LedgerView' = LedgerView /\ EndTransaction(w)
  BY DEF Rollback, LedgerView
<1> DEFINE failed == {w} \cap DOMAIN AskedView
<1>2. AskedView' = Ledger!Restrict(AskedView, DOMAIN AskedView \ failed)
  <2>1. DOMAIN AskedView \ failed = DOMAIN AskedView \ {w}
    OBVIOUS
  <2> QED
    BY <1>1, <2>1, EndsAsked
<1>3. failed \in SUBSET DOMAIN AskedView
  OBVIOUS
<1> HIDE DEF failed
<1> QED
  BY <1>1, <1>2, <1>3 DEF Ledger!GiveUp

\* A crash fails every request.
LEMMA CrashGivesUp ==
    ASSUME Crash
    PROVE  Ledger!GiveUp
<1>1. LedgerView' = LedgerView
  BY DEF Crash, LedgerView
<1>2. \A w \in Writer : tx'[w].batch = <<>>
  BY DEF Crash, IdleTx
<1>3. AskedView' = Ledger!Restrict(AskedView, DOMAIN AskedView \ DOMAIN AskedView)
  BY <1>2 DEF AskedView, Ledger!Restrict
<1> QED
  BY <1>1, <1>3 DEF Ledger!GiveUp

\* COMMIT of SetIssueStatus: one issue is triaged.
LEMMA CommitTriages ==
    ASSUME LedgerInv, NEW w \in Writer, Commit(w), tx[w].batch = <<>>
    PROVE  \E k \in Ledger!Key, status \in Ledger!Status : Ledger!SetStatus(k, status)
<1>1. TriageInv(db, work[w], tx[w])
  BY InLedgerTransaction DEF Commit, TransactionInv, StepInv
<1>2. PICK k \in DOMAIN db.issues, status \in Status :
         work[w] = [db EXCEPT !.issues[k].status = status]
  BY <1>1 DEF TriageInv
<1>3. db' = [db EXCEPT !.issues[k].status = status]
  BY <1>2 DEF Commit
<1>4. SoundDatabase(db)
  BY DEF LedgerInv, IInv
<1>5. /\ DOMAIN db'.issues = DOMAIN db.issues
      /\ db'.issues[k].status = status
      /\ \A j \in DOMAIN db.issues : db'.issues[j].lineage = db.issues[j].lineage
      /\ \A j \in DOMAIN db.issues : j # k => db'.issues[j].status = db.issues[j].status
  BY <1>3, <1>4 DEF SoundDatabase, IsDatabase, Row
<1>6. LedgerView' = [LedgerView EXCEPT ![k].status = status]
  BY <1>5 DEF LedgerView
<1>7. k \in Ledger!Key /\ status \in Ledger!Status
  BY <1>4 DEF Ledger!Key, Ledger!Status, Status, SoundDatabase, IsDatabase, Key
<1>8. Ledger!SetStatus(k, status)
  <2>1. AskedView' = AskedView
    BY EndsAsked DEF Commit, LedgerInv
  <2>2. k \in DOMAIN LedgerView
    BY LedgerRows
  <2> QED
    BY <1>6, <2>1, <2>2 DEF Ledger!SetStatus
<1> QED
  BY <1>7, <1>8
\* COMMIT of RecordBatch: the batch, and the issues merged for it, at once.
LEMMA CommitRecords ==
    ASSUME LedgerInv, NEW w \in Writer, Commit(w), tx[w].batch # <<>>
    PROVE  w \in DOMAIN AskedView /\ Ledger!Record(w)
<1> DEFINE t == tx[w]
           b == db
           d == work[w]
<1>1. /\ SoundDatabase(b) /\ SoundDatabase(d) /\ BatchGroups(t) \subseteq Group
      /\ RecordInv(b, d, t) /\ WholeInv(b, d, t) /\ t.phase = "commit" /\ db' = d
  BY InLedgerTransaction DEF Commit, TransactionInv, StepInv
<1>2. Len(t.batch) \in Nat /\ Len(t.batch) >= 1
  <2>1. t.batch \in Seq([shape : Shape, at : Nat])
    BY DEF LedgerInv, IInv, TypeOK, Transaction
  <2> HIDE DEF t
  <2>2. t.batch # <<>>
    BY DEF t
  <2> QED
    BY <2>1, <2>2
<1>0. /\ w \in DOMAIN AskedView /\ AskedView[w] = t.batch
       /\ AskedView' = Ledger!Restrict(AskedView, DOMAIN AskedView \ {w})
  BY EndsAsked DEF Commit, LedgerInv, AskedView
<1>3. BatchGroups(t) # {}
  BY <1>2 DEF BatchGroups
<1> HIDE DEF t, d
<1>4. /\ \A g \in BatchGroups(t) : g \in DOMAIN d.issues /\ Recurred(b, d, g) /\ Collects(b, d, g)
      /\ \A k \in DOMAIN d.issues \ BatchGroups(t) :
            k \in DOMAIN b.issues /\ d.issues[k] = b.issues[k]
      /\ \A k \in Merged(b, d) :
            /\ k \in DOMAIN b.issues /\ k \notin Group
            /\ GroupOf(b, k) \in BatchGroups(t)
  <2>1. \A k \in Merged(b, d) : k \in DOMAIN b.issues /\ k \notin Group
    BY <1>1, OnlyLegacyMerged
  <2>2. \A g \in BatchGroups(t) : g \in DOMAIN d.issues /\ Recurred(b, d, g)
    BY <1>1 DEF RecordInv, BatchGroups
  <2> QED
    BY <1>1, <2>1, <2>2 DEF RecordInv
<1>5. /\ DOMAIN LedgerView = DOMAIN b.issues /\ DOMAIN LedgerView' = DOMAIN d.issues
      /\ \A k \in DOMAIN b.issues :
            /\ LedgerView[k].status = b.issues[k].status
            /\ LedgerView[k].seen = b.issues[k].lineage
            /\ LedgerView[k] = [status |-> b.issues[k].status, seen |-> b.issues[k].lineage]
      /\ \A k \in DOMAIN d.issues :
            /\ LedgerView'[k].status = d.issues[k].status
            /\ LedgerView'[k].seen = d.issues[k].lineage
            /\ LedgerView'[k] = [status |-> d.issues[k].status, seen |-> d.issues[k].lineage]
  BY <1>1 DEF LedgerView
<1>6. \A k \in DOMAIN b.issues : \A o \in b.issues[k].lineage : ~(o.id > b.arrivals)
  BY <1>1, CommittedBefore
<1> HIDE DEF b
<1>7. Ledger!Vanished = Merged(b, d)
  BY <1>5 DEF Ledger!Vanished, Merged
<1>8. Ledger!Grown = BatchGroups(t)
  <2>1. ASSUME NEW g \in BatchGroups(t) PROVE g \in Ledger!Grown
    <3>1. PICK o \in d.issues[g].lineage : o.id > b.arrivals
      BY <1>4 DEF Recurred
    <3>2. g \in DOMAIN b.issues => d.issues[g].lineage # b.issues[g].lineage
      BY <1>6, <3>1
    <3> QED
      BY <1>4, <1>5, <3>2 DEF Ledger!Grown
  <2>2. ASSUME NEW k \in Ledger!Grown, k \notin BatchGroups(t) PROVE FALSE
    <3>1. k \in DOMAIN d.issues
      BY <1>5 DEF Ledger!Grown
    <3>2. k \in DOMAIN b.issues /\ d.issues[k].lineage = b.issues[k].lineage
      BY <1>4, <2>2, <3>1
    <3>3. LedgerView'[k].seen = LedgerView[k].seen
      BY <1>5, <3>1, <3>2
    <3> QED
      BY <1>5, <3>2, <3>3 DEF Ledger!Grown
  <2> QED
    BY <2>1, <2>2
<1> DEFINE into == [k \in Merged(b, d) |-> GroupOf(b, k)]
<1>9. into \in [Ledger!Vanished -> Ledger!Grown]
  BY <1>4, <1>7, <1>8
<1>10. ASSUME NEW g \in BatchGroups(t)
       PROVE  LET absorbed == {k \in Ledger!Vanished : into[k] = g}
                  parts == absorbed \cup ({g} \cap DOMAIN LedgerView)
                  gained == LedgerView'[g].seen \ Ledger!Seen(parts)
              IN  /\ \A k \in absorbed : \E o \in Ledger!Latest(LedgerView[k].seen) :
                        Fingerprint[o.shape] = g
                  /\ Ledger!Seen(parts) \subseteq LedgerView'[g].seen
                  /\ gained # {}
                  /\ \A o \in gained : /\ Ledger!IsOccurrence(o)
                                      /\ Fingerprint[o.shape] = g
                                      /\ o \notin Ledger!Seen(DOMAIN LedgerView)
                  /\ LedgerView'[g].status =
                        Ledger!StatusAfterRecurrence({LedgerView[k].status : k \in parts})
  <2> DEFINE absorbed == {k \in Ledger!Vanished : into[k] = g}
             parts == absorbed \cup ({g} \cap DOMAIN LedgerView)
             gained == LedgerView'[g].seen \ Ledger!Seen(parts)
  <2>1. /\ g \in DOMAIN d.issues /\ Recurred(b, d, g) /\ Collects(b, d, g)
    BY <1>4
  <2>2. absorbed = {k \in Merged(b, d) : GroupOf(b, k) = g}
    BY <1>7
  <2>3. parts = Parts(b, d, g)
    BY <1>5, <2>2 DEF Parts
  <2>4. parts \subseteq DOMAIN b.issues
    BY <1>4, <2>3 DEF Parts
  <2>5. ASSUME NEW k \in absorbed
        PROVE  \E o \in Ledger!Latest(LedgerView[k].seen) : Fingerprint[o.shape] = g
    <3>1. k \in DOMAIN b.issues /\ GroupOf(b, k) = g
      BY <1>4, <2>2
    <3>2. b.issues[k].lastEvent \in Ledger!Latest(b.issues[k].lineage)
      BY <1>1, <3>1, LastOfRow
    <3>3. LedgerView[k].seen = b.issues[k].lineage
      BY <1>5, <3>1
    <3> QED
      BY <3>1, <3>2, <3>3 DEF GroupOf
  <2> HIDE DEF absorbed, parts, into
  <2>6. Ledger!Seen(parts) = UNION {b.issues[k].lineage : k \in parts}
    <3>1. \A k \in parts : LedgerView[k].seen = b.issues[k].lineage
      BY <1>5, <2>4
    <3> QED
      BY <3>1 DEF Ledger!Seen
  <2>7. \A o : o \in Ledger!Seen(parts) <=> \E k \in Parts(b, d, g) : o \in b.issues[k].lineage
    BY <2>3, <2>6
  <2>8. LedgerView'[g].seen = d.issues[g].lineage /\ LedgerView'[g].status = d.issues[g].status
    BY <1>5, <2>1
  <2>9. Ledger!Seen(parts) \subseteq d.issues[g].lineage
    BY <2>1, <2>7 DEF Collects
  <2>10. gained # {}
    <3>1. PICK o \in d.issues[g].lineage : o.id > b.arrivals
      BY <2>1 DEF Recurred
    <3>2. o \notin Ledger!Seen(parts)
      BY <1>6, <2>3, <2>4, <2>7, <3>1
    <3> QED
      BY <2>8, <3>1, <3>2
  <2>11. ASSUME NEW o \in gained
         PROVE  /\ Ledger!IsOccurrence(o)
                /\ Fingerprint[o.shape] = g
                /\ o \notin Ledger!Seen(DOMAIN LedgerView)
    <3>1. o \in d.issues[g].lineage /\ o \notin Ledger!Seen(parts)
      BY <2>8
    <3>2. o.id > b.arrivals /\ Fingerprint[o.shape] = g
      BY <2>1, <2>7, <3>1 DEF Collects
    <3>3. Ledger!IsOccurrence(o)
      BY <1>1, <2>1, <3>1, SoundHistories, OccurrenceOfLedger
    <3>4. \A k \in DOMAIN b.issues : o \notin LedgerView[k].seen
      BY <1>5, <1>6, <3>2
    <3>5. o \notin Ledger!Seen(DOMAIN LedgerView)
      BY <1>5, <3>4 DEF Ledger!Seen
    <3> QED
      BY <3>2, <3>3, <3>5
  <2>12. LedgerView'[g].status =
            Ledger!StatusAfterRecurrence({LedgerView[k].status : k \in parts})
    <3>1. {LedgerView[k].status : k \in parts} = {b.issues[k].status : k \in Parts(b, d, g)}
      <4>1. \A k \in parts : LedgerView[k].status = b.issues[k].status
        BY <1>5, <2>4
      <4> QED
        BY <2>3, <4>1
    <3>2. d.issues[g].status =
             Collected({b.issues[k].status : k \in Parts(b, d, g)}, Recurred(b, d, g))
      BY <2>1 DEF Collects
    <3>3. \A S : Collected(S, Recurred(b, d, g)) = Ledger!StatusAfterRecurrence(S)
      BY <2>1 DEF Collected, Ledger!StatusAfterRecurrence
    <3> QED
      BY <2>8, <3>1, <3>2, <3>3
  <2> QED
    BY <2>5, <2>8, <2>9, <2>10, <2>11, <2>12 DEF absorbed, parts
<1>11. Ledger!Vanished \subseteq LegacyKey
  <2>1. DOMAIN b.issues \subseteq Key
    BY <1>1 DEF SoundDatabase, IsDatabase
  <2> QED
    BY <1>4, <1>7, <2>1 DEF Key
<1>12. \A k \in DOMAIN LedgerView' \ Ledger!Grown : LedgerView'[k] = LedgerView[k]
  <2> SUFFICES ASSUME NEW k \in DOMAIN d.issues \ BatchGroups(t)
               PROVE  LedgerView'[k] = LedgerView[k]
    BY <1>5, <1>8
  <2>1. k \in DOMAIN b.issues /\ d.issues[k] = b.issues[k]
    BY <1>4
  <2> QED
    BY <1>5, <2>1
<1>13. Ledger!Grown # {} /\ Ledger!Grown \subseteq Group
  BY <1>1, <1>3, <1>8
<1> HIDE DEF into
<1>14. \A g \in Ledger!Grown :
         LET absorbed == {k \in Ledger!Vanished : into[k] = g}
             parts == absorbed \cup ({g} \cap DOMAIN LedgerView)
             gained == LedgerView'[g].seen \ Ledger!Seen(parts)
         IN  /\ \A k \in absorbed : \E o \in Ledger!Latest(LedgerView[k].seen) :
                   Fingerprint[o.shape] = g
             /\ Ledger!Seen(parts) \subseteq LedgerView'[g].seen
             /\ gained # {}
             /\ \A o \in gained : /\ Ledger!IsOccurrence(o)
                                 /\ Fingerprint[o.shape] = g
                                 /\ o \notin Ledger!Seen(DOMAIN LedgerView)
             /\ LedgerView'[g].status =
                   Ledger!StatusAfterRecurrence({LedgerView[k].status : k \in parts})
  BY <1>8, <1>10
<1>15. Ledger!Gather
  BY <1>9, <1>11, <1>12, <1>13, <1>14 DEF Ledger!Gather
<1>16. Ledger!Seen(DOMAIN LedgerView) = Accepted(b)
  <2>1. \A k \in DOMAIN b.issues : LedgerView[k].seen = b.issues[k].lineage
    BY <1>5
  <2>2. Ledger!Seen(DOMAIN LedgerView) = UNION {LedgerView[k].seen : k \in DOMAIN b.issues}
    BY <1>5 DEF Ledger!Seen
  <2> QED
    BY <2>1, <2>2, Zenon DEF Accepted
<1>17. Ledger!Seen(DOMAIN LedgerView)' = Accepted(d)
  <2>1. \A k \in DOMAIN d.issues : LedgerView'[k].seen = d.issues[k].lineage
    BY <1>5
  <2>2. Ledger!Seen(DOMAIN LedgerView)' = UNION {LedgerView'[k].seen : k \in DOMAIN d.issues}
    BY <1>5 DEF Ledger!Seen
  <2> QED
    BY <2>1, <2>2, Zenon DEF Accepted
<1> DEFINE n == b.arrivals + 1
           batch == {Inserting(b, t, i) : i \in 1..Len(t.batch)}
<1>18. /\ b.arrivals \in Nat /\ Accepted(d) = Accepted(b) \cup batch
  BY <1>1 DEF WholeInv, Inserted, SoundDatabase, IsDatabase
<1>19. \A o \in Accepted(b) : o.id \in Nat /\ o.id < n
  BY <1>1, <1>6, <1>18, CommittedBefore DEF Accepted
<1>20. ASSUME NEW i \in 1..Len(t.batch)
       PROVE  /\ Inserting(b, t, i).id = b.arrivals + i
              /\ Inserting(b, t, i) = [id |-> n + i - 1, at |-> t.batch[i].at,
                                       shape |-> t.batch[i].shape]
  BY <1>2, <1>18 DEF Inserting
<1>21. \A o \in batch : o \notin Accepted(b)
  BY <1>2, <1>18, <1>19, <1>20
<1>22. Ledger!Fresh = batch
  BY <1>16, <1>17, <1>18, <1>21 DEF Ledger!Fresh
<1>23. batch = Ledger!Numbered(t.batch, n)
  <2>1. DOMAIN t.batch = 1..Len(t.batch)
    BY <1>1 DEF LedgerInv, IInv, TypeOK, Transaction, t
  <2> HIDE DEF n
  <2> QED
    BY <1>20, <2>1 DEF Ledger!Numbered
<1>24. n \in {o.id : o \in batch}
  <2>1. Inserting(b, t, 1) \in batch /\ Inserting(b, t, 1).id = n
    BY <1>2, <1>20
  <2> HIDE DEF n, batch
  <2> QED
    BY <2>1
<1> HIDE DEF n, batch
<1> QED
  BY <1>0, <1>15, <1>16, <1>19, <1>22, <1>23, <1>24 DEF Ledger!Record

\* One retention statement: the issues left were seen no earlier than those gone.
LEMMA RetentionRemoves ==
    ASSUME LedgerInv, NEW gone, gone \subseteq DOMAIN db.issues, Remove(gone),
           \A k \in gone, j \in DOMAIN db.issues \ gone :
              db.issues[k].last <= db.issues[j].last
    PROVE  Ledger!Remove
<1>1. SoundDatabase(db)
  BY DEF LedgerInv, IInv
<1>2. /\ DOMAIN db'.issues = DOMAIN db.issues \ gone
      /\ \A k \in DOMAIN db.issues \ gone : db'.issues[k] = db.issues[k]
  BY <1>1, DeleteSound DEF Remove
<1>3. /\ DOMAIN LedgerView = DOMAIN db.issues
      /\ DOMAIN LedgerView' = DOMAIN db.issues \ gone
      /\ \A k \in DOMAIN db.issues \ gone : LedgerView'[k] = LedgerView[k]
  BY <1>2 DEF LedgerView
<1>4. \A k \in DOMAIN db.issues : Ledger!LastSeen(LedgerView[k].seen) = db.issues[k].last
  BY <1>1, LastOfRow, LedgerRows
<1>5. Ledger!Vanished = gone
  BY <1>3 DEF Ledger!Vanished
<1>6. AskedView' = AskedView
  BY AskedAsBefore DEF Remove
<1> QED
  BY <1>3, <1>4, <1>5, <1>6 DEF Ledger!Remove

LEMMA PruneRemoves ==
    ASSUME LedgerInv, NEW cutoff \in Time, PruneIssues(cutoff)
    PROVE  Ledger!Remove
<1> DEFINE expired == {k \in DOMAIN db.issues : db.issues[k].last < cutoff}
<1>1. PICK gone : /\ gone \subseteq expired /\ Remove(gone)
                  /\ \A k \in gone, j \in expired \ gone :
                        db.issues[k].last <= db.issues[j].last
  BY DEF PruneIssues, OldestOf
<1>2. cutoff \in Nat /\ \A k \in DOMAIN db.issues : db.issues[k].last \in Nat
  BY LastOfRow, ConstantsAssumption DEF LedgerInv, IInv
<1>3. \A k \in gone, j \in DOMAIN db.issues \ gone : db.issues[k].last <= db.issues[j].last
  BY <1>1, <1>2
<1> QED
  BY <1>1, <1>3, RetentionRemoves

LEMMA LimitRemoves ==
    ASSUME LedgerInv, NEW limit, EnforceIssueLimit(limit)
    PROVE  Ledger!Remove
<1>1. PICK gone : /\ gone \subseteq DOMAIN db.issues /\ Remove(gone)
                  /\ \A k \in gone, j \in DOMAIN db.issues \ gone :
                        db.issues[k].last <= db.issues[j].last
  BY DEF EnforceIssueLimit, OldestOf
<1> QED
  BY <1>1, RetentionRemoves

\* Every step of the store is a step of the ledger or leaves it alone.
LEMMA LedgerSteps ==
    LedgerInv /\ NothingAskedIdle /\ [Next]_vars => [Ledger!Next]_(Ledger!vars)
<1> SUFFICES ASSUME LedgerInv, NothingAskedIdle, [Next]_vars
             PROVE  Ledger!Next \/ UNCHANGED Ledger!vars
  OBVIOUS
<1>1. ASSUME db' = db, \A w \in Writer : tx'[w].batch = tx[w].batch
      PROVE  UNCHANGED Ledger!vars
  BY <1>1, AskedAsBefore DEF LedgerView, Ledger!vars
<1>2. IInv /\ DOMAIN tx = Writer
  BY DEF LedgerInv, IInv, TypeOK
<1>3. ASSUME NEW w \in Writer, Begin(w) PROVE Ledger!Next \/ UNCHANGED Ledger!vars
  <2>1. ASSUME NEW batch \in Batches, BeginRecordBatch(w, batch) PROVE Ledger!Next
    BY <1>2, <2>1, BeginAsks DEF Ledger!Next
  <2>2. ASSUME NEW k, NEW status, BeginSetStatus(w, k, status)
        PROVE  UNCHANGED Ledger!vars
    <3>1. tx[w].batch = <<>> /\ db' = db
      BY <2>2 DEF BeginSetStatus, NothingAskedIdle
    <3>2. \A v \in Writer : tx'[v].batch = tx[v].batch
      BY <1>2, <2>2, <3>1 DEF BeginSetStatus, IdleTx
    <3> QED
      BY <1>1, <3>1, <3>2
  <2> QED
    BY <1>3, <2>1, <2>2 DEF Begin
<1>4. ASSUME NEW w \in Writer, Proceed(w) PROVE Ledger!Next \/ UNCHANGED Ledger!vars
  <2>1. CASE Commit(w)
    BY <2>1, CommitTriages, CommitRecords, ZenonT(60) DEF Ledger!Next
  <2>2. CASE Rollback(w)
    BY <1>2, <2>2, RollbackGivesUp DEF Ledger!Next
  <2>3. CASE MergeCandidate(w)
    BY <1>1, <2>3 DEF MergeCandidate
  <2>4. CASE NextMigration(w) \/ RecordEvent(w) \/ TrimTouched(w)
    <3>1. tx[w] \in Transaction /\ db' = db
      BY <2>4 DEF NextMigration, RecordEvent, TrimTouched, LedgerInv, IInv, TypeOK
    <3>2. \A v \in Writer : tx'[v].batch = tx[v].batch
      <4>1. CASE NextMigration(w)
        BY <1>2, <3>1, <4>1 DEF NextMigration, Transaction
      <4>2. CASE RecordEvent(w)
        BY <1>2, <3>1, <4>2 DEF RecordEvent, Transaction
      <4>3. CASE TrimTouched(w)
        BY <1>2, <3>1, <4>3 DEF TrimTouched, Transaction
      <4> QED
        BY <2>4, <4>1, <4>2, <4>3
    <3> QED
      BY <1>1, <3>1, <3>2
  <2> QED
    BY <1>4, <2>1, <2>2, <2>3, <2>4 DEF Proceed
<1>5. ASSUME NEW cutoff \in Time, PruneIssues(cutoff) PROVE Ledger!Next
  BY <1>5, PruneRemoves DEF Ledger!Next
<1>6. ASSUME NEW limit, EnforceIssueLimit(limit) PROVE Ledger!Next
  BY <1>6, LimitRemoves DEF Ledger!Next
<1>7. CASE Crash
  BY <1>7, CrashGivesUp DEF Ledger!Next
<1>8. CASE UNCHANGED vars
  BY <1>1, <1>8 DEF vars
<1> QED
  BY <1>3, <1>4, <1>5, <1>6, <1>7, <1>8 DEF Next

\* The SQLite store implements the ledger: statement by statement, with other
\* writers, rollbacks, retention and crashes in between, what is committed moves
\* by whole batches (RecordBatch commits every event its request asked for, each
\* once and in order, or none), single triage decisions and removals of the
\* oldest issues.
THEOREM StoreImplementsLedger == Spec => LedgerSpec
<1>1. Init => Ledger!Init
  BY LedgerStarts
<1>2. Init => NothingAskedIdle
  BY DEF Init, NothingAskedIdle, IdleTx
<1>3. LedgerInv /\ NothingAskedIdle /\ [Next]_vars => NothingAskedIdle'
  BY NothingAskedNext DEF LedgerInv
<1>4. LedgerInv /\ NothingAskedIdle /\ [Next]_vars => [Ledger!Next]_(Ledger!vars)
  BY LedgerSteps
<1> QED
  BY <1>1, <1>2, <1>3, <1>4, LedgerInvariant, PTL DEF Spec, LedgerSpec, Ledger!Spec
=============================================================================
