---------------------------- MODULE IssueLedger ----------------------------
(***************************************************************************)
(* What the issue store promises its callers, without tables, locks or     *)
(* transactions.  An issue is a triage status together with the set of     *)
(* occurrences recorded since it was created; everything else the API      *)
(* reports (lifetime count, first_seen, last_seen, retained history) is a  *)
(* function of that set.  Three things may happen to the ledger, each in   *)
(* one indivisible step: the batch a request asked for is recorded, an     *)
(* issue is triaged, or the least recently seen issues are removed.        *)
(*                                                                         *)
(* SQLiteStore, and MemoryStore under the handlers of Ingest, implement it *)
(* (see LedgerSpec there).                                                 *)
(***************************************************************************)
EXTENDS Naturals, FiniteSets, Sequences, Functions

CONSTANTS
    Group,        \* v2 fingerprints
    LegacyKey,    \* v1 fingerprints, still the keys of issues not migrated yet
    Shape,        \* what an event says: the fields the fingerprints read
    Fingerprint   \* [Shape -> Group]

VARIABLES
    ledger,   \* live key |-> [status, seen]
    asked     \* request |-> the batch it wants recorded: a sequence of [shape, at]

vars == <<ledger, asked>>

Status == {"open", "resolved", "ignored"}
Key == Group \cup LegacyKey

(***************************************************************************)
(* An occurrence is one accepted event: `id` is its place in the order of  *)
(* insertion, `at` the server time it was received.                        *)
(***************************************************************************)
Latest(seen) == {o \in seen : \A p \in seen : p.at <= o.at}
LastSeen(seen) == (CHOOSE o \in seen : o \in Latest(seen)).at

IsOccurrence(o) ==
    /\ DOMAIN o = {"id", "at", "shape"}
    /\ o.id \in Nat /\ o.at \in Nat /\ o.shape \in Shape

IsBatch(batch) ==
    /\ batch # <<>> /\ DOMAIN batch = 1..Len(batch)
    /\ \A i \in DOMAIN batch : batch[i].shape \in Shape /\ batch[i].at \in Nat

\* The occurrences of a batch whose first event is the n-th ever inserted.
Numbered(batch, n) ==
    {[id |-> n + i - 1, at |-> batch[i].at, shape |-> batch[i].shape] :
        i \in DOMAIN batch}

Init ==
    /\ asked = <<>>
    /\ DOMAIN ledger \subseteq Key
    /\ \A k \in DOMAIN ledger :
          /\ ledger[k].status \in Status
          /\ ledger[k].seen # {}
          /\ \A o \in ledger[k].seen : IsOccurrence(o)

(***************************************************************************)
(* A recurrence reopens a resolved issue and leaves an ignored one alone;  *)
(* the same holds when issues are merged.                                  *)
(***************************************************************************)
StatusAfterRecurrence(statuses) ==
    IF "ignored" \in statuses THEN "ignored" ELSE "open"

Seen(keys) == UNION {ledger[k].seen : k \in keys}
Vanished == DOMAIN ledger \ DOMAIN ledger'
Grown == {k \in DOMAIN ledger' :
            k \in DOMAIN ledger => ledger'[k].seen # ledger[k].seen}
Fresh == Seen(DOMAIN ledger)' \ Seen(DOMAIN ledger)

\* Requests ask for batches ...
Ask ==
    /\ DOMAIN asked \subseteq DOMAIN asked'
    /\ \A r \in DOMAIN asked' :
          IF r \in DOMAIN asked THEN asked'[r] = asked[r] ELSE IsBatch(asked'[r])
    /\ UNCHANGED ledger

\* ... or fail, with nothing recorded: an error, a cancelled context, a crash.
GiveUp ==
    /\ \E failed \in SUBSET DOMAIN asked :
          asked' = Restrict(asked, DOMAIN asked \ failed)
    /\ UNCHANGED ledger

(***************************************************************************)
(* The groups that grow gain occurrences of their own, absorb legacy       *)
(* issues of theirs, and lose nothing.                                     *)
(***************************************************************************)
Gather ==
    /\ Grown # {} /\ Grown \subseteq Group
    /\ Vanished \subseteq LegacyKey
    /\ \E into \in [Vanished -> Grown] :
          \A g \in Grown :
             LET absorbed == {k \in Vanished : into[k] = g}
                 parts == absorbed \cup ({g} \cap DOMAIN ledger)
                 gained == ledger'[g].seen \ Seen(parts)
             IN  /\ \A k \in absorbed : \E o \in Latest(ledger[k].seen) :
                       Fingerprint[o.shape] = g
                 /\ Seen(parts) \subseteq ledger'[g].seen
                 /\ gained # {}
                 /\ \A o \in gained : /\ IsOccurrence(o)
                                      /\ Fingerprint[o.shape] = g
                                      /\ o \notin Seen(DOMAIN ledger)
                 /\ ledger'[g].status =
                       StatusAfterRecurrence({ledger[k].status : k \in parts})
    /\ \A k \in DOMAIN ledger' \ Grown : ledger'[k] = ledger[k]

(***************************************************************************)
(* A whole batch is recorded and its request answered: what the groups     *)
(* gain is every event of that batch, each once, inserted in its order     *)
(* after all that was there, and nothing else.                             *)
(***************************************************************************)
Record(r) ==
    /\ r \in DOMAIN asked
    /\ Gather
    /\ \E n \in {o.id : o \in Fresh} :
          /\ Fresh = Numbered(asked[r], n)
          /\ \A o \in Seen(DOMAIN ledger) : o.id < n
    /\ asked' = Restrict(asked, DOMAIN asked \ {r})

SetStatus(k, status) ==
    /\ k \in DOMAIN ledger
    /\ ledger' = [ledger EXCEPT ![k].status = status]
    /\ UNCHANGED asked

(***************************************************************************)
(* Retention removes issues from the least recently seen end only.         *)
(***************************************************************************)
Remove ==
    /\ DOMAIN ledger' \subseteq DOMAIN ledger
    /\ \A k \in DOMAIN ledger' : ledger'[k] = ledger[k]
    /\ \A gone \in Vanished, kept \in DOMAIN ledger' :
          LastSeen(ledger[gone].seen) <= LastSeen(ledger[kept].seen)
    /\ UNCHANGED asked

Next ==
    \/ Ask \/ GiveUp
    \/ \E r \in DOMAIN asked : Record(r)
    \/ \E k \in Key, status \in Status : SetStatus(k, status)
    \/ Remove

Spec == Init /\ [][Next]_vars
=============================================================================
