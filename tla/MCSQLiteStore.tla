--------------------------- MODULE MCSQLiteStore ---------------------------
(***************************************************************************)
(* Instances of SQLiteStore for TLC.  Shapes a1 and a2 are one v2 group    *)
(* under two v1 keys (a cache-busted frame URL); b is another group whose  *)
(* v1 key is that of a1 (the fields differ in where a NUL separates them). *)
(***************************************************************************)
EXTENDS SQLiteStore, TLC

MCShape == {"a1", "a2", "b"}
MCGroup == {"A", "B"}
MCLegacyKey == {"ka", "kb"}
MCFingerprint == [s \in MCShape |-> IF s = "b" THEN "B" ELSE "A"]
MCLegacyFingerprint ==
    [s \in MCShape |-> IF s = "a2" THEN "kb" ELSE "ka"]
MCColumns == [s \in MCShape |-> IF s = "b" THEN "cb" ELSE "ca"]

Occ(id, at, shape) == [id |-> id, at |-> at, shape |-> shape]
V1Row(columns, status, seen, last) ==
    [version |-> 1, columns |-> columns, status |-> status,
     occurrences |-> Cardinality(seen),
     first |-> CHOOSE t \in {o.at : o \in seen} : \A o \in seen : t <= o.at,
     last |-> last.at, lastEvent |-> last, lineage |-> seen]

\* Occurrence 1 is the one from before event history; here it never happened.
Fresh == [issues |-> <<>>, events |-> {}, arrivals |-> 1]

\* Two v1 keys of one group: "ka" counts an occurrence of `first` from before
\* event history existed, "kb" has been triaged.
Upgraded(first, kbStatus) ==
    LET o1 == Occ(1, 1, first)  o2 == Occ(2, 2, "a1")  o3 == Occ(3, 2, "a2")
    IN  [issues |-> "ka" :> V1Row(MCColumns[first], "open", {o1, o2}, o2)
                 @@ "kb" :> V1Row("ca", kbStatus, {o3}, o3),
         events |-> {[seq |-> 1, key |-> "ka", event |-> o2],
                     [seq |-> 2, key |-> "kb", event |-> o3]},
         arrivals |-> 3]

\* In the last one events of two groups collided under "ka".
MCSeeds == {Fresh, Upgraded("a1", "resolved"), Upgraded("a1", "ignored"),
            Upgraded("b", "ignored")}
SeedPreHistory == {1}
=============================================================================
