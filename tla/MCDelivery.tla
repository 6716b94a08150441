----------------------------- MODULE MCDelivery -----------------------------
(***************************************************************************)
(* An instance of Delivery and of LoadTest for TLC: one collector that is  *)
(* either a page's or a load test's.  The first and the last event are one *)
(* group.                                                                  *)
(***************************************************************************)
EXTENDS Delivery, LoadTest, TLC

VARIABLE party   \* who posts

Page == {"page", "triaged page", "slow page"}

MCFingerprint == [id \in 1..MaxEvents |-> IF id = 2 THEN "g" ELSE "f"]
MCSymmetry == Permutations(Worker)

MCInit ==
    /\ DeliveryInit /\ LoadInit
    /\ party \in Page \cup {"load test"}
    /\ party \in Page => permits = Nil /\ DOMAIN worker = Worker   \* one of them will do

\* What varies is divided between three pages: the transport, the triage and
\* the clock of the first, second and third.
PageNext ==
    /\ DeliveryNext /\ UNCHANGED <<load, party>>
    /\ party = "page" \/ \A i \in DOMAIN calls' : calls'[i].by = "fetch"
    /\ party = "triaged page" \/ UNCHANGED triages
    /\ party = "slow page" \/ UNCHANGED now

MCNext ==
    \/ party \in Page /\ PageNext
    \/ party = "load test" /\ LoadNext /\ UNCHANGED <<client, party>>

MCSpec == MCInit /\ [][MCNext]_<<client, collector, load, party>>

\* The load test's report, when it is the load test that posts.
LoadReportIsComplete == party = "load test" => ReportIsComplete
=============================================================================
