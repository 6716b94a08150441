------------------------------ MODULE Delivery ------------------------------
(***************************************************************************)
(* The SDK's queue and retries (SDKClient), the default transport over a   *)
(* network that loses and delays, and the collector (Ingest).              *)
(*                                                                         *)
(* A POST leaves whenever SDKClient's `current` enters the "transport"     *)
(* phase.  The client then waits for its last call only: fetch tells it    *)
(* response.ok or rejects; sendBeacon says no more than that the browser   *)
(* took the batch.  A rejected fetch says nothing about the request, which *)
(* may be handled later, even after its own retry.                         *)
(***************************************************************************)
EXTENDS SDKClient, Ingest

CONSTANT Transports   \* what this page's browser may use: "fetch", "beacon"

ASSUME DeliveryAssumption ==
    /\ Transports \subseteq {"fetch", "beacon"}
    /\ 1..MaxEvents \subseteq DOMAIN Fingerprint   \* an event says its number

client == <<host, queue, reserved, jobs, current, timer, stopped, suspended, offered,
            sent, dropped, delivered, lost, reports>>

DeliveryInit == Init /\ CollectorInit

-----------------------------------------------------------------------------
LastCall == calls[Len(calls)]

\* defaultTransport posts the batch that enters "transport" in this step.
Post ==
    /\ IF current' # current /\ current'.phase = "transport"
       THEN \E by \in Transports : calls' = Append(calls, Request(current'.batch, by))
       ELSE UNCHANGED calls
    /\ UNCHANGED <<store, ingested, now, triages>>

\* Steps of the client that do not wait for the transport.  (Explicit flushes
\* and destroy() start deliveries like the timer's; SDKClient has them.)
ClientActs ==
    /\ Capture \/ TimerFires \/ StartJob \/ StartBatch \/ BackoffEnds \/ FinishJob
    /\ Post

\* What the transport resolves to: response.ok, or at once for a beacon.
AnyAnswer(call) ==                            \* mutant of Delivered
    call.stage \in {"accepted", "refused"} \/ call.by = "beacon"
Delivered(call) == call.stage = "accepted" \/ call.by = "beacon"

TransportAccepts ==
    /\ current.phase = "transport" /\ Delivered(LastCall)
    /\ AcceptBatch
    /\ UNCHANGED collector

\* The answer is not ok.
TransportRefuses ==
    /\ current.phase = "transport" /\ LastCall.stage = "refused" /\ LastCall.by = "fetch"
    /\ RetryBatch \/ DropBatch
    /\ UNCHANGED collector

\* fetch rejects: the connection broke before, during or after the handling.
FetchRejects ==
    /\ current.phase = "transport" /\ LastCall.by = "fetch"
    /\ RetryBatch \/ DropBatch
    /\ calls' = [calls EXCEPT ![Len(calls)].watched = FALSE]
    /\ UNCHANGED <<store, ingested, now, triages>>

CollectorActs == CollectorNext /\ UNCHANGED client

DeliveryNext == ClientActs \/ TransportAccepts \/ TransportRefuses \/ FetchRejects
                \/ CollectorActs

DeliverySpec == DeliveryInit /\ [][DeliveryNext]_<<client, collector>>
-----------------------------------------------------------------------------
Carrying(id) == {i \in DOMAIN calls : id \in Range(calls[i].batch)}
Recorded(id) == {o \in Occurrences : o.shape = id}

\* stats.sent counts what the collector has: an event whose fetch was accepted
\* is in the store.  A batch handed to sendBeacon may be lost unnoticed.
SentIsRecorded ==
    \A id \in Range(delivered) :
        Recorded(id) # {} \/ \E i \in Carrying(id) : calls[i].by = "beacon"

\* Delivery is at least once, and only a lost answer makes it more: an event is
\* recorded once when its batch was accepted, not at all when the client gave
\* it up, and beyond that once at most for each call whose answer was lost.
OnlyLostAnswersMislead ==
    \A id \in 1..offered :
        Cardinality(Recorded(id)) <=
            Cardinality({i \in Carrying(id) : calls[i].by = "fetch" /\ ~calls[i].watched})
            + (IF id \in lost THEN 0 ELSE 1)
=============================================================================
