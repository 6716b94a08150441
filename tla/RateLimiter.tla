---------------------------- MODULE RateLimiter ----------------------------
(***************************************************************************)
(* internal/server/ratelimit.go: one token bucket per direct peer, in a    *)
(* bounded map with an overflow bucket shared by the peers that do not fit *)
(* and a sweep that forgets idle peers.                                    *)
(*                                                                         *)
(* AllowN reads the clock before it takes the mutex, so requests may enter *)
(* the critical section with readings up to MaxStall old and out of order. *)
(* Time counts in ticks and a bucket earns the whole number Rate per tick; *)
(* the code's float64 tokens are abstracted to that lattice.               *)
(*                                                                         *)
(* A window opens at any moment; `granted` counts what each bucket handed  *)
(* out since then and `forgotten` how often the sweep removed it.  All     *)
(* three are history variables.                                            *)
(***************************************************************************)
EXTENDS Integers, FiniteSets, Functions

CONSTANTS
    Client,         \* direct peers
    Request,        \* requests in flight at the same time
    None,           \* no request
    Overflow,       \* the name of the shared bucket
    Burst,          \* limiter.burst
    Weight,         \* what requests ask for: one, or a token per event
    Rate,           \* tokens a bucket earns per tick
    MaxClients,     \* limiter.maxClients
    TTL,            \* rateLimitClientTTL
    SweepInterval,  \* time.Minute
    MaxStall,       \* bound: ticks between reading the clock and the mutex
    MaxTime         \* bound: ticks

ASSUME ConstantsAssumption ==
    /\ Burst \in Nat \ {0} /\ Rate \in Nat \ {0}
    /\ Weight \subseteq 1..Burst
    /\ MaxClients \in Nat \ {0}
    /\ TTL \in Nat \ {0} /\ SweepInterval \in Nat
    /\ MaxStall \in Nat /\ MaxTime \in Nat
    /\ Overflow \notin Client
    /\ None \notin [client : Client, tokens : Weight, at : Int]

VARIABLES
    now,        \* the clock
    waiting,    \* requests that have read the clock and want the mutex
    buckets,    \* limiter.buckets and, once ready, limiter.overflow
    lastSweep,  \* limiter.lastSweepTime
    since,      \* when the window opened
    granted,    \* tokens granted per bucket since then
    forgotten   \* times the sweep forgot a bucket since then

vars == <<now, waiting, buckets, lastSweep, since, granted, forgotten>>

Never == -1
Bucket == Client \cup {Overflow}
Uncapped(a, b) == b                           \* mutant of Min2
Min2(a, b) == IF a < b THEN a ELSE b

\* The buckets in the map; the overflow bucket is a field of its own.
Mapped(b) == DOMAIN b \ {Overflow}

Init ==
    /\ now = 0
    /\ waiting = [r \in Request |-> None]
    /\ buckets = <<>>
    /\ lastSweep = Never
    /\ since = 0
    /\ granted = [b \in Bucket |-> 0]
    /\ forgotten = [b \in Bucket |-> 0]

Tick ==
    /\ now < MaxTime
    /\ \A r \in Request : waiting[r] # None => now - waiting[r].at < MaxStall
    /\ now' = now + 1
    /\ UNCHANGED <<waiting, buckets, lastSweep, since, granted, forgotten>>

\* AllowN up to limiter.now().  A weight above the burst is refused for good
\* before this point and changes nothing.
Arrive(r, client, tokens) ==
    /\ waiting[r] = None
    /\ waiting' = [waiting EXCEPT ![r] =
                      [client |-> client, tokens |-> tokens, at |-> now]]
    /\ UNCHANGED <<now, buckets, lastSweep, since, granted, forgotten>>

SweepDue(at) == lastSweep = Never \/ at - lastSweep >= SweepInterval

\* The map after the sweep a request with reading `at` performs, if it is due.
SweptEarly(at) ==                             \* mutant: idle for one interval
    IF SweepDue(at)
    THEN Restrict(buckets, {b \in DOMAIN buckets :
                              b = Overflow \/ at - buckets[b].lastSeen < SweepInterval})
    ELSE buckets
Swept(at) ==
    IF SweepDue(at)
    THEN Restrict(buckets, {b \in DOMAIN buckets :
                              b = Overflow \/ at - buckets[b].lastSeen < TTL})
    ELSE buckets

\* The bucket a client is charged to: its own, or the shared one when it has
\* none and the map is full.
ChargedTo(map, client) ==
    IF client \notin DOMAIN map /\ Cardinality(Mapped(map)) >= MaxClients
    THEN Overflow ELSE client

\* A bucket brought up to the reading `at`; a new one starts full.
Refilled(map, b, at) ==
    IF b \notin DOMAIN map
    THEN [tokens |-> Burst, updated |-> at, lastSeen |-> at]
    ELSE LET old == map[b] IN
         IF at > old.updated
         THEN [tokens |-> Min2(Burst, old.tokens + Rate * (at - old.updated)),
               updated |-> at, lastSeen |-> at]
         ELSE [tokens |-> old.tokens, updated |-> old.updated, lastSeen |-> at]

\* storeBucket: the map with b brought to `bucket`.
Stored(map, b, bucket) ==
    [c \in DOMAIN map \cup {b} |-> IF c = b THEN bucket ELSE map[c]]

Spend(bucket, cost) ==
    [tokens |-> bucket.tokens - cost, updated |-> bucket.updated,
     lastSeen |-> bucket.lastSeen]

\* The critical section of AllowN.
Decide(r) ==
    LET call == waiting[r]
        map == Swept(call.at)
        b == ChargedTo(map, call.client)
        bucket == Refilled(map, b, call.at)
        cost == IF bucket.tokens >= call.tokens THEN call.tokens ELSE 0
    IN  /\ waiting[r] # None
        /\ waiting' = [waiting EXCEPT ![r] = None]
        /\ lastSweep' = IF SweepDue(call.at) THEN call.at ELSE lastSweep
        /\ buckets' = Stored(map, b, Spend(bucket, cost))
        /\ granted' = [granted EXCEPT ![b] = @ + cost]
        /\ forgotten' = [c \in Bucket |->
                           IF c \in DOMAIN buckets \ DOMAIN map
                           THEN forgotten[c] + 1 ELSE forgotten[c]]
        /\ UNCHANGED <<now, since>>

\* Start counting afresh.
OpenWindow ==
    /\ since' = now
    /\ granted' = [b \in Bucket |-> 0]
    /\ forgotten' = [b \in Bucket |-> 0]
    /\ UNCHANGED <<now, waiting, buckets, lastSweep>>

Next ==
    \/ Tick
    \/ \E r \in Request, client \in Client, tokens \in Weight :
          Arrive(r, client, tokens)
    \/ \E r \in Request : Decide(r)
    \/ OpenWindow

Spec == Init /\ [][Next]_vars
-----------------------------------------------------------------------------
Call == [client : Client, tokens : Weight, at : 0..now]
BucketRecord == [tokens : 0..Burst, updated : 0..now, lastSeen : 0..now]

\* Every variable has its type: tokens stay between none and a burst, and no
\* bucket, request or sweep is stamped with a time that is still to come.
TypeOK ==
    /\ now \in Nat /\ since \in 0..now
    /\ lastSweep \in 0..now \cup {Never}
    /\ waiting \in [Request -> Call \cup {None}]
    /\ DOMAIN buckets \subseteq Bucket
    /\ \A b \in DOMAIN buckets : buckets[b] \in BucketRecord
    /\ granted \in [Bucket -> Nat] /\ forgotten \in [Bucket -> Nat]

\* "The map is bounded so unique-source floods cannot grow memory".
MapBounded == Cardinality(Mapped(buckets)) <= MaxClients

\* What forgetting an idle bucket gives away: the part of the burst that its
\* idle time, stalls at either end excepted, has not earned.  Nothing with the
\* defaults; but config.go:90-94 accepts a burst of any size.
GivenAway ==
    LET earned == Rate * (TTL - 2 * MaxStall)
    IN  IF Burst > earned THEN Burst - earned ELSE 0

\* Over any window, a bucket grants at most a burst, what it earned in the
\* window (stalled readings included) and GivenAway for each time the sweep
\* forgot it (ratelimit.go:77-81); and the sweep forgets it at most once per
\* idle time.  Where GivenAway is 0 this is README.md:347-348, "tokens refilled
\* per minute per direct peer" and "Maximum burst"; elsewhere that promise is
\* exceeded, by no more than this.
GrantsBounded ==
    \A b \in Bucket :
       /\ granted[b] <= Burst + Rate * (now - since + MaxStall)
                          + GivenAway * forgotten[b]
       /\ forgotten[b] # 0 => (forgotten[b] - 1) * (TTL - MaxStall) <= now - since
=============================================================================
