------------------------- MODULE RateLimiter_proofs -------------------------
(***************************************************************************)
(* The rate limiter for every number of peers and requests, every burst,   *)
(* rate, map size and sweep interval, and every bounded stall.             *)
(*                                                                         *)
(* The argument for the bound on grants: within the window a bucket's      *)
(* tokens and what it has granted add up to at most a burst, what it       *)
(* earned and what forgetting it gave away; and a bucket the sweep forgets *)
(* has earned its burst back but for GivenAway.                            *)
(***************************************************************************)
EXTENDS RateLimiter, FiniteSetTheorems, TLAPS

-----------------------------------------------------------------------------
(* Tokens earned in a number of ticks.                                     *)

Earned(ticks) == Rate * ticks

\* Earnings are integers, add up over intervals and grow with them.
LEMMA EarnedFacts ==
    /\ \A x \in Int : Earned(x) \in Int
    /\ \A x, y, z \in Int : z = x + y => Earned(z) = Earned(x) + Earned(y)
    /\ \A x, y \in Int : x <= y => Earned(x) <= Earned(y)
    /\ Earned(0) = 0
<1>1. Rate \in Nat
  BY ConstantsAssumption
<1>2. \A x \in Int : Earned(x) \in Int
  BY <1>1 DEF Earned
<1>3. \A x, y, z \in Int : z = x + y => Earned(z) = Earned(x) + Earned(y)
  BY <1>1 DEF Earned
<1>4. ASSUME NEW n \in Nat PROVE Earned(n) >= 0
  BY <1>1 DEF Earned
<1>5. ASSUME NEW x \in Int, NEW y \in Int, x <= y PROVE Earned(x) <= Earned(y)
  <2>1. y - x \in Nat /\ y - x \in Int /\ y = x + (y - x)
    BY <1>5
  <2>2. Earned(y) = Earned(x) + Earned(y - x)
    BY <1>3, <2>1
  <2> QED
    BY <1>2, <1>4, <2>1, <2>2
<1>6. Earned(0) = 0
  BY <1>1 DEF Earned
<1> QED
  BY <1>2, <1>3, <1>5, <1>6

\* Nothing is earned in negative amounts.
LEMMA EarnedIsNat == \A n \in Nat : Earned(n) \in Nat
  BY EarnedFacts

-----------------------------------------------------------------------------
(* The invariant.                                                          *)

\* Requests that wait for the mutex have read the clock at most MaxStall ago.
ReadingsRecent ==
    \A r \in Request : waiting[r] # None => waiting[r].at >= now - MaxStall

\* A bucket was refilled and seen by requests that had read the clock then.
StampsSound(bucket) ==
    /\ bucket.updated <= now /\ bucket.lastSeen <= now
    /\ bucket.updated <= bucket.lastSeen + MaxStall

\* What forgetting a bucket so many times gave away.
Gift(times) == GivenAway * times

\* Tokens left and tokens granted in the window share one allowance.
Balanced(bucket, spent, times) ==
    \/ spent = 0
    \/ /\ bucket.updated + MaxStall >= since
       /\ spent + bucket.tokens <=
             Burst + Earned(bucket.updated + MaxStall - since) + Gift(times)

\* The earliest moment at which a bucket can have been forgotten so often.
Apart == TTL - MaxStall
ForgottenBy(times) == since + (times - 1) * Apart

\* What holds whatever the burst is: types, stamps and the bound on the map.
MapInv ==
    /\ TypeOK
    /\ ReadingsRecent
    /\ IsFiniteSet(DOMAIN buckets) /\ MapBounded
    /\ \A b \in DOMAIN buckets : StampsSound(buckets[b])

\* What bounds the grants, of buckets in the map and of those that are not.
BalanceInv ==
    /\ \A b \in DOMAIN buckets : Balanced(buckets[b], granted[b], forgotten[b])
    /\ \A b \in Bucket \ DOMAIN buckets :
          granted[b] <= Earned(now - since) + Gift(forgotten[b])

\* What bounds the number of times a bucket is forgotten: a whole idle time,
\* but for one stall, passes from one to the next.
IdleInv ==
    \A b \in Bucket :
       forgotten[b] # 0 =>
          /\ now >= ForgottenBy(forgotten[b])
          /\ b \in DOMAIN buckets =>
                buckets[b].lastSeen + MaxStall >= ForgottenBy(forgotten[b])

IInv == MapInv /\ BalanceInv /\ IdleInv

\* A whole idle period earns a burst, stalls included.
IdleRefillsBurst == Burst <= Rate * (TTL - 2 * MaxStall)

\* Gifts are natural numbers, and each time adds one.
LEMMA GiftFacts ==
    /\ GivenAway \in Nat
    /\ \A n \in Nat : Gift(n) \in Nat /\ Gift(n + 1) = Gift(n) + GivenAway
    /\ Gift(0) = 0
<1>1. /\ Burst \in Nat
      /\ TTL - 2 * MaxStall \in Int
  BY ConstantsAssumption
<1>2. Rate * (TTL - 2 * MaxStall) \in Int
  BY <1>1, EarnedFacts DEF Earned
<1>3. GivenAway \in Nat
  BY <1>1, <1>2 DEF GivenAway
<1> QED
  BY <1>3 DEF Gift

\* An idle time, stalls excepted, earns a burst but for the gift.
LEMMA IdleEarns == Burst <= Earned(TTL - 2 * MaxStall) + GivenAway
<1>1. Earned(TTL - 2 * MaxStall) \in Int /\ Burst \in Nat
  <2>1. TTL - 2 * MaxStall \in Int /\ Burst \in Nat
    BY ConstantsAssumption
  <2> QED
    BY <2>1, EarnedFacts
<1> QED
  BY <1>1 DEF GivenAway, Earned

\* Each time adds one distance between two idle times.
LEMMA ForgottenByFacts ==
    ASSUME since \in Nat
    PROVE  /\ Apart \in Int
           /\ ForgottenBy(1) = since
           /\ \A n \in Nat : /\ ForgottenBy(n) \in Int
                            /\ ForgottenBy(n + 1) = ForgottenBy(n) + Apart
<1>1. Apart \in Int
  BY ConstantsAssumption DEF Apart
<1>2. ASSUME NEW n \in Nat
      PROVE  /\ ForgottenBy(n) \in Int
             /\ ForgottenBy(n + 1) = ForgottenBy(n) + Apart
  <2>1. (n - 1) * Apart \in Int /\ n * Apart = (n - 1) * Apart + Apart
    BY <1>1
  <2>2. ForgottenBy(n + 1) = since + n * Apart
    BY DEF ForgottenBy
  <2> QED
    BY <1>1, <2>1, <2>2 DEF ForgottenBy
<1>3. ForgottenBy(1) = since
  BY <1>1 DEF ForgottenBy
<1> QED
  BY <1>1, <1>2, <1>3

\* An empty map bounds nothing and has granted nothing.
LEMMA InitInvariant == Init => IInv
<1> SUFFICES ASSUME Init PROVE IInv
  OBVIOUS
<1> USE ConstantsAssumption DEF Init
<1>1. DOMAIN buckets = {} /\ Mapped(buckets) = {}
  BY DEF Mapped
<1>2. TypeOK
  BY <1>1 DEF TypeOK, Never
<1>3. IsFiniteSet(DOMAIN buckets) /\ Cardinality(Mapped(buckets)) = 0
  <2>1. IsFiniteSet({}) /\ Cardinality({}) = 0
    BY FS_EmptySet
  <2> QED
    BY ONLY <1>1, <2>1
<1>4. \A b \in Bucket : granted[b] <= Earned(now - since) + Gift(forgotten[b])
  BY EarnedFacts, GiftFacts
<1> QED
  BY <1>1, <1>2, <1>3, <1>4
     DEF IInv, MapInv, BalanceInv, IdleInv, ReadingsRecent, MapBounded

-----------------------------------------------------------------------------
(* The critical section, in the order the code runs it.                    *)

\* The sweep only removes buckets, and only those idle for TTL.
LEMMA SweepRemoves ==
    ASSUME NEW at
    PROVE  /\ DOMAIN Swept(at) \subseteq DOMAIN buckets
           /\ \A b \in DOMAIN Swept(at) : Swept(at)[b] = buckets[b]
           /\ \A b \in DOMAIN buckets \ DOMAIN Swept(at) :
                 b # Overflow /\ ~(at - buckets[b].lastSeen < TTL)
  BY DEF Swept, Restrict

\* A bucket forgotten after an idle period has granted no more than it earned
\* and was given, this time included.
LEMMA ForgottenIsPaid ==
    ASSUME IInv, NEW b \in DOMAIN buckets, NEW at \in 0..now,
           ~(at - buckets[b].lastSeen < TTL)
    PROVE  granted[b] <= Earned(now - since) + Gift(forgotten[b] + 1)
<1> DEFINE old == buckets[b]
<1>1. /\ old \in BucketRecord /\ granted[b] \in Nat /\ forgotten[b] \in Nat
      /\ now \in Nat /\ since \in Nat /\ since <= now /\ at \in Nat /\ at <= now
      /\ MaxStall \in Nat /\ TTL \in Nat /\ Burst \in Nat
  BY ConstantsAssumption DEF IInv, MapInv, TypeOK, Bucket
<1>2. old.updated \in Nat /\ old.lastSeen \in Nat /\ old.tokens \in Nat
  BY <1>1 DEF BucketRecord
<1>3. StampsSound(old) /\ Balanced(old, granted[b], forgotten[b])
  BY DEF IInv, MapInv, BalanceInv
<1>4. old.updated <= now - TTL + MaxStall
  BY <1>1, <1>2, <1>3 DEF StampsSound
<1>5. /\ Earned(now - since) \in Nat /\ Gift(forgotten[b]) \in Nat
      /\ Gift(forgotten[b] + 1) = Gift(forgotten[b]) + GivenAway
      /\ GivenAway \in Nat
  BY <1>1, EarnedIsNat, GiftFacts
<1>6. CASE granted[b] = 0
  BY <1>5, <1>6
<1>7. CASE granted[b] # 0
  <2> DEFINE used == old.updated + MaxStall - since
             idle == TTL - 2 * MaxStall
             whole == now - since
             kept == whole - idle
  <2>1. /\ used \in Int /\ idle \in Int /\ whole \in Int /\ kept \in Int
        /\ used <= kept /\ whole = kept + idle
    BY <1>1, <1>2, <1>4
  <2>2. granted[b] + old.tokens <= Burst + Earned(used) + Gift(forgotten[b])
    BY <1>3, <1>7 DEF Balanced
  <2>3. Earned(used) <= Earned(kept)
    BY <2>1, EarnedFacts
  <2>4. Earned(whole) = Earned(kept) + Earned(idle)
    BY <2>1, EarnedFacts
  <2>5. {Earned(used), Earned(kept), Earned(idle)} \subseteq Int
    BY <2>1, EarnedFacts
  <2>6. Burst <= Earned(idle) + GivenAway
    BY IdleEarns
  <2>7. granted[b] <= Earned(whole) + Gift(forgotten[b] + 1)
    <3> HIDE DEF old, used, idle, whole, kept
    <3> QED
      BY <1>1, <1>2, <1>5, <2>2, <2>3, <2>4, <2>5, <2>6
  <2> QED
    BY <2>7
<1> QED
  BY <1>6, <1>7

\* The number of times a bucket has been forgotten once the sweep is done.
Counted(b, map) ==
    IF b \in DOMAIN buckets \ DOMAIN map THEN forgotten[b] + 1 ELSE forgotten[b]

\* A bucket the sweep forgets has been idle since it was forgotten before.
LEMMA ForgottenIsIdle ==
    ASSUME IInv, NEW b \in DOMAIN buckets, NEW at \in 0..now,
           ~(at - buckets[b].lastSeen < TTL)
    PROVE  now >= ForgottenBy(forgotten[b] + 1)
<1>1. /\ b \in Bucket /\ forgotten[b] \in Nat /\ buckets[b].lastSeen \in Nat
      /\ now \in Nat /\ since \in Nat /\ since <= now /\ at \in Nat /\ at <= now
      /\ MaxStall \in Nat /\ TTL \in Nat
  BY ConstantsAssumption DEF IInv, MapInv, TypeOK, BucketRecord
<1>2. CASE forgotten[b] = 0
  BY <1>1, <1>2, ForgottenByFacts
<1>3. CASE forgotten[b] # 0
  <2>1. buckets[b].lastSeen + MaxStall >= ForgottenBy(forgotten[b])
    BY <1>1, <1>3 DEF IInv, IdleInv
  <2>2. /\ ForgottenBy(forgotten[b]) \in Int
        /\ ForgottenBy(forgotten[b] + 1) = ForgottenBy(forgotten[b]) + Apart
    BY <1>1, ForgottenByFacts
  <2> QED
    BY <1>1, <2>1, <2>2 DEF Apart
<1> QED
  BY <1>2, <1>3

\* The bucket a request is charged to, brought up to its reading.
Current(bucket) ==
    /\ bucket \in BucketRecord
    /\ StampsSound(bucket)
    /\ bucket.updated + MaxStall >= since

Allowance(bucket, times) ==
    Burst + Earned(bucket.updated + MaxStall - since) + Gift(times)

\* Numbers a request in the critical section works with.
LEMMA ClockFacts ==
    ASSUME MapInv, NEW at \in 0..now, at >= now - MaxStall
    PROVE  /\ now \in Nat /\ since \in Nat /\ since <= now /\ at \in Nat /\ at <= now
           /\ MaxStall \in Nat /\ TTL \in Nat /\ Burst \in Nat /\ Rate \in Nat
           /\ at + MaxStall - since \in Nat
  BY ConstantsAssumption DEF MapInv, TypeOK

\* A stored bucket has the types and stamps of the invariant.
LEMMA StoredBucket ==
    ASSUME MapInv, NEW b \in DOMAIN buckets
    PROVE  /\ buckets[b] \in BucketRecord /\ StampsSound(buckets[b])
           /\ buckets[b].updated \in Nat /\ buckets[b].lastSeen \in Nat
           /\ buckets[b].updated \in 0..now /\ buckets[b].lastSeen \in 0..now
           /\ buckets[b].tokens \in 0..Burst
  BY DEF MapInv, TypeOK, BucketRecord

\* A bucket is brought up to date from whichever state it was in.
LEMMA RefillIsCurrent ==
    ASSUME MapInv, NEW map, NEW b \in Bucket, NEW at \in 0..now, at >= now - MaxStall,
           b \in DOMAIN map => b \in DOMAIN buckets /\ map[b] = buckets[b]
    PROVE  Current(Refilled(map, b, at))
<1> DEFINE bucket == Refilled(map, b, at)
           old == buckets[b]
<1>1. CASE b \notin DOMAIN map
  <2>1. bucket = [tokens |-> Burst, updated |-> at, lastSeen |-> at]
    BY <1>1 DEF Refilled
  <2> QED
    BY <2>1, ClockFacts DEF Current, BucketRecord, StampsSound
<1>2. CASE b \in DOMAIN map /\ at > map[b].updated
  <2> DEFINE sum == old.tokens + Rate * (at - old.updated)
  <2>1. bucket = [tokens |-> Min2(Burst, sum), updated |-> at, lastSeen |-> at]
    BY <1>2 DEF Refilled
  <2>2. at - old.updated \in Nat
    BY <1>2, ClockFacts, StoredBucket
  <2>3. sum \in Nat
    <3>1. Earned(at - old.updated) \in Nat
      BY <2>2, EarnedIsNat
    <3> QED
      BY <1>2, <3>1, ClockFacts, StoredBucket DEF Earned
  <2>4. Min2(Burst, sum) \in 0..Burst
    BY <2>3, ClockFacts DEF Min2
  <2> QED
    BY <2>1, <2>4, ClockFacts DEF Current, BucketRecord, StampsSound
<1>3. CASE b \in DOMAIN map /\ ~(at > map[b].updated)
  <2>1. bucket = [tokens |-> old.tokens, updated |-> old.updated, lastSeen |-> at]
    BY <1>3 DEF Refilled
  <2> QED
    BY <1>3, <2>1, ClockFacts, StoredBucket DEF Current, BucketRecord, StampsSound
<1> QED
  BY <1>1, <1>2, <1>3

\* Bringing it up to date keeps it within its allowance, whether it was there,
\* forgotten or never seen.
LEMMA RefillBalances ==
    ASSUME IInv, NEW map, NEW b \in Bucket, NEW at \in 0..now, at >= now - MaxStall,
           b \in DOMAIN map => b \in DOMAIN buckets /\ map[b] = buckets[b],
           NEW times \in Nat, times = Counted(b, map),
           b \notin DOMAIN map => granted[b] <= Earned(now - since) + Gift(times)
    PROVE  granted[b] + Refilled(map, b, at).tokens
              <= Allowance(Refilled(map, b, at), times)
<1> DEFINE bucket == Refilled(map, b, at)
           old == buckets[b]
           span == at + MaxStall - since
           gift == Gift(times)
<1>1. MapInv /\ granted[b] \in Nat
  BY DEF IInv, MapInv, TypeOK
<1>2. span \in Nat /\ Earned(span) \in Nat /\ gift \in Nat
  BY <1>1, ClockFacts, EarnedIsNat, GiftFacts
<1>0. b \in DOMAIN map => times = forgotten[b]
  BY DEF Counted
<1>3. CASE b \notin DOMAIN map
  <2>1. bucket = [tokens |-> Burst, updated |-> at, lastSeen |-> at]
    BY <1>3 DEF Refilled
  <2>2. now - since \in Int /\ span \in Int /\ now - since <= span
    BY <1>1, ClockFacts
  <2>3. Earned(now - since) <= Earned(span) /\ Earned(now - since) \in Int
    BY <2>2, EarnedFacts
  <2>4. granted[b] + Burst <= Burst + Earned(span) + gift
    BY <1>1, <1>2, <1>3, <2>3, ClockFacts
  <2> QED
    BY <2>1, <2>4 DEF Allowance
<1>4. CASE b \in DOMAIN map /\ at > map[b].updated
  <2> DEFINE ticks == at - old.updated
             used == old.updated + MaxStall - since
             sum == old.tokens + Rate * ticks
  <2>1. bucket = [tokens |-> Min2(Burst, sum), updated |-> at, lastSeen |-> at]
    BY <1>4 DEF Refilled
  <2>2. ticks \in Nat /\ used \in Int /\ span = used + ticks /\ old.tokens \in Nat
    BY <1>1, <1>4, ClockFacts, StoredBucket
  <2>3. Earned(ticks) \in Nat /\ Earned(used) \in Int
        /\ Earned(span) = Earned(used) + Earned(ticks)
    <3>1. ticks \in Int /\ span \in Int
      BY <1>2, <2>2
    <3> QED
      BY <2>2, <3>1, EarnedFacts, EarnedIsNat
  <2>4. sum = old.tokens + Earned(ticks)
    BY DEF Earned
  <2>5. Min2(Burst, sum) \in Nat /\ Min2(Burst, sum) <= Burst /\ Min2(Burst, sum) <= sum
    BY <1>1, <2>2, <2>3, <2>4, ClockFacts DEF Min2
  <2>6. granted[b] + Min2(Burst, sum) <= Burst + Earned(span) + gift
    <3>1. CASE granted[b] = 0
      BY <1>1, <1>2, <2>5, <3>1, ClockFacts
    <3>2. CASE granted[b] # 0
      <4>1. granted[b] + old.tokens <= Burst + Earned(used) + gift
        BY <1>0, <1>4, <3>2 DEF IInv, BalanceInv, Balanced
      <4>2. Burst \in Nat
        BY <1>1, ClockFacts
      <4> HIDE DEF old, ticks, used, sum, span, gift
      <4> QED
        BY <1>1, <1>2, <2>2, <2>3, <2>4, <2>5, <4>1, <4>2
    <3> QED
      BY <3>1, <3>2
  <2> QED
    BY <2>1, <2>6 DEF Allowance
<1>5. CASE b \in DOMAIN map /\ ~(at > map[b].updated)
  <2> DEFINE used == old.updated + MaxStall - since
  <2>1. bucket = [tokens |-> old.tokens, updated |-> old.updated, lastSeen |-> at]
    BY <1>5 DEF Refilled
  <2>2. used \in Nat /\ Earned(used) \in Nat
    BY <1>1, <1>5, ClockFacts, StoredBucket, EarnedIsNat
  <2>3. granted[b] + old.tokens <= Burst + Earned(used) + gift
    BY <1>0, <1>1, <1>2, <1>5, <2>2, ClockFacts, StoredBucket
       DEF IInv, BalanceInv, Balanced
  <2> QED
    BY <2>1, <2>3 DEF Allowance
<1> QED
  BY <1>3, <1>4, <1>5

-----------------------------------------------------------------------------
(* The critical section as a whole.                                        *)

\* A request in the critical section: its call, and the bucket it is charged to.
LEMMA Charged ==
    ASSUME MapInv, NEW r \in Request, waiting[r] # None,
           NEW map, map = Swept(waiting[r].at),
           NEW b, b = ChargedTo(map, waiting[r].client)
    PROVE  /\ waiting[r] \in Call /\ waiting[r].tokens \in 1..Burst
           /\ waiting[r].client \in Client
           /\ waiting[r].at \in 0..now /\ waiting[r].at >= now - MaxStall
           /\ b \in Bucket
           /\ b \in DOMAIN map => b \in DOMAIN buckets /\ map[b] = buckets[b]
           /\ Current(Refilled(map, b, waiting[r].at))
<1>1. /\ waiting[r] \in Call /\ waiting[r].tokens \in 1..Burst
      /\ waiting[r].client \in Client /\ waiting[r].at \in 0..now
  BY ConstantsAssumption DEF MapInv, TypeOK, Call
<1>2. waiting[r].at >= now - MaxStall
  BY DEF MapInv, ReadingsRecent
<1>3. b \in Bucket
  BY <1>1 DEF ChargedTo, Bucket
<1>4. b \in DOMAIN map => b \in DOMAIN buckets /\ map[b] = buckets[b]
  BY SweepRemoves
<1>5. Current(Refilled(map, b, waiting[r].at))
  BY <1>1, <1>2, <1>3, <1>4, RefillIsCurrent
<1> QED
  BY <1>1, <1>2, <1>3, <1>4, <1>5

\* Buckets the sweep leaves out of the map have granted no more than they earned
\* and were given.
LEMMA AbsentArePaid ==
    ASSUME IInv, NEW at \in 0..now, NEW map, map = Swept(at),
           NEW c \in Bucket, c \notin DOMAIN map
    PROVE  granted[c] <= Earned(now - since) + Gift(Counted(c, map))
<1>1. CASE c \in DOMAIN buckets
  <2>1. ~(at - buckets[c].lastSeen < TTL)
    BY <1>1, SweepRemoves
  <2>2. Counted(c, map) = forgotten[c] + 1
    BY <1>1 DEF Counted
  <2> QED
    BY <1>1, <2>1, <2>2, ForgottenIsPaid
<1>2. CASE c \notin DOMAIN buckets
  BY <1>2 DEF IInv, BalanceInv, Counted
<1> QED
  BY <1>1, <1>2

-----------------------------------------------------------------------------
(* MapInv, one lemma per action.                                           *)

\* The clock moves only while every waiting request may still be that late.
LEMMA TickKeepsMap == ASSUME MapInv, Tick PROVE MapInv'
<1>1. /\ now \in Nat /\ now' = now + 1
      /\ UNCHANGED <<waiting, buckets, lastSweep, since, granted, forgotten>>
  BY DEF Tick, MapInv, TypeOK
<1>2. ASSUME NEW r \in Request PROVE waiting[r] \in Call' \cup {None}
  <2>1. waiting[r] \in Call \cup {None}
    BY DEF MapInv, TypeOK
  <2>2. Call \subseteq Call'
    BY <1>1 DEF Call
  <2> QED
    BY <2>1, <2>2
<1>3. waiting' \in [Request -> (Call \cup {None})']
  BY <1>1, <1>2 DEF MapInv, TypeOK
<1>4. TypeOK'
  <2>1. BucketRecord \subseteq BucketRecord'
    BY <1>1 DEF BucketRecord
  <2>2. \A b \in DOMAIN buckets : buckets[b] \in BucketRecord'
    BY <2>1 DEF MapInv, TypeOK
  <2> QED
    BY <1>1, <1>3, <2>2 DEF MapInv, TypeOK, Never
<1>5. ReadingsRecent'
  <2> SUFFICES ASSUME NEW r \in Request, waiting[r] # None
               PROVE  waiting[r].at >= now' - MaxStall
    BY <1>1 DEF ReadingsRecent
  <2>1. waiting[r] \in Call
    BY DEF MapInv, TypeOK
  <2>2. waiting[r].at \in Nat /\ now - waiting[r].at < MaxStall
    BY <1>1, <2>1 DEF Tick, Call
  <2> QED
    BY <1>1, <2>2, ConstantsAssumption
<1>6. ASSUME NEW b \in DOMAIN buckets PROVE StampsSound(buckets[b])'
  BY <1>1, StoredBucket DEF StampsSound
<1>7. MapBounded'
  BY <1>1 DEF MapInv, MapBounded, Mapped
<1> QED
  BY <1>1, <1>4, <1>5, <1>6, <1>7 DEF MapInv

\* A request that has just read the clock is not late at all.
LEMMA ArriveKeepsMap ==
    ASSUME MapInv, NEW r \in Request, NEW client \in Client, NEW tokens \in Weight,
           Arrive(r, client, tokens)
    PROVE  MapInv'
<1> DEFINE call == [client |-> client, tokens |-> tokens, at |-> now]
<1>1. /\ waiting' = [waiting EXCEPT ![r] = call]
      /\ UNCHANGED <<now, buckets, lastSweep, since, granted, forgotten>>
  BY DEF Arrive
<1>2. call \in Call /\ now \in Nat /\ Call' = Call /\ BucketRecord' = BucketRecord
  BY <1>1 DEF MapInv, TypeOK, Call, BucketRecord
<1>3. waiting' \in [Request -> Call' \cup {None}]
  BY <1>1, <1>2 DEF MapInv, TypeOK
<1>4. TypeOK'
  BY <1>1, <1>2, <1>3 DEF MapInv, TypeOK
<1>5. ReadingsRecent'
  BY <1>1, <1>2, ConstantsAssumption DEF MapInv, ReadingsRecent, TypeOK
<1> QED
  BY <1>1, <1>4, <1>5 DEF MapInv, MapBounded, Mapped, StampsSound

\* Storing one bucket in a swept map adds a key only when there is room.
LEMMA StoredIsBounded ==
    ASSUME MapInv, NEW at, NEW client \in Client, NEW bucket
    PROVE  LET map == Swept(at)
               stored == Stored(map, ChargedTo(map, client), bucket)
           IN  /\ IsFiniteSet(DOMAIN stored)
               /\ Cardinality(Mapped(stored)) <= MaxClients
<1> DEFINE map == Swept(at)
           b == ChargedTo(map, client)
           stored == Stored(map, b, bucket)
<1>1. DOMAIN stored = DOMAIN map \cup {b}
  BY DEF Stored
<1>2. /\ IsFiniteSet(DOMAIN buckets) /\ IsFiniteSet(Mapped(buckets))
      /\ IsFiniteSet(DOMAIN map)
  <2>1. IsFiniteSet(DOMAIN buckets) /\ Mapped(buckets) \subseteq DOMAIN buckets
    BY DEF MapInv, Mapped
  <2> QED
    BY <2>1, SweepRemoves, FS_Subset
<1>3. IsFiniteSet(DOMAIN stored)
  BY <1>1, <1>2, FS_AddElement
<1>4. Mapped(map) \subseteq Mapped(buckets)
  BY SweepRemoves DEF Mapped
<1>5. /\ IsFiniteSet(Mapped(map))
      /\ Cardinality(Mapped(map)) <= Cardinality(Mapped(buckets))
      /\ Cardinality(Mapped(map)) \in Nat /\ Cardinality(Mapped(buckets)) \in Nat
  BY <1>2, <1>4, FS_Subset, FS_CardinalityType
<1>6. Cardinality(Mapped(map)) <= MaxClients
  BY <1>5, ConstantsAssumption DEF MapInv, MapBounded
<1>7. CASE b = Overflow \/ b \in DOMAIN map
  <2>1. Mapped(stored) = Mapped(map)
    BY <1>1, <1>7 DEF Mapped
  <2> QED
    BY <1>3, <1>6, <2>1
<1>8. CASE b # Overflow /\ b \notin DOMAIN map
  <2>1. ~(Cardinality(Mapped(map)) >= MaxClients)
    BY <1>8 DEF ChargedTo
  <2>2. Mapped(stored) = Mapped(map) \cup {b} /\ b \notin Mapped(map)
    BY <1>1, <1>8 DEF Mapped
  <2>3. Cardinality(Mapped(stored)) = Cardinality(Mapped(map)) + 1
    BY <1>5, <2>2, FS_AddElement
  <2> QED
    BY <1>3, <1>5, <2>1, <2>3, ConstantsAssumption
<1> QED
  BY <1>7, <1>8

\* What Decide stores in its bucket and adds to the grants.
LEMMA DecideEffect ==
    ASSUME MapInv, NEW r \in Request, Decide(r),
           NEW map, map = Swept(waiting[r].at),
           NEW b, b = ChargedTo(map, waiting[r].client),
           NEW bucket, bucket = Refilled(map, b, waiting[r].at)
    PROVE  \E cost \in 0..bucket.tokens :
              /\ buckets' = Stored(map, b, Spend(bucket, cost))
              /\ granted' = [granted EXCEPT ![b] = @ + cost]
              /\ forgotten' = [c \in Bucket |-> Counted(c, map)]
<1> DEFINE cost == IF bucket.tokens >= waiting[r].tokens THEN waiting[r].tokens ELSE 0
<1>1. waiting[r].tokens \in 1..Burst /\ bucket \in BucketRecord
  BY Charged DEF Decide, Current
<1>2. cost \in 0..bucket.tokens
  BY <1>1 DEF BucketRecord
<1>3. /\ buckets' = Stored(map, b, Spend(bucket, cost))
      /\ granted' = [granted EXCEPT ![b] = @ + cost]
      /\ forgotten' = [c \in Bucket |-> Counted(c, map)]
  BY DEF Decide, Counted
<1> QED
  BY <1>2, <1>3

\* The critical section stores one sound bucket in a map that has room for it.
LEMMA DecideKeepsMap == ASSUME MapInv, NEW r \in Request, Decide(r) PROVE MapInv'
<1>1. PICK map, b, bucket :
         /\ map = Swept(waiting[r].at)
         /\ b = ChargedTo(map, waiting[r].client)
         /\ bucket = Refilled(map, b, waiting[r].at)
  OBVIOUS
<1>2. waiting[r] # None /\ UNCHANGED <<now, since>>
  BY DEF Decide
<1>3. /\ waiting[r].client \in Client /\ waiting[r].at \in 0..now
      /\ b \in Bucket /\ bucket \in BucketRecord /\ StampsSound(bucket)
  BY <1>1, <1>2, Charged DEF Current
<1>4. PICK cost \in 0..bucket.tokens :
         /\ buckets' = Stored(map, b, Spend(bucket, cost))
         /\ granted' = [granted EXCEPT ![b] = @ + cost]
         /\ forgotten' = [c \in Bucket |-> Counted(c, map)]
  BY <1>1, DecideEffect
<1>5. Spend(bucket, cost) \in BucketRecord /\ StampsSound(Spend(bucket, cost))
  <2> DEFINE left == bucket.tokens - cost
  <2>1. /\ bucket.tokens \in 0..Burst /\ bucket.updated \in 0..now
        /\ bucket.lastSeen \in 0..now /\ Burst \in Nat
    BY <1>3, ConstantsAssumption DEF BucketRecord
  <2>2. left \in 0..Burst
    BY <1>4, <2>1
  <2>3. Spend(bucket, cost) =
          [tokens |-> left, updated |-> bucket.updated, lastSeen |-> bucket.lastSeen]
    BY DEF Spend
  <2> HIDE DEF left
  <2> QED
    BY <1>3, <2>1, <2>2, <2>3 DEF BucketRecord, StampsSound
<1>6. /\ DOMAIN buckets' = DOMAIN map \cup {b}
      /\ \A c \in DOMAIN buckets' :
            buckets'[c] \in BucketRecord /\ StampsSound(buckets'[c])
  <2>1. DOMAIN buckets' = DOMAIN map \cup {b} /\ buckets'[b] = Spend(bucket, cost)
    BY <1>4 DEF Stored
  <2>2. ASSUME NEW c \in DOMAIN map, c # b
        PROVE  c \in DOMAIN buckets /\ buckets'[c] = buckets[c]
    BY <1>1, <1>4, <2>2, SweepRemoves DEF Stored
  <2> QED
    BY <1>5, <2>1, <2>2, StoredBucket
<1>7. DOMAIN buckets' \subseteq Bucket
  BY <1>1, <1>3, <1>6, SweepRemoves DEF MapInv, TypeOK
<1>8. granted' \in [Bucket -> Nat] /\ forgotten' \in [Bucket -> Nat]
  <2>1. granted' \in [Bucket -> Nat]
    BY <1>3, <1>4 DEF MapInv, TypeOK, BucketRecord
  <2>2. \A c \in Bucket : Counted(c, map) \in Nat
    BY DEF MapInv, TypeOK, Counted
  <2> QED
    BY <1>4, <2>1, <2>2
<1>9. waiting' = [waiting EXCEPT ![r] = None] /\ lastSweep' \in 0..now \cup {Never}
  BY <1>3 DEF Decide, MapInv, TypeOK
<1>10. TypeOK'
  BY <1>2, <1>6, <1>7, <1>8, <1>9 DEF MapInv, TypeOK, Call, BucketRecord
<1>11. ReadingsRecent'
  BY <1>2, <1>9 DEF MapInv, ReadingsRecent, TypeOK
<1>12. IsFiniteSet(DOMAIN buckets') /\ MapBounded'
  BY <1>1, <1>3, <1>4, StoredIsBounded DEF MapBounded
<1>13. (\A c \in DOMAIN buckets : StampsSound(buckets[c]))'
  BY <1>2, <1>6 DEF StampsSound
<1> QED
  BY <1>10, <1>11, <1>12, <1>13 DEF MapInv

\* A window is an observation; it changes no bucket.
LEMMA OpenWindowKeepsMap == ASSUME MapInv, OpenWindow PROVE MapInv'
<1>1. /\ since' = now /\ granted' = [b \in Bucket |-> 0]
      /\ forgotten' = [b \in Bucket |-> 0]
      /\ UNCHANGED <<now, waiting, buckets, lastSweep>>
  BY DEF OpenWindow
<1>2. TypeOK'
  BY <1>1 DEF MapInv, TypeOK, Call, BucketRecord
<1> QED
  BY <1>1, <1>2 DEF MapInv, ReadingsRecent, MapBounded, Mapped, StampsSound

\* MapInv is inductive.
LEMMA NextKeepsMap == MapInv /\ [Next]_vars => MapInv'
<1> SUFFICES ASSUME MapInv, [Next]_vars PROVE MapInv'
  OBVIOUS
<1>1. CASE Tick
  BY <1>1, TickKeepsMap
<1>2. CASE \E r \in Request, client \in Client, tokens \in Weight :
               Arrive(r, client, tokens)
  BY <1>2, ArriveKeepsMap
<1>3. CASE \E r \in Request : Decide(r)
  BY <1>3, DecideKeepsMap
<1>4. CASE OpenWindow
  BY <1>4, OpenWindowKeepsMap
<1>5. CASE UNCHANGED vars
  BY <1>5 DEF vars, MapInv, TypeOK, Call, BucketRecord, ReadingsRecent, MapBounded,
              Mapped, StampsSound
<1> QED
  BY <1>1, <1>2, <1>3, <1>4, <1>5 DEF Next

-----------------------------------------------------------------------------
(* BalanceInv, one lemma per action.                                       *)

\* What is not in the map earns as time passes.
LEMMA TickKeepsBalance == ASSUME IInv, Tick PROVE BalanceInv'
<1>1. /\ now \in Nat /\ since \in Nat /\ now' = now + 1
      /\ UNCHANGED <<buckets, since, granted, forgotten>>
  BY DEF Tick, IInv, MapInv, TypeOK
<1>2. Earned(now - since) <= Earned(now' - since)
  BY <1>1, EarnedFacts
<1>3. Earned(now - since) \in Int /\ Earned(now' - since) \in Int
  BY <1>1, EarnedFacts
<1>4. ASSUME NEW b \in Bucket \ DOMAIN buckets
      PROVE  granted[b] <= Earned(now' - since) + Gift(forgotten[b])
  <2>1. /\ granted[b] <= Earned(now - since) + Gift(forgotten[b])
        /\ granted[b] \in Nat /\ forgotten[b] \in Nat
    BY DEF IInv, BalanceInv, MapInv, TypeOK
  <2>2. Gift(forgotten[b]) \in Nat
    BY <2>1, GiftFacts
  <2> QED
    BY <1>2, <1>3, <2>1, <2>2
<1>5. \A b \in DOMAIN buckets : Balanced(buckets[b], granted[b], forgotten[b])
  BY DEF IInv, BalanceInv
<1> QED
  BY <1>1, <1>4, <1>5 DEF BalanceInv, Balanced, Earned, Gift, GivenAway

\* A request pays from the allowance of one bucket and touches no other.
LEMMA DecideKeepsBalance == ASSUME IInv, NEW r \in Request, Decide(r) PROVE BalanceInv'
<1>1. PICK map, b, bucket :
         /\ map = Swept(waiting[r].at)
         /\ b = ChargedTo(map, waiting[r].client)
         /\ bucket = Refilled(map, b, waiting[r].at)
  OBVIOUS
<1>2. waiting[r] # None /\ UNCHANGED <<now, since>> /\ MapInv
  BY DEF Decide, IInv
<1>3. /\ waiting[r].at \in 0..now /\ waiting[r].at >= now - MaxStall
      /\ b \in Bucket /\ Current(bucket)
      /\ b \in DOMAIN map => b \in DOMAIN buckets /\ map[b] = buckets[b]
  BY <1>1, <1>2, Charged
<1>4. PICK cost \in 0..bucket.tokens :
         /\ buckets' = Stored(map, b, Spend(bucket, cost))
         /\ granted' = [granted EXCEPT ![b] = @ + cost]
         /\ forgotten' = [c \in Bucket |-> Counted(c, map)]
  BY <1>1, <1>2, DecideEffect
<1>5. \A c \in Bucket \ DOMAIN map :
         granted[c] <= Earned(now - since) + Gift(Counted(c, map))
  BY <1>1, <1>3, AbsentArePaid
<1>12. PICK times \in Nat : times = Counted(b, map)
  BY <1>2, <1>3 DEF MapInv, TypeOK, Counted
<1>6. granted[b] + bucket.tokens <= Allowance(bucket, times)
  BY <1>1, <1>3, <1>5, <1>12, RefillBalances
<1>7. Balanced(Spend(bucket, cost), granted'[b], times)
  <2>1. /\ granted[b] \in Nat /\ granted'[b] = granted[b] + cost
        /\ bucket.tokens \in Nat /\ cost \in Nat
    BY <1>2, <1>3, <1>4 DEF MapInv, TypeOK, Current, BucketRecord
  <2>2. granted'[b] + (bucket.tokens - cost) = granted[b] + bucket.tokens
    BY <2>1
  <2> QED
    BY <1>3, <1>6, <2>2 DEF Balanced, Spend, Current, Allowance
<1>8. /\ DOMAIN buckets' = DOMAIN map \cup {b} /\ buckets'[b] = Spend(bucket, cost)
      /\ \A c \in DOMAIN map : c # b => c \in DOMAIN buckets /\ buckets'[c] = buckets[c]
  BY <1>1, <1>4, SweepRemoves DEF Stored
<1>9. /\ \A c \in Bucket : c # b => granted'[c] = granted[c]
      /\ \A c \in Bucket : forgotten'[c] = Counted(c, map)
      /\ \A c \in Bucket : c \in DOMAIN map => Counted(c, map) = forgotten[c]
  BY <1>2, <1>4 DEF MapInv, TypeOK, Counted
<1>10. \A c \in DOMAIN buckets' : Balanced(buckets'[c], granted'[c], forgotten'[c])
  <2> SUFFICES ASSUME NEW c \in DOMAIN buckets'
               PROVE  Balanced(buckets'[c], granted'[c], forgotten'[c])
    OBVIOUS
  <2>1. CASE c = b
    BY <1>3, <1>7, <1>8, <1>9, <1>12, <2>1
  <2>2. CASE c # b
    <3>1. /\ c \in DOMAIN map /\ c \in DOMAIN buckets /\ c \in Bucket
          /\ buckets'[c] = buckets[c]
      BY <1>2, <1>8, <2>2 DEF MapInv, TypeOK
    <3> QED
      BY <1>9, <2>2, <3>1 DEF IInv, BalanceInv
  <2> QED
    BY <2>1, <2>2
<1>11. \A c \in Bucket \ DOMAIN buckets' :
          granted'[c] <= Earned(now - since) + Gift(forgotten'[c])
  BY <1>3, <1>5, <1>8, <1>9
<1> QED
  BY <1>2, <1>10, <1>11 DEF BalanceInv, Balanced, Earned, Gift, GivenAway

\* A new window starts with nothing granted.
LEMMA OpenWindowKeepsBalance == ASSUME IInv, OpenWindow PROVE BalanceInv'
<1>1. /\ since' = now /\ granted' = [b \in Bucket |-> 0] /\ now \in Nat
      /\ forgotten' = [b \in Bucket |-> 0]
      /\ UNCHANGED <<now, buckets>>
  BY DEF OpenWindow, IInv, MapInv, TypeOK
<1>2. DOMAIN buckets \subseteq Bucket
  BY DEF IInv, MapInv, TypeOK
<1>3. now' - since' = 0 /\ Earned(0) = 0 /\ Gift(0) = 0
  BY <1>1, EarnedFacts, GiftFacts
<1>4. \A b \in DOMAIN buckets' : Balanced(buckets[b], 0, 0)'
  BY DEF Balanced
<1>5. \A b \in Bucket : (granted[b] <= Earned(now - since) + Gift(forgotten[b]))'
  BY <1>1, <1>3 DEF Earned, Gift, GivenAway
<1> QED
  BY <1>1, <1>2, <1>4, <1>5 DEF BalanceInv, Balanced

-----------------------------------------------------------------------------
(* IdleInv, one lemma per action.                                          *)

\* Time only widens the window.
LEMMA TickKeepsIdle == ASSUME IInv, Tick PROVE IdleInv'
<1>1. /\ now \in Nat /\ since \in Nat /\ now' = now + 1
      /\ UNCHANGED <<buckets, since, granted, forgotten>>
  BY DEF Tick, IInv, MapInv, TypeOK
<1>2. \A n \in Nat : ForgottenBy(n) \in Int
  BY <1>1, ForgottenByFacts
<1>3. \A b \in Bucket :
         /\ forgotten[b] \in Nat
         /\ forgotten[b] # 0 =>
              /\ now >= ForgottenBy(forgotten[b])
              /\ b \in DOMAIN buckets =>
                    buckets[b].lastSeen + MaxStall >= ForgottenBy(forgotten[b])
  BY DEF IInv, IdleInv, MapInv, TypeOK
<1>4. \A b \in Bucket : forgotten[b] # 0 => now' >= ForgottenBy(forgotten[b])
  BY <1>1, <1>2, <1>3
<1>5. \A n : ForgottenBy(n)' = ForgottenBy(n)
  BY <1>1 DEF ForgottenBy, Apart
<1> QED
  BY <1>1, <1>3, <1>4, <1>5 DEF IdleInv

\* A request is a sign of life no older than a stall.
LEMMA DecideKeepsIdle == ASSUME IInv, NEW r \in Request, Decide(r) PROVE IdleInv'
<1>1. PICK at, map, b, bucket :
         /\ at = waiting[r].at /\ map = Swept(at)
         /\ b = ChargedTo(map, waiting[r].client)
         /\ bucket = Refilled(map, b, at)
  OBVIOUS
<1>2. waiting[r] # None /\ UNCHANGED <<now, since>> /\ MapInv
  BY DEF Decide, IInv
<1>3. at \in 0..now /\ at >= now - MaxStall /\ b \in Bucket
  BY <1>1, <1>2, Charged
<1>4. PICK cost \in 0..bucket.tokens :
         /\ buckets' = Stored(map, b, Spend(bucket, cost))
         /\ granted' = [granted EXCEPT ![b] = @ + cost]
         /\ forgotten' = [c \in Bucket |-> Counted(c, map)]
  BY <1>1, <1>2, DecideEffect
<1>5. bucket.lastSeen = at
  BY <1>1 DEF Refilled
<1>6. /\ DOMAIN buckets' = DOMAIN map \cup {b} /\ buckets'[b].lastSeen = at
      /\ \A c \in DOMAIN map : c # b => c \in DOMAIN buckets /\ buckets'[c] = buckets[c]
  BY <1>1, <1>4, <1>5, SweepRemoves DEF Stored, Spend
<1>7. /\ now \in Nat /\ since \in Nat /\ MaxStall \in Nat
      /\ \A c \in Bucket : forgotten[c] \in Nat /\ Counted(c, map) \in Nat
  BY <1>2, ConstantsAssumption DEF MapInv, TypeOK, Counted
<1>8. \A n \in Nat : ForgottenBy(n) \in Int
  BY <1>7, ForgottenByFacts
<1>9. ASSUME NEW c \in Bucket, Counted(c, map) # 0
      PROVE  now >= ForgottenBy(Counted(c, map))
  <2>1. CASE c \in DOMAIN buckets \ DOMAIN map
    BY <1>1, <1>3, <2>1, SweepRemoves, ForgottenIsIdle DEF Counted
  <2>2. CASE c \notin DOMAIN buckets \ DOMAIN map
    BY <1>9, <2>2 DEF Counted, IInv, IdleInv
  <2> QED
    BY <2>1, <2>2
<1>10. ASSUME NEW c \in Bucket, Counted(c, map) # 0, c \in DOMAIN buckets'
       PROVE  buckets'[c].lastSeen + MaxStall >= ForgottenBy(Counted(c, map))
  <2>1. CASE c = b
    BY <1>3, <1>6, <1>7, <1>8, <1>9, <1>10, <2>1
  <2>2. CASE c # b
    <3>1. c \in DOMAIN map /\ c \in DOMAIN buckets /\ buckets'[c] = buckets[c]
      BY <1>6, <1>10, <2>2
    <3>2. Counted(c, map) = forgotten[c]
      BY <3>1 DEF Counted
    <3> QED
      BY <1>10, <3>1, <3>2 DEF IInv, IdleInv
  <2> QED
    BY <2>1, <2>2
<1>11. /\ \A c \in Bucket : forgotten'[c] = Counted(c, map)
       /\ \A n : ForgottenBy(n)' = ForgottenBy(n)
  BY <1>2, <1>4 DEF ForgottenBy, Apart
<1> QED
  BY <1>2, <1>9, <1>10, <1>11 DEF IdleInv

\* IInv is inductive.
LEMMA NextInvariant == IInv /\ [Next]_vars => IInv'
<1> SUFFICES ASSUME IInv, [Next]_vars PROVE BalanceInv' /\ IdleInv'
  BY NextKeepsMap DEF IInv
<1>1. CASE Tick
  BY <1>1, TickKeepsBalance, TickKeepsIdle
<1>2. CASE UNCHANGED <<now, buckets, since, granted, forgotten>>
  BY <1>2 DEF IInv, BalanceInv, IdleInv, Balanced, Earned, Gift, GivenAway,
              ForgottenBy, Apart
<1>3. CASE \E r \in Request : Decide(r)
  BY <1>3, DecideKeepsBalance, DecideKeepsIdle
<1>4. CASE OpenWindow
  <2>1. IdleInv'
    BY <1>4 DEF OpenWindow, IdleInv
  <2> QED
    BY <1>4, <2>1, OpenWindowKeepsBalance
<1> QED
  BY <1>1, <1>2, <1>3, <1>4 DEF Next, Arrive, vars

\* The invariant read off at any moment.
LEMMA InvariantBounds == IInv => GrantsBounded
<1> SUFFICES ASSUME IInv, NEW b \in Bucket
             PROVE  /\ granted[b] <= Burst + Rate * (now - since + MaxStall)
                                       + GivenAway * forgotten[b]
                    /\ forgotten[b] # 0 =>
                         (forgotten[b] - 1) * (TTL - MaxStall) <= now - since
  BY DEF GrantsBounded
<1> DEFINE span == now - since + MaxStall
           gift == Gift(forgotten[b])
<1>1. /\ granted[b] \in Nat /\ forgotten[b] \in Nat
      /\ now \in Nat /\ since \in Nat /\ since <= now
      /\ MaxStall \in Nat /\ Burst \in Nat
  BY ConstantsAssumption DEF IInv, MapInv, TypeOK
<1>2. span \in Nat /\ Earned(span) \in Nat /\ gift \in Nat
  BY <1>1, EarnedIsNat, GiftFacts
<1>3. granted[b] <= Burst + Earned(span) + gift
  <2>1. CASE b \notin DOMAIN buckets
    <3>1. now - since \in Int /\ span \in Int /\ now - since <= span
      BY <1>1
    <3>2. Earned(now - since) <= Earned(span) /\ Earned(now - since) \in Int
      BY <3>1, EarnedFacts
    <3>3. granted[b] <= Earned(now - since) + gift
      BY <2>1 DEF IInv, BalanceInv
    <3> QED
      BY <1>1, <1>2, <3>2, <3>3
  <2>2. CASE b \in DOMAIN buckets /\ granted[b] # 0
    <3> DEFINE old == buckets[b]
               used == old.updated + MaxStall - since
    <3>1. MapInv /\ old.tokens \in Nat /\ used \in Int /\ used <= span
      BY <1>1, <2>2, StoredBucket DEF IInv, StampsSound
    <3>2. Earned(used) <= Earned(span) /\ Earned(used) \in Int
      BY <1>2, <3>1, EarnedFacts
    <3>3. granted[b] + old.tokens <= Burst + Earned(used) + gift
      BY <2>2 DEF IInv, BalanceInv, Balanced
    <3> HIDE DEF old, used, span, gift
    <3> QED
      BY <1>1, <1>2, <3>1, <3>2, <3>3
  <2>3. CASE granted[b] = 0
    BY <1>1, <1>2, <2>3
  <2> QED
    BY <2>1, <2>2, <2>3
<1>4. ASSUME forgotten[b] # 0
      PROVE  (forgotten[b] - 1) * (TTL - MaxStall) <= now - since
  <2> DEFINE passed == (forgotten[b] - 1) * Apart
  <2>1. now >= since + passed
    BY <1>4 DEF IInv, IdleInv, ForgottenBy
  <2>2. passed \in Int
    <3>1. Apart \in Int
      BY <1>1, ForgottenByFacts
    <3> QED
      BY <1>1, <3>1
  <2>3. passed <= now - since
    <3> HIDE DEF passed
    <3> QED
      BY <1>1, <2>1, <2>2
  <2> QED
    BY <2>3 DEF Apart
<1> QED
  BY <1>3, <1>4 DEF Earned, Gift

-----------------------------------------------------------------------------
(* Theorems.                                                               *)

\* Every reachable limiter is well-typed: tokens stay between none and a burst
\* and no stamp lies in the future, whatever order AllowN's clock readings
\* enter the critical section in.
THEOREM LimiterTypes == Spec => []TypeOK
<1>1. Init => MapInv
  BY InitInvariant DEF IInv
<1>2. MapInv => TypeOK
  BY DEF MapInv
<1> QED
  BY <1>1, <1>2, NextKeepsMap, PTL DEF Spec

\* The map never holds more than maxClients buckets, although the sweep and the
\* overflow bucket of AllowN decide anew at every request who has one.
THEOREM MapAlwaysBounded == Spec => []MapBounded
<1>1. Init => MapInv
  BY InitInvariant DEF IInv
<1>2. MapInv => MapBounded
  BY DEF MapInv
<1> QED
  BY <1>1, <1>2, NextKeepsMap, PTL DEF Spec

\* Over any window a bucket grants a burst, its refill and at most GivenAway each
\* time the sweep of AllowN (ratelimit.go:77-81) has forgotten it, which is at most
\* once per idle time; overflow and late clock readings give nothing away.
THEOREM GrantsAlwaysBounded == Spec => []GrantsBounded
<1>1. IInv => GrantsBounded
  BY InvariantBounds
<1> QED
  BY <1>1, InitInvariant, NextInvariant, PTL DEF Spec

\* When the idle time after which AllowN forgets a peer earns a whole burst, as it
\* does with the default configuration, nothing is given away and README.md:347-348
\* holds over any window.
PromisedBound ==
    \A b \in Bucket : granted[b] <= Burst + Rate * (now - since + MaxStall)

THEOREM PromiseKept == ASSUME IdleRefillsBurst PROVE Spec => []PromisedBound
<1>1. GivenAway = 0
  <2>1. Rate * (TTL - 2 * MaxStall) \in Int /\ Burst \in Nat
    <3>1. TTL - 2 * MaxStall \in Int /\ Burst \in Nat
      BY ConstantsAssumption
    <3> QED
      BY <3>1, EarnedFacts DEF Earned
  <2> QED
    BY <2>1, IdleRefillsBurst DEF IdleRefillsBurst, GivenAway
<1>2. IInv => PromisedBound
  <2> SUFFICES ASSUME IInv, NEW b \in Bucket
               PROVE  granted[b] <= Burst + Rate * (now - since + MaxStall)
    BY DEF PromisedBound
  <2> DEFINE span == now - since + MaxStall
  <2>1. granted[b] <= Burst + Earned(span) + Gift(forgotten[b])
    BY InvariantBounds DEF GrantsBounded, Earned, Gift
  <2>2. forgotten[b] \in Nat /\ span \in Nat /\ Burst \in Nat
    BY ConstantsAssumption DEF IInv, MapInv, TypeOK
  <2>3. Gift(forgotten[b]) = 0 /\ Earned(span) \in Nat
    BY <1>1, <2>2, EarnedIsNat DEF Gift
  <2>4. granted[b] <= Burst + Earned(span)
    <3> HIDE DEF span
    <3> QED
      BY <2>1, <2>2, <2>3
  <2> QED
    BY <2>4 DEF Earned
<1> QED
  BY <1>2, InitInvariant, NextInvariant, PTL DEF Spec
=============================================================================
