--------------------------- MODULE Delivery_proofs ---------------------------
(***************************************************************************)
(* Proofs about the way of an event from the browser to the store, in      *)
(* four parts: the SDK's queue (SDKClient), the memory store (MemoryStore  *)
(* and the ledger it implements), both with the network and the ingest     *)
(* handlers between them (Delivery), and the load test with the collector  *)
(* it drives (LoadTest, MCDelivery).  They hold for every batch size,      *)
(* queue bound, number of retries, history length and fingerprint, and for *)
(* every number of workers of the load test.                               *)
(***************************************************************************)
EXTENDS MCDelivery, SequenceTheorems, FiniteSetTheorems, TLAPS

(***************************************************************************)
(* PART 1.  SDKClient: where events are, in which order, what the reserved *)
(* count counts and what a flush reports.                                  *)
(*                                                                         *)
(* capture() drops the oldest event, appends the new one and flushes in    *)
(* one step, and a flush may itself drop events.  The parts of the         *)
(* invariant are therefore operators of the queue q, the flushes js, the   *)
(* batch on its way b, the lost events lo and the number n of events       *)
(* offered, so that they can be stated of what lies between two halves of  *)
(* a step.                                                                 *)
(***************************************************************************)
Job == [pending : Seq(Nat), started : BOOLEAN, ok : BOOLEAN, events : SUBSET Nat]
Below(A, B) == \A x \in A, y \in B : x < y
Pending(js) == UNION {Range(js[i].pending) : i \in DOMAIN js}

Types(q, js, b, lo, n) ==
    /\ q \in Seq(Nat) /\ js \in Seq(Job) /\ b \in Seq(Nat)
    /\ n \in Nat /\ lo \subseteq 1..n
    /\ host \in Timers
    /\ delivered \in Seq(Nat)

\* What is queued was captured after what is chained, that after the batch on
\* its way, and that after what was delivered.
Order(q, js, b) ==
    /\ Rising(q) /\ Rising(b) /\ Rising(delivered)
    /\ Below(Range(delivered), Range(b))
    /\ Below(Range(delivered), Range(q)) /\ Below(Range(b), Range(q))
    /\ \A i \in DOMAIN js :
          /\ Rising(js[i].pending)
          /\ Below(Range(delivered), Range(js[i].pending))
          /\ Below(Range(b), Range(js[i].pending))
          /\ Below(Range(js[i].pending), Range(q))
    /\ \A i, j \in DOMAIN js : i < j => Below(Range(js[i].pending), Range(js[j].pending))

\* Every event has a place, unless setTimeout threw, and no lost one has another.
Kept(q, js, b) == Range(q) \cup Pending(js) \cup Range(b) \cup Range(delivered)
Places(q, js, b, lo, n) ==
    /\ Kept(q, js, b) \subseteq 1..n
    /\ Kept(q, js, b) \cap lo = {}
    /\ host # "throw" => 1..n \subseteq Kept(q, js, b) \cup lo

\* The reserved count r.
Reserved(q, js, r) ==
    /\ r \in Int
    /\ Len(q) + r <= MaxQueueSize
    /\ r >= Cardinality(Pending(js))
    /\ host # "throw" => r = Cardinality(Pending(js))

\* A flush that may still report success has every event of its own delivered or
\* before it.
Honest(js, b) ==
    \A i \in DOMAIN js :
        js[i].ok => js[i].events \subseteq
            Range(delivered) \cup Range(js[i].pending) \cup (IF i = 1 THEN Range(b) ELSE {})

\* Only the oldest flush is started, and only it has a batch on its way.
Turns(js, b) ==
    /\ \A i \in DOMAIN js : i > 1 => ~js[i].started
    /\ b # <<>> => js # <<>> /\ js[1].started

Whole(q, js, b, lo, r, n) ==
    /\ Types(q, js, b, lo, n)
    /\ Order(q, js, b)
    /\ Places(q, js, b, lo, n)
    /\ Reserved(q, js, r)
    /\ Honest(js, b)
    /\ Turns(js, b)

\* `current` is well formed, the stats count what they say and reports are true.
Batch ==
    /\ current \in [batch : Seq(Nat), attempt : Nat, phase : {"none", "transport", "backoff"}]
    /\ current.phase = "none" <=> current.batch = <<>>
    /\ current.phase = "none" => current = NoBatch
Stats ==
    /\ sent = Len(delivered)
    /\ dropped = Cardinality(lost)

IInv ==
    /\ Whole(queue, jobs, current.batch, lost, reserved, offered)
    /\ Batch
    /\ Stats
    /\ FlushTellsTheTruth
-----------------------------------------------------------------------------
(***************************************************************************)
(* Rising sequences: what becomes of them when they are cut, joined,       *)
(* extended or thinned out.                                                *)
(***************************************************************************)

\* A rising sequence names as many events as it is long.
LEMMA RisingCardinality ==
    ASSUME NEW s \in Seq(Nat), Rising(s)
    PROVE  IsFiniteSet(Range(s)) /\ Cardinality(Range(s)) = Len(s)
<1>1. s \in [1..Len(s) -> Range(s)] /\ Len(s) \in Nat /\ DOMAIN s = 1..Len(s)
  BY DEF Range
<1>2. \A i, j \in 1..Len(s) : s[i] = s[j] => i = j
  <2>1. \A i \in 1..Len(s) : s[i] \in Nat
    OBVIOUS
  <2> QED
    BY <1>1, <2>1, SMTT(60) DEF Rising
<1>3. s \in Bijection(1..Len(s), Range(s))
  BY <1>1, <1>2 DEF Range, Bijection, Injection, Surjection, IsInjective
<1>4. IsFiniteSet(1..Len(s)) /\ Cardinality(1..Len(s)) = Len(s)
  <2>1. /\ IsFiniteSet(1..Len(s))
        /\ Cardinality(1..Len(s)) = IF 1 > Len(s) THEN 0 ELSE Len(s) - 1 + 1
    BY <1>1, FS_Interval
  <2> QED
    BY <1>1, <2>1
<1> QED
  BY <1>3, <1>4, FS_Bijection DEF ExistsBijection

\* The two parts of a rising sequence that is cut after n elements.
LEMMA CutProperties ==
    ASSUME NEW s \in Seq(Nat), Rising(s), NEW n \in 0..Len(s)
    PROVE  LET front == SubSeq(s, 1, n)
               back  == SubSeq(s, n + 1, Len(s))
           IN  /\ front \in Seq(Nat) /\ back \in Seq(Nat)
               /\ Rising(front) /\ Rising(back)
               /\ Len(front) = n /\ Len(back) = Len(s) - n
               /\ Range(front) \cup Range(back) = Range(s)
               /\ Below(Range(front), Range(back))
<1> DEFINE front == SubSeq(s, 1, n)
           back  == SubSeq(s, n + 1, Len(s))
<1>1. /\ front \in Seq(Nat) /\ Len(front) = n /\ DOMAIN front = 1..n
      /\ \A i \in 1..n : front[i] = s[i]
  OBVIOUS
<1>2. /\ back \in Seq(Nat) /\ Len(back) = Len(s) - n /\ DOMAIN back = 1..(Len(s) - n)
      /\ \A i \in 1..(Len(s) - n) : back[i] = s[i + n]
  OBVIOUS
<1>3. Len(s) \in Nat /\ DOMAIN s = 1..Len(s) /\ \A i \in 1..Len(s) : s[i] \in Nat
  OBVIOUS
<1> HIDE DEF front, back
<1>4. Rising(front) /\ Rising(back)
  <2>1. \A i, j \in 1..n : i < j => front[i] < front[j]
    BY <1>1, <1>3 DEF Rising
  <2>2. ASSUME NEW i \in 1..(Len(s) - n), NEW j \in 1..(Len(s) - n), i < j
        PROVE  back[i] < back[j]
    <3>1. i + n \in 1..Len(s) /\ j + n \in 1..Len(s) /\ i + n < j + n
      BY <2>2, <1>3
    <3> QED
      BY <3>1, <1>2, <1>3 DEF Rising
  <2> QED
    BY <2>1, <2>2, <1>1, <1>2 DEF Rising
<1>5. Below(Range(front), Range(back))
  <2>1. ASSUME NEW i \in 1..n, NEW j \in 1..(Len(s) - n)
        PROVE  front[i] < back[j]
    <3>1. i \in 1..Len(s) /\ j + n \in 1..Len(s) /\ i < j + n
      BY <1>3
    <3> QED
      BY <3>1, <1>1, <1>2, <1>3 DEF Rising
  <2> QED
    BY <2>1, <1>1, <1>2 DEF Below, Range
<1>6. Range(front) \cup Range(back) \subseteq Range(s)
  <2>1. \A i \in 1..n : front[i] \in Range(s)
    BY <1>1, <1>3, SMTT(60) DEF Range
  <2>2. \A i \in 1..(Len(s) - n) : back[i] \in Range(s)
    <3> TAKE i \in 1..(Len(s) - n)
    <3>1. i + n \in 1..Len(s)
      BY <1>3
    <3> QED
      BY <3>1, <1>2, <1>3 DEF Range
  <2> QED
    BY <2>1, <2>2, <1>1, <1>2, ZenonT(60) DEF Range
<1>7. Range(s) \subseteq Range(front) \cup Range(back)
  <2> SUFFICES ASSUME NEW i \in 1..Len(s)
               PROVE  s[i] \in Range(front) \cup Range(back)
    BY <1>3 DEF Range
  <2>1. CASE i <= n
    BY <2>1, <1>1 DEF Range
  <2>2. CASE i > n
    <3>1. i - n \in 1..(Len(s) - n) /\ back[i - n] = s[i]
      BY <2>2, <1>2, <1>3
    <3> QED
      BY <3>1, <1>2 DEF Range
  <2> QED
    BY <2>1, <2>2, <1>3
<1> QED
  BY <1>1, <1>2, <1>4, <1>5, <1>6, <1>7 DEF front, back

\* Two rising sequences, one below the other, joined.
LEMMA JoinProperties ==
    ASSUME NEW s \in Seq(Nat), NEW t \in Seq(Nat), Rising(s), Rising(t),
           Below(Range(s), Range(t))
    PROVE  /\ s \o t \in Seq(Nat) /\ Rising(s \o t)
           /\ Len(s \o t) = Len(s) + Len(t)
           /\ Range(s \o t) = Range(s) \cup Range(t)
<1>1. /\ s \o t \in Seq(Nat) /\ Len(s \o t) = Len(s) + Len(t)
      /\ \A i \in 1..(Len(s) + Len(t)) :
            (s \o t)[i] = IF i <= Len(s) THEN s[i] ELSE t[i - Len(s)]
  BY ConcatProperties
<1>2. DOMAIN (s \o t) = 1..(Len(s) + Len(t))
  BY <1>1
<1>3. Len(s) \in Nat /\ DOMAIN s = 1..Len(s) /\ \A i \in 1..Len(s) : s[i] \in Nat
  OBVIOUS
<1>4. Len(t) \in Nat /\ DOMAIN t = 1..Len(t) /\ \A i \in 1..Len(t) : t[i] \in Nat
  OBVIOUS
<1>5. \A i \in 1..Len(s), j \in 1..Len(t) : s[i] < t[j]
  BY <1>3, <1>4 DEF Below, Range
<1>6. Rising(s \o t)
  <2> SUFFICES ASSUME NEW i \in 1..(Len(s) + Len(t)), NEW j \in 1..(Len(s) + Len(t)), i < j
               PROVE  (s \o t)[i] < (s \o t)[j]
    BY <1>2 DEF Rising
  <2>1. CASE j <= Len(s)
    <3>1. i \in 1..Len(s) /\ j \in 1..Len(s) /\ i <= Len(s)
      BY <2>1, <1>3, <1>4
    <3>2. (s \o t)[i] = s[i] /\ (s \o t)[j] = s[j]
      BY <2>1, <3>1, <1>1
    <3>3. s[i] < s[j]
      BY <3>1, <1>3 DEF Rising
    <3> QED
      BY <3>2, <3>3
  <2>2. CASE i <= Len(s) /\ j > Len(s)
    <3>1. j - Len(s) \in 1..Len(t) /\ i \in 1..Len(s)
      BY <2>2, <1>3, <1>4
    <3> QED
      BY <2>2, <3>1, <1>1, <1>3, <1>4, <1>5
  <2>3. CASE i > Len(s)
    <3>1. /\ i - Len(s) \in 1..Len(t) /\ j - Len(s) \in 1..Len(t)
          /\ i - Len(s) < j - Len(s) /\ ~(i <= Len(s)) /\ ~(j <= Len(s))
      BY <2>3, <1>3, <1>4
    <3>2. (s \o t)[i] = t[i - Len(s)] /\ (s \o t)[j] = t[j - Len(s)]
      BY <3>1, <1>1
    <3>3. t[i - Len(s)] < t[j - Len(s)]
      BY <3>1, <1>4 DEF Rising
    <3> QED
      BY <3>2, <3>3
  <2> QED
    BY <2>1, <2>2, <2>3, <1>3, <1>4, SMTT(60)
<1>7. Range(s \o t) = Range(s) \cup Range(t)
  BY RangeConcatenation
<1> QED
  BY <1>1, <1>6, <1>7

\* The newest event goes to the end.
LEMMA AppendRising ==
    ASSUME NEW s \in Seq(Nat), Rising(s), NEW e \in Nat, \A x \in Range(s) : x < e
    PROVE  LET t == Append(s, e)
           IN  /\ t \in Seq(Nat) /\ Rising(t) /\ Len(t) = Len(s) + 1
               /\ Range(t) = Range(s) \cup {e}
<1>1. /\ <<e>> \in Seq(Nat) /\ Len(<<e>>) = 1 /\ Rising(<<e>>) /\ Range(<<e>>) = {e}
      /\ Append(s, e) = s \o <<e>>
  BY AppendIsConcat DEF Rising, Range
<1>2. Below(Range(s), Range(<<e>>))
  BY <1>1 DEF Below
<1>3. Len(s \o <<e>>) = Len(s) + 1
  BY <1>1, ConcatProperties
<1> QED
  BY <1>1, <1>2, <1>3, JoinProperties

\* The oldest event is taken from the front.
LEMMA TailRising ==
    ASSUME NEW s \in Seq(Nat), Rising(s), s # <<>>
    PROVE  /\ Tail(s) \in Seq(Nat) /\ Rising(Tail(s)) /\ Len(Tail(s)) = Len(s) - 1
           /\ Head(s) \in Range(s) /\ Head(s) \notin Range(Tail(s))
           /\ Range(s) = Range(Tail(s)) \cup {Head(s)}
<1>1. Len(s) \in Nat /\ Len(s) >= 1 /\ 1 \in 0..Len(s) /\ s[1] \in Nat /\ DOMAIN s = 1..Len(s)
  OBVIOUS
<1>2. Tail(s) = SubSeq(s, 1 + 1, Len(s)) /\ Head(s) = s[1]
  BY TailIsSubSeq
<1> DEFINE front == SubSeq(s, 1, 1)
           back  == SubSeq(s, 1 + 1, Len(s))
<1>3. Len(front) = 1 /\ DOMAIN front = 1..1 /\ front[1] = s[1]
  BY <1>1
<1>4. Range(front) = {s[1]}
  BY <1>3 DEF Range
<1>5. /\ back \in Seq(Nat) /\ Rising(back) /\ Len(back) = Len(s) - 1
      /\ Range(front) \cup Range(back) = Range(s)
      /\ Below(Range(front), Range(back))
  BY <1>1, CutProperties
<1>6. s[1] \notin Range(back)
  BY <1>1, <1>4, <1>5, SMTT(60) DEF Below
<1> QED
  BY <1>1, <1>2, <1>4, <1>5, <1>6

\* What makeBatches keeps of a rising queue, and how many events it rejects.
LEMMA KeepingsProperties ==
    ASSUME NEW s \in Seq(Nat), Rising(s), NEW kept \in Keepings(s)
    PROVE  LET rejected == Range(s) \ Range(kept)
           IN  /\ kept \in Seq(Nat) /\ Rising(kept) /\ Range(kept) \subseteq Range(s)
               /\ IsFiniteSet(rejected) /\ Cardinality(rejected) = Len(s) - Len(kept)
<1>1. Len(s) \in Nat /\ DOMAIN s = 1..Len(s) /\ \A i \in 1..Len(s) : s[i] \in Nat
  OBVIOUS
<1>2. kept \in Seq(Nat) /\ Rising(kept) /\ Range(kept) \subseteq Range(s)
  <2>1. CASE kept = s
    BY <2>1
  <2>2. CASE kept \in Subsequences(s)
    <3>1. PICK n \in 0..Len(s) : \E f \in Picks(n, s) : kept = [i \in 1..n |-> s[f[i]]]
      BY <2>2 DEF Subsequences
    <3>2. PICK f \in Picks(n, s) : kept = [i \in 1..n |-> s[f[i]]]
      BY <3>1
    <3>3. f \in [1..n -> 1..Len(s)] /\ \A i, j \in 1..n : i < j => f[i] < f[j]
      BY <3>2, <1>1 DEF Picks, Rising
    <3>4. \A i \in 1..n : f[i] \in 1..Len(s) /\ s[f[i]] \in Nat
      BY <3>3, <1>1
    <3>5. n \in Nat
      BY <1>1
    <3>6. kept \in Seq(Nat) /\ DOMAIN kept = 1..n /\ \A i \in 1..n : kept[i] = s[f[i]]
      BY <3>2, <3>4, <3>5
    <3>7. Rising(kept)
      BY <3>3, <3>4, <3>6, <1>1 DEF Rising
    <3>8. Range(kept) \subseteq Range(s)
      BY <3>4, <3>6, <1>1 DEF Range
    <3> QED
      BY <3>6, <3>7, <3>8
  <2> QED
    BY <2>1, <2>2 DEF Keepings
<1>3. /\ IsFiniteSet(Range(s)) /\ Cardinality(Range(s)) = Len(s)
      /\ Cardinality(Range(kept)) = Len(kept)
  BY <1>2, RisingCardinality
<1>4. Range(s) \cap Range(kept) = Range(kept)
  BY <1>2
<1>5. /\ IsFiniteSet(Range(s) \ Range(kept))
      /\ Cardinality(Range(s) \ Range(kept)) = Len(s) - Len(kept)
  <2>1. /\ IsFiniteSet(Range(s) \ Range(kept))
        /\ Cardinality(Range(s) \ Range(kept))
              = Cardinality(Range(s)) - Cardinality(Range(s) \cap Range(kept))
    BY <1>3, FS_Difference
  <2> QED
    BY <2>1, <1>3, <1>4
<1> QED
  BY <1>2, <1>5

-----------------------------------------------------------------------------
(***************************************************************************)
(* The chain of flushes and the lost events.                               *)
(***************************************************************************)

\* What waits is finitely many events, none of which is queued.
LEMMA PendingProperties ==
    ASSUME NEW q, NEW js, NEW b, NEW lo, NEW n, Types(q, js, b, lo, n),
           Order(q, js, b), Places(q, js, b, lo, n)
    PROVE  /\ Pending(js) \subseteq 1..n /\ IsFiniteSet(Pending(js))
           /\ Cardinality(Pending(js)) \in Nat
           /\ Pending(js) \cap Range(q) = {}
           /\ IsFiniteSet(lo) /\ Range(q) \subseteq 1..n /\ Range(b) \subseteq 1..n
<1>1. Pending(js) \subseteq 1..n /\ Range(q) \subseteq 1..n /\ Range(b) \subseteq 1..n
  BY DEF Places, Kept
<1>2. n \in Nat /\ lo \subseteq 1..n
  BY DEF Types
<1>3. IsFiniteSet(1..n)
  BY <1>2, FS_Interval
<1>4. Pending(js) \cap Range(q) = {}
  <2> SUFFICES ASSUME NEW i \in DOMAIN js, NEW x \in Range(js[i].pending), x \in Range(q)
               PROVE  FALSE
    BY DEF Pending
  <2>1. x < x
    BY DEF Order, Below
  <2>2. x \in Int
    BY <1>1, <1>2
  <2> QED
    BY <2>1, <2>2
<1> QED
  BY <1>1, <1>2, <1>3, <1>4, FS_Subset, FS_CardinalityType

\* Replacing the oldest flush.
LEMMA HeadReplaced ==
    ASSUME NEW js \in Seq(Job), js # <<>>, NEW J \in Job
    PROVE  LET k == [js EXCEPT ![1] = J]
               rest == UNION {Range(js[i].pending) : i \in DOMAIN js \ {1}}
           IN  /\ k \in Seq(Job) /\ DOMAIN k = DOMAIN js /\ Len(k) = Len(js) /\ k # <<>>
               /\ 1 \in DOMAIN js /\ k[1] = J
               /\ \A i \in DOMAIN js : i # 1 => k[i] = js[i]
               /\ Pending(k) = Range(J.pending) \cup rest
               /\ Pending(js) = Range(js[1].pending) \cup rest
<1> DEFINE k == [js EXCEPT ![1] = J]
           rest == UNION {Range(js[i].pending) : i \in DOMAIN js \ {1}}
<1>1. /\ k \in Seq(Job) /\ DOMAIN k = DOMAIN js /\ Len(k) = Len(js) /\ k # <<>>
      /\ 1 \in DOMAIN js /\ k[1] = J
      /\ \A i \in DOMAIN js : i # 1 => k[i] = js[i]
  OBVIOUS
<1> HIDE DEF k
<1>2. Pending(k) = Range(J.pending) \cup rest
  BY <1>1 DEF Pending
<1>3. Pending(js) = Range(js[1].pending) \cup rest
  BY <1>1 DEF Pending
<1> QED
  BY <1>1, <1>2, <1>3 DEF k

\* Lose() counts what it adds, when that was not lost before.
LEMMA LoseCounts ==
    ASSUME NEW gone, IsFiniteSet(gone), gone \cap lost = {}, IsFiniteSet(lost),
           dropped = Cardinality(lost), Lose(gone)
    PROVE  dropped' = Cardinality(lost')
<1>1. Cardinality(lost) \in Nat /\ Cardinality(gone) \in Nat
  BY FS_CardinalityType
<1>2. Cardinality(lost \cup gone) = Cardinality(lost) + Cardinality(gone) - Cardinality(lost \cap gone)
  BY FS_Union
<1>3. Cardinality(lost \cap gone) = 0
  <2>1. lost \cap gone = {}
    OBVIOUS
  <2> QED
    BY <2>1, FS_EmptySet
<1> QED
  BY <1>1, <1>2, <1>3 DEF Lose

-----------------------------------------------------------------------------
(***************************************************************************)
(* A flush, and the arming of the timer that may become one.               *)
(***************************************************************************)

\* A queue chained behind the flushes js.
LEMMA ChainKeeps ==
    ASSUME NEW q, NEW js, NEW b, NEW lo, NEW r, NEW n, Whole(q, js, b, lo, r, n),
           js # <<>>,
           NEW J, J = [pending |-> q, started |-> FALSE, ok |-> TRUE, events |-> Range(q)]
    PROVE  Whole(<<>>, Append(js, J), b, lo, r + Len(q), n)
<1> DEFINE k == Append(js, J)
<1> USE DEF Whole
<1>1. J \in Job /\ J.pending = q /\ J.started = FALSE /\ J.events = Range(q)
  BY DEF Types, Job, Range
<1>2. /\ k \in Seq(Job) /\ Len(k) = Len(js) + 1 /\ DOMAIN k = 1..(Len(js) + 1)
      /\ \A i \in DOMAIN js : k[i] = js[i]
      /\ k[Len(js) + 1] = J
  BY <1>1 DEF Types
<1>3. Len(js) \in Nat /\ Len(js) >= 1 /\ DOMAIN js = 1..Len(js)
  BY DEF Types
<1> HIDE DEF k
<1>4. Types(<<>>, k, b, lo, n)
  BY <1>2 DEF Types
<1>5. Pending(k) = Pending(js) \cup Range(q)
  BY <1>1, <1>2, <1>3 DEF Pending
<1>6. Range(<<>>) = {} /\ Rising(<<>>)
  BY DEF Range, Rising
<1>7. Order(<<>>, k, b)
  <2>1. ASSUME NEW i \in DOMAIN k
        PROVE  /\ Rising(k[i].pending)
               /\ Below(Range(delivered), Range(k[i].pending))
               /\ Below(Range(b), Range(k[i].pending))
    BY <1>1, <1>2, <1>3 DEF Order
  <2>2. ASSUME NEW i \in DOMAIN k, NEW j \in DOMAIN k, i < j
        PROVE  Below(Range(k[i].pending), Range(k[j].pending))
    <3>1. i \in DOMAIN js
      BY <2>2, <1>2, <1>3
    <3> QED
      BY <2>2, <3>1, <1>1, <1>2, <1>3 DEF Order
  <2> QED
    BY <2>1, <2>2, <1>6 DEF Order, Below
<1>8. Places(<<>>, k, b, lo, n)
  BY <1>5, <1>6 DEF Places, Kept
<1>9. Reserved(<<>>, k, r + Len(q))
  <2>1. /\ IsFiniteSet(Range(q)) /\ Cardinality(Range(q)) = Len(q) /\ Len(q) \in Nat
    BY RisingCardinality DEF Types, Order
  <2>2. /\ IsFiniteSet(Pending(js)) /\ Cardinality(Pending(js)) \in Nat
        /\ Pending(js) \cap Range(q) = {}
    BY PendingProperties
  <2>3. Cardinality(Pending(js) \cap Range(q)) = 0
    BY <2>2, FS_EmptySet
  <2>4. Cardinality(Pending(js) \cup Range(q)) = Cardinality(Pending(js)) + Cardinality(Range(q))
                                                  - Cardinality(Pending(js) \cap Range(q))
    BY <2>1, <2>2, FS_Union
  <2>5. Cardinality(Pending(k)) = Cardinality(Pending(js)) + Len(q)
    BY <2>1, <2>2, <2>3, <2>4, <1>5
  <2> QED
    BY <2>1, <2>2, <2>5, ConstantsAssumption DEF Reserved
<1>10. Honest(k, b)
  BY <1>1, <1>2, <1>3 DEF Honest
<1>11. Turns(k, b)
  BY <1>1, <1>2, <1>3 DEF Turns
<1> QED
  BY <1>4, <1>7, <1>8, <1>9, <1>10, <1>11 DEF k

\* A queue flushed when no other flush is unfinished: what is kept of it is cut
\* into the first batch and the rest, which is reserved.
LEMMA StartKeeps ==
    ASSUME NEW q, NEW b, NEW lo, NEW r, NEW n, Whole(q, <<>>, b, lo, r, n),
           NEW kept \in Keepings(q), NEW m \in BatchLengths(kept),
           NEW J, J = [pending |-> SubSeq(kept, m + 1, Len(kept)), started |-> TRUE,
                       ok |-> Range(q) \ Range(kept) = {}, events |-> Range(q)]
    PROVE  /\ Whole(<<>>, <<J>>, SubSeq(kept, 1, m), lo \cup (Range(q) \ Range(kept)),
                    r + Waiting(kept, m), n)
           /\ SubSeq(kept, 1, m) \in Seq(Nat)
           /\ m = 0 <=> SubSeq(kept, 1, m) = <<>>
<1> DEFINE front == SubSeq(kept, 1, m)
           back  == SubSeq(kept, m + 1, Len(kept))
           gone  == Range(q) \ Range(kept)
           one   == <<J>>
<1> USE DEF Whole
<1>1. q \in Seq(Nat) /\ Rising(q)
  BY DEF Types, Order
<1>2. /\ kept \in Seq(Nat) /\ Rising(kept) /\ Range(kept) \subseteq Range(q)
      /\ IsFiniteSet(gone) /\ Cardinality(gone) = Len(q) - Len(kept)
  BY <1>1, KeepingsProperties
<1>3. m \in 0..Len(kept) /\ Len(kept) \in Nat /\ (m = 0 => kept = <<>>)
  BY <1>2, ConstantsAssumption DEF BatchLengths, Min2
<1>4. /\ front \in Seq(Nat) /\ back \in Seq(Nat) /\ Rising(front) /\ Rising(back)
      /\ Len(front) = m /\ Len(back) = Len(kept) - m
      /\ Range(front) \cup Range(back) = Range(kept) /\ Below(Range(front), Range(back))
  BY <1>2, <1>3, CutProperties
<1>5. b = <<>> /\ Pending(<<>>) = {} /\ Range(<<>>) = {} /\ Rising(<<>>)
  BY DEF Turns, Pending, Range, Rising
<1>6. J \in Job
  <2>1. (gone = {}) \in BOOLEAN /\ Range(q) \in SUBSET Nat
    BY <1>1 DEF Range
  <2> QED
    BY <2>1, <1>4 DEF Job
<1>7. J.pending = back /\ J.started = TRUE /\ (J.ok => gone = {}) /\ J.events = Range(q)
  OBVIOUS
<1>8. one \in Seq(Job) /\ DOMAIN one = {1} /\ one[1] = J /\ one # <<>>
  BY <1>6
<1> HIDE DEF front, back, gone, one
<1>9. Pending(one) = Range(back)
  BY <1>7, <1>8 DEF Pending
<1>10. gone \subseteq Range(q) /\ Range(q) = gone \cup Range(kept) /\ gone \cap Range(kept) = {}
  BY <1>2 DEF gone
<1>11. Types(<<>>, one, front, lo \cup gone, n)
  <2>1. gone \subseteq 1..n
    BY <1>10 DEF Places, Kept
  <2>2. <<>> \in Seq(Nat)
    OBVIOUS
  <2> QED
    BY <2>1, <2>2, <1>4, <1>8 DEF Types
<1>12. Order(<<>>, one, front)
  <2>1. Below(Range(delivered), Range(front)) /\ Below(Range(delivered), Range(back))
    BY <1>2, <1>4 DEF Order, Below
  <2>2. \A i \in DOMAIN one :
           /\ Rising(one[i].pending)
           /\ Below(Range(delivered), Range(one[i].pending))
           /\ Below(Range(front), Range(one[i].pending))
    BY <2>1, <1>4, <1>7, <1>8
  <2>3. \A i, j \in DOMAIN one : ~(i < j)
    BY <1>8
  <2>4. \A A : Below(A, Range(<<>>))
    BY <1>5 DEF Below
  <2>5. Rising(delivered)
    BY DEF Order
  <2> QED
    BY <2>1, <2>2, <2>3, <2>4, <2>5, <1>4, <1>5 DEF Order
<1>13. Places(<<>>, one, front, lo \cup gone, n)
  <2>1. Kept(q, <<>>, b) = Range(q) \cup Range(delivered)
    BY <1>5 DEF Kept
  <2>2. Kept(<<>>, one, front) = Range(kept) \cup Range(delivered)
    BY <1>4, <1>5, <1>9 DEF Kept
  <2>3. gone \cap Range(delivered) = {}
    <3> SUFFICES ASSUME NEW x \in Range(q), x \in Range(delivered) PROVE FALSE
      BY <1>10
    <3>1. x < x /\ x \in Nat
      BY <1>1 DEF Order, Below, Range
    <3> QED
      BY <3>1
  <2> QED
    BY <2>1, <2>2, <2>3, <1>10 DEF Places
<1>14. Reserved(<<>>, one, r + Waiting(kept, m))
  <2>1. Cardinality(Pending(one)) = Len(kept) - m
    BY <1>4, <1>9, RisingCardinality
  <2>2. Cardinality(Pending(<<>>)) = 0
    BY <1>5, FS_EmptySet
  <2>3. Len(q) \in Nat /\ Len(q) >= Len(kept)
    <3>1. Cardinality(gone) \in Nat
      BY <1>2, FS_CardinalityType DEF gone
    <3> QED
      BY <3>1, <1>1, <1>2, <1>3 DEF gone
  <2> QED
    BY <2>1, <2>2, <2>3, <1>3, ConstantsAssumption DEF Reserved, Waiting
<1>15. Honest(one, front)
  <2>1. one[1].ok => one[1].events \subseteq Range(back) \cup Range(front)
    BY <1>4, <1>7, <1>8, <1>10
  <2> QED
    BY <2>1, <1>7, <1>8 DEF Honest
<1>16. Turns(one, front)
  BY <1>7, <1>8 DEF Turns
<1>17. m = 0 <=> front = <<>>
  BY <1>3, <1>4
<1> QED
  BY <1>4, <1>11, <1>12, <1>13, <1>14, <1>15, <1>16, <1>17 DEF front, back, gone, one

\* FlushQueue(q, gone, active), whatever the step did before it.
LEMMA FlushKeeps ==
    ASSUME NEW q, NEW gone, NEW active, NEW n,
           Whole(q, active, current.batch, lost \cup gone, reserved, n),
           Batch, dropped = Cardinality(lost), gone \cap lost = {},
           FlushQueue(q, gone, active)
    PROVE  /\ Whole(queue', jobs', current'.batch, lost', reserved', n)
           /\ Batch' /\ dropped' = Cardinality(lost')
<1>1. IsFiniteSet(lost \cup gone) /\ IsFiniteSet(lost) /\ IsFiniteSet(gone) /\ Range(q) \subseteq 1..n
  <2>1. IsFiniteSet(lost \cup gone) /\ Range(q) \subseteq 1..n
    BY PendingProperties DEF Whole
  <2> QED
    BY <2>1, FS_Subset
<1>2. CASE q = <<>> /\ jobs' = active /\ Lose(gone) /\ UNCHANGED <<reserved, current>>
  <2>1. queue' = q /\ lost' = lost \cup gone /\ dropped' = Cardinality(lost')
    BY <1>1, <1>2, LoseCounts DEF FlushQueue, Lose
  <2> QED
    BY <1>2, <2>1 DEF Batch
<1>3. CASE /\ q # <<>> /\ active # <<>>
           /\ jobs' = Chained(active, [pending |-> q, started |-> FALSE,
                                       ok |-> TRUE, events |-> Range(q)])
           /\ reserved' = reserved + Len(q)
           /\ Lose(gone)
           /\ UNCHANGED current
  <2>1. queue' = <<>> /\ lost' = lost \cup gone /\ dropped' = Cardinality(lost')
    BY <1>1, <1>3, LoseCounts DEF FlushQueue, Lose
  <2>2. Whole(<<>>, jobs', current.batch, lost \cup gone, reserved', n)
    BY <1>3, ChainKeeps DEF Chained
  <2> QED
    BY <1>3, <2>1, <2>2 DEF Batch
<1>4. ASSUME q # <<>>, active = <<>>, NEW kept \in Keepings(q), NEW m \in BatchLengths(kept),
             jobs' = <<[pending |-> SubSeq(kept, m + 1, Len(kept)), started |-> TRUE,
                        ok |-> Range(q) \ Range(kept) = {}, events |-> Range(q)]>>,
             reserved' = reserved + Waiting(kept, m),
             current' = IF m = 0 THEN NoBatch ELSE FirstTry(SubSeq(kept, 1, m)),
             Lose(gone \cup (Range(q) \ Range(kept)))
      PROVE  /\ Whole(queue', jobs', current'.batch, lost', reserved', n)
             /\ Batch' /\ dropped' = Cardinality(lost')
  <2> DEFINE rejected == Range(q) \ Range(kept)
             front == SubSeq(kept, 1, m)
  <2>1. /\ Whole(<<>>, jobs', front, (lost \cup gone) \cup rejected, reserved', n)
        /\ front \in Seq(Nat)
        /\ m = 0 <=> front = <<>>
    BY <1>4, StartKeeps
  <2> HIDE DEF front, rejected
  <2>2. current'.batch = front /\ Batch'
    <3>1. CASE m = 0
      BY <3>1, <1>4, <2>1 DEF NoBatch, Batch
    <3>2. CASE m # 0
      <4>1. current' = FirstTry(front)
        BY <3>2, <1>4 DEF front
      <4> QED
        BY <3>2, <4>1, <2>1 DEF FirstTry, NoBatch, Batch
    <3> QED
      BY <3>1, <3>2
  <2>3. IsFiniteSet(gone \cup rejected) /\ (gone \cup rejected) \cap lost = {}
    <3>1. IsFiniteSet(Range(q)) /\ Range(q) \cap lost = {}
      BY RisingCardinality DEF Whole, Types, Order, Places, Kept
    <3>2. rejected \subseteq Range(q)
      BY DEF rejected
    <3>3. IsFiniteSet(rejected)
      BY <3>1, <3>2, FS_Subset
    <3> QED
      BY <1>1, <3>1, <3>2, <3>3, FS_Union
  <2>4. dropped' = Cardinality(lost') /\ lost' = (lost \cup gone) \cup rejected
    <3>1. Lose(gone \cup rejected)
      BY <1>4 DEF rejected
    <3>2. dropped' = Cardinality(lost')
      BY <1>1, <2>3, <3>1, LoseCounts
    <3> QED
      BY <3>1, <3>2 DEF Lose
  <2>5. queue' = <<>>
    BY DEF FlushQueue
  <2> QED
    BY <2>1, <2>2, <2>4, <2>5
<1> QED
  BY <1>2, <1>3, <1>4 DEF FlushQueue

\* ScheduleFlush(q, gone, active).
LEMMA ScheduleKeeps ==
    ASSUME NEW q, NEW gone, NEW active, NEW n,
           Whole(q, active, current.batch, lost \cup gone, reserved, n),
           Batch, dropped = Cardinality(lost), gone \cap lost = {},
           ScheduleFlush(q, gone, active)
    PROVE  /\ Whole(queue', jobs', current'.batch, lost', reserved', n)
           /\ Batch' /\ dropped' = Cardinality(lost')
<1>1. CASE queue' = q /\ jobs' = active /\ Lose(gone) /\ UNCHANGED <<reserved, current>>
  <2>1. IsFiniteSet(lost \cup gone)
    BY PendingProperties DEF Whole
  <2>2. IsFiniteSet(lost) /\ IsFiniteSet(gone)
    BY <2>1, FS_Subset
  <2>3. lost' = lost \cup gone /\ dropped' = Cardinality(lost')
    BY <1>1, <2>2, LoseCounts DEF Lose
  <2> QED
    BY <1>1, <2>3 DEF Batch
<1>2. CASE FlushQueue(q, gone, active)
  BY <1>2, FlushKeeps
<1> QED
  BY <1>1, <1>2 DEF ScheduleFlush

-----------------------------------------------------------------------------
(***************************************************************************)
(* capture().                                                              *)
(***************************************************************************)

\* The oldest queued event is dropped.
LEMMA DropOldestKeeps ==
    ASSUME NEW q, NEW js, NEW b, NEW lo, NEW r, NEW n, Whole(q, js, b, lo, r, n), q # <<>>
    PROVE  /\ Whole(Tail(q), js, b, lo \cup {Head(q)}, r, n)
           /\ Len(Tail(q)) + r < MaxQueueSize
           /\ Head(q) \notin lo
<1> USE DEF Whole
<1> DEFINE t == Tail(q)  h == Head(q)
<1>1. q \in Seq(Nat) /\ Rising(q) /\ Len(q) \in Nat
  BY DEF Types, Order
<1>2. /\ t \in Seq(Nat) /\ Rising(t) /\ Len(t) = Len(q) - 1
      /\ h \in Range(q) /\ h \notin Range(t) /\ Range(q) = Range(t) \cup {h}
  BY <1>1, TailRising
<1> HIDE DEF t, h
<1>3. \A A : Below(A, Range(q)) => Below(A, Range(t)) /\ ~(h \in A)
  <2> SUFFICES ASSUME NEW A, Below(A, Range(q)) PROVE Below(A, Range(t)) /\ ~(h \in A)
    OBVIOUS
  <2>1. Below(A, Range(t))
    BY <1>2 DEF Below
  <2>2. h \in Nat
    BY <1>1, <1>2 DEF Range
  <2> QED
    BY <2>1, <2>2, <1>2 DEF Below
<1>4. Types(t, js, b, lo \cup {h}, n)
  BY <1>2 DEF Types, Places, Kept
<1>5. Order(t, js, b)
  BY <1>2, <1>3 DEF Order
<1>6. Places(t, js, b, lo \cup {h}, n)
  <2>1. h \notin Pending(js) /\ h \notin Range(b) /\ h \notin Range(delivered)
    BY <1>3 DEF Order, Pending
  <2> QED
    BY <2>1, <1>2 DEF Places, Kept
<1>7. Reserved(t, js, r) /\ Len(t) + r < MaxQueueSize
  BY <1>1, <1>2, ConstantsAssumption DEF Reserved
<1>8. h \notin lo
  BY <1>2 DEF Places, Kept
<1> QED
  BY <1>4, <1>5, <1>6, <1>7, <1>8 DEF t, h

\* A new event is queued.
LEMMA AppendKeeps ==
    ASSUME NEW q, NEW js, NEW b, NEW lo, NEW r, NEW n, Whole(q, js, b, lo, r, n),
           Len(q) + r < MaxQueueSize
    PROVE  Whole(Append(q, n + 1), js, b, lo, r, n + 1)
<1> USE DEF Whole
<1> DEFINE t == Append(q, n + 1)
<1>1. /\ q \in Seq(Nat) /\ Rising(q) /\ Len(q) \in Nat /\ n \in Nat /\ n + 1 \in Nat
      /\ \A x \in 1..n : x < n + 1 /\ x \in 1..(n + 1)
      /\ n + 1 \notin 1..n /\ 1..(n + 1) = 1..n \cup {n + 1}
  BY DEF Types, Order
<1>2. Kept(q, js, b) \subseteq 1..n /\ \A x \in Kept(q, js, b) : x < n + 1
  BY <1>1 DEF Places
<1>3. /\ t \in Seq(Nat) /\ Rising(t) /\ Len(t) = Len(q) + 1 /\ Range(t) = Range(q) \cup {n + 1}
  BY <1>1, <1>2, AppendRising DEF Kept
<1> HIDE DEF t
<1>4. Types(t, js, b, lo, n + 1)
  BY <1>1, <1>3 DEF Types
<1>5. Order(t, js, b)
  <2>1. \A A : A \subseteq Kept(q, js, b) /\ Below(A, Range(q)) => Below(A, Range(t))
    BY <1>2, <1>3 DEF Below
  <2>2. /\ Range(delivered) \subseteq Kept(q, js, b) /\ Range(b) \subseteq Kept(q, js, b)
        /\ \A i \in DOMAIN js : Range(js[i].pending) \subseteq Kept(q, js, b)
    BY DEF Kept, Pending
  <2> QED
    BY <2>1, <2>2, <1>3 DEF Order
<1>6. Places(t, js, b, lo, n + 1)
  <2>1. Kept(t, js, b) = Kept(q, js, b) \cup {n + 1}
    BY <1>3 DEF Kept
  <2>2. n + 1 \notin lo
    BY <1>1 DEF Types
  <2> QED
    BY <2>1, <2>2, <1>1 DEF Places
<1>7. Reserved(t, js, r)
  BY <1>1, <1>3, ConstantsAssumption DEF Reserved
<1> QED
  BY <1>4, <1>5, <1>6, <1>7 DEF t

\* A new event is given up at once.
LEMMA RefuseKeeps ==
    ASSUME NEW q, NEW js, NEW b, NEW lo, NEW r, NEW n, Whole(q, js, b, lo, r, n)
    PROVE  Whole(q, js, b, lo \cup {n + 1}, r, n + 1) /\ n + 1 \notin lo
<1> USE DEF Whole
<1>1. /\ n \in Nat /\ n + 1 \in Nat /\ \A x \in 1..n : x \in 1..(n + 1)
      /\ n + 1 \notin 1..n /\ 1..(n + 1) = 1..n \cup {n + 1}
  BY DEF Types
<1>2. Types(q, js, b, lo \cup {n + 1}, n + 1)
  BY <1>1 DEF Types
<1>3. Places(q, js, b, lo \cup {n + 1}, n + 1)
  BY <1>1 DEF Places
<1>4. n + 1 \notin lo
  BY <1>1 DEF Types
<1> QED
  BY <1>2, <1>3, <1>4

\* The invariant but for what capture() does not touch.
Client == Whole(queue, jobs, current.batch, lost, reserved, offered) /\ Batch /\ dropped = Cardinality(lost)

\* An event that got as far as the queue: what makes room, what is flushed.
LEMMA AcceptKeeps ==
    ASSUME Client, Accept
    PROVE  Whole(queue', jobs', current'.batch, lost', reserved', offered')
           /\ Batch' /\ dropped' = Cardinality(lost')
<1> USE DEF Client
<1> DEFINE id == offered + 1
           gone == IF Full THEN {Head(queue)} ELSE {}
           q == Append(IF Full THEN Tail(queue) ELSE queue, id)
<1>1. offered' = id /\ (Enqueue \/ DropOversized)
  BY DEF Accept
<1>2. IsFiniteSet(lost)
  BY PendingProperties DEF Whole
<1>3. CASE Lose({id}) /\ UNCHANGED <<queue, reserved, jobs, current, timer>>
  <2>1. Whole(queue, jobs, current.batch, lost \cup {id}, reserved, id) /\ id \notin lost
    BY RefuseKeeps
  <2>2. IsFiniteSet({id}) /\ {id} \cap lost = {}
    BY <2>1, FS_Singleton
  <2>3. lost' = lost \cup {id} /\ dropped' = Cardinality(lost')
    BY <1>2, <1>3, <2>2, LoseCounts DEF Lose
  <2> QED
    BY <1>1, <1>3, <2>1, <2>3 DEF Batch
<1>4. CASE Enqueue /\ ~(Full /\ queue = <<>>)
  <2>1. Whole(q, jobs, current.batch, lost \cup gone, reserved, id) /\ gone \cap lost = {}
    <3>1. CASE Full
      <4>1. /\ Whole(Tail(queue), jobs, current.batch, lost \cup {Head(queue)}, reserved, offered)
            /\ Len(Tail(queue)) + reserved < MaxQueueSize
            /\ Head(queue) \notin lost
        BY <1>4, <3>1, DropOldestKeeps
      <4>2. Whole(Append(Tail(queue), id), jobs, current.batch, lost \cup {Head(queue)}, reserved, id)
        BY <4>1, AppendKeeps
      <4> QED
        BY <3>1, <4>1, <4>2
    <3>2. CASE ~Full
      <4>1. Len(queue) + reserved < MaxQueueSize
        BY <3>2, ConstantsAssumption DEF Full, Whole, Types, Reserved
      <4>2. Whole(Append(queue, id), jobs, current.batch, lost, reserved, id)
        BY <4>1, AppendKeeps
      <4> QED
        BY <3>2, <4>2
    <3> QED
      BY <3>1, <3>2
  <2> HIDE DEF q, gone
  <2>2. CASE queue' = q /\ Lose(gone) /\ UNCHANGED <<reserved, jobs, current, timer>>
    <3>1. IsFiniteSet(lost \cup gone)
      BY <2>1, PendingProperties DEF Whole
    <3>2. IsFiniteSet(gone)
      BY <3>1, FS_Subset
    <3>3. lost' = lost \cup gone /\ dropped' = Cardinality(lost')
      BY <1>2, <2>1, <2>2, <3>2, LoseCounts DEF Lose
    <3> QED
      BY <1>1, <2>1, <2>2, <3>3 DEF Batch
  <2>3. CASE jobs = <<>> /\ FlushQueue(q, gone, <<>>)
    BY <1>1, <2>1, <2>3, FlushKeeps
  <2>4. CASE ScheduleFlush(q, gone, jobs)
    BY <1>1, <2>1, <2>4, ScheduleKeeps
  <2> QED
    BY <1>4, <2>2, <2>3, <2>4 DEF Enqueue, q, gone
<1> QED
  BY <1>1, <1>3, <1>4 DEF Enqueue, DropOversized

-----------------------------------------------------------------------------
(***************************************************************************)
(* The oldest flush, its batches and its end.                              *)
(***************************************************************************)

\* The oldest flush becomes J and its batch c, when `gone` of their events are
\* given up: what an unfinished flush may do.
LEMMA HeadKeeps ==
    ASSUME NEW q, NEW js, NEW b, NEW lo, NEW r, NEW n, Whole(q, js, b, lo, r, n), js # <<>>,
           NEW J \in Job, NEW c \in Seq(Nat), NEW gone,
           Rising(J.pending), Rising(c), Below(Range(c), Range(J.pending)),
           Range(J.pending) \subseteq Range(js[1].pending),
           gone \cup Range(c) \subseteq Range(b) \cup Range(js[1].pending),
           gone \cap (Range(c) \cup Range(J.pending)) = {},
           host # "throw" =>
               Range(b) \cup Range(js[1].pending) \subseteq gone \cup Range(c) \cup Range(J.pending),
           J.ok => /\ js[1].ok /\ J.events = js[1].events
                   /\ Range(b) \cup Range(js[1].pending) \subseteq Range(c) \cup Range(J.pending),
           c # <<>> => J.started
    PROVE  LET k == [js EXCEPT ![1] = J]
           IN  /\ Types(q, k, c, lo \cup gone, n) /\ Order(q, k, c)
               /\ Places(q, k, c, lo \cup gone, n) /\ Honest(k, c) /\ Turns(k, c)
               /\ Cardinality(Pending(k)) \in Nat /\ Cardinality(Pending(js)) \in Nat
               /\ Cardinality(Pending(k))
                     = Cardinality(Pending(js)) - Len(js[1].pending) + Len(J.pending)
<1> DEFINE k == [js EXCEPT ![1] = J]
           rest == UNION {Range(js[i].pending) : i \in DOMAIN js \ {1}}
           P == js[1].pending
<1> USE DEF Whole
<1>1. /\ k \in Seq(Job) /\ DOMAIN k = DOMAIN js /\ Len(k) = Len(js) /\ k # <<>>
      /\ 1 \in DOMAIN js /\ k[1] = J
      /\ \A i \in DOMAIN js : i # 1 => k[i] = js[i]
      /\ Pending(k) = Range(J.pending) \cup rest
      /\ Pending(js) = Range(P) \cup rest
  BY HeadReplaced DEF Types
<1>2. js \in Seq(Job) /\ DOMAIN js = 1..Len(js) /\ Len(js) \in Nat /\ Len(js) >= 1
  BY DEF Types
<1> HIDE DEF k
<1>3. Types(q, k, c, lo \cup gone, n)
  <2>1. gone \subseteq 1..n
    BY <1>1 DEF Places, Kept
  <2> QED
    BY <2>1, <1>1 DEF Types
<1>4. Order(q, k, c)
  <2>1. \A A : Below(A, Range(b)) /\ Below(A, Range(P)) => Below(A, Range(c)) /\ Below(A, Range(J.pending))
    BY DEF Below
  <2>2. \A A : Below(Range(b), A) /\ Below(Range(P), A) => Below(Range(c), A) /\ Below(Range(J.pending), A)
    <3> TAKE A
    <3>1. Below(Range(b), A) /\ Below(Range(P), A) => Below(Range(c), A)
      BY DEF Below
    <3>2. Below(Range(P), A) => Below(Range(J.pending), A)
      BY DEF Below
    <3> QED
      BY <3>1, <3>2
  <2>3. Below(Range(delivered), Range(c)) /\ Below(Range(c), Range(q))
    BY <1>1, <2>1, <2>2 DEF Order
  <2>4. ASSUME NEW i \in DOMAIN k
        PROVE  /\ Rising(k[i].pending)
               /\ Below(Range(delivered), Range(k[i].pending))
               /\ Below(Range(c), Range(k[i].pending))
               /\ Below(Range(k[i].pending), Range(q))
    <3>1. CASE i = 1
      BY <3>1, <1>1, <2>1, <2>2 DEF Order
    <3>2. CASE i # 1
      <4>1. /\ i \in DOMAIN js /\ k[i] = js[i]
            /\ Below(Range(P), Range(js[i].pending)) /\ Below(Range(b), Range(js[i].pending))
        BY <3>2, <1>1, <1>2 DEF Order
      <4>2. Below(Range(c), Range(k[i].pending))
        BY <4>1, <2>2
      <4> QED
        BY <4>1, <4>2 DEF Order
    <3> QED
      BY <3>1, <3>2
  <2>5. ASSUME NEW i \in DOMAIN k, NEW j \in DOMAIN k, i < j
        PROVE  Below(Range(k[i].pending), Range(k[j].pending))
    <3>1. j # 1 /\ k[j] = js[j] /\ Below(Range(js[i].pending), Range(js[j].pending))
      BY <2>5, <1>1, <1>2 DEF Order
    <3>2. CASE i = 1
      BY <3>1, <3>2, <1>1 DEF Below
    <3>3. CASE i # 1
      BY <3>1, <3>3, <1>1
    <3> QED
      BY <3>2, <3>3
  <2> QED
    BY <2>3, <2>4, <2>5 DEF Order
<1>5. Range(P) \cap rest = {}
  <2> SUFFICES ASSUME NEW i \in DOMAIN js, i # 1, NEW x \in Range(js[i].pending), x \in Range(P)
               PROVE  FALSE
    OBVIOUS
  <2>1. x < x
    BY <1>1, <1>2 DEF Order, Below
  <2>2. x \in 1..n
    BY DEF Places, Kept, Pending
  <2> QED
    BY <2>1, <2>2 DEF Types
<1>6. Range(b) \cap rest = {}
  <2> SUFFICES ASSUME NEW i \in DOMAIN js, NEW x \in Range(js[i].pending), x \in Range(b)
               PROVE  FALSE
    OBVIOUS
  <2>1. x < x
    BY DEF Order, Below
  <2>2. x \in 1..n
    BY DEF Places, Kept, Pending
  <2> QED
    BY <2>1, <2>2 DEF Types
<1>7. Places(q, k, c, lo \cup gone, n)
  <2>1. ASSUME NEW x \in Range(b) \cup Range(P)
        PROVE  x \notin Range(q) /\ x \notin Range(delivered)
    <3>1. x \in 1..n
      BY <1>1 DEF Places, Kept
    <3>2. x \in Int
      BY <3>1 DEF Types
    <3> QED
      BY <2>1, <3>2, <1>1 DEF Order, Below
  <2>2. gone \cap Kept(q, k, c) = {}
    BY <2>1, <1>1, <1>5, <1>6 DEF Kept
  <2>3. Kept(q, k, c) \subseteq Kept(q, js, b)
    BY <1>1 DEF Kept
  <2>4. host # "throw" => Kept(q, js, b) \subseteq Kept(q, k, c) \cup gone
    BY <1>1 DEF Kept
  <2> QED
    BY <2>2, <2>3, <2>4 DEF Places
<1>8. Honest(k, c)
  <2> SUFFICES ASSUME NEW i \in DOMAIN k, k[i].ok
               PROVE  k[i].events \subseteq
                         Range(delivered) \cup Range(k[i].pending) \cup (IF i = 1 THEN Range(c) ELSE {})
    BY DEF Honest
  <2>1. CASE i = 1
    BY <2>1, <1>1 DEF Honest
  <2>2. CASE i # 1
    BY <2>2, <1>1 DEF Honest
  <2> QED
    BY <2>1, <2>2
<1>9. Turns(k, c)
  BY <1>1, <1>2 DEF Turns
<1>10. /\ Cardinality(Pending(k)) \in Nat /\ Cardinality(Pending(js)) \in Nat
       /\ Cardinality(Pending(k)) = Cardinality(Pending(js)) - Len(P) + Len(J.pending)
  <2>1. IsFiniteSet(Pending(js)) /\ Cardinality(Pending(js)) \in Nat
    BY PendingProperties
  <2>2. IsFiniteSet(rest)
    BY <2>1, <1>1, FS_Subset
  <2>3. /\ IsFiniteSet(Range(P)) /\ Cardinality(Range(P)) = Len(P) /\ Len(P) \in Nat
        /\ IsFiniteSet(Range(J.pending)) /\ Cardinality(Range(J.pending)) = Len(J.pending)
        /\ Len(J.pending) \in Nat
    <3>1. Rising(P)
      BY <1>1 DEF Order
    <3>2. js[1] \in Job
      BY <1>2
    <3>3. P \in Seq(Nat) /\ J.pending \in Seq(Nat)
      BY <3>2 DEF Job
    <3> QED
      BY <3>1, <3>3, RisingCardinality
  <2>4. Cardinality(Range(P) \cap rest) = 0 /\ Cardinality(Range(J.pending) \cap rest) = 0
    <3>1. Range(P) \cap rest = {} /\ Range(J.pending) \cap rest = {}
      BY <1>5
    <3> QED
      BY <3>1, FS_EmptySet
  <2>5. Cardinality(Range(P) \cup rest)
          = Cardinality(Range(P)) + Cardinality(rest) - Cardinality(Range(P) \cap rest)
    BY <2>2, <2>3, FS_Union
  <2>6. Cardinality(Range(J.pending) \cup rest)
          = Cardinality(Range(J.pending)) + Cardinality(rest) - Cardinality(Range(J.pending) \cap rest)
    BY <2>2, <2>3, FS_Union
  <2>7. Cardinality(rest) \in Nat
    BY <2>2, FS_CardinalityType
  <2>8. /\ Cardinality(Pending(k)) = Cardinality(Range(J.pending) \cup rest)
        /\ Cardinality(Pending(js)) = Cardinality(Range(P) \cup rest)
    BY <1>1
  <2> HIDE DEF rest, P
  <2> QED
    BY <2>3, <2>4, <2>5, <2>6, <2>7, <2>8
<1> QED
  BY <1>3, <1>4, <1>7, <1>8, <1>9, <1>10 DEF k

-----------------------------------------------------------------------------
(***************************************************************************)
(* Every step keeps the invariant.                                         *)
(***************************************************************************)

\* What the step says of the queue, the flushes and the lost events is the
\* invariant after the step, if it delivers nothing.
LEMMA Assembled ==
    ASSUME Whole(queue', jobs', current'.batch, lost', reserved', offered'),
           UNCHANGED <<host, delivered>>
    PROVE  Whole(queue, jobs, current.batch, lost, reserved, offered)'
<1> USE DEF Whole
<1>1. Types(queue, jobs, current.batch, lost, offered)'
  BY DEF Types
<1>2. Order(queue, jobs, current.batch)'
  BY DEF Order
<1>3. Places(queue, jobs, current.batch, lost, offered)'
  BY DEF Places, Kept
<1>4. Reserved(queue, jobs, reserved)'
  BY DEF Reserved
<1>5. Honest(jobs, current.batch)'
  BY DEF Honest
<1>6. Turns(jobs, current.batch)'
  BY DEF Turns
<1> QED
  BY <1>1, <1>2, <1>3, <1>4, <1>5, <1>6

\* A client that was just created.
LEMMA InitInv == Init => IInv
<1> SUFFICES ASSUME Init PROVE IInv
  OBVIOUS
<1> USE DEF Init
<1>1. /\ Range(<<>>) = {} /\ Rising(<<>>) /\ DOMAIN <<>> = {} /\ Len(<<>>) = 0
      /\ Pending(<<>>) = {} /\ 1..0 = {} /\ Cardinality({}) = 0
  BY FS_EmptySet DEF Range, Rising, Pending
<1>2. current.batch = <<>> /\ current = NoBatch /\ Batch
  BY DEF NoBatch, Batch
<1>3. Types(<<>>, <<>>, <<>>, {}, 0)
  BY DEF Types
<1>4. Order(<<>>, <<>>, <<>>) /\ Honest(<<>>, <<>>) /\ Turns(<<>>, <<>>)
  BY <1>1 DEF Order, Below, Honest, Turns
<1>5. Places(<<>>, <<>>, <<>>, {}, 0)
  BY <1>1 DEF Places, Kept
<1>6. Reserved(<<>>, <<>>, 0)
  <2>1. Cardinality(Pending(<<>>)) = 0
    BY <1>1
  <2>2. 0 \in Int /\ 0 + 0 <= MaxQueueSize
    BY ConstantsAssumption
  <2> QED
    BY <1>1, <2>1, <2>2 DEF Reserved
<1> QED
  BY <1>1, <1>2, <1>3, <1>4, <1>5, <1>6 DEF IInv, Whole, Stats, FlushTellsTheTruth

\* The host's calls, the return of its callbacks and the timer.
LEMMA HostKeepsInv ==
    ASSUME IInv, Host \/ CaptureResumes \/ TimerFires
    PROVE  IInv'
<1>1. Client
  BY DEF IInv, Stats, Client
<1>2. UNCHANGED <<host, delivered, sent, reports>>
  BY DEF Host, Capture, CaptureCallsHost, Flush, Destroy, CaptureResumes, TimerFires, delivery
<1>3. /\ Whole(queue', jobs', current'.batch, lost', reserved', offered')
      /\ Batch' /\ dropped' = Cardinality(lost')
  <2>1. CASE Accept
    BY <2>1, <1>1, AcceptKeeps
  <2>2. CASE FlushQueue(queue, {}, jobs) /\ UNCHANGED offered
    <3>1. lost \cup {} = lost /\ {} \cap lost = {}
      OBVIOUS
    <3>2. Whole(queue, jobs, current.batch, lost \cup {}, reserved, offered)
      BY <1>1, <3>1 DEF Client
    <3> QED
      BY <2>2, <1>1, <3>1, <3>2, FlushKeeps DEF Client
  <2>3. CASE UNCHANGED <<offered, queue, reserved, jobs, current, dropped, lost>>
    BY <2>3, <1>1 DEF Client, Batch
  <2> QED
    BY <2>1, <2>2, <2>3 DEF Host, Capture, CaptureCallsHost, Flush, Destroy, CaptureResumes,
                            TimerFires, delivery
<1>4. Whole(queue, jobs, current.batch, lost, reserved, offered)'
  BY <1>2, <1>3, Assembled
<1>5. Stats' /\ FlushTellsTheTruth'
  BY <1>2, <1>3 DEF IInv, Stats, FlushTellsTheTruth
<1> QED
  BY <1>3, <1>4, <1>5 DEF IInv

\* A chained flush starts.
LEMMA StartJobKeepsInv ==
    ASSUME IInv, StartJob
    PROVE  IInv'
<1> DEFINE P == jobs[1].pending
<1>1. /\ Whole(queue, jobs, current.batch, lost, reserved, offered) /\ Batch /\ Stats
      /\ jobs # <<>> /\ ~jobs[1].started
  BY DEF IInv, StartJob
<1>2. PICK kept \in Keepings(P) :
         LET rejected == Range(P) \ Range(kept) IN
         /\ jobs' = [jobs EXCEPT ![1] = [pending |-> kept, started |-> TRUE,
                                         ok |-> @.ok /\ rejected = {}, events |-> @.events]]
         /\ reserved' = reserved - Cardinality(rejected)
         /\ Lose(rejected)
  BY DEF StartJob
<1> DEFINE rejected == Range(P) \ Range(kept)
           J == [pending |-> kept, started |-> TRUE,
                 ok |-> jobs[1].ok /\ rejected = {}, events |-> jobs[1].events]
<1>3. jobs \in Seq(Job) /\ 1 \in DOMAIN jobs /\ jobs[1] \in Job
  BY <1>1 DEF Whole, Types
<1>4. P \in Seq(Nat) /\ Rising(P)
  BY <1>1, <1>3 DEF Job, Whole, Order
<1>5. /\ kept \in Seq(Nat) /\ Rising(kept) /\ Range(kept) \subseteq Range(P)
      /\ IsFiniteSet(rejected) /\ Cardinality(rejected) = Len(P) - Len(kept)
  BY <1>4, KeepingsProperties
<1>6. current.batch = <<>> /\ Rising(<<>>) /\ Range(<<>>) = {} /\ <<>> \in Seq(Nat)
  BY <1>1 DEF Whole, Turns, Rising, Range
<1>7. J \in Job /\ jobs' = [jobs EXCEPT ![1] = J]
  BY <1>2, <1>3, <1>5 DEF Job
<1>8. /\ J.pending = kept /\ J.started /\ (J.ok => jobs[1].ok /\ rejected = {})
      /\ J.events = jobs[1].events
  OBVIOUS
<1> HIDE DEF J, rejected, P
<1>9. /\ rejected \cup Range(kept) = Range(P) /\ rejected \cap Range(kept) = {}
  BY <1>5 DEF rejected
<1>10. Whole(queue, jobs', <<>>, lost \cup rejected, reserved', offered)
  <2>1. /\ Types(queue, jobs', <<>>, lost \cup rejected, offered) /\ Order(queue, jobs', <<>>)
        /\ Places(queue, jobs', <<>>, lost \cup rejected, offered)
        /\ Honest(jobs', <<>>) /\ Turns(jobs', <<>>)
        /\ Cardinality(Pending(jobs')) \in Nat /\ Cardinality(Pending(jobs)) \in Nat
        /\ Cardinality(Pending(jobs')) = Cardinality(Pending(jobs)) - Len(P) + Len(kept)
    <3>1. Below(Range(<<>>), Range(J.pending))
      BY <1>6 DEF Below
    <3>2. /\ Range(J.pending) \subseteq Range(jobs[1].pending)
          /\ rejected \cup Range(<<>>) \subseteq Range(<<>>) \cup Range(jobs[1].pending)
          /\ rejected \cap (Range(<<>>) \cup Range(J.pending)) = {}
          /\ Range(<<>>) \cup Range(jobs[1].pending)
                \subseteq rejected \cup Range(<<>>) \cup Range(J.pending)
          /\ J.ok => /\ jobs[1].ok /\ J.events = jobs[1].events
                     /\ Range(<<>>) \cup Range(jobs[1].pending)
                            \subseteq Range(<<>>) \cup Range(J.pending)
      BY <1>6, <1>8, <1>9 DEF P
    <3>3. Whole(queue, jobs, <<>>, lost, reserved, offered) /\ Rising(J.pending)
      BY <1>1, <1>5, <1>6, <1>8
    <3> QED
      BY <3>1, <3>2, <3>3, <1>1, <1>6, <1>7, <1>8, HeadKeeps, ZenonT(60) DEF P
  <2>2. Reserved(queue, jobs', reserved')
    <3>1. Len(P) \in Nat /\ Len(kept) \in Nat /\ Len(queue) \in Nat
      BY <1>1, <1>4, <1>5 DEF Whole, Types
    <3>2. reserved' = reserved - (Len(P) - Len(kept)) /\ Len(P) - Len(kept) >= 0
      <4>1. Cardinality(rejected) \in Nat
        BY <1>5, FS_CardinalityType
      <4> QED
        BY <4>1, <1>2, <1>5 DEF rejected
    <3> QED
      BY <2>1, <3>1, <3>2, <1>1, ConstantsAssumption DEF Whole, Reserved
  <2> QED
    BY <2>1, <2>2 DEF Whole
<1>11. /\ UNCHANGED <<host, delivered, sent, reports, current, queue, offered>>
       /\ lost' = lost \cup rejected
  BY <1>2 DEF StartJob, delivery, Lose, rejected
<1>12. dropped' = Cardinality(lost')
  <2>1. rejected \cap lost = {}
    BY <1>1, <1>3, <1>9 DEF Whole, Places, Kept, Pending, P
  <2>2. IsFiniteSet(lost)
    BY <1>1, PendingProperties DEF Whole
  <2> QED
    BY <2>1, <2>2, <1>1, <1>2, <1>5, LoseCounts DEF Stats, rejected
<1>13. Whole(queue, jobs, current.batch, lost, reserved, offered)'
  BY <1>6, <1>10, <1>11, Assembled
<1> QED
  BY <1>1, <1>11, <1>12, <1>13 DEF IInv, Batch, Stats, FlushTellsTheTruth

\* The running flush takes its next batch.
LEMMA StartBatchKeepsInv ==
    ASSUME IInv, StartBatch
    PROVE  IInv'
<1> DEFINE P == jobs[1].pending
<1>1. /\ Whole(queue, jobs, current.batch, lost, reserved, offered) /\ Batch /\ Stats
      /\ jobs # <<>> /\ jobs[1].started /\ P # <<>> /\ current = NoBatch
  BY DEF IInv, StartBatch
<1>2. PICK m \in BatchLengths(P) :
         /\ current' = FirstTry(SubSeq(P, 1, m))
         /\ jobs' = [jobs EXCEPT ![1].pending = SubSeq(P, m + 1, Len(P))]
         /\ reserved' = reserved - m
  BY DEF StartBatch
<1> DEFINE front == SubSeq(P, 1, m)
           back == SubSeq(P, m + 1, Len(P))
           J == [jobs[1] EXCEPT !.pending = back]
           none == {}
<1>3. jobs \in Seq(Job) /\ 1 \in DOMAIN jobs /\ jobs[1] \in Job
  BY <1>1 DEF Whole, Types
<1>4. P \in Seq(Nat) /\ Rising(P) /\ Len(P) \in Nat
  BY <1>1, <1>3 DEF Job, Whole, Order
<1>5. m \in 0..Len(P) /\ m # 0
  BY <1>1, <1>4, ConstantsAssumption DEF BatchLengths, Min2
<1>6. /\ front \in Seq(Nat) /\ back \in Seq(Nat) /\ Rising(front) /\ Rising(back)
      /\ Len(front) = m /\ Len(back) = Len(P) - m
      /\ Range(front) \cup Range(back) = Range(P) /\ Below(Range(front), Range(back))
  BY <1>4, <1>5, CutProperties
<1>7. current.batch = <<>> /\ Range(<<>>) = {}
  BY <1>1 DEF NoBatch, Range
<1>8. /\ J \in Job /\ jobs' = [jobs EXCEPT ![1] = J]
      /\ J.pending = back /\ J.started = jobs[1].started /\ J.ok = jobs[1].ok
      /\ J.events = jobs[1].events
  BY <1>2, <1>3, <1>6 DEF Job
<1>9. front # <<>> /\ current' = FirstTry(front)
  BY <1>2, <1>5, <1>6
<1> HIDE DEF front, back, J, P, none
<1>10. Whole(queue, jobs', front, lost, reserved', offered)
  <2>1. /\ Types(queue, jobs', front, lost \cup none, offered) /\ Order(queue, jobs', front)
        /\ Places(queue, jobs', front, lost \cup none, offered)
        /\ Honest(jobs', front) /\ Turns(jobs', front)
        /\ Cardinality(Pending(jobs')) \in Nat /\ Cardinality(Pending(jobs)) \in Nat
        /\ Cardinality(Pending(jobs')) = Cardinality(Pending(jobs)) - Len(P) + Len(back)
    <3>1. /\ Range(J.pending) \subseteq Range(jobs[1].pending)
          /\ none \cup Range(front) \subseteq Range(<<>>) \cup Range(jobs[1].pending)
          /\ none \cap (Range(front) \cup Range(J.pending)) = {}
          /\ Range(<<>>) \cup Range(jobs[1].pending)
                \subseteq none \cup Range(front) \cup Range(J.pending)
          /\ J.ok => /\ jobs[1].ok /\ J.events = jobs[1].events
                     /\ Range(<<>>) \cup Range(jobs[1].pending)
                            \subseteq Range(front) \cup Range(J.pending)
      BY <1>6, <1>7, <1>8 DEF P, none
    <3>2. /\ Whole(queue, jobs, <<>>, lost, reserved, offered)
          /\ jobs # <<>> /\ J \in Job /\ front \in Seq(Nat) /\ J.started
          /\ Rising(J.pending) /\ Rising(front) /\ Below(Range(front), Range(J.pending))
      BY <1>1, <1>6, <1>7, <1>8
    <3>3. jobs' = [jobs EXCEPT ![1] = J] /\ Len(J.pending) = Len(back) /\ P = jobs[1].pending
      BY <1>8 DEF P
    <3>4. LET k == [jobs EXCEPT ![1] = J]
          IN  /\ Types(queue, k, front, lost \cup none, offered) /\ Order(queue, k, front)
              /\ Places(queue, k, front, lost \cup none, offered) /\ Honest(k, front) /\ Turns(k, front)
              /\ Cardinality(Pending(k)) \in Nat /\ Cardinality(Pending(jobs)) \in Nat
              /\ Cardinality(Pending(k))
                     = Cardinality(Pending(jobs)) - Len(jobs[1].pending) + Len(J.pending)
      BY <3>1, <3>2, HeadKeeps, ZenonT(60)
    <3> QED
      BY <3>3, <3>4
  <2>2. Reserved(queue, jobs', reserved')
    <3>1. Len(queue) \in Nat
      BY <1>1 DEF Whole, Types
    <3>2. reserved' = reserved - m /\ m \in Nat
      BY <1>2, <1>4, <1>5
    <3>3. Cardinality(Pending(jobs')) = Cardinality(Pending(jobs)) - m
      BY <2>1, <3>2, <1>4, <1>6
    <3>4. Reserved(queue, jobs, reserved)
      BY <1>1 DEF Whole
    <3> QED
      BY <2>1, <3>1, <3>2, <3>3, <3>4, ConstantsAssumption DEF Reserved
  <2>3. lost \cup none = lost
    BY DEF none
  <2> QED
    BY <2>1, <2>2, <2>3 DEF Whole
<1>11. UNCHANGED <<host, delivered, sent, dropped, lost, reports, queue, offered>>
  BY DEF StartBatch
<1>12. current'.batch = front /\ Batch'
  BY <1>6, <1>9 DEF FirstTry, Batch, NoBatch
<1>13. Whole(queue, jobs, current.batch, lost, reserved, offered)'
  BY <1>10, <1>11, <1>12, Assembled
<1> QED
  BY <1>1, <1>11, <1>12, <1>13 DEF IInv, Stats, FlushTellsTheTruth

\* The batch is delivered.
LEMMA AcceptBatchKeepsInv ==
    ASSUME IInv, AcceptBatch
    PROVE  IInv'
<1> DEFINE c == current.batch
           d == delivered \o c
<1>1. /\ Whole(queue, jobs, c, lost, reserved, offered) /\ Batch /\ Stats
      /\ FlushTellsTheTruth
  BY DEF IInv
<1>2. /\ delivered' = d /\ sent' = sent + Len(c) /\ current' = NoBatch
      /\ UNCHANGED <<host, queue, reserved, jobs, offered, dropped, lost, reports>>
  BY DEF AcceptBatch
<1>3. current'.batch = <<>> /\ Batch'
  BY <1>2 DEF NoBatch, Batch
<1>4. /\ d \in Seq(Nat) /\ Rising(d) /\ Len(d) = Len(delivered) + Len(c)
      /\ Range(d) = Range(delivered) \cup Range(c)
  BY <1>1, JoinProperties DEF Whole, Types, Order
<1>5. Range(<<>>) = {} /\ Rising(<<>>) /\ <<>> \in Seq(Nat)
  BY DEF Range, Rising
<1> HIDE DEF d, c
<1>6. Types(queue, jobs, current.batch, lost, offered)'
  BY <1>1, <1>2, <1>3, <1>4, <1>5 DEF Whole, Types
<1>7. Order(queue, jobs, current.batch)'
  <2>1. \A A : Below(Range(delivered), A) /\ Below(Range(c), A) => Below(Range(d), A)
    BY <1>4 DEF Below
  <2>2. \A A : Below(A, Range(<<>>)) /\ Below(Range(<<>>), A)
    BY <1>5 DEF Below
  <2>3. Order(queue, jobs, c)
    BY <1>1 DEF Whole
  <2> QED
    BY <2>1, <2>2, <2>3, <1>2, <1>3, <1>4, <1>5 DEF Order
<1>8. Places(queue, jobs, current.batch, lost, offered)'
  BY <1>1, <1>2, <1>3, <1>4, <1>5 DEF Whole, Places, Kept
<1>9. Reserved(queue, jobs, reserved)'
  BY <1>1, <1>2 DEF Whole, Reserved
<1>10. Honest(jobs, current.batch)'
  <2>1. Honest(jobs, c)
    BY <1>1 DEF Whole
  <2>2. \A i \in DOMAIN jobs : jobs[i].ok =>
           jobs[i].events \subseteq Range(d) \cup Range(jobs[i].pending)
    BY <2>1, <1>4 DEF Honest
  <2> QED
    BY <2>2, <1>2, <1>3 DEF Honest
<1>11. Turns(jobs, current.batch)'
  BY <1>1, <1>2, <1>3 DEF Whole, Turns
<1>12. Stats'
  BY <1>1, <1>2, <1>4 DEF Stats, Whole, Types
<1>13. FlushTellsTheTruth'
  BY <1>1, <1>2, <1>4 DEF FlushTellsTheTruth
<1> QED
  BY <1>3, <1>6, <1>7, <1>8, <1>9, <1>10, <1>11, <1>12, <1>13 DEF IInv, Whole

\* The same for a flush that failed and has no batch on its way.
LEMMA HeadFails ==
    ASSUME NEW q, NEW js, NEW b, NEW lo, NEW r, NEW n, Whole(q, js, b, lo, r, n), js # <<>>,
           NEW J \in Job, NEW gone, ~J.ok, Rising(J.pending),
           Range(J.pending) \subseteq Range(js[1].pending),
           gone \subseteq Range(b) \cup Range(js[1].pending),
           gone \cap Range(J.pending) = {},
           host # "throw" =>
               Range(b) \cup Range(js[1].pending) \subseteq gone \cup Range(J.pending)
    PROVE  LET k == [js EXCEPT ![1] = J]
           IN  /\ Types(q, k, <<>>, lo \cup gone, n) /\ Order(q, k, <<>>)
               /\ Places(q, k, <<>>, lo \cup gone, n) /\ Honest(k, <<>>) /\ Turns(k, <<>>)
               /\ Cardinality(Pending(k)) \in Nat /\ Cardinality(Pending(js)) \in Nat
               /\ Cardinality(Pending(k))
                     = Cardinality(Pending(js)) - Len(js[1].pending) + Len(J.pending)
<1>1. Range(<<>>) = {} /\ Rising(<<>>) /\ <<>> \in Seq(Nat)
  BY DEF Range, Rising
<1>2. Below(Range(<<>>), Range(J.pending))
  BY <1>1 DEF Below
<1>3. /\ gone \cup Range(<<>>) \subseteq Range(b) \cup Range(js[1].pending)
      /\ gone \cap (Range(<<>>) \cup Range(J.pending)) = {}
      /\ host # "throw" =>
           Range(b) \cup Range(js[1].pending) \subseteq gone \cup Range(<<>>) \cup Range(J.pending)
  BY <1>1
<1> QED
  BY <1>1, <1>2, <1>3, HeadKeeps, ZenonT(60)

\* The oldest flush fails: its batch is gone, and `gone` of its events are lost;
\* the rest of them, J's pending ones apart, are forgotten.
LEMMA FailedFlush ==
    ASSUME IInv, current.phase # "none",
           NEW J \in Job, NEW gone, ~J.ok,
           \/ J.pending = jobs[1].pending /\ gone = Range(current.batch)
           \/ J.pending = <<>> /\ gone = {} /\ host = "throw",
           jobs' = [jobs EXCEPT ![1] = J],
           Lose(gone), current' = NoBatch,
           UNCHANGED <<host, queue, reserved, offered, sent, delivered, reports>>
    PROVE  IInv'
<1> DEFINE c == current.batch
           P == jobs[1].pending
<1>1. /\ Whole(queue, jobs, c, lost, reserved, offered) /\ Batch /\ Stats
      /\ FlushTellsTheTruth
  BY DEF IInv
<1>2. c # <<>> /\ jobs # <<>>
  BY <1>1 DEF Batch, Whole, Turns
<1>3. /\ jobs \in Seq(Job) /\ 1 \in DOMAIN jobs /\ jobs[1] \in Job /\ c \in Seq(Nat)
  BY <1>1, <1>2 DEF Whole, Types
<1>4. /\ P \in Seq(Nat) /\ Rising(P) /\ Rising(c) /\ Below(Range(c), Range(P))
  BY <1>1, <1>3 DEF Job, Whole, Order
<1>5. Range(<<>>) = {} /\ Rising(<<>>) /\ <<>> \in Seq(Nat)
  BY DEF Range, Rising
<1>6. J.pending \in Seq(Nat) /\ Rising(J.pending) /\ Range(J.pending) \subseteq Range(P)
  BY <1>4, <1>5
<1>7. Range(c) \cap Range(P) = {}
  <2> SUFFICES ASSUME NEW x \in Range(c), x \in Range(P) PROVE FALSE
    OBVIOUS
  <2>1. x < x
    BY <1>4 DEF Below
  <2>2. x \in Nat
    BY <1>3, RangeOfSeq
  <2> QED
    BY <2>1, <2>2
<1> HIDE DEF c, P
<1>8. /\ Types(queue, jobs', <<>>, lost \cup gone, offered) /\ Order(queue, jobs', <<>>)
      /\ Places(queue, jobs', <<>>, lost \cup gone, offered)
      /\ Honest(jobs', <<>>) /\ Turns(jobs', <<>>)
      /\ Cardinality(Pending(jobs')) \in Nat /\ Cardinality(Pending(jobs)) \in Nat
      /\ Cardinality(Pending(jobs')) = Cardinality(Pending(jobs)) - Len(P) + Len(J.pending)
  <2>1. /\ Range(J.pending) \subseteq Range(jobs[1].pending)
        /\ gone \subseteq Range(c) \cup Range(jobs[1].pending)
        /\ gone \cap Range(J.pending) = {}
        /\ host # "throw" => Range(c) \cup Range(jobs[1].pending)
                                 \subseteq gone \cup Range(J.pending)
    BY <1>4, <1>5, <1>6, <1>7 DEF c, P
  <2>2. LET k == [jobs EXCEPT ![1] = J]
        IN  /\ Types(queue, k, <<>>, lost \cup gone, offered) /\ Order(queue, k, <<>>)
            /\ Places(queue, k, <<>>, lost \cup gone, offered) /\ Honest(k, <<>>) /\ Turns(k, <<>>)
            /\ Cardinality(Pending(k)) \in Nat /\ Cardinality(Pending(jobs)) \in Nat
            /\ Cardinality(Pending(k))
                   = Cardinality(Pending(jobs)) - Len(jobs[1].pending) + Len(J.pending)
    BY <2>1, <1>1, <1>2, <1>6, HeadFails
  <2> QED
    BY <2>2 DEF P
<1>9. Reserved(queue, jobs', reserved)
  <2>1. Reserved(queue, jobs, reserved)
    BY <1>1 DEF Whole
  <2>2. CASE J.pending = P
    BY <2>1, <2>2, <1>4, <1>8 DEF Reserved
  <2>3. CASE J.pending = <<>> /\ host = "throw"
    BY <2>1, <2>3, <1>4, <1>8 DEF Reserved
  <2> QED
    BY <2>2, <2>3 DEF P
<1>10. lost' = lost \cup gone /\ current'.batch = <<>> /\ Batch'
  BY DEF Lose, NoBatch, Batch
<1>11. Whole(queue, jobs, current.batch, lost, reserved, offered)'
  <2>1. Whole(queue', jobs', current'.batch, lost', reserved', offered')
    BY <1>8, <1>9, <1>10 DEF Whole
  <2> QED
    BY <2>1, Assembled
<1>12. dropped' = Cardinality(lost')
  <2>1. IsFiniteSet(lost)
    BY <1>1, PendingProperties DEF Whole
  <2>2. IsFiniteSet(Range(c)) /\ Range(c) \cap lost = {} /\ IsFiniteSet({})
    BY <1>1, <1>3, <1>4, RisingCardinality, FS_EmptySet DEF Whole, Places, Kept
  <2>3. IsFiniteSet(gone) /\ gone \cap lost = {}
    BY <2>2 DEF c
  <2> QED
    BY <2>1, <2>3, <1>1, LoseCounts DEF Stats
<1> QED
  BY <1>1, <1>10, <1>11, <1>12 DEF IInv, Stats, FlushTellsTheTruth

\* What transports and timers answer.
LEMMA AnswersKeepInv ==
    ASSUME IInv, DropBatch \/ RetryBatch \/ WaitThrows \/ BackoffEnds
    PROVE  IInv'
<1>1. /\ Whole(queue, jobs, current.batch, lost, reserved, offered) /\ Batch /\ Stats
      /\ FlushTellsTheTruth
  BY DEF IInv
<1>2. current.phase # "none"
  BY DEF DropBatch, RetryBatch, WaitThrows, BackoffEnds
<1>3. jobs \in Seq(Job) /\ 1 \in DOMAIN jobs /\ jobs[1] \in Job
  BY <1>1, <1>2 DEF Batch, Whole, Turns, Types
<1>4. CASE DropBatch
  <2> DEFINE J == [jobs[1] EXCEPT !.ok = FALSE]
  <2>1. J \in Job /\ ~J.ok /\ J.pending = jobs[1].pending
    BY <1>3 DEF Job
  <2>2. jobs' = [jobs EXCEPT ![1] = J]
    BY <1>4 DEF DropBatch, Failed
  <2> HIDE DEF J
  <2>3. /\ Lose(Range(current.batch)) /\ current' = NoBatch
        /\ UNCHANGED <<host, queue, reserved, offered, sent, delivered, reports>>
    BY <1>4 DEF DropBatch
  <2> QED
    BY <1>2, <2>1, <2>2, <2>3, FailedFlush
<1>5. CASE WaitThrows
  <2> DEFINE K == [jobs[1] EXCEPT !.ok = FALSE]
             J == [K EXCEPT !.pending = <<>>]
  <2>1. J \in Job /\ ~J.ok /\ J.pending = <<>>
    <3>1. K \in Job /\ ~K.ok
      BY <1>3 DEF Job
    <3>2. <<>> \in Seq(Nat)
      OBVIOUS
    <3> HIDE DEF K
    <3> QED
      BY <3>1, <3>2 DEF Job
  <2>2. jobs' = [jobs EXCEPT ![1] = J]
    BY <1>3, <1>5 DEF WaitThrows, Failed
  <2> HIDE DEF J, K
  <2>3. lost \cup {} = lost /\ Cardinality({}) = 0
    BY FS_EmptySet
  <2>4. dropped + 0 = dropped
    <3>1. IsFiniteSet(lost)
      BY <1>1, PendingProperties DEF Whole
    <3> QED
      BY <3>1, <1>1, FS_CardinalityType DEF Stats
  <2>5. /\ Lose({}) /\ current' = NoBatch /\ host = "throw"
        /\ UNCHANGED <<host, queue, reserved, offered, sent, delivered, reports>>
    BY <1>5, <2>3, <2>4 DEF WaitThrows, Lose
  <2> QED
    BY <1>2, <2>1, <2>2, <2>5, FailedFlush
<1>6. CASE RetryBatch \/ BackoffEnds
  <2>1. /\ current'.batch = current.batch /\ Batch'
        /\ UNCHANGED <<host, queue, reserved, jobs, offered, sent, dropped, delivered, lost, reports>>
    <3>1. UNCHANGED <<host, queue, reserved, jobs, offered, sent, dropped, delivered, lost, reports>>
      BY <1>6 DEF RetryBatch, BackoffEnds
    <3>2. /\ current' \in [batch : Seq(Nat), attempt : Nat, phase : {"transport", "backoff"}]
          /\ current'.batch = current.batch
      BY <1>1, <1>6 DEF RetryBatch, BackoffEnds, NextAttempt, Batch
    <3>3. current.batch # <<>> /\ current'.phase # "none"
      BY <1>1, <1>2, <3>2 DEF Batch
    <3> QED
      BY <3>1, <3>2, <3>3 DEF Batch
  <2>2. Whole(queue, jobs, current.batch, lost, reserved, offered)'
    <3>1. Whole(queue', jobs', current'.batch, lost', reserved', offered')
      BY <1>1, <2>1
    <3> QED
      BY <2>1, <3>1, Assembled
  <2> QED
    BY <1>1, <2>1, <2>2 DEF IInv, Stats, FlushTellsTheTruth
<1> QED
  BY <1>4, <1>5, <1>6

\* The oldest flush is over.
LEMMA PopKeeps ==
    ASSUME NEW q, NEW js, NEW lo, NEW r, NEW n, Whole(q, js, <<>>, lo, r, n),
           js # <<>>, js[1].pending = <<>>
    PROVE  Whole(q, Tail(js), <<>>, lo, r, n)
<1> USE DEF Whole
<1> DEFINE k == Tail(js)
<1>1. js \in Seq(Job) /\ Len(js) \in Nat /\ Len(js) >= 1 /\ DOMAIN js = 1..Len(js)
  BY DEF Types
<1>2. /\ k \in Seq(Job) /\ Len(k) = Len(js) - 1 /\ DOMAIN k = 1..(Len(js) - 1)
      /\ \A i \in DOMAIN k : i + 1 \in DOMAIN js /\ k[i] = js[i + 1]
  BY <1>1
<1>3. Range(<<>>) = {}
  BY DEF Range
<1> HIDE DEF k
<1>4. Pending(k) = Pending(js)
  <2>1. Pending(k) \subseteq Pending(js)
    BY <1>2 DEF Pending
  <2>2. ASSUME NEW i \in DOMAIN js, NEW x \in Range(js[i].pending)
        PROVE  x \in Pending(k)
    <3>1. i # 1
      BY <2>2, <1>3
    <3>2. i - 1 \in DOMAIN k /\ k[i - 1] = js[i]
      <4>1. i - 1 \in DOMAIN k /\ (i - 1) + 1 = i
        BY <3>1, <1>1, <1>2
      <4> QED
        BY <4>1, <1>2
    <3> QED
      BY <3>2 DEF Pending
  <2> QED
    BY <2>1, <2>2 DEF Pending
<1>5. Types(q, k, <<>>, lo, n)
  BY <1>2 DEF Types
<1>6. Order(q, k, <<>>)
  <2>1. \A i, j \in DOMAIN k : i < j => Below(Range(k[i].pending), Range(k[j].pending))
    <3> TAKE i, j \in DOMAIN k
    <3>1. i + 1 \in DOMAIN js /\ j + 1 \in DOMAIN js /\ (i < j => i + 1 < j + 1)
      BY <1>1, <1>2
    <3> QED
      BY <3>1, <1>2 DEF Order
  <2> QED
    BY <2>1, <1>2 DEF Order
<1>7. Places(q, k, <<>>, lo, n)
  BY <1>4 DEF Places, Kept
<1>8. Reserved(q, k, r)
  BY <1>4 DEF Reserved
<1>9. Honest(k, <<>>)
  <2>1. \A i \in DOMAIN k : i + 1 # 1
    BY <1>2
  <2> QED
    BY <2>1, <1>2, <1>3 DEF Honest
<1>10. Turns(k, <<>>)
  <2>1. \A i \in DOMAIN k : i + 1 > 1
    BY <1>2
  <2> QED
    BY <2>1, <1>2 DEF Turns
<1> QED
  BY <1>5, <1>6, <1>7, <1>8, <1>9, <1>10 DEF k

\* A flush's outcome carries over to the flush behind it.
LEMMA CarryKeeps ==
    ASSUME NEW q, NEW js, NEW lo, NEW r, NEW n, Whole(q, js, <<>>, lo, r, n), js # <<>>,
           NEW ok \in BOOLEAN
    PROVE  Whole(q, [js EXCEPT ![1].ok = @ /\ ok], <<>>, lo, r, n)
<1> DEFINE J == [js[1] EXCEPT !.ok = js[1].ok /\ ok]
           k == [js EXCEPT ![1] = J]
<1>1. js \in Seq(Job) /\ 1 \in DOMAIN js /\ js[1] \in Job
  BY DEF Whole, Types
<1>2. J \in Job /\ J.pending = js[1].pending /\ J.started = js[1].started
      /\ J.events = js[1].events /\ (J.ok => js[1].ok)
  <2>1. (js[1].ok /\ ok) \in BOOLEAN
    OBVIOUS
  <2> QED
    BY <1>1, <2>1 DEF Job
<1>3. [js EXCEPT ![1].ok = @ /\ ok] = k
  BY <1>1
<1> HIDE DEF J
<1>4. /\ k \in Seq(Job) /\ DOMAIN k = DOMAIN js /\ k # <<>>
      /\ \A i \in DOMAIN js : /\ k[i].pending = js[i].pending /\ k[i].started = js[i].started
                              /\ k[i].events = js[i].events /\ (k[i].ok => js[i].ok)
  <2>1. /\ k \in Seq(Job) /\ DOMAIN k = DOMAIN js /\ k # <<>> /\ k[1] = J
        /\ \A i \in DOMAIN js : i # 1 => k[i] = js[i]
    BY <1>1, <1>2
  <2> HIDE DEF k
  <2> QED
    BY <2>1, <1>2
<1> HIDE DEF k
<1>5. Pending(k) = Pending(js)
  BY <1>4 DEF Pending
<1>6. Types(q, k, <<>>, lo, n)
  BY <1>4 DEF Whole, Types
<1>7. Order(q, k, <<>>)
  BY <1>4 DEF Whole, Order
<1>8. Places(q, k, <<>>, lo, n)
  BY <1>5 DEF Whole, Places, Kept
<1>9. Reserved(q, k, r)
  BY <1>5 DEF Whole, Reserved
<1>10. Honest(k, <<>>)
  BY <1>4 DEF Whole, Honest
<1>11. Turns(k, <<>>)
  BY <1>1, <1>4 DEF Whole, Turns
<1> QED
  BY <1>3, <1>6, <1>7, <1>8, <1>9, <1>10, <1>11 DEF Whole

\* The oldest flush is over, and the next or the queue gets its turn.
LEMMA FinishJobKeepsInv ==
    ASSUME IInv, FinishJob
    PROVE  IInv'
<1>1. /\ Whole(queue, jobs, <<>>, lost, reserved, offered) /\ Batch /\ Stats
      /\ FlushTellsTheTruth /\ current.batch = <<>>
  BY DEF IInv, FinishJob, NoBatch
<1>2. /\ jobs # <<>> /\ jobs[1].pending = <<>>
      /\ reports' = reports \cup {[ok |-> jobs[1].ok, events |-> jobs[1].events]}
      /\ UNCHANGED <<stopped, host, suspended, offered, sent, delivered>>
  BY DEF FinishJob
<1>3. jobs \in Seq(Job) /\ 1 \in DOMAIN jobs /\ jobs[1] \in Job /\ Len(jobs) \in Nat
  BY <1>1, <1>2 DEF Whole, Types
<1>4. Whole(queue, Tail(jobs), <<>>, lost, reserved, offered)
  BY <1>1, <1>2, PopKeeps
<1>9. Tail(jobs) \in Seq(Job) /\ Len(Tail(jobs)) = Len(jobs) - 1
  BY <1>2, <1>3, SMT
<1>5. /\ Whole(queue', jobs', current'.batch, lost', reserved', offered')
      /\ Batch' /\ dropped' = Cardinality(lost')
  <2>1. CASE /\ Len(jobs) > 1
             /\ jobs' = [Tail(jobs) EXCEPT ![1].ok = @ /\ jobs[1].ok]
             /\ UNCHANGED <<queue, reserved, current, timer, dropped, lost>>
    <3>1. Tail(jobs) # <<>>
      <4>1. Len(Tail(jobs)) > 0
        BY <1>3, <1>9, <2>1
      <4> QED
        BY <4>1, EmptySeq
    <3>3. jobs[1].ok \in BOOLEAN
      BY <1>3 DEF Job
    <3>2. Whole(queue, jobs', <<>>, lost, reserved, offered)
      BY <1>4, <2>1, <3>1, <3>3, CarryKeeps
    <3> QED
      BY <1>1, <1>2, <2>1, <3>2 DEF Batch, Stats
  <2>2. CASE Len(jobs) = 1 /\ (FlushQueue(queue, {}, <<>>) \/ ScheduleFlush(queue, {}, <<>>))
    <3>1. lost \cup {} = lost /\ {} \cap lost = {}
      OBVIOUS
    <3>3. Tail(jobs) = <<>>
      <4>1. Len(Tail(jobs)) = 0
        BY <1>3, <1>9, <2>2
      <4> QED
        BY <1>9, <4>1, EmptySeq
    <3>2. Whole(queue, <<>>, current.batch, lost \cup {}, reserved, offered)
      BY <1>1, <1>4, <3>1, <3>3
    <3> QED
      BY <1>1, <1>2, <2>2, <3>1, <3>2, FlushKeeps, ScheduleKeeps DEF Stats
  <2> QED
    BY <2>1, <2>2 DEF FinishJob
<1>6. Whole(queue, jobs, current.batch, lost, reserved, offered)'
  BY <1>2, <1>5, Assembled
<1>7. FlushTellsTheTruth'
  <2>1. jobs[1].ok => jobs[1].events \subseteq Range(delivered)
    <3>1. Range(<<>>) = {}
      BY DEF Range
    <3> QED
      BY <1>1, <1>2, <1>3, <3>1 DEF Whole, Honest
  <2> QED
    BY <1>1, <1>2, <2>1 DEF FlushTellsTheTruth
<1>8. Stats'
  BY <1>1, <1>2, <1>5 DEF Stats
<1> QED
  BY <1>5, <1>6, <1>7, <1>8 DEF IInv

\* The client's invariant is inductive.
LEMMA NextKeepsInv == IInv /\ [Next]_vars => IInv'
<1> SUFFICES ASSUME IInv, [Next]_vars PROVE IInv'
  OBVIOUS
<1>1. CASE Host \/ CaptureResumes \/ TimerFires
  BY <1>1, HostKeepsInv
<1>2. CASE StartJob \/ StartBatch
  BY <1>2, StartJobKeepsInv, StartBatchKeepsInv
<1>3. CASE AcceptBatch
  BY <1>3, AcceptBatchKeepsInv
<1>4. CASE DropBatch \/ RetryBatch \/ WaitThrows \/ BackoffEnds
  BY <1>4, AnswersKeepInv
<1>5. CASE FinishJob
  BY <1>5, FinishJobKeepsInv
<1>6. CASE UNCHANGED vars
  <2>1. Whole(queue', jobs', current'.batch, lost', reserved', offered')
    BY <1>6 DEF IInv, vars
  <2>2. Whole(queue, jobs, current.batch, lost, reserved, offered)'
    BY <1>6, <2>1, Assembled DEF vars
  <2> QED
    BY <1>6, <2>2 DEF IInv, Batch, Stats, FlushTellsTheTruth, vars
<1> QED
  BY <1>1, <1>2, <1>3, <1>4, <1>5, <1>6 DEF Next, Reaction

-----------------------------------------------------------------------------
(***************************************************************************)
(* What follows.                                                           *)
(***************************************************************************)
LEMMA InvAlways == Spec => []IInv
<1>1. Init => IInv
  BY InitInv
<1>2. IInv /\ [Next]_vars => IInv'
  BY NextKeepsInv
<1> QED
  BY <1>1, <1>2, PTL DEF Spec

\* Two disjoint finite sets together.
LEMMA DisjointUnion ==
    ASSUME NEW S, NEW T, IsFiniteSet(S), IsFiniteSet(T), S \cap T = {}
    PROVE  /\ IsFiniteSet(S \cup T)
           /\ Cardinality(S \cup T) = Cardinality(S) + Cardinality(T)
           /\ Cardinality(S) \in Nat /\ Cardinality(T) \in Nat
<1>1. Cardinality(S \cap T) = 0
  BY FS_EmptySet
<1>2. Cardinality(S) \in Nat /\ Cardinality(T) \in Nat
  BY FS_CardinalityType
<1>3. /\ IsFiniteSet(S \cup T)
      /\ Cardinality(S \cup T) = Cardinality(S) + Cardinality(T) - Cardinality(S \cap T)
  BY FS_Union
<1> QED
  BY <1>1, <1>2, <1>3

\* Without a setTimeout that throws, the places account for every event.
LEMMA InvImpliesAccounted == IInv => AccountedWithTimers
<1> SUFFICES ASSUME IInv PROVE AccountedWithTimers
  OBVIOUS
<1> DEFINE c == current.batch
           Q == Range(queue)  W == Pending(jobs)  B == Range(c)  D == Range(delivered)
<1>1. Whole(queue, jobs, c, lost, reserved, offered) /\ Stats
  BY DEF IInv
<1>2. /\ IsFiniteSet(Q) /\ Cardinality(Q) = Len(queue)
      /\ IsFiniteSet(B) /\ Cardinality(B) = Len(c)
      /\ IsFiniteSet(D) /\ Cardinality(D) = Len(delivered)
  BY <1>1, RisingCardinality DEF Whole, Types, Order
<1>3. IsFiniteSet(W) /\ IsFiniteSet(lost) /\ W \cap Q = {} /\ offered \in Nat
  BY <1>1, PendingProperties DEF Whole, Types
<1>4. Kept(queue, jobs, c) \subseteq 1..offered /\ Kept(queue, jobs, c) \cap lost = {}
  BY <1>1 DEF Whole, Places
<1>5. Kept(queue, jobs, c) = Q \cup W \cup B \cup D
  BY DEF Kept
<1>6. B \cap (Q \cup W) = {} /\ D \cap (Q \cup W \cup B) = {}
  <2>1. \A x \in Kept(queue, jobs, c) : ~(x < x)
    BY <1>3, <1>4
  <2>2. Below(B, Q) /\ Below(B, W) /\ Below(D, Q) /\ Below(D, W) /\ Below(D, B)
    BY <1>1 DEF Whole, Order, Below, Pending
  <2> HIDE DEF Q, W, B, D
  <2> QED
    BY <2>1, <2>2, <1>5 DEF Below
<1> HIDE DEF Q, W, B, D, c
<1>7. /\ Cardinality(Q \cup W \cup B \cup D \cup lost)
            = Cardinality(Q) + Cardinality(W) + Cardinality(B) + Cardinality(D) + Cardinality(lost)
      /\ {Cardinality(Q), Cardinality(W), Cardinality(B), Cardinality(D), Cardinality(lost)} \subseteq Nat
  <2>1. /\ IsFiniteSet(Q \cup W) /\ Cardinality(Q \cup W) = Cardinality(Q) + Cardinality(W)
        /\ Cardinality(Q) \in Nat /\ Cardinality(W) \in Nat
    BY <1>2, <1>3, DisjointUnion
  <2>2. (Q \cup W) \cap B = {} /\ (Q \cup W \cup B) \cap D = {} /\ (Q \cup W \cup B \cup D) \cap lost = {}
    BY <1>4, <1>5, <1>6
  <2>3. /\ IsFiniteSet(Q \cup W \cup B) /\ Cardinality(Q \cup W \cup B) = Cardinality(Q \cup W) + Cardinality(B)
        /\ Cardinality(B) \in Nat
    BY <1>2, <2>1, <2>2, DisjointUnion
  <2>4. /\ IsFiniteSet(Q \cup W \cup B \cup D)
        /\ Cardinality(Q \cup W \cup B \cup D) = Cardinality(Q \cup W \cup B) + Cardinality(D)
        /\ Cardinality(D) \in Nat
    BY <1>2, <2>2, <2>3, DisjointUnion
  <2>5. /\ Cardinality(Q \cup W \cup B \cup D \cup lost)
             = Cardinality(Q \cup W \cup B \cup D) + Cardinality(lost)
        /\ Cardinality(lost) \in Nat
    BY <1>3, <2>2, <2>4, DisjointUnion
  <2> QED
    BY <2>1, <2>3, <2>4, <2>5
<1>8. host # "throw" => Accounted
  <2> SUFFICES ASSUME host # "throw" PROVE Accounted
    OBVIOUS
  <2>1. Q \cup W \cup B \cup D \cup lost = 1..offered
    BY <1>1, <1>4, <1>5 DEF Whole, Places, Types
  <2>2. Cardinality(1..offered) = offered
    BY <1>3, FS_Interval
  <2>3. Cardinality(Q) + Cardinality(W) + Cardinality(B) + Cardinality(D) + Cardinality(lost) = offered
    BY <1>7, <2>1, <2>2
  <2>4. InJobs = W /\ Held = Q \cup W \cup B
    BY DEF InJobs, Held, Pending, Q, W, B, c
  <2>5. Held \cup Range(delivered) \cup lost = 1..offered
    BY <2>1, <2>4 DEF D
  <2>6. Len(queue) + Cardinality(InJobs) + Len(current.batch) + Len(delivered) + Cardinality(lost)
          = offered
    BY <1>2, <2>3, <2>4 DEF c
  <2> QED
    BY <1>1, <2>5, <2>6 DEF Accounted, Stats
<1> QED
  BY <1>1, <1>8 DEF AccountedWithTimers, Stats

\* Whatever is retried, rejected, dropped or flushed in whatever order, every
\* event offered to the queue is in exactly one place and the stats count those
\* delivered and given up; on a page whose setTimeout throws the stats still do.
THEOREM EveryEventAccounted == Spec => []AccountedWithTimers
<1>1. IInv => AccountedWithTimers
  BY InvImpliesAccounted
<1> QED
  BY <1>1, InvAlways, PTL

\* The queue and what waits behind an active transport never exceed the bound,
\* and reservedCount never falls below the events that wait.
THEOREM QueueStaysBounded == Spec => []QueueBounded
<1>1. IInv => QueueBounded
  BY DEF IInv, Whole, Reserved, QueueBounded, InJobs, Pending
<1> QED
  BY <1>1, InvAlways, PTL

\* Batches leave one at a time and events are delivered in capture order.
THEOREM EventsDeliveredInOrder == Spec => []DeliveredInOrder
<1>1. IInv => DeliveredInOrder
  BY DEF IInv, Whole, Order, Turns, Batch, DeliveredInOrder
<1> QED
  BY <1>1, InvAlways, PTL

\* A flush() that resolved to true delivered all its events.
THEOREM FlushNeverLies == Spec => []FlushTellsTheTruth
<1>1. IInv => FlushTellsTheTruth
  BY DEF IInv
<1> QED
  BY <1>1, InvAlways, PTL

-----------------------------------------------------------------------------
(***************************************************************************)
(* PART 2.  MemoryStore: what RecordBatch makes of a batch, item by item,  *)
(* however late its stamp.                                                 *)
(***************************************************************************)
Occ == [id : Nat, at : Nat, shape : DOMAIN Fingerprint]
Distinct(S) ==
    /\ IsFiniteSet(S) /\ S \subseteq Occ
    /\ \A o, p \in S : o.id = p.id => o = p

-----------------------------------------------------------------------------
(***************************************************************************)
(* Histories.  The rank of an occurrence is the number of newer ones; in a *)
(* finite set without two occurrences of one id every rank is taken once,  *)
(* so a history sorted by rank is determined by the set it sorts.          *)
(***************************************************************************)

\* Ranks lie between 0 and the number of the others.
LEMMA RankBounds ==
    ASSUME NEW S, Distinct(S), NEW o \in S
    PROVE  /\ IsFiniteSet({p \in S : Newer(p, o)})
           /\ Cardinality(S) \in Nat \ {0}
           /\ Rank(o, S) \in 0..(Cardinality(S) - 1)
<1> DEFINE N == {p \in S : Newer(p, o)}
<1>1. IsFiniteSet(S) /\ o \in Occ
  BY DEF Distinct
<1>2. ~Newer(o, o)
  BY <1>1 DEF Newer, Occ
<1>3. N \in SUBSET (S \ {o})
  BY <1>2
<1>4. /\ IsFiniteSet(S \ {o})
      /\ Cardinality(S \ {o}) = IF o \in S THEN Cardinality(S) - 1 ELSE Cardinality(S)
  BY <1>1, FS_RemoveElement
<1>5. IsFiniteSet(N) /\ Cardinality(N) <= Cardinality(S \ {o})
  BY <1>3, <1>4, FS_Subset
<1>6. Cardinality(N) \in Nat /\ Cardinality(S) \in Nat /\ Cardinality(S \ {o}) \in Nat
  BY <1>1, <1>4, <1>5, FS_CardinalityType
<1>7. Rank(o, S) = Cardinality(N)
  BY DEF Rank
<1> HIDE DEF N
<1>8. Cardinality(S) \in Nat \ {0} /\ Rank(o, S) \in 0..(Cardinality(S) - 1)
  BY <1>4, <1>5, <1>6, <1>7
<1> QED
  BY <1>5, <1>8 DEF N

\* The newer of two has the smaller rank.
LEMMA RankOrder ==
    ASSUME NEW S, Distinct(S), NEW o \in S, NEW p \in S, Newer(o, p)
    PROVE  Rank(o, S) < Rank(p, S)
<1> DEFINE N == {q \in S : Newer(q, o)}
           M == {q \in S : Newer(q, p)}
<1>1. S \subseteq Occ /\ o \in Occ /\ p \in Occ
  BY DEF Distinct
<1>2. ~Newer(o, o)
  BY <1>1 DEF Newer, Occ
<1>3. \A q \in S : Newer(q, o) => Newer(q, p)
  BY <1>1 DEF Newer, Occ
<1>4. o \notin N /\ N \cup {o} \in SUBSET M
  BY <1>2, <1>3
<1>5. IsFiniteSet(N) /\ IsFiniteSet(M)
  BY RankBounds
<1> HIDE DEF N, M
<1>6. Cardinality(N \cup {o}) = IF o \in N THEN Cardinality(N) ELSE Cardinality(N) + 1
  BY <1>5, FS_AddElement
<1>7. Cardinality(N \cup {o}) <= Cardinality(M)
  BY <1>4, <1>5, FS_Subset
<1>8. Cardinality(N) \in Nat /\ Cardinality(M) \in Nat
  BY <1>5, FS_CardinalityType
<1>9. Cardinality(N) < Cardinality(M)
  BY <1>4, <1>6, <1>7, <1>8
<1> QED
  BY <1>9 DEF N, M, Rank

\* Two occurrences do not share a rank.
LEMMA RankInjective ==
    ASSUME NEW S, Distinct(S), NEW o \in S, NEW p \in S, Rank(o, S) = Rank(p, S)
    PROVE  o = p
<1>1. o \in Occ /\ p \in Occ /\ (o.id = p.id => o = p)
  BY DEF Distinct
<1>2. o.id = p.id \/ Newer(o, p) \/ Newer(p, o)
  BY <1>1 DEF Newer, Occ
<1>3. Rank(o, S) \in Nat /\ Rank(p, S) \in Nat
  <2>1. /\ Cardinality(S) \in Nat \ {0}
        /\ Rank(o, S) \in 0..(Cardinality(S) - 1) /\ Rank(p, S) \in 0..(Cardinality(S) - 1)
    BY RankBounds
  <2> QED
    BY <2>1
<1>4. CASE Newer(o, p)
  BY <1>3, <1>4, RankOrder
<1>5. CASE Newer(p, o)
  BY <1>3, <1>5, RankOrder
<1> QED
  BY <1>1, <1>2, <1>4, <1>5

\* Every rank is taken.
LEMMA RankReached ==
    ASSUME NEW S, Distinct(S), NEW r \in 0..(Cardinality(S) - 1)
    PROVE  \E o \in S : Rank(o, S) = r
<1> DEFINE T == 0..(Cardinality(S) - 1)
           f == [o \in S |-> Rank(o, S)]
<1>1. IsFiniteSet(S) /\ Cardinality(S) \in Nat
  BY FS_CardinalityType DEF Distinct
<1>2. f \in [S -> T]
  BY RankBounds
<1>3. \A o, p \in S : f[o] = f[p] => o = p
  BY RankInjective
<1>4. f \in Injection(S, T)
  BY <1>2, <1>3, Zenon DEF Injection, IsInjective
<1>5. /\ IsFiniteSet(T)
      /\ Cardinality(T) = IF 0 > Cardinality(S) - 1 THEN 0 ELSE Cardinality(S) - 1 - 0 + 1
  <2>1. 0 \in Int /\ Cardinality(S) - 1 \in Int
    BY <1>1
  <2> QED
    BY <2>1, FS_Interval
<1>6. Cardinality(T) = Cardinality(S)
  BY <1>1, <1>5
<1> HIDE DEF T, f
<1>7. f \in Surjection(S, T)
  BY <1>4, <1>5, <1>6, FS_Injection
<1>8. \E o \in S : f[o] = r
  BY <1>7 DEF T, Surjection
<1> QED
  BY <1>8 DEF f

\* e lists the n newest of S, newest first.
Listed(e, S, n) ==
    /\ e \in Seq(S) /\ Len(e) = n
    /\ \A i \in 1..n : Rank(e[i], S) = i - 1
KeptOf(S) == IF Cardinality(S) < MaxEventsPerIssue THEN Cardinality(S) ELSE MaxEventsPerIssue

\* There is only one such list.
LEMMA ListedOnce ==
    ASSUME NEW S, Distinct(S), NEW n \in Nat, NEW e, NEW f, Listed(e, S, n), Listed(f, S, n)
    PROVE  e = f
<1>1. e \in Seq(S) /\ f \in Seq(S) /\ Len(e) = n /\ Len(f) = n
  BY DEF Listed
<1>2. \A i \in 1..n : e[i] \in S /\ f[i] \in S
  BY <1>1
<1>3. \A i \in 1..n : Rank(e[i], S) = Rank(f[i], S)
  BY DEF Listed
<1>4. \A i \in 1..n : e[i] = f[i]
  BY <1>2, <1>3, RankInjective
<1> QED
  BY <1>1, <1>4, SeqEqual

\* NewestOf is that list.
LEMMA NewestOfListed ==
    ASSUME NEW S, Distinct(S)
    PROVE  KeptOf(S) \in Nat /\ KeptOf(S) <= Cardinality(S) /\ Listed(NewestOf(S), S, KeptOf(S))
<1> DEFINE all == NewestFirst(S)
           n == KeptOf(S)
<1>1. Cardinality(S) \in Nat
  BY FS_CardinalityType DEF Distinct
<1>2. n \in Nat /\ n <= Cardinality(S)
  BY <1>1, MemoryAssumption DEF KeptOf
<1>3. \A i \in 1..Cardinality(S) : all[i] \in S /\ Rank(all[i], S) = i - 1
  <2> TAKE i \in 1..Cardinality(S)
  <2>1. i - 1 \in 0..(Cardinality(S) - 1)
    BY <1>1
  <2>2. \E o \in S : Rank(o, S) = i - 1
    BY <2>1, RankReached
  <2>3. all[i] = CHOOSE o \in S : Rank(o, S) = i - 1
    BY DEF NewestFirst
  <2> HIDE DEF all
  <2> QED
    BY <2>2, <2>3
<1>4. all \in Seq(S) /\ Len(all) = Cardinality(S)
  <2>1. all = [i \in 1..Cardinality(S) |-> all[i]]
    BY DEF NewestFirst
  <2> HIDE DEF all
  <2>2. \A i \in 1..Cardinality(S) : all[i] \in S
    BY <1>3
  <2> QED
    BY <1>1, <2>1, <2>2
<1>5. NewestOf(S) = SubSeq(all, 1, n)
  BY <1>4 DEF NewestOf, Cut, KeptOf
<1> HIDE DEF all, n
<1>6. /\ SubSeq(all, 1, n) \in Seq(S) /\ Len(SubSeq(all, 1, n)) = n
      /\ \A i \in 1..n : SubSeq(all, 1, n)[i] = all[i]
  BY <1>2, <1>4, <1>1
<1>7. \A i \in 1..n : i \in 1..Cardinality(S)
  BY <1>1, <1>2
<1>8. Listed(NewestOf(S), S, n)
  BY <1>3, <1>5, <1>6, <1>7 DEF Listed
<1> QED
  BY <1>2, <1>8 DEF n

\* A history is what the rank of its occurrences says it is.
LEMMA HistoryIsRanked ==
    ASSUME NEW S, Distinct(S)
    PROVE  /\ Range(NewestOf(S)) = {o \in S : Rank(o, S) < MaxEventsPerIssue}
           /\ IsFiniteSet(Range(NewestOf(S)))
           /\ Cardinality(Range(NewestOf(S))) = KeptOf(S)
<1> DEFINE e == NewestOf(S)
           n == KeptOf(S)
<1>1. n \in Nat /\ n <= Cardinality(S) /\ Listed(e, S, n)
  BY NewestOfListed
<1>2. Cardinality(S) \in Nat /\ IsFiniteSet(S)
  BY FS_CardinalityType DEF Distinct
<1>3. n = IF Cardinality(S) < MaxEventsPerIssue THEN Cardinality(S) ELSE MaxEventsPerIssue
  BY DEF KeptOf
<1> HIDE DEF e, n
<1>4. /\ e \in [1..n -> S] /\ Len(e) = n /\ DOMAIN e = 1..n
      /\ \A i \in 1..n : e[i] \in S /\ Rank(e[i], S) = i - 1
  BY <1>1 DEF Listed
<1>5. \A i \in 1..n : i - 1 < MaxEventsPerIssue
  BY <1>1, <1>2, <1>3, MemoryAssumption
<1>6. Range(e) \subseteq {o \in S : Rank(o, S) < MaxEventsPerIssue}
  <2> SUFFICES ASSUME NEW i \in 1..n
               PROVE  e[i] \in S /\ Rank(e[i], S) < MaxEventsPerIssue
    BY <1>4 DEF Range
  <2> QED
    BY <1>4, <1>5
<1>7. ASSUME NEW o \in S, Rank(o, S) < MaxEventsPerIssue
      PROVE  o \in Range(e)
  <2>1. Rank(o, S) \in 0..(Cardinality(S) - 1)
    BY RankBounds
  <2>2. \E i \in 1..n : i - 1 = Rank(o, S)
    <3>1. PICK r \in 0..(Cardinality(S) - 1) : r = Rank(o, S)
      BY <2>1
    <3>2. r + 1 \in 1..n /\ r + 1 - 1 = r
      BY <1>2, <1>3, <1>7, <3>1, MemoryAssumption
    <3> QED
      BY <3>1, <3>2
  <2>3. PICK i \in 1..n : i - 1 = Rank(o, S)
    BY <2>2
  <2>4. e[i] \in S /\ Rank(e[i], S) = Rank(o, S)
    BY <1>4, <2>3
  <2>5. e[i] = o
    BY <2>4, RankInjective
  <2> QED
    BY <2>3, <2>5, <1>4 DEF Range
<1>8. \A i, j \in 1..n : e[i] = e[j] => i = j
  <2> SUFFICES ASSUME NEW i \in 1..n, NEW j \in 1..n, e[i] = e[j]
               PROVE  i = j
    OBVIOUS
  <2>1. i - 1 = j - 1
    BY <1>4
  <2> QED
    BY <1>1, <2>1
<1>9. e \in Bijection(1..n, Range(e))
  BY <1>4, <1>8 DEF Range, Bijection, Injection, Surjection, IsInjective
<1>10. IsFiniteSet(Range(e)) /\ Cardinality(Range(e)) = n
  <2>1. 1 \in Int /\ n \in Int
    BY <1>1
  <2>2. /\ IsFiniteSet(1..n)
        /\ Cardinality(1..n) = IF 1 > n THEN 0 ELSE n - 1 + 1
    BY <2>1, FS_Interval
  <2>3. Cardinality(1..n) = n
    BY <1>1, <2>2
  <2> QED
    BY <1>9, <2>2, <2>3, FS_Bijection DEF ExistsBijection
<1> QED
  BY <1>6, <1>7, <1>10 DEF e, n

\* Merging new occurrences into a cut history gives what merging them into the
\* whole history would have given: what was cut is never needed again.
LEMMA TopMerge ==
    ASSUME NEW T, NEW F, Distinct(T \cup F)
    PROVE  NewestOf(Range(NewestOf(T)) \cup F) = NewestOf(T \cup F)
<1> DEFINE K == Range(NewestOf(T))
           A == K \cup F
           B == T \cup F
<1>1. Distinct(T) /\ Distinct(B)
  <2>1. IsFiniteSet(T)
    BY FS_Subset DEF Distinct
  <2> QED
    BY <2>1 DEF Distinct
<1>2. K = {o \in T : Rank(o, T) < MaxEventsPerIssue}
  BY <1>1, HistoryIsRanked
<1>3. A \subseteq B
  BY <1>2
<1>4. IsFiniteSet(A) /\ IsFiniteSet(B) /\ Cardinality(A) <= Cardinality(B)
  BY <1>1, <1>3, FS_Subset DEF Distinct
<1>5. Distinct(A)
  BY <1>1, <1>3, <1>4 DEF Distinct
<1>6. Cardinality(A) \in Nat /\ Cardinality(B) \in Nat
  BY <1>4, FS_CardinalityType
\* The rank of an occurrence cannot be less among more of them.
<1>7. ASSUME NEW o \in T
      PROVE  Rank(o, T) <= Rank(o, B)
  <2>1. {p \in T : Newer(p, o)} \in SUBSET {p \in B : Newer(p, o)}
    OBVIOUS
  <2>2. IsFiniteSet({p \in B : Newer(p, o)})
    BY <1>1, RankBounds
  <2> QED
    BY <2>1, <2>2, FS_Subset DEF Rank
<1>8. ASSUME NEW o \in B
      PROVE  Rank(o, B) \in Nat /\ (o \in T => Rank(o, T) \in Nat)
  <2>1. Cardinality(B) \in Nat \ {0} /\ Rank(o, B) \in 0..(Cardinality(B) - 1)
    BY <1>1, RankBounds
  <2>2. o \in T => Cardinality(T) \in Nat \ {0} /\ Rank(o, T) \in 0..(Cardinality(T) - 1)
    BY <1>1, RankBounds
  <2> QED
    BY <2>1, <2>2
<1> HIDE DEF B, A, K
<1>9. ASSUME NEW o \in B, Rank(o, B) < MaxEventsPerIssue
      PROVE  o \in A
  BY <1>2, <1>7, <1>8, <1>9, MemoryAssumption DEF A, B
<1>10. ASSUME NEW o \in B, Rank(o, B) < MaxEventsPerIssue
       PROVE  Rank(o, A) = Rank(o, B)
  <2>1. ASSUME NEW p \in B, Newer(p, o)
        PROVE  p \in A
    <3>1. Rank(p, B) < Rank(o, B)
      BY <1>1, <2>1, RankOrder
    <3>2. Rank(p, B) < MaxEventsPerIssue
      BY <1>8, <1>10, <3>1, MemoryAssumption
    <3> QED
      BY <1>9, <3>2
  <2>2. {p \in A : Newer(p, o)} = {p \in B : Newer(p, o)}
    BY <2>1, <1>3
  <2> QED
    BY <2>2 DEF Rank
<1> DEFINE e == NewestOf(B)
           n == KeptOf(B)
<1>11. n \in Nat /\ n <= Cardinality(B) /\ Listed(e, B, n)
  BY <1>1, NewestOfListed
<1>12. /\ Range(e) = {o \in B : Rank(o, B) < MaxEventsPerIssue}
       /\ Cardinality(Range(e)) = n
  BY <1>1, HistoryIsRanked
<1>13. n = IF Cardinality(B) < MaxEventsPerIssue THEN Cardinality(B) ELSE MaxEventsPerIssue
  BY DEF KeptOf
<1> HIDE DEF e, n
<1>14. Range(e) \in SUBSET A
  BY <1>9, <1>12
<1>15. n <= Cardinality(A)
  <2>1. Cardinality(Range(e)) <= Cardinality(A)
    BY <1>4, <1>14, FS_Subset
  <2> QED
    BY <2>1, <1>12
<1>16. KeptOf(A) = n
  BY <1>4, <1>6, <1>13, <1>15, MemoryAssumption DEF KeptOf
<1>17. Listed(e, A, n)
  <2>1. e \in Seq(B) /\ Len(e) = n /\ \A i \in 1..n : e[i] \in B /\ Rank(e[i], B) = i - 1
    BY <1>11 DEF Listed
  <2>2. \A i \in 1..n : e[i] \in Range(e)
    BY <2>1 DEF Range
  <2>3. \A i \in 1..n : e[i] \in A /\ Rank(e[i], A) = i - 1
    BY <2>1, <2>2, <1>10, <1>12, <1>14
  <2>4. e \in Seq(A)
    BY <2>1, <2>3
  <2> QED
    BY <2>1, <2>3, <2>4 DEF Listed
<1>18. Listed(NewestOf(A), A, KeptOf(A))
  BY <1>5, NewestOfListed
<1>19. NewestOf(A) = e
  BY <1>5, <1>11, <1>16, <1>17, <1>18, ListedOnce
<1> QED
  BY <1>19 DEF A, B, K, e

-----------------------------------------------------------------------------
(***************************************************************************)
(* One item.  S is what has been seen of its group.                        *)
(***************************************************************************)
Statuses == {"open", "resolved", "ignored"}
Issue == [status : Statuses, occurrences : Nat, first : Nat, last : Nat, lastEvent : Occ]

\* What can have been seen of group k when n events have been recorded.
Sightings(S, k, n) ==
    /\ Distinct(S) /\ S # {}
    /\ \A o \in S : o.id <= n /\ Fingerprint[o.shape] = k

\* The issue x reports the occurrences S.
Counts(x, S) ==
    /\ x \in Issue
    /\ x.occurrences = Cardinality(S)
    /\ x.lastEvent \in S /\ x.last = x.lastEvent.at
    /\ \A o \in S : o = x.lastEvent \/ Newer(x.lastEvent, o)
    /\ \E o \in S : o.at = x.first
    /\ \A o \in S : x.first <= o.at

\* An issue counts a later arrival, whatever its stamp.
CountedRight(old, o, S) ==
    /\ Distinct(S \cup {o})
    /\ Counts(Counted(old, o), S \cup {o})
    /\ Counted(old, o).status = IF S = {} THEN "open" ELSE Reopened(old.status)

\* The first occurrence of a group.
LEMMA FirstCounted ==
    ASSUME NEW o \in Occ
    PROVE  CountedRight(<<>>, o, {})
<1> DEFINE c == [status |-> "open", occurrences |-> 1, first |-> o.at, last |-> o.at,
                 lastEvent |-> o]
<1>1. o.at \in Nat /\ o.id \in Nat
  BY DEF Occ
<1>2. Counted(<<>>, o) = c
  <2> DEFINE new == [status |-> "open", occurrences |-> 0,
                     first |-> o.at, last |-> o.at, lastEvent |-> o]
  <2>1. /\ DOMAIN new = {"status", "occurrences", "first", "last", "lastEvent"}
        /\ new.status = "open" /\ new.occurrences = 0
        /\ new.first = o.at /\ new.last = o.at /\ new.lastEvent = o
    OBVIOUS
  <2>2. Counted(<<>>, o) = [new EXCEPT !.occurrences = @ + 1,
                                !.first = IF o.at < @ THEN o.at ELSE @,
                                !.last = IF Supersedes(o, new) THEN o.at ELSE @,
                                !.lastEvent = IF Supersedes(o, new) THEN o ELSE @]
    BY DEF Counted
  <2>3. Supersedes(o, new) /\ ~(o.at < o.at) /\ 0 + 1 = 1
    BY <1>1 DEF Supersedes
  <2> HIDE DEF new
  <2> QED
    BY <2>1, <2>2, <2>3
<1>3. IsFiniteSet({o}) /\ Cardinality({o}) = 1
  BY FS_Singleton
<1>4. c \in Issue
  BY <1>1 DEF Issue, Statuses
<1>5. Counts(c, {o})
  BY <1>1, <1>3, <1>4 DEF Counts
<1>6. Distinct({o})
  BY <1>3 DEF Distinct
<1>7. {} \cup {o} = {o}
  OBVIOUS
<1> HIDE DEF c
<1>8. c.status = "open"
  BY DEF c
<1> QED
  BY <1>2, <1>5, <1>6, <1>7, <1>8 DEF CountedRight

\* One more occurrence of a group: the counters of what was seen with it.
LEMMA NextCounted ==
    ASSUME NEW S, NEW o \in Occ, NEW old, Distinct(S), S # {}, Counts(old, S),
           \A p \in S : p.id < o.id
    PROVE  CountedRight(old, o, S)
<1> DEFINE st == Reopened(old.status)
           low == IF o.at < old.first THEN o.at ELSE old.first
           latest == o.at >= old.last
           c == [status |-> st, occurrences |-> old.occurrences + 1, first |-> low,
                 last |-> IF latest THEN o.at ELSE old.last,
                 lastEvent |-> IF latest THEN o ELSE old.lastEvent]
<1>1. o.at \in Nat /\ o.id \in Nat
  BY DEF Occ
<1>2. old \in Issue /\ old # <<>>
  BY SMTT(60) DEF Counts, Issue
<1>3. Counted(old, o) = c
  <2> DEFINE back == [old EXCEPT !.status = Reopened(@)]
  <2>1. /\ DOMAIN back = {"status", "occurrences", "first", "last", "lastEvent"}
        /\ back = [status |-> st, occurrences |-> old.occurrences, first |-> old.first,
                   last |-> old.last, lastEvent |-> old.lastEvent]
    BY <1>2 DEF Issue
  <2>2. Counted(old, o) = [back EXCEPT !.occurrences = @ + 1,
                               !.first = IF o.at < @ THEN o.at ELSE @,
                               !.last = IF Supersedes(o, back) THEN o.at ELSE @,
                               !.lastEvent = IF Supersedes(o, back) THEN o ELSE @]
    BY <1>2 DEF Counted
  <2> HIDE DEF back
  <2> QED
    BY <2>1, <2>2 DEF Supersedes
<1>4. st \in Statuses
  BY <1>2 DEF Reopened, Statuses, Issue
<1>5. /\ old.occurrences \in Nat /\ old.first \in Nat /\ old.last \in Nat
      /\ old.lastEvent \in Occ /\ old.lastEvent.at \in Nat /\ old.lastEvent.id \in Nat
  BY <1>2 DEF Issue, Occ
<1>6. c \in Issue
  BY <1>1, <1>4, <1>5 DEF Issue
<1>7. IsFiniteSet(S) /\ S \subseteq Occ /\ o \notin S
  BY <1>1 DEF Distinct
<1>8. IsFiniteSet(S \cup {o}) /\ Cardinality(S \cup {o}) = Cardinality(S) + 1
  BY <1>7, FS_AddElement
<1>9. Distinct(S \cup {o})
  <2>1. \A p \in S : p.id # o.id
    BY <1>1, <1>7 DEF Occ
  <2> QED
    BY <1>7, <1>8, <2>1 DEF Distinct
<1>10. /\ c.status = st /\ c.occurrences = old.occurrences + 1 /\ c.first = low
       /\ c.last = (IF latest THEN o.at ELSE old.last)
       /\ c.lastEvent = (IF latest THEN o ELSE old.lastEvent)
  OBVIOUS
<1> HIDE DEF c
<1>11. \A p \in S : p.at \in Nat /\ p.id \in Nat
  BY <1>7 DEF Occ
<1>12. /\ old.occurrences = Cardinality(S) /\ old.lastEvent \in S
       /\ old.last = old.lastEvent.at
       /\ \A p \in S : p = old.lastEvent \/ Newer(old.lastEvent, p)
       /\ \E p \in S : p.at = old.first
       /\ \A p \in S : old.first <= p.at
  BY DEF Counts
<1>13. \A p \in S : p.at <= old.last
  BY <1>5, <1>11, <1>12 DEF Newer
<1>14. c.lastEvent \in S \cup {o} /\ c.last = c.lastEvent.at
  BY <1>10, <1>12
<1>15. \A p \in S \cup {o} : p = c.lastEvent \/ Newer(c.lastEvent, p)
  <2>1. CASE latest
    <3>1. \A p \in S : Newer(o, p)
      BY <1>1, <1>5, <1>11, <1>13, <2>1 DEF Newer
    <3> QED
      BY <1>10, <2>1, <3>1
  <2>2. CASE ~latest
    <3>1. Newer(old.lastEvent, o)
      BY <1>1, <1>5, <1>12, <2>2 DEF Newer
    <3> QED
      BY <1>10, <1>12, <2>2, <3>1
  <2> QED
    BY <2>1, <2>2
<1>16. \E p \in S \cup {o} : p.at = c.first
  BY <1>10, <1>12
<1>17. \A p \in S \cup {o} : c.first <= p.at
  BY <1>1, <1>5, <1>10, <1>11, <1>12
<1>18. Counts(c, S \cup {o})
  BY <1>6, <1>8, <1>10, <1>12, <1>14, <1>15, <1>16, <1>17 DEF Counts
<1> QED
  BY <1>3, <1>9, <1>10, <1>18 DEF CountedRight
-----------------------------------------------------------------------------
(***************************************************************************)
(* A batch.  Midway says what is stored after its first i items: of every  *)
(* group what was stored before and the occurrences of the group among     *)
(* those items, whose ids are larger than any before.                      *)
(***************************************************************************)
Past(shapes, at, i, k) ==
    {Occurrence(shapes, at, j) : j \in {j \in 1..i : Fingerprint[shapes[j]] = k}}
Mentioned(shapes, i) == {Fingerprint[shapes[j]] : j \in 1..i}

\* The status of group k once it has recurred.
Recurring(k) == IF k \in DOMAIN issues THEN Reopened(issues[k].status) ELSE "open"

StoreInv ==
    /\ sequence \in Nat
    /\ DOMAIN issues = DOMAIN seen /\ DOMAIN events = DOMAIN seen
    /\ \A k \in DOMAIN seen :
          /\ Sightings(seen[k], k, sequence)
          /\ Counts(issues[k], seen[k])
          /\ events[k] = NewestOf(seen[k])

\* What group k has in the state s after i items.
GroupMidway(s, shapes, at, i, k) ==
    /\ s.seen[k] = Get(seen, k, {}) \cup Past(shapes, at, i, k)
    /\ Counts(s.issues[k], s.seen[k])
    /\ s.events[k] \in Seq(Occ)
    /\ Range(s.events[k]) = Range(Get(events, k, <<>>)) \cup Past(shapes, at, i, k)
    /\ k \in Mentioned(shapes, i) => s.issues[k].status = Recurring(k)
    /\ k \notin Mentioned(shapes, i) => s.events[k] = events[k] /\ s.issues[k] = issues[k]
Midway(s, shapes, at, i) ==
    /\ DOMAIN s.seen = DOMAIN seen \cup Mentioned(shapes, i)
    /\ DOMAIN s.issues = DOMAIN s.seen /\ DOMAIN s.events = DOMAIN s.seen
    /\ \A k \in DOMAIN s.seen : GroupMidway(s, shapes, at, i, k)

\* What has been seen of a group, if anything, has ids from 1 to the sequence.
LEMMA SeenBefore ==
    ASSUME StoreInv, NEW k
    PROVE  /\ Distinct(Get(seen, k, {}))
           /\ \A o \in Get(seen, k, {}) : o.id <= sequence /\ Fingerprint[o.shape] = k
           /\ k \in DOMAIN seen => Get(seen, k, {}) # {}
<1>1. CASE k \in DOMAIN seen
  BY <1>1 DEF StoreInv, Sightings, Get
<1>2. CASE k \notin DOMAIN seen
  <2>1. Get(seen, k, {}) = {}
    BY <1>2 DEF Get
  <2> QED
    BY <1>2, <2>1, FS_EmptySet DEF Distinct
<1> QED
  BY <1>1, <1>2

\* The items so far of one group.
LEMMA PastProperties ==
    ASSUME StoreInv, NEW shapes \in Seq(DOMAIN Fingerprint), NEW at \in Nat,
           NEW i \in 0..Len(shapes), NEW k
    PROVE  /\ IsFiniteSet(Past(shapes, at, i, k)) /\ Past(shapes, at, i, k) \subseteq Occ
           /\ \A o \in Past(shapes, at, i, k) :
                 sequence < o.id /\ o.id <= sequence + i /\ Fingerprint[o.shape] = k
           /\ \A o, p \in Past(shapes, at, i, k) : o.id = p.id => o = p
           /\ k \notin Mentioned(shapes, i) => Past(shapes, at, i, k) = {}
           /\ k \in Mentioned(shapes, i) => Past(shapes, at, i, k) # {}
<1> DEFINE J == {j \in 1..i : Fingerprint[shapes[j]] = k}
           P == Past(shapes, at, i, k)
           f == [j \in J |-> Occurrence(shapes, at, j)]
<1>1. sequence \in Nat /\ i \in Nat
  BY DEF StoreInv
<1>2. \A j \in J : j \in 1..i /\ j \in 1..Len(shapes) /\ shapes[j] \in DOMAIN Fingerprint
  BY <1>1
<1>3. \A j \in J : /\ Occurrence(shapes, at, j) \in Occ
                   /\ Occurrence(shapes, at, j).id = sequence + j
                   /\ Occurrence(shapes, at, j).shape = shapes[j]
  BY <1>1, <1>2 DEF Occurrence, Occ
<1>4. P = {Occurrence(shapes, at, j) : j \in J}
  BY DEF Past
<1>5. IsFiniteSet(J)
  <2>1. 1 \in Int /\ i \in Int
    BY <1>1
  <2>2. IsFiniteSet(1..i)
    BY <2>1, FS_Interval
  <2>3. J \in SUBSET (1..i)
    OBVIOUS
  <2> QED
    BY <2>2, <2>3, FS_Subset
<1>6. f \in Surjection(J, P)
  BY <1>4 DEF Surjection
<1>7. IsFiniteSet(P)
  BY <1>5, <1>6, FS_Surjection
<1>8. k \notin Mentioned(shapes, i) => J = {}
  BY DEF Mentioned
<1>9. k \in Mentioned(shapes, i) => J # {}
  BY DEF Mentioned
<1>10. \A j \in J : Fingerprint[shapes[j]] = k
  OBVIOUS
<1> HIDE DEF J, P, f
<1>11. P \subseteq Occ
  BY <1>3, <1>4
<1>12. \A o \in P : sequence < o.id /\ o.id <= sequence + i /\ Fingerprint[o.shape] = k
  BY <1>1, <1>2, <1>3, <1>4, <1>10
<1>13. \A o, p \in P : o.id = p.id => o = p
  <2> SUFFICES ASSUME NEW a \in J, NEW b \in J,
                      Occurrence(shapes, at, a).id = Occurrence(shapes, at, b).id
               PROVE  Occurrence(shapes, at, a) = Occurrence(shapes, at, b)
    BY <1>4
  <2>1. a = b
    BY <1>1, <1>2, <1>3
  <2> QED
    BY <2>1
<1>14. (J = {} => P = {}) /\ (J # {} => P # {})
  BY <1>4
<1> QED
  BY <1>7, <1>8, <1>9, <1>11, <1>12, <1>13, <1>14 DEF P

\* Together: everything seen of a group while the batch is recorded.
SeenBy(S, shapes, i, k) ==
    /\ Distinct(S)
    /\ \A o \in S : o.id <= sequence + i /\ Fingerprint[o.shape] = k
    /\ (k \in DOMAIN seen \cup Mentioned(shapes, i)) <=> (S # {})

\* What a group has seen after the first i items of a batch.
LEMMA SeenMidway ==
    ASSUME StoreInv, NEW shapes \in Seq(DOMAIN Fingerprint), NEW at \in Nat,
           NEW i \in 0..Len(shapes), NEW k
    PROVE  SeenBy(Get(seen, k, {}) \cup Past(shapes, at, i, k), shapes, i, k)
<1> DEFINE T == Get(seen, k, {})
           P == Past(shapes, at, i, k)
<1>1. /\ Distinct(T) /\ \A o \in T : o.id <= sequence /\ Fingerprint[o.shape] = k
      /\ k \in DOMAIN seen => T # {}
  BY SeenBefore
<1>2. /\ IsFiniteSet(P) /\ P \subseteq Occ
      /\ \A o \in P : sequence < o.id /\ o.id <= sequence + i /\ Fingerprint[o.shape] = k
      /\ \A o, p \in P : o.id = p.id => o = p
      /\ k \notin Mentioned(shapes, i) => P = {}
      /\ k \in Mentioned(shapes, i) => P # {}
  BY PastProperties
<1>3. k \notin DOMAIN seen => T = {}
  BY DEF Get
<1> HIDE DEF T, P
<1>4. sequence \in Nat /\ i \in Nat
  BY DEF StoreInv
<1>5. IsFiniteSet(T \cup P)
  BY <1>1, <1>2, FS_Union DEF Distinct
<1>6. \A o \in T, p \in P : o.id # p.id
  BY <1>1, <1>2, <1>4 DEF Distinct, Occ
<1>7. Distinct(T \cup P)
  BY <1>1, <1>2, <1>5, <1>6 DEF Distinct
<1>8. \A o \in T \cup P : o.id <= sequence + i /\ Fingerprint[o.shape] = k
  BY <1>1, <1>2, <1>4 DEF Distinct, Occ
<1> QED
  BY <1>1, <1>2, <1>3, <1>7, <1>8 DEF T, P, SeenBy
\* Nothing has been recorded yet.
LEMMA MidwayBegins ==
    ASSUME StoreInv, NEW shapes, NEW at
    PROVE  Midway([issues |-> issues, events |-> events, seen |-> seen], shapes, at, 0)
<1> DEFINE s == [issues |-> issues, events |-> events, seen |-> seen]
<1>1. s.issues = issues /\ s.events = events /\ s.seen = seen
  OBVIOUS
<1> HIDE DEF s
<1>2. Mentioned(shapes, 0) = {} /\ \A k : Past(shapes, at, 0, k) = {}
  BY DEF Mentioned, Past
<1>3. ASSUME NEW k \in DOMAIN seen
      PROVE  GroupMidway(s, shapes, at, 0, k)
  <2>1. Distinct(seen[k]) /\ Counts(issues[k], seen[k]) /\ events[k] = NewestOf(seen[k])
    BY <1>3 DEF StoreInv, Sightings
  <2>2. events[k] \in Seq(seen[k])
    BY <2>1, NewestOfListed DEF Listed
  <2>3. events[k] \in Seq(Occ)
    <3>1. seen[k] \subseteq Occ
      BY <2>1 DEF Distinct
    <3> QED
      BY <2>2, <3>1
  <2>4. Get(seen, k, {}) = seen[k] /\ Get(events, k, <<>>) = events[k]
    BY <1>3 DEF Get, StoreInv
  <2> QED
    BY <1>1, <1>2, <2>1, <2>3, <2>4 DEF GroupMidway
<1>4. DOMAIN issues = DOMAIN seen /\ DOMAIN events = DOMAIN seen
  BY DEF StoreInv
<1> QED
  BY <1>1, <1>2, <1>3, <1>4 DEF Midway, s

\* One more item.
LEMMA MidwayGoesOn ==
    ASSUME StoreInv, NEW shapes \in Seq(DOMAIN Fingerprint), NEW at \in Nat,
           NEW i \in Nat, i + 1 <= Len(shapes), NEW s, Midway(s, shapes, at, i)
    PROVE  Midway(RecordItem(s, Occurrence(shapes, at, i + 1)), shapes, at, i + 1)
<1> DEFINE o == Occurrence(shapes, at, i + 1)
           g == Fingerprint[shapes[i + 1]]
           t == RecordItem(s, o)
           old == Get(s.issues, g, <<>>)
           S == Get(s.seen, g, {})
<1>1. /\ sequence \in Nat /\ Len(shapes) \in Nat
      /\ i \in 0..Len(shapes) /\ i + 1 \in 0..Len(shapes) /\ i + 1 \in 1..Len(shapes)
      /\ shapes[i + 1] \in DOMAIN Fingerprint
  BY DEF StoreInv
<1>2. /\ o.shape = shapes[i + 1] /\ o.id = sequence + (i + 1) /\ o.at = at
      /\ o \in Occ
  BY <1>1 DEF Occurrence, Occ
<1>3. /\ t.issues = Put(s.issues, g, Counted(old, o))
      /\ t.events = Put(s.events, g, Append(Get(s.events, g, <<>>), o))
      /\ t.seen = Put(s.seen, g, S \cup {o})
  BY <1>2 DEF RecordItem
<1>4. /\ Mentioned(shapes, i + 1) = Mentioned(shapes, i) \cup {g}
      /\ g \in Mentioned(shapes, i + 1)
  <2>1. 1..(i + 1) = 1..i \cup {i + 1}
    OBVIOUS
  <2> QED
    BY <2>1 DEF Mentioned
<1>5. \A k : Past(shapes, at, i + 1, k)
                = Past(shapes, at, i, k) \cup (IF k = g THEN {o} ELSE {})
  <2>1. 1..(i + 1) = 1..i \cup {i + 1}
    OBVIOUS
  <2> TAKE k
  <2>2. {j \in 1..(i + 1) : Fingerprint[shapes[j]] = k}
           = {j \in 1..i : Fingerprint[shapes[j]] = k} \cup (IF k = g THEN {i + 1} ELSE {})
    BY <2>1
  <2> QED
    BY <2>2 DEF Past
<1> HIDE DEF t, o, g, S, old
<1>6. /\ DOMAIN s.seen = DOMAIN seen \cup Mentioned(shapes, i)
      /\ DOMAIN s.issues = DOMAIN s.seen /\ DOMAIN s.events = DOMAIN s.seen
      /\ \A k \in DOMAIN s.seen : GroupMidway(s, shapes, at, i, k)
  BY DEF Midway
<1>7. /\ DOMAIN t.seen = DOMAIN seen \cup Mentioned(shapes, i + 1)
      /\ DOMAIN t.issues = DOMAIN t.seen /\ DOMAIN t.events = DOMAIN t.seen
  BY <1>3, <1>4, <1>6 DEF Put
\* Other groups are as they were.
<1>8. ASSUME NEW k \in DOMAIN s.seen, k # g
      PROVE  GroupMidway(t, shapes, at, i + 1, k)
  <2>1. t.issues[k] = s.issues[k] /\ t.events[k] = s.events[k] /\ t.seen[k] = s.seen[k]
    BY <1>3, <1>6, <1>8 DEF Put
  <2>2. Past(shapes, at, i + 1, k) = Past(shapes, at, i, k)
    BY <1>5, <1>8
  <2>3. k \in Mentioned(shapes, i + 1) <=> k \in Mentioned(shapes, i)
    BY <1>4, <1>8
  <2>4. GroupMidway(s, shapes, at, i, k)
    BY <1>6
  <2> QED
    BY <2>1, <2>2, <2>3, <2>4 DEF GroupMidway
\* The group of this item.
<1>9. GroupMidway(t, shapes, at, i + 1, g)
  <2>1. S = Get(seen, g, {}) \cup Past(shapes, at, i, g)
    <3>1. CASE g \in DOMAIN s.seen
      BY <1>6, <3>1 DEF GroupMidway, Get, S, old
    <3>2. CASE g \notin DOMAIN s.seen
      <4>1. g \notin DOMAIN seen /\ g \notin Mentioned(shapes, i)
        BY <1>6, <3>2
      <4>2. Past(shapes, at, i, g) = {}
        BY <1>1, <4>1, PastProperties
      <4> QED
        BY <3>2, <4>1, <4>2 DEF Get, S
    <3> QED
      BY <3>1, <3>2
  <2>2. /\ Distinct(S) /\ \A p \in S : p.id <= sequence + i
        /\ (g \in DOMAIN seen \cup Mentioned(shapes, i)) <=> (S # {})
    <3>1. SeenBy(S, shapes, i, g)
      BY <1>1, <2>1, SeenMidway
    <3> QED
      BY <3>1 DEF SeenBy
  <2>3. \A p \in S : p.id < o.id
    BY <1>1, <1>2, <2>2 DEF Distinct, Occ
  <2>4. /\ t.issues[g] = Counted(old, o) /\ t.seen[g] = S \cup {o}
        /\ t.events[g] = Append(Get(s.events, g, <<>>), o)
    BY <1>3 DEF Put
  <2>5. CountedRight(old, o, S)
    <3>1. CASE g \in DOMAIN s.seen
      <4>1. Counts(old, S) /\ S # {}
        BY <1>6, <2>2, <3>1 DEF GroupMidway, Get, S, old
      <4> QED
        BY <1>2, <2>2, <2>3, <4>1, NextCounted
    <3>2. CASE g \notin DOMAIN s.seen
      <4>1. old = <<>> /\ S = {}
        BY <1>6, <3>2 DEF Get, S, old
      <4> QED
        BY <1>2, <4>1, FirstCounted
    <3> QED
      BY <3>1, <3>2
  <2>6. t.seen[g] = Get(seen, g, {}) \cup Past(shapes, at, i + 1, g)
    BY <1>5, <2>1, <2>4
  <2>7. Counts(t.issues[g], t.seen[g])
    BY <2>4, <2>5 DEF CountedRight
  <2>8. /\ Get(s.events, g, <<>>) \in Seq(Occ)
        /\ Range(Get(s.events, g, <<>>))
              = Range(Get(events, g, <<>>)) \cup Past(shapes, at, i, g)
    <3>1. CASE g \in DOMAIN s.seen
      BY <1>6, <3>1 DEF GroupMidway, Get, S, old
    <3>2. CASE g \notin DOMAIN s.seen
      <4>1. g \notin DOMAIN seen /\ g \notin Mentioned(shapes, i) /\ g \notin DOMAIN events
        BY <1>6, <3>2 DEF StoreInv
      <4>2. Past(shapes, at, i, g) = {}
        BY <1>1, <4>1, PastProperties
      <4>3. Get(s.events, g, <<>>) = <<>> /\ Get(events, g, <<>>) = <<>>
        BY <1>6, <3>2, <4>1 DEF Get
      <4>4. <<>> \in Seq(Occ)
        OBVIOUS
      <4> QED
        BY <4>2, <4>3, <4>4
    <3> QED
      BY <3>1, <3>2
  <2>9. /\ t.events[g] \in Seq(Occ)
        /\ Range(t.events[g]) = Range(Get(events, g, <<>>)) \cup Past(shapes, at, i + 1, g)
    <3> DEFINE h == Get(s.events, g, <<>>)
    <3>1. h \in Seq(Occ) /\ o \in Occ
      BY <2>8, <1>2
    <3> HIDE DEF h
    <3>2. Append(h, o) \in Seq(Occ) /\ Range(Append(h, o)) = Range(h) \cup {o}
      <4>1. /\ Append(h, o) \in Seq(Occ) /\ DOMAIN Append(h, o) = 1..(Len(h) + 1)
            /\ Append(h, o)[Len(h) + 1] = o /\ Len(h) \in Nat /\ DOMAIN h = 1..Len(h)
            /\ \A j \in 1..Len(h) : Append(h, o)[j] = h[j]
        BY <3>1
      <4>2. 1..(Len(h) + 1) = 1..Len(h) \cup {Len(h) + 1}
        BY <4>1
      <4> QED
        BY <4>1, <4>2 DEF Range
    <3> QED
      BY <1>5, <2>4, <2>8, <3>2 DEF h
  <2>10. t.issues[g].status = Recurring(g)
    <3>1. CASE g \in Mentioned(shapes, i)
      <4>1. old = s.issues[g] /\ s.issues[g].status = Recurring(g) /\ S # {}
        BY <1>6, <2>2, <3>1 DEF GroupMidway, Get, S, old
      <4>2. Reopened(Recurring(g)) = Recurring(g)
        BY DEF Reopened, Recurring
      <4> QED
        BY <2>4, <2>5, <4>1, <4>2 DEF CountedRight
    <3>2. CASE g \notin Mentioned(shapes, i) /\ g \in DOMAIN seen
      <4>1. old = issues[g] /\ S # {} /\ g \in DOMAIN issues
        BY <1>6, <2>2, <3>2 DEF GroupMidway, Get, StoreInv, old
      <4> QED
        BY <2>4, <2>5, <4>1 DEF CountedRight, Recurring
    <3>3. CASE g \notin Mentioned(shapes, i) /\ g \notin DOMAIN seen
      <4>1. S = {} /\ g \notin DOMAIN issues
        BY <2>2, <3>3 DEF StoreInv
      <4> QED
        BY <2>4, <2>5, <4>1 DEF CountedRight, Recurring
    <3> QED
      BY <3>1, <3>2, <3>3
  <2> QED
    BY <1>4, <2>6, <2>7, <2>9, <2>10 DEF GroupMidway
<1>10. \A k \in DOMAIN t.seen : k \in DOMAIN s.seen \/ k = g
  BY <1>4, <1>6, <1>7
<1>11. Midway(t, shapes, at, i + 1)
  BY <1>7, <1>8, <1>9, <1>10 DEF Midway
<1> QED
  BY <1>11 DEF t, o
\* A set of numbers up to n that has 0 and no last member below n has n: its
\* successors would be as many and leave out 0.
LEMMA LastReached ==
    ASSUME NEW n \in Nat, NEW S, S \subseteq 0..n, 0 \in S,
           \A m \in S : m < n => m + 1 \in S
    PROVE  n \in S
<1> SUFFICES ASSUME n \notin S PROVE FALSE
  OBVIOUS
<1> DEFINE f == [m \in S |-> m + 1]
<1>1. \A m \in S : m \in Nat /\ m + 1 \in S \ {0}
  OBVIOUS
<1>2. f \in [S -> S \ {0}]
  BY <1>1
<1>3. \A a, b \in S : f[a] = f[b] => a = b
  BY <1>1
<1>4. f \in Injection(S, S \ {0})
  BY <1>2, <1>3, Zenon DEF Injection, IsInjective
<1>5. IsFiniteSet(S)
  <2>1. 0 \in Int /\ n \in Int
    OBVIOUS
  <2>2. IsFiniteSet(0..n)
    BY <2>1, FS_Interval
  <2> QED
    BY <2>2, FS_Subset
<1>6. /\ IsFiniteSet(S \ {0})
      /\ Cardinality(S \ {0}) = IF 0 \in S THEN Cardinality(S) - 1 ELSE Cardinality(S)
  BY <1>5, FS_RemoveElement
<1>7. Cardinality(S) <= Cardinality(S \ {0})
  BY <1>4, <1>6, FS_Injection
<1>8. Cardinality(S) \in Nat
  BY <1>5, FS_CardinalityType
<1> QED
  BY <1>6, <1>7, <1>8

\* The state after each item of a batch is defined by the one before it.
LEMMA ItemByItem ==
    ASSUME NEW shapes, Len(shapes) \in Nat, NEW at
    PROVE  AfterItems(shapes, at) =
              [i \in 0..Len(shapes) |->
                  IF i = 0 THEN [issues |-> issues, events |-> events, seen |-> seen]
                  ELSE RecordItem(AfterItems(shapes, at)[i - 1], Occurrence(shapes, at, i))]
<1> DEFINE n == Len(shapes)
           base == [issues |-> issues, events |-> events, seen |-> seen]
           Def(f, i) == IF i = 0 THEN base
                        ELSE RecordItem(f[i - 1], Occurrence(shapes, at, i))
           S == {m \in 0..n : \E f : f = [i \in 0..m |-> Def(f, i)]}
<1>1. 0 \in S
  <2> DEFINE f == [i \in 0..0 |-> base]
  <2>1. f = [i \in 0..0 |-> Def(f, i)]
    OBVIOUS
  <2> HIDE DEF f, Def
  <2> QED
    BY <2>1
<1>2. ASSUME NEW m \in S, m < n
      PROVE  m + 1 \in S
  <2>1. m \in Nat /\ m + 1 \in 0..n
    BY <1>2
  <2>2. PICK f : f = [i \in 0..m |-> Def(f, i)]
    OBVIOUS
  <2> DEFINE g == [i \in 0..(m + 1) |-> IF i = m + 1 THEN Def(f, i) ELSE f[i]]
  <2>3. \A i \in 0..m : g[i] = f[i]
    BY <2>1
  <2>4. \A i \in 0..(m + 1) : Def(g, i) = g[i]
    <3> TAKE i \in 0..(m + 1)
    <3>1. CASE i = 0
      <4>1. i \in 0..m /\ g[i] = f[i] /\ f[i] = Def(f, i)
        BY <2>1, <2>2, <2>3, <3>1
      <4> QED
        BY <3>1, <4>1
    <3>2. CASE i # 0
      <4>1. i - 1 \in 0..m
        BY <2>1, <3>2
      <4>2. g[i - 1] = f[i - 1]
        BY <2>3, <4>1
      <4> HIDE DEF g
      <4>3. Def(g, i) = Def(f, i)
        BY <3>2, <4>2
      <4>4. i # m + 1 => i \in 0..m
        BY <2>1
      <4>5. i # m + 1 => f[i] = Def(f, i)
        BY <2>2, <4>4
      <4> HIDE DEF Def
      <4> QED
        BY <4>3, <4>5 DEF g
    <3> QED
      BY <3>1, <3>2
  <2>5. g = [i \in 0..(m + 1) |-> g[i]]
    OBVIOUS
  <2> HIDE DEF g, Def
  <2>6. g = [i \in 0..(m + 1) |-> Def(g, i)]
    BY <2>4, <2>5
  <2> QED
    BY <2>1, <2>6
<1>3. n \in S
  <2> HIDE DEF S
  <2>1. S \subseteq 0..n
    BY DEF S
  <2> QED
    BY <1>1, <1>2, <2>1, LastReached
<1>4. \E f : f = [i \in 0..n |-> Def(f, i)]
  BY <1>3
<1>5. AfterItems(shapes, at) = CHOOSE f : f = [i \in 0..n |-> Def(f, i)]
  BY DEF AfterItems
<1> QED
  BY <1>4, <1>5
\* Every item finds what the one before it left.
LEMMA MidwayAlways ==
    ASSUME StoreInv, NEW shapes \in Seq(DOMAIN Fingerprint), NEW at \in Nat
    PROVE  Midway(AfterItems(shapes, at)[Len(shapes)], shapes, at, Len(shapes))
<1> DEFINE n == Len(shapes)
           after == AfterItems(shapes, at)
           S == {m \in 0..n : Midway(after[m], shapes, at, m)}
<1>1. n \in Nat
  OBVIOUS
<1>2. after = [i \in 0..n |->
                  IF i = 0 THEN [issues |-> issues, events |-> events, seen |-> seen]
                  ELSE RecordItem(after[i - 1], Occurrence(shapes, at, i))]
  BY <1>1, ItemByItem
<1> HIDE DEF after, n
<1>3. 0 \in S
  <2>1. 0 \in 0..n
    BY <1>1
  <2>2. after[0] = [issues |-> issues, events |-> events, seen |-> seen]
    BY <1>2, <2>1
  <2>3. Midway(after[0], shapes, at, 0)
    BY <2>2, MidwayBegins
  <2> QED
    BY <2>1, <2>3
<1>4. ASSUME NEW m \in S, m < n
      PROVE  m + 1 \in S
  <2>1. m \in Nat /\ m + 1 \in 0..n /\ m + 1 # 0 /\ m + 1 - 1 = m /\ m + 1 <= n
    BY <1>1, <1>4
  <2>2. after[m + 1] = RecordItem(after[m], Occurrence(shapes, at, m + 1))
    BY <1>2, <2>1
  <2>3. Midway(after[m], shapes, at, m)
    OBVIOUS
  <2>4. m + 1 <= Len(shapes)
    BY <2>1 DEF n
  <2>5. Midway(after[m + 1], shapes, at, m + 1)
    BY <2>1, <2>2, <2>3, <2>4, MidwayGoesOn
  <2> QED
    BY <2>1, <2>5
<1>5. n \in S
  <2>1. S \subseteq 0..n
    OBVIOUS
  <2> HIDE DEF S
  <2> QED
    BY <1>1, <1>3, <1>4, <2>1, LastReached
<1> QED
  BY <1>5 DEF after, n

\* What a recorded batch has changed.
BatchRecorded(shapes, at) ==
    /\ sequence' = sequence + Len(shapes)
    /\ DOMAIN seen' = DOMAIN seen \cup Mentioned(shapes, Len(shapes))
    /\ DOMAIN issues' = DOMAIN seen'
    /\ \A k \in DOMAIN seen' :
          /\ seen'[k] = Get(seen, k, {}) \cup Past(shapes, at, Len(shapes), k)
          /\ k \in Mentioned(shapes, Len(shapes)) => issues'[k].status = Recurring(k)
          /\ k \notin Mentioned(shapes, Len(shapes)) => issues'[k] = issues[k]

\* RecordBatch keeps the aggregates and the histories right, whatever the stamp.
LEMMA RecordBatchKeeps ==
    ASSUME StoreInv, NEW shapes \in Seq(DOMAIN Fingerprint), NEW at \in Nat,
           RecordBatch(shapes, at)
    PROVE  StoreInv' /\ BatchRecorded(shapes, at)
<1> DEFINE n == Len(shapes)
           s == AfterItems(shapes, at)[n]
           touched == {Fingerprint[shapes[i]] : i \in DOMAIN shapes}
<1>1. n \in Nat /\ n \in 0..Len(shapes) /\ touched = Mentioned(shapes, n)
  BY DEF Mentioned
<1>2. Midway(s, shapes, at, n)
  BY MidwayAlways
<1>3. /\ issues' = s.issues /\ seen' = s.seen /\ sequence' = sequence + n
      /\ events' = [k \in DOMAIN s.events |->
                       IF k \in touched THEN Trimmed(s.events[k]) ELSE s.events[k]]
  BY DEF RecordBatch, LastItem
<1> HIDE DEF s, touched, n
<1>4. /\ DOMAIN s.seen = DOMAIN seen \cup Mentioned(shapes, n)
      /\ DOMAIN s.issues = DOMAIN s.seen /\ DOMAIN s.events = DOMAIN s.seen
      /\ \A k \in DOMAIN s.seen : GroupMidway(s, shapes, at, n, k)
  BY <1>2 DEF Midway
<1>5. sequence \in Nat /\ sequence' \in Nat
  BY <1>1, <1>3 DEF StoreInv
<1>6. ASSUME NEW k \in DOMAIN s.seen
      PROVE  /\ Sightings(s.seen[k], k, sequence + n)
             /\ Counts(s.issues[k], s.seen[k])
             /\ events'[k] = NewestOf(s.seen[k])
  <2> DEFINE T == Get(seen, k, {})
             P == Past(shapes, at, n, k)
  <2>1. s.seen[k] = T \cup P /\ Counts(s.issues[k], s.seen[k])
    BY <1>4, <1>6 DEF GroupMidway
  <2>2. SeenBy(T \cup P, shapes, n, k)
    BY <1>1, SeenMidway
  <2>3. Sightings(s.seen[k], k, sequence + n)
    BY <1>4, <2>1, <2>2 DEF SeenBy, Sightings
  <2>4. events'[k] = IF k \in touched THEN Trimmed(s.events[k]) ELSE s.events[k]
    BY <1>3, <1>4, <1>6
  <2>5. Range(Get(events, k, <<>>)) = Range(NewestOf(T))
    <3>1. CASE k \in DOMAIN seen
      BY <3>1 DEF StoreInv, Get
    <3>2. CASE k \notin DOMAIN seen
      <4>1. Get(events, k, <<>>) = <<>> /\ T = {}
        BY <3>2 DEF StoreInv, Get
      <4>2. Distinct({})
        BY FS_EmptySet DEF Distinct
      <4>3. Range(NewestOf({})) = {}
        BY <4>2, HistoryIsRanked
      <4>4. Range(<<>>) = {}
        BY DEF Range
      <4> HIDE DEF T
      <4> QED
        BY <4>1, <4>3, <4>4
    <3> QED
      BY <3>1, <3>2
  <2>6. CASE k \in touched
    <3>1. Range(s.events[k]) = Range(NewestOf(T)) \cup P
      BY <1>4, <1>6, <2>5 DEF GroupMidway
    <3>2. NewestOf(Range(NewestOf(T)) \cup P) = NewestOf(T \cup P)
      BY <2>2, TopMerge DEF SeenBy
    <3> QED
      BY <2>1, <2>3, <2>4, <2>6, <3>1, <3>2 DEF Trimmed, NewestOf
  <2>7. CASE k \notin touched
    <3>1. k \in DOMAIN seen /\ P = {} /\ s.events[k] = events[k]
      BY <1>1, <1>4, <1>6, <2>7, PastProperties DEF GroupMidway
    <3>2. T = seen[k] /\ events[k] = NewestOf(seen[k])
      BY <3>1 DEF StoreInv, Get
    <3> QED
      BY <2>1, <2>3, <2>4, <2>7, <3>1, <3>2
  <2> QED
    BY <2>6, <2>7
<1>7. DOMAIN events' = DOMAIN s.events
  BY <1>3
<1>8. StoreInv'
  BY <1>3, <1>4, <1>5, <1>6, <1>7 DEF StoreInv
<1>9. BatchRecorded(shapes, at)
  BY <1>3, <1>4 DEF BatchRecorded, GroupMidway, n
<1> QED
  BY <1>8, <1>9

\* Triage leaves what was recorded alone.
LEMMA SetIssueStatusKeeps ==
    ASSUME StoreInv, NEW k, NEW status \in Statuses, SetIssueStatus(k, status)
    PROVE  StoreInv'
<1>1. /\ k \in DOMAIN issues /\ issues' = [issues EXCEPT ![k].status = status]
      /\ events' = events /\ sequence' = sequence /\ seen' = seen
  BY DEF SetIssueStatus
<1>2. DOMAIN issues' = DOMAIN issues
  BY <1>1
<1>3. ASSUME NEW x \in DOMAIN seen
      PROVE  Counts(issues'[x], seen[x])
  <2>1. x \in DOMAIN issues /\ Counts(issues[x], seen[x])
    BY DEF StoreInv
  <2>2. CASE x # k
    BY <1>1, <2>1, <2>2
  <2>3. CASE x = k
    <3>1. issues'[x] = [issues[x] EXCEPT !.status = status]
      BY <1>1, <2>3
    <3>2. issues[x] \in Issue
      BY <2>1 DEF Counts
    <3>3. /\ issues'[x] \in Issue
          /\ issues'[x].occurrences = issues[x].occurrences
          /\ issues'[x].first = issues[x].first /\ issues'[x].last = issues[x].last
          /\ issues'[x].lastEvent = issues[x].lastEvent
      BY <3>1, <3>2 DEF Issue
    <3> QED
      BY <2>1, <3>3 DEF Counts
  <2> QED
    BY <2>2, <2>3
<1> QED
  BY <1>1, <1>2, <1>3 DEF StoreInv

\* The store of a process that has just started.
LEMMA EmptyStoreInv ==
    ASSUME EmptyStore
    PROVE  StoreInv
  BY DEF EmptyStore, StoreInv
-----------------------------------------------------------------------------
(***************************************************************************)
(* What the store reports, and the ledger it implements.                   *)
(***************************************************************************)

\* The invariant says of every issue what StoreIsItsRecords says.
LEMMA StoreInvSuffices ==
    ASSUME StoreInv
    PROVE  StoreIsItsRecords
<1> SUFFICES ASSUME NEW k \in DOMAIN seen
             PROVE  LET times == {o.at : o \in seen[k]} IN
                    /\ issues[k].occurrences = Cardinality(seen[k])
                    /\ issues[k].first = Min(times) /\ issues[k].last = Max(times)
                    /\ issues[k].lastEvent = NewestOf(seen[k])[1]
                    /\ events[k] = NewestOf(seen[k])
  BY DEF StoreInv, StoreIsItsRecords
<1> DEFINE S == seen[k]
           x == issues[k]
           times == {o.at : o \in S}
<1>1. Distinct(S) /\ S # {} /\ Counts(x, S) /\ events[k] = NewestOf(S)
  BY DEF StoreInv, Sightings
<1> HIDE DEF S, x
<1>2. /\ x \in Issue /\ x.occurrences = Cardinality(S)
      /\ x.lastEvent \in S /\ x.last = x.lastEvent.at
      /\ \A o \in S : o = x.lastEvent \/ Newer(x.lastEvent, o)
      /\ \E o \in S : o.at = x.first
      /\ \A o \in S : x.first <= o.at
  BY <1>1 DEF Counts
<1>3. \A o \in S : o.at \in Nat /\ o.id \in Nat
  BY <1>1 DEF Distinct, Occ
<1>4. x.first \in Nat /\ x.last \in Nat
  BY <1>2 DEF Issue
<1>5. \A o \in S : o.at <= x.last
  BY <1>2, <1>3 DEF Newer
<1>6. /\ x.first \in times /\ x.last \in times
      /\ \A t \in times : t \in Nat /\ x.first <= t /\ t <= x.last
  BY <1>2, <1>3, <1>5
<1> HIDE DEF times
<1>7. x.first = Min(times)
  <2>1. Min(times) \in times /\ \A t \in times : Min(times) <= t
    BY <1>6 DEF Min
  <2> QED
    BY <1>4, <1>6, <2>1
<1>8. x.last = Max(times)
  <2>1. Max(times) \in times /\ \A t \in times : Max(times) >= t
    BY <1>6 DEF Max
  <2> QED
    BY <1>4, <1>6, <2>1
<1>9. x.lastEvent = NewestOf(S)[1]
  <2>1. \A o \in S : ~Newer(o, x.lastEvent)
    BY <1>2, <1>3 DEF Newer
  <2>2. {o \in S : Newer(o, x.lastEvent)} = {}
    BY <2>1
  <2>3. Rank(x.lastEvent, S) = 0
    BY <2>2, FS_EmptySet DEF Rank
  <2>4. Listed(NewestOf(S), S, KeptOf(S)) /\ KeptOf(S) \in Nat
    BY <1>1, NewestOfListed
  <2>5. Cardinality(S) \in Nat \ {0}
    BY <1>1, <1>2, RankBounds
  <2>6. 1 \in 1..KeptOf(S)
    BY <2>4, <2>5, MemoryAssumption DEF KeptOf
  <2>7. NewestOf(S)[1] \in S /\ Rank(NewestOf(S)[1], S) = 1 - 1
    BY <2>4, <2>6 DEF Listed
  <2>8. Rank(NewestOf(S)[1], S) = Rank(x.lastEvent, S)
    BY <2>3, <2>7
  <2> QED
    BY <1>1, <1>2, <2>7, <2>8, RankInjective
<1> QED
  BY <1>1, <1>2, <1>7, <1>8, <1>9 DEF S, x, times

\* A row of the ledger is an issue's status and what was seen of it.
LEMMA LedgerRows ==
    ASSUME StoreInv
    PROVE  /\ DOMAIN LedgerView = DOMAIN seen
           /\ \A k \in DOMAIN seen :
                 /\ LedgerView[k] = [status |-> issues[k].status, seen |-> seen[k]]
                 /\ LedgerView[k].status = issues[k].status
                 /\ LedgerView[k].seen = seen[k]
                 /\ issues[k].status \in Statuses
                 /\ seen[k] \subseteq Occ /\ \A o \in seen[k] : o.id <= sequence
  BY DEF StoreInv, LedgerView, Counts, Issue, Sightings, Distinct

\* Triage is a step of the ledger.
LEMMA LedgerSetStatus ==
    ASSUME StoreInv, NEW k, NEW status \in Statuses, SetIssueStatus(k, status),
           calls' = calls
    PROVE  Ledger!Next
<1>1. /\ k \in DOMAIN issues /\ issues' = [issues EXCEPT ![k].status = status]
      /\ seen' = seen
  BY DEF SetIssueStatus
<1>2. DOMAIN issues = DOMAIN seen /\ DOMAIN issues' = DOMAIN seen
  BY <1>1 DEF StoreInv
<1>3. LedgerView' = [LedgerView EXCEPT ![k].status = status]
  <2>1. LedgerView' = [x \in DOMAIN seen |-> [status |-> issues'[x].status, seen |-> seen[x]]]
    BY <1>1, <1>2 DEF LedgerView
  <2>2. LedgerView = [x \in DOMAIN seen |-> [status |-> issues[x].status, seen |-> seen[x]]]
    BY <1>2 DEF LedgerView
  <2>3. ASSUME NEW x \in DOMAIN seen
        PROVE  [status |-> issues'[x].status, seen |-> seen[x]]
                  = [LedgerView EXCEPT ![k].status = status][x]
    <3>1. CASE x # k
      BY <1>1, <2>2, <3>1
    <3>2. CASE x = k
      <4>1. issues[k] \in Issue /\ issues'[k] = [issues[k] EXCEPT !.status = status]
        BY <1>1, <1>2 DEF StoreInv, Counts
      <4>2. issues'[k].status = status
        BY <4>1 DEF Issue
      <4>3. LedgerView[k] = [status |-> issues[k].status, seen |-> seen[k]]
        BY <2>2, <3>2
      <4>4. [LedgerView EXCEPT ![k].status = status][k]
               = [LedgerView[k] EXCEPT !.status = status]
        BY <2>2, <3>2
      <4>5. [LedgerView[k] EXCEPT !.status = status] = [status |-> status, seen |-> seen[k]]
        BY <4>3
      <4> QED
        BY <3>2, <4>2, <4>4, <4>5
    <3> QED
      BY <3>1, <3>2
  <2> QED
    BY <2>1, <2>2, <2>3
<1>4. \E o \in seen[k] : Fingerprint[o.shape] = k /\ o.shape \in DOMAIN Fingerprint
  BY <1>1, <1>2 DEF StoreInv, Sightings, Distinct, Occ
<1>5. k \in Ledger!Key /\ status \in Ledger!Status
  BY <1>4 DEF Ledger!Key, Ledger!Status, Statuses
<1>6. Ledger!SetStatus(k, status)
  <2>1. AskedView' = AskedView
    BY DEF AskedView, Asking
  <2>2. k \in DOMAIN LedgerView
    BY <1>1, <1>2, LedgerRows
  <2> QED
    BY <1>3, <2>1, <2>2 DEF Ledger!SetStatus
<1> QED
  BY <1>5, <1>6 DEF Ledger!Next
\* The occurrences a batch becomes.
Entering(shapes, at) == {Occurrence(shapes, at, i) : i \in 1..Len(shapes)}

\* A batch of at least one event changes the ledger as its step Record does, and
\* what it adds is that batch.
LEMMA LedgerRecord ==
    ASSUME StoreInv, NEW shapes \in Seq(DOMAIN Fingerprint), shapes # <<>>, NEW at \in Nat,
           RecordBatch(shapes, at)
    PROVE  /\ Ledger!Gather /\ Ledger!Fresh = Entering(shapes, at)
           /\ \A o \in Ledger!Seen(DOMAIN LedgerView) : o.id \in Nat /\ o.id <= sequence
<1> DEFINE n == Len(shapes)
           M == Mentioned(shapes, n)
           L == LedgerView
           P(k) == Past(shapes, at, n, k)
<1>1. n \in Nat \ {0} /\ n \in 0..Len(shapes) /\ sequence \in Nat
  BY DEF StoreInv
<1>2. /\ DOMAIN seen' = DOMAIN seen \cup M
      /\ \A k \in DOMAIN seen' :
            /\ seen'[k] = Get(seen, k, {}) \cup P(k)
            /\ k \in M => issues'[k].status = Recurring(k)
            /\ k \notin M => issues'[k] = issues[k]
  BY RecordBatchKeeps DEF BatchRecorded
<1>3. /\ DOMAIN L = DOMAIN seen
      /\ \A k \in DOMAIN seen : /\ L[k] = [status |-> issues[k].status, seen |-> seen[k]]
                                /\ L[k].status = issues[k].status /\ L[k].seen = seen[k]
                                /\ issues[k].status \in Statuses
                                /\ seen[k] \subseteq Occ /\ \A o \in seen[k] : o.id <= sequence
  BY LedgerRows
<1>4. /\ DOMAIN L' = DOMAIN seen'
      /\ \A k \in DOMAIN seen' : /\ L'[k] = [status |-> issues'[k].status, seen |-> seen'[k]]
                                 /\ L'[k].status = issues'[k].status /\ L'[k].seen = seen'[k]
  <2>1. StoreInv'
    BY RecordBatchKeeps
  <2> QED
    BY <2>1 DEF LedgerView, StoreInv
<1>5. \A k : /\ P(k) \subseteq Occ
             /\ \A o \in P(k) : sequence < o.id /\ Fingerprint[o.shape] = k
             /\ k \notin M => P(k) = {}
             /\ k \in M => P(k) # {}
  BY <1>1, PastProperties
<1>6. \A k \in DOMAIN seen : P(k) \cap seen[k] = {}
  BY <1>1, <1>3, <1>5 DEF Occ
<1>7. M # {} /\ M \subseteq {Fingerprint[s] : s \in DOMAIN Fingerprint}
  <2>1. 1 \in 1..n /\ \A j \in 1..n : shapes[j] \in DOMAIN Fingerprint
    BY <1>1
  <2> QED
    BY <2>1 DEF Mentioned
<1> HIDE DEF M, L, P, n
<1>8. Ledger!Vanished = {}
  BY <1>2, <1>3, <1>4 DEF Ledger!Vanished, L
<1>9. Ledger!Grown = M
  <2>1. ASSUME NEW k \in M
        PROVE  k \in DOMAIN L' /\ (k \in DOMAIN L => L'[k].seen # L[k].seen)
    <3>1. k \in DOMAIN seen' /\ seen'[k] = Get(seen, k, {}) \cup P(k)
      BY <1>2
    <3>2. k \in DOMAIN seen => seen'[k] # seen[k]
      BY <1>5, <1>6, <3>1 DEF Get
    <3> QED
      BY <1>3, <1>4, <3>1, <3>2
  <2>2. ASSUME NEW k \in DOMAIN L', k \notin M
        PROVE  k \in DOMAIN L /\ L'[k].seen = L[k].seen
    <3>1. k \in DOMAIN seen /\ seen'[k] = seen[k] \cup P(k) /\ P(k) = {}
      BY <1>2, <1>4, <1>5, <2>2 DEF Get
    <3> QED
      BY <1>2, <1>3, <1>4, <3>1
  <2> QED
    BY <2>1, <2>2 DEF Ledger!Grown, L
<1> DEFINE into == [x \in {} |-> x]
<1>10. into \in [Ledger!Vanished -> Ledger!Grown]
  BY <1>8
<1>11. ASSUME NEW g \in Ledger!Grown
       PROVE  LET absorbed == {k \in Ledger!Vanished : into[k] = g}
                  parts == absorbed \cup ({g} \cap DOMAIN LedgerView)
                  gained == LedgerView'[g].seen \ Ledger!Seen(parts)
              IN  /\ \A k \in absorbed : \E o \in Ledger!Latest(LedgerView[k].seen) :
                        Fingerprint[o.shape] = g
                  /\ Ledger!Seen(parts) \subseteq LedgerView'[g].seen
                  /\ gained # {}
                  /\ \A o \in gained : /\ Ledger!IsOccurrence(o)
                                      /\ Fingerprint[o.shape] = g
                                      /\ o \notin Ledger!Seen(DOMAIN LedgerView)
                  /\ LedgerView'[g].status =
                        Ledger!StatusAfterRecurrence({LedgerView[k].status : k \in parts})
  <2> DEFINE absorbed == {k \in Ledger!Vanished : into[k] = g}
             parts == absorbed \cup ({g} \cap DOMAIN LedgerView)
             gained == LedgerView'[g].seen \ Ledger!Seen(parts)
  <2>1. g \in M /\ g \in DOMAIN seen'
    BY <1>2, <1>9
  <2>2. absorbed = {} /\ parts = {g} \cap DOMAIN seen
    BY <1>3, <1>8 DEF L
  <2>3. /\ LedgerView'[g].seen = Get(seen, g, {}) \cup P(g)
        /\ LedgerView'[g].status = Recurring(g)
    BY <1>2, <1>4, <2>1 DEF L
  <2> HIDE DEF absorbed, parts
  <2>4. Ledger!Seen(parts) = Get(seen, g, {})
    <3>1. CASE g \in DOMAIN seen
      <4>1. parts = {g} /\ LedgerView[g].seen = seen[g] /\ Get(seen, g, {}) = seen[g]
        BY <1>3, <2>2, <3>1 DEF L, Get
      <4> QED
        BY <4>1 DEF Ledger!Seen
    <3>2. CASE g \notin DOMAIN seen
      <4>1. parts = {} /\ Get(seen, g, {}) = {}
        BY <2>2, <3>2 DEF Get
      <4> QED
        BY <4>1 DEF Ledger!Seen
    <3> QED
      BY <3>1, <3>2
  <2>5. gained = P(g)
    <3>1. P(g) \cap Get(seen, g, {}) = {}
      BY <1>6 DEF Get
    <3> QED
      BY <2>3, <2>4, <3>1
  <2> HIDE DEF gained
  <2>6. gained # {}
    BY <1>5, <2>1, <2>5
  <2>7. ASSUME NEW o \in gained
        PROVE  /\ Ledger!IsOccurrence(o) /\ Fingerprint[o.shape] = g
               /\ o \notin Ledger!Seen(DOMAIN LedgerView)
    <3>1. o \in Occ /\ sequence < o.id /\ Fingerprint[o.shape] = g
      BY <1>5, <2>5
    <3>2. Ledger!IsOccurrence(o)
      BY <3>1 DEF Occ, Ledger!IsOccurrence
    <3>3. ASSUME NEW k \in DOMAIN LedgerView
          PROVE  o \notin LedgerView[k].seen
      <4>1. k \in DOMAIN seen /\ LedgerView[k].seen = seen[k]
        BY <1>3, <3>3 DEF L
      <4>2. \A p \in seen[k] : p.id <= sequence /\ p.id \in Nat
        BY <1>3, <4>1 DEF Occ
      <4>3. o.id \in Nat
        BY <3>1 DEF Occ
      <4> QED
        BY <1>1, <3>1, <4>1, <4>2, <4>3
    <3>4. o \notin Ledger!Seen(DOMAIN LedgerView)
      BY <3>3 DEF Ledger!Seen
    <3> QED
      BY <3>1, <3>2, <3>4
  <2>8. LedgerView'[g].status =
           Ledger!StatusAfterRecurrence({LedgerView[k].status : k \in parts})
    <3>1. CASE g \in DOMAIN seen
      <4>1. /\ parts = {g} /\ LedgerView[g].status = issues[g].status
            /\ g \in DOMAIN issues /\ issues[g].status \in Statuses
        BY <1>3, <2>2, <3>1 DEF L, StoreInv
      <4>2. {LedgerView[k].status : k \in parts} = {issues[g].status}
        BY <4>1
      <4> QED
        BY <2>3, <4>1, <4>2 DEF Recurring, Reopened, Statuses, Ledger!StatusAfterRecurrence
    <3>2. CASE g \notin DOMAIN seen
      <4>1. parts = {} /\ g \notin DOMAIN issues
        BY <2>2, <3>2 DEF StoreInv
      <4>2. {LedgerView[k].status : k \in parts} = {}
        BY <4>1
      <4> QED
        BY <2>3, <4>1, <4>2 DEF Recurring, Ledger!StatusAfterRecurrence
    <3> QED
      BY <3>1, <3>2
  <2> QED
    BY <2>2, <2>3, <2>4, <2>6, <2>7, <2>8 DEF absorbed, parts, gained
<1>12. \A k \in DOMAIN LedgerView' \ Ledger!Grown : LedgerView'[k] = LedgerView[k]
  <2> SUFFICES ASSUME NEW k \in DOMAIN LedgerView', k \notin Ledger!Grown
               PROVE  LedgerView'[k] = LedgerView[k]
    OBVIOUS
  <2>1. k \in DOMAIN seen' /\ k \notin M
    BY <1>4, <1>9 DEF L
  <2>2. k \in DOMAIN seen /\ seen'[k] = seen[k] /\ issues'[k] = issues[k]
    <3>1. k \in DOMAIN seen /\ P(k) = {}
      BY <1>2, <1>5, <2>1
    <3> QED
      BY <1>2, <2>1, <3>1 DEF Get
  <2> QED
    BY <1>3, <1>4, <2>1, <2>2 DEF L
<1>13. Ledger!Grown # {} /\ Ledger!Grown \subseteq {Fingerprint[s] : s \in DOMAIN Fingerprint}
       /\ Ledger!Vanished \subseteq {}
  BY <1>7, <1>8, <1>9
<1> HIDE DEF into
<1>14. Ledger!Gather
  BY <1>10, <1>11, <1>12, <1>13 DEF Ledger!Gather
<1>15. \A o : o \in Ledger!Seen(DOMAIN LedgerView) <=> \E k \in DOMAIN seen : o \in seen[k]
  <2>1. \A k \in DOMAIN seen : LedgerView[k].seen = seen[k]
    BY <1>3 DEF L
  <2>2. Ledger!Seen(DOMAIN LedgerView) = UNION {LedgerView[k].seen : k \in DOMAIN seen}
    BY <1>3 DEF Ledger!Seen, L
  <2> QED
    BY <2>1, <2>2, Zenon
<1>16. \A o : o \in Ledger!Seen(DOMAIN LedgerView)' <=> \E k \in DOMAIN seen' : o \in seen'[k]
  <2>1. \A k \in DOMAIN seen' : LedgerView'[k].seen = seen'[k]
    BY <1>4 DEF L
  <2>2. Ledger!Seen(DOMAIN LedgerView)' = UNION {LedgerView'[k].seen : k \in DOMAIN seen'}
    BY <1>4 DEF Ledger!Seen, L
  <2> QED
    BY <2>1, <2>2, Zenon
<1>17. \A k : P(k) \subseteq Entering(shapes, at)
  BY DEF P, Past, Entering, n
<1>18. ASSUME NEW o \in Entering(shapes, at)
       PROVE  \E k \in M : o \in P(k)
  <2>1. PICK i \in 1..n : o = Occurrence(shapes, at, i)
    BY DEF Entering, n
  <2>2. Fingerprint[shapes[i]] \in M /\ o \in P(Fingerprint[shapes[i]])
    BY <2>1 DEF M, Mentioned, P, Past
  <2> QED
    BY <2>2
<1>19. \A k \in DOMAIN seen : \A o \in seen[k] : o.id \in Nat /\ o.id <= sequence
  BY <1>3 DEF Occ
<1>20. \A o \in Entering(shapes, at) : o.id \in Nat /\ sequence < o.id
  BY <1>5, <1>18 DEF Occ
<1>21. ASSUME NEW o \in Ledger!Fresh PROVE o \in Entering(shapes, at)
  <2>1. PICK k \in DOMAIN seen' : o \in seen'[k]
    BY <1>16 DEF Ledger!Fresh
  <2>2. o \notin Get(seen, k, {})
    BY <1>15 DEF Ledger!Fresh, Get
  <2> QED
    BY <1>2, <1>17, <2>1, <2>2
<1>22. ASSUME NEW o \in Entering(shapes, at) PROVE o \in Ledger!Fresh
  <2>1. PICK k \in M : o \in P(k)
    BY <1>18
  <2>2. k \in DOMAIN seen' /\ o \in seen'[k]
    BY <1>2, <2>1
  <2>3. \A j \in DOMAIN seen : o \notin seen[j]
    BY <1>1, <1>19, <1>20
  <2> QED
    BY <1>15, <1>16, <2>2, <2>3 DEF Ledger!Fresh
<1> QED
  BY <1>14, <1>15, <1>19, <1>21, <1>22
\* A batch of none would not be.
LEMMA LedgerIdle ==
    ASSUME StoreInv, NEW at \in Nat, RecordBatch(<<>>, at)
    PROVE  LedgerView' = LedgerView
<1>1. <<>> \in Seq(DOMAIN Fingerprint) /\ Len(<<>>) = 0
  OBVIOUS
<1>2. BatchRecorded(<<>>, at) /\ StoreInv'
  BY <1>1, RecordBatchKeeps
<1>3. Mentioned(<<>>, 0) = {} /\ \A k : Past(<<>>, at, 0, k) = {}
  BY DEF Mentioned, Past
<1>4. /\ DOMAIN seen' = DOMAIN seen
      /\ \A k \in DOMAIN seen : seen'[k] = seen[k] /\ issues'[k] = issues[k]
  BY <1>1, <1>2, <1>3 DEF BatchRecorded, Get
<1>5. DOMAIN issues = DOMAIN seen /\ DOMAIN issues' = DOMAIN seen
  BY <1>2, <1>4 DEF StoreInv
<1> QED
  BY <1>4, <1>5 DEF LedgerView

-----------------------------------------------------------------------------
(***************************************************************************)
(* PART 3.  Delivery: calls, answers and handlers.                         *)
(*                                                                         *)
(* A call is sound while nobody has lost its answer and it was not         *)
(* refused.  A sound call is the one in the transport or its events are    *)
(* delivered, and no two sound calls carry the same event (Fates, Apart).  *)
(* What the store has of an event is one occurrence for each call that     *)
(* recorded it (Tally).                                                    *)
(***************************************************************************)
Call == [batch : Seq(Nat), by : {"fetch", "beacon"},
         stage : {"sent", "prepared", "recorded", "accepted", "refused"},
         at : Nat, watched : BOOLEAN]

\* Nobody lost the answer of call i, and it was not refused.
Sound(i) == (calls[i].by = "beacon" \/ calls[i].watched) /\ calls[i].stage # "refused"

CallTypes ==
    /\ calls \in Seq(Call) /\ now \in Nat /\ offered <= MaxEvents
    /\ \A i \in DOMAIN calls :
          Rising(calls[i].batch) /\ Range(calls[i].batch) \subseteq 1..offered
InTransport == current.phase = "transport" => calls # <<>> /\ LastCall.batch = current.batch
Fates ==
    \A i \in DOMAIN calls : Sound(i) =>
        \/ i = Len(calls) /\ current.phase = "transport"
        \/ Range(calls[i].batch) \subseteq Range(delivered)
Apart ==
    \A i, j \in DOMAIN calls : i # j /\ Sound(i) /\ Sound(j) =>
        Range(calls[i].batch) \cap Range(calls[j].batch) = {}
Acknowledged ==
    \A id \in Range(delivered) : \E i \in Carrying(id) : Delivered(calls[i])
RecordedBy(id) == {i \in Carrying(id) : calls[i].stage \in {"recorded", "accepted"}}
Tally == \A id \in 1..MaxEvents :
    IsFiniteSet(Recorded(id)) /\ Cardinality(Recorded(id)) = Cardinality(RecordedBy(id))
CallInv == CallTypes /\ InTransport /\ Fates /\ Apart /\ Acknowledged
-----------------------------------------------------------------------------
ClientStep ==
    Capture \/ TimerFires \/ StartJob \/ StartBatch \/ BackoffEnds \/ FinishJob

\* Only a flush that starts at once has a new batch, and only if none is active.
LEMMA FlushStarts ==
    ASSUME NEW q, NEW gone, NEW active, FlushQueue(q, gone, active)
    PROVE  current' = current \/ active = <<>>
  BY DEF FlushQueue

\* So has a scheduled one, when its setTimeout throws.
LEMMA ScheduleStarts ==
    ASSUME NEW q, NEW gone, NEW active, ScheduleFlush(q, gone, active)
    PROVE  current' = current \/ active = <<>>
  BY FlushStarts DEF ScheduleFlush

\* The client's own steps leave the batch in the transport alone.
LEMMA ClientCurrent ==
    ASSUME IInv, ClientStep
    PROVE  /\ IInv'
           /\ delivered' = delivered
           /\ current' = current \/ current.phase # "transport"
           /\ offered' = offered \/ (offered < MaxEvents /\ offered' = offered + 1)
<1>1. IInv'
  <2>1. Next
    BY DEF ClientStep, Next, Host, Reaction
  <2> QED
    BY <2>1, NextKeepsInv
<1>2. jobs = <<>> => current.phase # "transport"
  BY DEF IInv, Whole, Turns, Batch
<1>3. CASE Capture
  <2>1. Accept /\ delivered' = delivered
    BY <1>3 DEF Capture
  <2>2. offered' = offered + 1 /\ offered < MaxEvents
    BY <2>1 DEF Accept
  <2>3. current' = current \/ jobs = <<>>
    BY <2>1, FlushStarts, ScheduleStarts DEF Accept, Enqueue, DropOversized
  <2> QED
    BY <1>1, <1>2, <2>1, <2>2, <2>3
<1>4. CASE TimerFires
  BY <1>1, <1>2, <1>4, FlushStarts DEF TimerFires
<1>5. CASE StartJob
  BY <1>1, <1>5 DEF StartJob, delivery
<1>6. CASE StartBatch
  BY <1>1, <1>6 DEF StartBatch, NoBatch
<1>7. CASE BackoffEnds
  BY <1>1, <1>7 DEF BackoffEnds
<1>8. CASE FinishJob
  BY <1>1, <1>8 DEF FinishJob, NoBatch
<1> QED
  BY <1>3, <1>4, <1>5, <1>6, <1>7, <1>8 DEF ClientStep
\* A batch on its way: its events are no others' and not delivered yet.
OnTheWay ==
    /\ current.batch \in Seq(Nat) /\ Rising(current.batch)
    /\ Range(current.batch) \subseteq 1..offered
    /\ Range(current.batch) \cap Range(delivered) = {}
    /\ Range(delivered) \subseteq 1..offered
    /\ Range(delivered) \cap lost = {} /\ Range(current.batch) \cap lost = {}
    /\ offered \in Nat

\* The client's invariant says so of its current batch.
LEMMA CurrentBatch == IInv => OnTheWay
<1> SUFFICES ASSUME IInv PROVE OnTheWay
  OBVIOUS
<1>1. /\ current.batch \in Seq(Nat) /\ Rising(current.batch) /\ offered \in Nat
      /\ Below(Range(delivered), Range(current.batch))
  BY DEF IInv, Whole, Types, Order
<1>2. /\ Kept(queue, jobs, current.batch) \subseteq 1..offered
      /\ Kept(queue, jobs, current.batch) \cap lost = {}
  BY DEF IInv, Whole, Places
<1>3. /\ Range(current.batch) \subseteq Kept(queue, jobs, current.batch)
      /\ Range(delivered) \subseteq Kept(queue, jobs, current.batch)
  BY DEF Kept
<1>4. \A x \in 1..offered : ~(x < x)
  BY <1>1
<1>5. Range(current.batch) \cap Range(delivered) = {}
  BY <1>1, <1>2, <1>3, <1>4 DEF Below
<1> QED
  BY <1>1, <1>2, <1>3, <1>5 DEF OnTheWay

\* The client goes on and posts nothing.
LEMMA QuietStepKeeps ==
    ASSUME IInv, CallInv, ClientStep, UNCHANGED <<calls, now>>,
           current' = current \/ current'.phase # "transport"
    PROVE  CallInv'
<1>1. /\ IInv' /\ delivered' = delivered
      /\ current' = current \/ current.phase # "transport"
      /\ offered' = offered \/ (offered < MaxEvents /\ offered' = offered + 1)
  BY ClientCurrent
<1>2. offered \in Nat /\ MaxEvents \in Nat
  BY CurrentBatch, ConstantsAssumption DEF OnTheWay
<1>3. calls' = calls /\ now' = now
  OBVIOUS
<1>4. 1..offered \subseteq 1..offered' /\ offered' <= MaxEvents
  BY <1>1, <1>2 DEF CallInv, CallTypes
<1>5. CallTypes'
  BY <1>3, <1>4 DEF CallInv, CallTypes
<1>6. InTransport' /\ Fates'
  BY <1>1, <1>3 DEF CallInv, InTransport, Fates, LastCall, Sound
<1>7. Apart' /\ Acknowledged'
  BY <1>1, <1>3 DEF CallInv, Apart, Acknowledged, Sound, Carrying, Delivered
<1> QED
  BY <1>5, <1>6, <1>7 DEF CallInv

\* One more call.
LEMMA AppendedCall ==
    ASSUME calls \in Seq(Call), NEW c \in Call, calls' = Append(calls, c)
    PROVE  /\ calls' \in Seq(Call) /\ Len(calls') = Len(calls) + 1 /\ Len(calls) \in Nat
           /\ DOMAIN calls = 1..Len(calls) /\ DOMAIN calls' = DOMAIN calls \cup {Len(calls) + 1}
           /\ Len(calls) + 1 \notin DOMAIN calls
           /\ \A i \in DOMAIN calls : calls'[i] = calls[i]
           /\ calls'[Len(calls) + 1] = c
  OBVIOUS

\* The client posts the batch that enters the transport.
LEMMA PostKeeps ==
    ASSUME IInv, CallInv, ClientStep, now' = now, NEW by \in Transports,
           current' # current, current'.phase = "transport",
           calls' = Append(calls, Request(current'.batch, by))
    PROVE  CallInv'
<1> DEFINE c == Request(current'.batch, by)
           n == Len(calls) + 1
<1>1. /\ IInv' /\ delivered' = delivered /\ current.phase # "transport"
      /\ offered' = offered \/ (offered < MaxEvents /\ offered' = offered + 1)
  BY ClientCurrent
<1>2. offered \in Nat /\ MaxEvents \in Nat
  BY CurrentBatch, ConstantsAssumption DEF OnTheWay
<1>3. /\ current'.batch \in Seq(Nat) /\ Rising(current'.batch)
      /\ Range(current'.batch) \subseteq 1..offered'
      /\ Range(current'.batch) \cap Range(delivered') = {}
  <2>1. IInv'
    BY <1>1
  <2>2. OnTheWay'
    BY <2>1, CurrentBatch, PTL
  <2> QED
    BY <2>2 DEF OnTheWay
<1>4. 1..offered \subseteq 1..offered' /\ offered' <= MaxEvents
  BY <1>1, <1>2 DEF CallInv, CallTypes
<1>5. c \in Call /\ c.batch = current'.batch /\ c.stage = "sent"
      /\ (c.by = "beacon" \/ c.watched)
  <2>1. by \in {"fetch", "beacon"}
    BY DeliveryAssumption
  <2> QED
    BY <1>3, <2>1 DEF Request, Call
<1> HIDE DEF c, n
<1>6. /\ calls' \in Seq(Call) /\ Len(calls') = n /\ DOMAIN calls' = DOMAIN calls \cup {n}
      /\ n \notin DOMAIN calls
      /\ \A i \in DOMAIN calls : calls'[i] = calls[i]
      /\ calls'[n] = c
  BY <1>5, AppendedCall DEF CallInv, CallTypes, c, n
<1>7. CallTypes'
  BY <1>3, <1>4, <1>5, <1>6 DEF CallInv, CallTypes
<1>8. InTransport'
  BY <1>5, <1>6 DEF InTransport, LastCall
\* Nothing else is in the transport, so every other sound call has delivered.
<1>9. \A i \in DOMAIN calls : Sound(i)' = Sound(i)
  BY <1>6 DEF Sound
<1>10. ASSUME NEW i \in DOMAIN calls, Sound(i)
       PROVE  Range(calls[i].batch) \subseteq Range(delivered)
  BY <1>1, <1>10 DEF CallInv, Fates
<1>11. Fates'
  BY <1>1, <1>6, <1>9, <1>10 DEF Fates
<1>12. \A i \in DOMAIN calls : Sound(i) =>
          Range(calls[i].batch) \cap Range(c.batch) = {}
  BY <1>1, <1>3, <1>5, <1>10
<1>13. Apart'
  <2> SUFFICES ASSUME NEW i \in DOMAIN calls', NEW j \in DOMAIN calls', i # j,
                      Sound(i)', Sound(j)'
               PROVE  Range(calls'[i].batch) \cap Range(calls'[j].batch) = {}
    BY DEF Apart
  <2>1. CASE i \in DOMAIN calls /\ j \in DOMAIN calls
    BY <1>6, <1>9, <2>1 DEF CallInv, Apart
  <2>2. CASE i \in DOMAIN calls /\ j = n
    BY <1>6, <1>9, <1>12, <2>2
  <2>3. CASE i = n /\ j \in DOMAIN calls
    BY <1>6, <1>9, <1>12, <2>3
  <2> QED
    BY <1>6, <2>1, <2>2, <2>3
<1>14. Acknowledged'
  <2> SUFFICES ASSUME NEW id \in Range(delivered)
               PROVE  \E i \in DOMAIN calls' : id \in Range(calls'[i].batch)
                                               /\ Delivered(calls'[i])
    BY <1>1 DEF Acknowledged, Carrying
  <2>1. PICK i \in DOMAIN calls : id \in Range(calls[i].batch) /\ Delivered(calls[i])
    BY DEF CallInv, Acknowledged, Carrying
  <2> QED
    BY <1>6, <2>1
<1> QED
  BY <1>7, <1>8, <1>11, <1>13, <1>14 DEF CallInv
-----------------------------------------------------------------------------
(* The client learns, rightly or not, what became of its last call.        *)

\* Any answer is a step of the client.
LEMMA AnswerKeepsIInv ==
    ASSUME IInv, AcceptBatch \/ RetryBatch \/ DropBatch
    PROVE  IInv'
<1>1. Next
  BY DEF Next, Reaction
<1> QED
  BY <1>1, NextKeepsInv

\* Accepted: the batch is delivered, and the call that says so is its own.
LEMMA AcceptsKeeps ==
    ASSUME IInv, CallInv, TransportAccepts
    PROVE  IInv' /\ CallInv'
<1>1. /\ current.phase = "transport" /\ Delivered(LastCall)
      /\ delivered' = delivered \o current.batch /\ current' = NoBatch
      /\ offered' = offered /\ calls' = calls /\ now' = now
  BY DEF TransportAccepts, AcceptBatch, collector
<1>2. IInv'
  BY AnswerKeepsIInv DEF TransportAccepts
<1>3. Range(delivered') = Range(delivered) \cup Range(current.batch)
  <2>1. delivered \in Seq(Nat) /\ current.batch \in Seq(Nat)
    BY DEF IInv, Whole, Types
  <2> QED
    BY <1>1, <2>1, RangeConcatenation
<1>4. /\ calls # <<>> /\ calls \in Seq(Call) /\ calls[Len(calls)].batch = current.batch
      /\ Delivered(calls[Len(calls)]) /\ Len(calls) \in DOMAIN calls
  BY <1>1 DEF CallInv, CallTypes, InTransport, LastCall
<1>5. CallTypes' /\ InTransport'
  BY <1>1 DEF CallInv, CallTypes, InTransport, NoBatch
<1>6. Fates'
  BY <1>1, <1>3, <1>4 DEF CallInv, Fates, Sound
<1>7. Apart'
  BY <1>1 DEF CallInv, Apart, Sound
<1>8. Acknowledged'
  <2> SUFFICES ASSUME NEW id \in Range(delivered')
               PROVE  \E i \in DOMAIN calls : id \in Range(calls[i].batch)
                                              /\ Delivered(calls[i])
    BY <1>1 DEF Acknowledged, Carrying
  <2>1. CASE id \in Range(delivered)
    BY <2>1 DEF CallInv, Acknowledged, Carrying
  <2>2. CASE id \in Range(current.batch)
    BY <1>4, <2>2
  <2> QED
    BY <1>3, <2>1, <2>2
<1> QED
  BY <1>2, <1>5, <1>6, <1>7, <1>8 DEF CallInv

\* What RetryBatch and DropBatch have in common.
LEMMA Unaccepted ==
    ASSUME RetryBatch \/ DropBatch
    PROVE  /\ delivered' = delivered /\ offered' = offered
           /\ current'.phase # "transport"
<1>1. CASE RetryBatch
  <2>1. current' = [current EXCEPT !.phase = "backoff"] /\ current.phase = "transport"
        /\ delivered' = delivered /\ offered' = offered
    BY <1>1 DEF RetryBatch
  <2>2. current'.phase = "backoff" \/ current' = current
    BY <2>1
  <2> QED
    BY <2>1, <2>2
<1>2. CASE DropBatch
  BY <1>2 DEF DropBatch, NoBatch
<1> QED
  BY <1>1, <1>2

\* Refused: nobody may count on that call any more.
LEMMA RefusesKeeps ==
    ASSUME IInv, CallInv, TransportRefuses
    PROVE  IInv' /\ CallInv'
<1>1. /\ LastCall.stage = "refused"
      /\ RetryBatch \/ DropBatch
      /\ calls' = calls /\ now' = now
  BY DEF TransportRefuses, collector
<1>2. /\ delivered' = delivered /\ offered' = offered /\ current'.phase # "transport"
  BY <1>1, Unaccepted DEF TransportRefuses
<1>3. IInv'
  BY AnswerKeepsIInv DEF TransportRefuses
<1>4. CallTypes' /\ InTransport' /\ Apart'
  BY <1>1, <1>2 DEF CallInv, CallTypes, InTransport, Apart, Sound
<1>5. Fates'
  <2> SUFFICES ASSUME NEW i \in DOMAIN calls, Sound(i)
               PROVE  Range(calls[i].batch) \subseteq Range(delivered)
    BY <1>1, <1>2 DEF Fates, Sound
  <2>1. i # Len(calls)
    BY <1>1 DEF Sound, LastCall
  <2> QED
    BY <2>1 DEF CallInv, Fates
<1>6. Acknowledged'
  BY <1>1, <1>2 DEF CallInv, Acknowledged, Carrying, Delivered
<1> QED
  BY <1>3, <1>4, <1>5, <1>6 DEF CallInv

\* Rejected: the call may be handled yet, but its answer is lost.
LEMMA RejectsKeeps ==
    ASSUME IInv, CallInv, FetchRejects
    PROVE  IInv' /\ CallInv'
<1> DEFINE n == Len(calls)
<1>1. /\ current.phase = "transport" /\ LastCall.by = "fetch" /\ now' = now
      /\ calls' = [calls EXCEPT ![n].watched = FALSE]
  BY DEF FetchRejects
<1>2. /\ delivered' = delivered /\ offered' = offered /\ current'.phase # "transport"
  BY Unaccepted DEF FetchRejects
<1>3. IInv'
  BY AnswerKeepsIInv DEF FetchRejects
<1>4. /\ calls \in Seq(Call) /\ n \in DOMAIN calls /\ calls[n].by = "fetch"
      /\ DOMAIN calls = 1..n /\ n \in Nat
  BY <1>1 DEF CallInv, CallTypes, InTransport, LastCall
<1>5. /\ calls' \in Seq(Call) /\ Len(calls') = n /\ DOMAIN calls' = DOMAIN calls
      /\ \A i \in DOMAIN calls : i # n => calls'[i] = calls[i]
      /\ calls'[n].watched = FALSE /\ calls'[n].by = "fetch"
      /\ calls'[n].batch = calls[n].batch /\ calls'[n].stage = calls[n].stage
  <2>1. calls[n] \in Call
    BY <1>4
  <2>2. calls'[n] = [calls[n] EXCEPT !.watched = FALSE]
    BY <1>1, <1>4
  <2>3. /\ calls'[n] \in Call
        /\ calls'[n].watched = FALSE /\ calls'[n].by = calls[n].by
        /\ calls'[n].batch = calls[n].batch /\ calls'[n].stage = calls[n].stage
    BY <2>1, <2>2 DEF Call
  <2>4. /\ DOMAIN calls' = DOMAIN calls
        /\ \A i \in DOMAIN calls : i # n => calls'[i] = calls[i]
    BY <1>1
  <2>5. \A i \in 1..n : calls'[i] \in Call
    BY <1>4, <2>3, <2>4
  <2>6. calls' = [i \in 1..n |-> calls'[i]]
    BY <1>1, <1>4
  <2>7. calls' \in Seq(Call) /\ Len(calls') = n
    BY <1>4, <2>5, <2>6
  <2> QED
    BY <1>4, <2>3, <2>4, <2>7
<1> HIDE DEF n
<1>6. CallTypes' /\ InTransport'
  BY <1>1, <1>2, <1>4, <1>5 DEF CallInv, CallTypes, InTransport
<1>7. \A i \in DOMAIN calls : Sound(i)' => i # n /\ Sound(i)
  BY <1>5 DEF Sound
<1>8. Fates'
  BY <1>2, <1>5, <1>7 DEF CallInv, Fates, n
<1>9. Apart'
  BY <1>5, <1>7 DEF CallInv, Apart
<1>10. Acknowledged'
  <2> SUFFICES ASSUME NEW id \in Range(delivered)
               PROVE  \E i \in DOMAIN calls' : id \in Range(calls'[i].batch)
                                               /\ Delivered(calls'[i])
    BY <1>2 DEF Acknowledged, Carrying
  <2>1. PICK i \in DOMAIN calls : id \in Range(calls[i].batch) /\ Delivered(calls[i])
    BY DEF CallInv, Acknowledged, Carrying
  <2>2. calls'[i].batch = calls[i].batch /\ Delivered(calls'[i])
    BY <1>4, <1>5, <2>1 DEF Delivered
  <2> QED
    BY <1>5, <2>1, <2>2
<1> QED
  BY <1>3, <1>6, <1>8, <1>9, <1>10 DEF CallInv
-----------------------------------------------------------------------------
(***************************************************************************)
(* The collector's handlers.  Each moves one call to its next stage.       *)
(***************************************************************************)

\* Call i went on to stage st; what it is about did not change.
Moved(i, st) ==
    /\ calls' \in Seq(Call) /\ Len(calls') = Len(calls) /\ DOMAIN calls' = DOMAIN calls
    /\ \A j \in DOMAIN calls : /\ calls'[j].batch = calls[j].batch
                               /\ calls'[j].by = calls[j].by
                               /\ calls'[j].watched = calls[j].watched
                               /\ j # i => calls'[j] = calls[j]
    /\ calls'[i].stage = st

\* A handler writes the stage of its call and, if at all, the stamp.
LEMMA HandlerMoves ==
    ASSUME calls \in Seq(Call), NEW i \in DOMAIN calls, NEW at \in Nat,
           NEW st \in {"prepared", "recorded", "accepted", "refused"},
           \/ calls' = At(i, st)
           \/ calls' = [At(i, st) EXCEPT ![i].at = at]
    PROVE  Moved(i, st)
<1> DEFINE n == Len(calls)
           c == calls[i]
<1>1. n \in Nat /\ DOMAIN calls = 1..n /\ c \in Call /\ \A j \in 1..n : calls[j] \in Call
  OBVIOUS
<1>2. /\ DOMAIN At(i, st) = DOMAIN calls
      /\ \A j \in DOMAIN calls : j # i => At(i, st)[j] = calls[j]
      /\ At(i, st)[i] = [[c EXCEPT !.stage = st] EXCEPT !.at = 0]
      /\ At(i, st) = [j \in DOMAIN calls |-> At(i, st)[j]]
  BY DEF At
<1>3. /\ DOMAIN calls' = DOMAIN calls
      /\ \A j \in DOMAIN calls : j # i => calls'[j] = calls[j]
      /\ calls' = [j \in DOMAIN calls |-> calls'[j]]
  BY <1>2
<1>4. \/ calls'[i] = At(i, st)[i]
      \/ calls'[i] = [At(i, st)[i] EXCEPT !.at = at]
  BY <1>2
<1> HIDE DEF c
<1>5. PICK d : d = [c EXCEPT !.stage = st]
  OBVIOUS
<1>6. d \in Call /\ d.batch = c.batch /\ d.by = c.by /\ d.watched = c.watched /\ d.stage = st
  BY <1>1, <1>5 DEF Call
<1>7. PICK e : e = [d EXCEPT !.at = 0]
  OBVIOUS
<1>8. e \in Call /\ e.batch = c.batch /\ e.by = c.by /\ e.watched = c.watched /\ e.stage = st
  BY <1>6, <1>7 DEF Call
<1>9. PICK f : f = [e EXCEPT !.at = at]
  OBVIOUS
<1>10. f \in Call /\ f.batch = c.batch /\ f.by = c.by /\ f.watched = c.watched /\ f.stage = st
  BY <1>8, <1>9 DEF Call
<1>11. calls'[i] = e \/ calls'[i] = f
  BY <1>2, <1>4, <1>5, <1>7, <1>9
<1>12. /\ calls'[i] \in Call /\ calls'[i].batch = c.batch /\ calls'[i].by = c.by
       /\ calls'[i].watched = c.watched /\ calls'[i].stage = st
  BY <1>8, <1>10, <1>11
<1>13. calls' \in Seq(Call) /\ Len(calls') = n
  <2>1. calls' = [j \in 1..n |-> calls'[j]]
    BY <1>1, <1>3
  <2>2. \A j \in 1..n : calls'[j] \in Call
    BY <1>1, <1>3, <1>12
  <2> QED
    BY <1>1, <2>1, <2>2
<1> QED
  BY <1>3, <1>12, <1>13 DEF Moved, c

\* What the client knows of its calls outlives a move that does not refuse one
\* it is sure of, or take an acceptance back.
LEMMA MovedKeeps ==
    ASSUME IInv, CallInv, UNCHANGED client, now' \in Nat,
           NEW i \in DOMAIN calls, NEW st, Moved(i, st),
           calls[i].stage = "refused" => st = "refused",
           calls[i].stage = "accepted" => st = "accepted"
    PROVE  IInv' /\ CallInv'
<1>1. UNCHANGED vars
  BY DEF client, vars
<1>2. IInv'
  BY <1>1, NextKeepsInv
<1>3. current' = current /\ offered' = offered /\ delivered' = delivered
  BY DEF client
<1>4. /\ calls' \in Seq(Call) /\ Len(calls') = Len(calls) /\ DOMAIN calls' = DOMAIN calls
      /\ \A j \in DOMAIN calls : /\ calls'[j].batch = calls[j].batch
                                 /\ calls'[j].by = calls[j].by
                                 /\ calls'[j].watched = calls[j].watched
                                 /\ j # i => calls'[j] = calls[j]
      /\ calls'[i].stage = st
  BY DEF Moved
<1>5. CallTypes'
  BY <1>3, <1>4 DEF CallInv, CallTypes
<1>6. InTransport'
  <2>1. calls # <<>> => Len(calls) \in DOMAIN calls
    BY DEF CallInv, CallTypes
  <2>2. Len(calls) = 0 <=> calls = <<>>
    BY DEF CallInv, CallTypes
  <2>3. Len(calls') = 0 <=> calls' = <<>>
    BY <1>4
  <2> QED
    BY <1>3, <1>4, <2>1, <2>2, <2>3 DEF CallInv, InTransport, LastCall
<1>7. \A j \in DOMAIN calls : Sound(j)' => Sound(j)
  BY <1>4 DEF Sound
<1>8. Fates'
  BY <1>3, <1>4, <1>7 DEF CallInv, Fates
<1>9. Apart'
  BY <1>4, <1>7 DEF CallInv, Apart
<1>10. Acknowledged'
  <2> SUFFICES ASSUME NEW id \in Range(delivered)
               PROVE  \E j \in DOMAIN calls' : id \in Range(calls'[j].batch)
                                               /\ Delivered(calls'[j])
    BY <1>3 DEF Acknowledged, Carrying
  <2>1. PICK j \in DOMAIN calls : id \in Range(calls[j].batch) /\ Delivered(calls[j])
    BY DEF CallInv, Acknowledged, Carrying
  <2>2. calls'[j].batch = calls[j].batch /\ Delivered(calls'[j])
    BY <1>4, <2>1 DEF Delivered
  <2> QED
    BY <1>4, <2>1, <2>2
<1> QED
  BY <1>2, <1>5, <1>6, <1>8, <1>9, <1>10 DEF CallInv
-----------------------------------------------------------------------------
(***************************************************************************)
(* The tally: an event is recorded once for each call that recorded it.    *)
(***************************************************************************)

\* What is recorded is the fresh occurrences of the batch, and nothing else.
LEMMA FreshOccurrences ==
    ASSUME StoreInv, NEW batch \in Seq(DOMAIN Fingerprint), NEW at \in Nat,
           BatchRecorded(batch, at)
    PROVE  /\ Occurrences' = Occurrences \cup {Occurrence(batch, at, j) : j \in 1..Len(batch)}
           /\ \A o \in Occurrences : o.id <= sequence /\ o.id \in Nat
<1> DEFINE n == Len(batch)
           Fresh == {Occurrence(batch, at, j) : j \in 1..Len(batch)}
<1>1. /\ DOMAIN seen' = DOMAIN seen \cup Mentioned(batch, n)
      /\ \A k \in DOMAIN seen' : seen'[k] = Get(seen, k, {}) \cup Past(batch, at, n, k)
  BY DEF BatchRecorded
<1>2. \A k : Past(batch, at, n, k) \subseteq Fresh
  BY DEF Past
<1>3. \A j \in 1..n : /\ Fingerprint[batch[j]] \in Mentioned(batch, n)
                      /\ Occurrence(batch, at, j) \in Past(batch, at, n, Fingerprint[batch[j]])
  BY DEF Past, Mentioned
<1>4. \A k \in DOMAIN seen : Get(seen, k, {}) = seen[k]
  BY DEF Get
<1>5. \A k : k \notin DOMAIN seen => Get(seen, k, {}) = {}
  BY DEF Get
<1>6. Occurrences' \subseteq Occurrences \cup Fresh
  <2> SUFFICES ASSUME NEW k \in DOMAIN seen', NEW o \in seen'[k]
               PROVE  o \in Occurrences \cup Fresh
    BY DEF Occurrences
  <2>1. o \in Get(seen, k, {}) \/ o \in Fresh
    BY <1>1, <1>2
  <2>2. o \in Get(seen, k, {}) => k \in DOMAIN seen /\ o \in seen[k]
    BY <1>4, <1>5
  <2> QED
    BY <2>1, <2>2 DEF Occurrences
<1>7. Occurrences \subseteq Occurrences'
  BY <1>1, <1>4 DEF Occurrences
<1>8. Fresh \subseteq Occurrences'
  <2> SUFFICES ASSUME NEW j \in 1..n
               PROVE  \E k \in DOMAIN seen' : Occurrence(batch, at, j) \in seen'[k]
    BY DEF Occurrences
  <2>1. Fingerprint[batch[j]] \in DOMAIN seen'
    BY <1>1, <1>3
  <2> QED
    BY <1>1, <1>3, <2>1
<1>9. \A o \in Occurrences : o.id <= sequence /\ o.id \in Nat
  BY DEF Occurrences, StoreInv, Sightings, Distinct, Occ
<1> QED
  BY <1>6, <1>7, <1>8, <1>9

\* So an event of the batch is recorded once more, and no other is.
LEMMA OnceMore ==
    ASSUME StoreInv, NEW batch \in Seq(DOMAIN Fingerprint), Rising(batch), Len(batch) \in Nat,
           \A j \in DOMAIN batch : batch[j] \in Nat,
           NEW at \in Nat, BatchRecorded(batch, at), NEW id
    PROVE  IF id \in Range(batch) THEN \E o : o \notin Recorded(id)
                                              /\ Recorded(id)' = Recorded(id) \cup {o}
           ELSE Recorded(id)' = Recorded(id)
<1> DEFINE n == Len(batch)
<1>1. /\ Occurrences' = Occurrences \cup {Occurrence(batch, at, j) : j \in 1..n}
      /\ \A o \in Occurrences : o.id <= sequence /\ o.id \in Nat
  BY FreshOccurrences
<1>2. sequence \in Nat /\ DOMAIN batch = 1..n /\ n \in Nat
  BY DEF StoreInv
<1>3. \A j \in 1..n : /\ Occurrence(batch, at, j).id = sequence + j
                      /\ Occurrence(batch, at, j).shape = batch[j]
  BY DEF Occurrence
<1>4. Recorded(id)' = Recorded(id)
                        \cup {o \in {Occurrence(batch, at, j) : j \in 1..n} : o.shape = id}
  BY <1>1 DEF Recorded
<1>5. \A j \in 1..n : Occurrence(batch, at, j) \notin Recorded(id)
  BY <1>1, <1>2, <1>3 DEF Recorded
<1>6. CASE id \in Range(batch)
  <2>1. PICK j \in 1..n : batch[j] = id
    BY <1>2, <1>6 DEF Range
  <2>2. \A m \in 1..n : batch[m] = id => m = j
    <3> SUFFICES ASSUME NEW m \in 1..n, batch[m] = id, m # j PROVE FALSE
      OBVIOUS
    <3>1. m < j \/ j < m
      BY <1>2
    <3>2. batch[m] < batch[j] \/ batch[j] < batch[m]
      BY <1>2, <3>1 DEF Rising
    <3> QED
      BY <1>2, <2>1, <3>2
  <2>3. {o \in {Occurrence(batch, at, m) : m \in 1..n} : o.shape = id}
           = {Occurrence(batch, at, j)}
    BY <1>3, <2>1, <2>2
  <2> QED
    BY <1>4, <1>5, <1>6, <2>3
<1>7. CASE id \notin Range(batch)
  <2>1. \A j \in 1..n : batch[j] # id
    BY <1>2, <1>7 DEF Range
  <2>2. {o \in {Occurrence(batch, at, m) : m \in 1..n} : o.shape = id} = {}
    BY <1>3, <2>1
  <2> QED
    BY <1>4, <1>7, <2>2
<1> QED
  BY <1>6, <1>7

\* The calls that recorded an event are finitely many.
LEMMA RecordersFinite ==
    ASSUME calls \in Seq(Call), NEW id
    PROVE  IsFiniteSet(RecordedBy(id)) /\ Cardinality(RecordedBy(id)) \in Nat
<1>1. Len(calls) \in Nat /\ DOMAIN calls = 1..Len(calls)
  OBVIOUS
<1>2. 1 \in Int /\ Len(calls) \in Int
  BY <1>1
<1>3. IsFiniteSet(1..Len(calls))
  BY <1>2, FS_Interval
<1>4. RecordedBy(id) \in SUBSET (1..Len(calls))
  BY <1>1 DEF RecordedBy, Carrying
<1>5. IsFiniteSet(RecordedBy(id))
  BY <1>3, <1>4, FS_Subset
<1> QED
  BY <1>5, FS_CardinalityType

\* A step that records nothing.
LEMMA TallyStands ==
    ASSUME Tally, seen' = seen, \A id : RecordedBy(id)' = RecordedBy(id)
    PROVE  Tally'
<1>1. \A id : Recorded(id)' = Recorded(id)
  BY DEF Recorded, Occurrences
<1> QED
  BY <1>1 DEF Tally

\* A step that records the batch of call i.
LEMMA TallyGrows ==
    ASSUME Tally, StoreInv, calls \in Seq(Call), NEW i \in DOMAIN calls,
           calls[i].stage = "prepared", Moved(i, "recorded"),
           calls[i].batch \in Seq(DOMAIN Fingerprint), Rising(calls[i].batch),
           NEW at \in Nat, BatchRecorded(calls[i].batch, at)
    PROVE  Tally'
<1> DEFINE batch == calls[i].batch
<1>1. calls[i] \in Call
  OBVIOUS
<1>2. batch \in Seq(Nat)
  BY <1>1 DEF Call
<1>3. Len(batch) \in Nat /\ \A j \in DOMAIN batch : batch[j] \in Nat
  BY <1>2
<1>4. ASSUME NEW id
      PROVE  IF id \in Range(batch) THEN /\ i \notin RecordedBy(id)
                                         /\ RecordedBy(id)' = RecordedBy(id) \cup {i}
             ELSE RecordedBy(id)' = RecordedBy(id)
  <2>1. /\ DOMAIN calls' = DOMAIN calls
        /\ \A j \in DOMAIN calls : calls'[j].batch = calls[j].batch
        /\ \A j \in DOMAIN calls : j # i => calls'[j] = calls[j]
        /\ calls'[i].stage = "recorded"
    BY DEF Moved
  <2>2. /\ RecordedBy(id) = {j \in DOMAIN calls : /\ id \in Range(calls[j].batch)
                                                  /\ calls[j].stage \in {"recorded", "accepted"}}
        /\ RecordedBy(id)' = {j \in DOMAIN calls' : /\ id \in Range(calls'[j].batch)
                                                  /\ calls'[j].stage \in {"recorded", "accepted"}}
    BY DEF RecordedBy, Carrying
  <2> QED
    BY <2>1, <2>2
<1>5. ASSUME NEW id \in 1..MaxEvents
      PROVE  IsFiniteSet(Recorded(id)') /\ Cardinality(Recorded(id)') = Cardinality(RecordedBy(id)')
  <2>1. IsFiniteSet(Recorded(id)) /\ Cardinality(Recorded(id)) = Cardinality(RecordedBy(id))
    BY DEF Tally
  <2>2. IsFiniteSet(RecordedBy(id))
    BY RecordersFinite
  <2>3. CASE id \in Range(batch)
    <3>1. PICK o : o \notin Recorded(id) /\ Recorded(id)' = Recorded(id) \cup {o}
      BY <1>3, <2>3, OnceMore
    <3>2. i \notin RecordedBy(id) /\ RecordedBy(id)' = RecordedBy(id) \cup {i}
      BY <1>4, <2>3
    <3>3. IsFiniteSet(Recorded(id) \cup {o})
          /\ Cardinality(Recorded(id) \cup {o}) = Cardinality(Recorded(id)) + 1
      BY <2>1, <3>1, FS_AddElement
    <3>4. Cardinality(RecordedBy(id) \cup {i}) = Cardinality(RecordedBy(id)) + 1
      BY <2>2, <3>2, FS_AddElement
    <3> QED
      BY <2>1, <3>1, <3>2, <3>3, <3>4
  <2>4. CASE id \notin Range(batch)
    <3>1. Recorded(id)' = Recorded(id)
      BY <1>3, <2>4, OnceMore
    <3>2. RecordedBy(id)' = RecordedBy(id)
      BY <1>4, <2>4
    <3> QED
      BY <2>1, <3>1, <3>2
  <2> QED
    BY <2>3, <2>4
<1> QED
  BY <1>5 DEF Tally
-----------------------------------------------------------------------------
(***************************************************************************)
(* The whole: client, network and collector.                               *)
(***************************************************************************)
DInv == IInv /\ StoreInv /\ CallInv /\ Tally

\* A call's batch is one the store can record.
LEMMA BatchOfCall ==
    ASSUME IInv, CallInv, NEW i \in DOMAIN calls
    PROVE  /\ calls[i].batch \in Seq(DOMAIN Fingerprint)
           /\ Rising(calls[i].batch) /\ calls[i].at \in Nat
<1>1. /\ calls[i] \in Call /\ Rising(calls[i].batch) /\ offered <= MaxEvents
      /\ Range(calls[i].batch) \subseteq 1..offered
  BY DEF CallInv, CallTypes
<1>2. calls[i].batch \in Seq(Nat) /\ calls[i].at \in Nat
  BY <1>1 DEF Call
<1>3. \A x \in 1..offered : x \in 1..MaxEvents
  <2>1. offered \in Nat
    BY CurrentBatch DEF OnTheWay
  <2> QED
    BY <1>1, <2>1, ConstantsAssumption
<1>4. \A j \in 1..Len(calls[i].batch) : calls[i].batch[j] \in DOMAIN Fingerprint
  <2> SUFFICES ASSUME NEW j \in 1..Len(calls[i].batch)
               PROVE  calls[i].batch[j] \in DOMAIN Fingerprint
    OBVIOUS
  <2>1. calls[i].batch[j] \in Range(calls[i].batch)
    BY <1>2 DEF Range
  <2> QED
    BY <1>1, <1>3, <2>1, DeliveryAssumption
<1>5. PICK b : b = calls[i].batch
  OBVIOUS
<1>6. b \in Seq(Nat) /\ \A j \in 1..Len(b) : b[j] \in DOMAIN Fingerprint
  BY <1>2, <1>4, <1>5
<1>7. b \in Seq(DOMAIN Fingerprint)
  BY <1>6
<1> QED
  BY <1>1, <1>2, <1>5, <1>7

\* The store of a step that leaves it alone.
LEMMA StoreStands ==
    ASSUME StoreInv, UNCHANGED store
    PROVE  StoreInv'
  BY DEF StoreInv, store

\* A page that has just loaded, and an empty collector.
LEMMA DeliveryInitInv == DeliveryInit => DInv
<1> SUFFICES ASSUME DeliveryInit PROVE DInv
  OBVIOUS
<1>1. /\ Init /\ EmptyStore /\ calls = <<>> /\ now = 1
  BY DEF DeliveryInit, CollectorInit
<1>2. IInv
  BY <1>1, InitInv
<1>3. StoreInv
  BY <1>1, EmptyStoreInv
<1>4. DOMAIN calls = {} /\ calls \in Seq(Call)
  BY <1>1
<1>5. current.phase # "transport" /\ delivered = <<>> /\ offered = 0
  BY <1>1 DEF Init, NoBatch
<1>6. Range(delivered) = {}
  BY <1>5 DEF Range
<1>7. offered <= MaxEvents /\ now \in Nat
  BY <1>1, <1>5, ConstantsAssumption
<1>8. CallInv
  BY <1>4, <1>5, <1>6, <1>7
     DEF CallInv, CallTypes, InTransport, Fates, Apart, Acknowledged
<1>9. Tally
  <2>1. \A id : Recorded(id) = {}
    BY <1>1 DEF EmptyStore, Recorded, Occurrences
  <2>2. \A id : RecordedBy(id) = {}
    BY <1>4 DEF RecordedBy, Carrying
  <2> QED
    BY <2>1, <2>2, FS_EmptySet DEF Tally
<1> QED
  BY <1>2, <1>3, <1>8, <1>9 DEF DInv

\* Steps of the client that do not wait.
LEMMA ClientActsKeep ==
    ASSUME DInv, ClientActs
    PROVE  DInv'
<1>1. /\ IInv /\ StoreInv /\ CallInv /\ Tally /\ calls \in Seq(Call)
  BY DEF DInv, CallInv, CallTypes
<1>2. ClientStep /\ Post
  BY DEF ClientActs, ClientStep
<1>3. now' = now /\ seen' = seen /\ UNCHANGED store
  BY <1>2 DEF Post, store
<1>4. StoreInv'
  BY <1>1, <1>3, StoreStands
<1>5. IInv'
  BY <1>1, <1>2, ClientCurrent
<1>6. CASE current' # current /\ current'.phase = "transport"
  <2>1. PICK by \in Transports : calls' = Append(calls, Request(current'.batch, by))
    BY <1>2, <1>6 DEF Post
  <2>2. CallInv'
    BY <1>1, <1>2, <1>3, <1>6, <2>1, PostKeeps
  <2>3. /\ DOMAIN calls' = DOMAIN calls \cup {Len(calls) + 1}
        /\ \A i \in DOMAIN calls : calls'[i] = calls[i]
        /\ calls'[Len(calls) + 1].stage = "sent"
    <3>1. PICK c : c = Request(current'.batch, by)
      OBVIOUS
    <3>2. c.stage = "sent"
      BY <3>1 DEF Request
    <3>3. calls' = Append(calls, c)
      BY <2>1, <3>1
    <3> QED
      BY <1>1, <3>2, <3>3
  <2>4. \A id : RecordedBy(id)' = RecordedBy(id)
    BY <1>1, <2>3 DEF RecordedBy, Carrying
  <2> QED
    BY <1>1, <1>3, <1>4, <1>5, <2>2, <2>4, TallyStands DEF DInv
<1>7. CASE ~(current' # current /\ current'.phase = "transport")
  <2>1. calls' = calls
    BY <1>2, <1>7 DEF Post
  <2>2. CallInv'
    BY <1>1, <1>2, <1>3, <1>7, <2>1, QuietStepKeeps
  <2>3. \A id : RecordedBy(id)' = RecordedBy(id)
    BY <2>1 DEF RecordedBy, Carrying
  <2> QED
    BY <1>1, <1>3, <1>4, <1>5, <2>2, <2>3, TallyStands DEF DInv
<1> QED
  BY <1>6, <1>7

\* What the transport answers.
LEMMA AnswersKeep ==
    ASSUME DInv, TransportAccepts \/ TransportRefuses \/ FetchRejects
    PROVE  DInv'
<1>1. /\ IInv /\ StoreInv /\ CallInv /\ Tally /\ calls \in Seq(Call)
  BY DEF DInv, CallInv, CallTypes
<1>2. IInv' /\ CallInv'
  BY <1>1, AcceptsKeeps, RefusesKeeps, RejectsKeeps
<1>3. UNCHANGED store /\ seen' = seen
  BY DEF TransportAccepts, TransportRefuses, FetchRejects, collector, store
<1>4. StoreInv'
  BY <1>1, <1>3, StoreStands
<1>5. \A id : RecordedBy(id)' = RecordedBy(id)
  <2>1. CASE calls' = calls
    BY <2>1 DEF RecordedBy, Carrying
  <2>2. CASE calls' = [calls EXCEPT ![Len(calls)].watched = FALSE]
    <3>1. /\ DOMAIN calls' = DOMAIN calls
          /\ \A i \in DOMAIN calls : i # Len(calls) => calls'[i] = calls[i]
          /\ Len(calls) \in DOMAIN calls =>
                calls'[Len(calls)] = [calls[Len(calls)] EXCEPT !.watched = FALSE]
      BY <2>2
    <3>2. ASSUME NEW i \in DOMAIN calls
          PROVE  calls'[i].batch = calls[i].batch /\ calls'[i].stage = calls[i].stage
      <4>1. calls[i] \in Call
        BY <1>1
      <4>2. CASE i = Len(calls)
        <5>1. calls'[i] = [calls[i] EXCEPT !.watched = FALSE]
          BY <3>1, <4>2
        <5> QED
          BY <4>1, <5>1 DEF Call
      <4> QED
        BY <3>1, <4>2
    <3> QED
      BY <3>1, <3>2 DEF RecordedBy, Carrying
  <2> QED
    BY <2>1, <2>2 DEF TransportAccepts, TransportRefuses, FetchRejects, collector
<1> QED
  BY <1>1, <1>2, <1>3, <1>4, <1>5, TallyStands DEF DInv

\* A handler that records nothing.
LEMMA QuietHandlerKeeps ==
    ASSUME DInv, UNCHANGED <<client, store, now>>, NEW i \in DOMAIN calls, NEW st,
           Moved(i, st),
           \/ calls[i].stage \in {"sent", "prepared"} /\ st \in {"prepared", "refused"}
           \/ calls[i].stage = "recorded" /\ st = "accepted"
    PROVE  DInv'
<1>1. /\ IInv /\ StoreInv /\ CallInv /\ Tally /\ now \in Nat
  BY DEF DInv, CallInv, CallTypes
<1>2. UNCHANGED client /\ UNCHANGED store /\ now' \in Nat /\ seen' = seen
  BY <1>1 DEF store
<1>3. IInv' /\ CallInv'
  BY <1>1, <1>2, MovedKeeps
<1>4. StoreInv'
  BY <1>1, <1>2, StoreStands
<1>5. \A id : RecordedBy(id)' = RecordedBy(id)
  <2>1. /\ DOMAIN calls' = DOMAIN calls /\ calls'[i].stage = st
        /\ \A j \in DOMAIN calls : /\ calls'[j].batch = calls[j].batch
                                   /\ j # i => calls'[j] = calls[j]
    BY DEF Moved
  <2> QED
    BY <2>1 DEF RecordedBy, Carrying
<1> QED
  BY <1>1, <1>2, <1>3, <1>4, <1>5, TallyStands DEF DInv

\* The handler that records.
LEMMA RecordKeeps ==
    ASSUME DInv, UNCHANGED client, NEW i \in DOMAIN calls, Record(i)
    PROVE  DInv' /\ BatchRecorded(calls[i].batch, calls[i].at)
<1>1. /\ IInv /\ StoreInv /\ CallInv /\ Tally /\ now \in Nat /\ calls \in Seq(Call)
  BY DEF DInv, CallInv, CallTypes
<1>2. /\ calls[i].stage = "prepared" /\ RecordBatch(calls[i].batch, calls[i].at)
      /\ calls' = At(i, "recorded") /\ now' = now
  BY DEF Record
<1>3. Moved(i, "recorded")
  BY <1>1, <1>2, HandlerMoves
<1>4. /\ calls[i].batch \in Seq(DOMAIN Fingerprint) /\ Rising(calls[i].batch)
      /\ calls[i].at \in Nat
  BY <1>1, BatchOfCall
<1>5. IInv' /\ CallInv'
  BY <1>1, <1>2, <1>3, MovedKeeps
<1>6. PICK b, at : b = calls[i].batch /\ at = calls[i].at
  OBVIOUS
<1>7. StoreInv' /\ BatchRecorded(b, at)
  BY <1>1, <1>2, <1>4, <1>6, RecordBatchKeeps
<1>8. Tally'
  BY <1>1, <1>2, <1>3, <1>4, <1>6, <1>7, TallyGrows
<1> QED
  BY <1>5, <1>6, <1>7, <1>8 DEF DInv
\* Every handler keeps the whole.
LEMMA HandleKeeps ==
    ASSUME DInv, UNCHANGED client, Handle
    PROVE  DInv'
<1>1. PICK i \in DOMAIN calls :
         Prepare(i) \/ Record(i) \/ RecordFails(i) \/ Accept202(i)
  BY DEF Handle
<1>2. calls \in Seq(Call) /\ now \in Nat
  BY DEF DInv, CallInv, CallTypes
<1>3. CASE Prepare(i)
  <2>1. /\ calls[i].stage = "sent" /\ UNCHANGED <<client, store, now>>
        /\ calls' = At(i, "refused") \/ calls' = [At(i, "prepared") EXCEPT ![i].at = now]
    BY <1>3 DEF Prepare
  <2>2. Moved(i, "refused") \/ Moved(i, "prepared")
    BY <1>2, <2>1, HandlerMoves
  <2> QED
    BY <2>1, <2>2, QuietHandlerKeeps
<1>4. CASE Record(i)
  BY <1>4, RecordKeeps
<1>5. CASE RecordFails(i)
  <2>1. /\ calls[i].stage = "prepared" /\ UNCHANGED <<client, store, now>>
        /\ calls' = At(i, "refused")
    BY <1>5 DEF RecordFails, Failing
  <2>2. Moved(i, "refused")
    BY <1>2, <2>1, HandlerMoves
  <2> QED
    BY <2>1, <2>2, QuietHandlerKeeps
<1>6. CASE Accept202(i)
  <2>1. /\ calls[i].stage = "recorded" /\ UNCHANGED <<client, store, now>>
        /\ calls' = At(i, "accepted")
    BY <1>6 DEF Accept202
  <2>2. Moved(i, "accepted")
    BY <1>2, <2>1, HandlerMoves
  <2> QED
    BY <2>1, <2>2, QuietHandlerKeeps
<1> QED
  BY <1>1, <1>3, <1>4, <1>5, <1>6

\* A step that touches no call, no event and nothing that was seen.
LEMMA CallsStand ==
    ASSUME DInv, UNCHANGED <<client, calls, seen>>, now' \in Nat, StoreInv'
    PROVE  DInv'
<1>1. /\ IInv /\ CallInv /\ Tally
  BY DEF DInv
<1>2. IInv'
  <2>1. UNCHANGED vars
    BY DEF client, vars
  <2> QED
    BY <1>1, <2>1, NextKeepsInv
<1>3. current' = current /\ offered' = offered /\ delivered' = delivered /\ calls' = calls
  BY DEF client
<1>4. CallInv'
  BY <1>1, <1>3
     DEF CallInv, CallTypes, InTransport, LastCall, Fates, Sound, Apart,
         Acknowledged, Carrying, Delivered
<1>5. Tally'
  <2>1. \A id : RecordedBy(id)' = RecordedBy(id)
    BY <1>3 DEF RecordedBy, Carrying
  <2> QED
    BY <1>1, <2>1, TallyStands
<1> QED
  BY <1>2, <1>4, <1>5 DEF DInv

\* Triage and time change nothing that was recorded.
LEMMA TriageKeeps ==
    ASSUME DInv, UNCHANGED client, Triage \/ Tick
    PROVE  DInv'
<1>1. StoreInv /\ now \in Nat
  BY DEF DInv, CallInv, CallTypes
<1>2. CASE Triage
  <2>1. /\ UNCHANGED <<calls, now>>
        /\ \E k \in DOMAIN issues, status \in {"resolved", "ignored"} : SetIssueStatus(k, status)
    BY <1>2 DEF Triage
  <2>2. StoreInv' /\ seen' = seen
    <3>1. PICK k \in DOMAIN issues, status \in {"resolved", "ignored"} : SetIssueStatus(k, status)
      BY <2>1
    <3>2. status \in Statuses
      BY DEF Statuses
    <3> QED
      BY <1>1, <3>1, <3>2, SetIssueStatusKeeps DEF SetIssueStatus
  <2> QED
    BY <1>1, <2>1, <2>2, CallsStand
<1>3. CASE Tick
  <2>1. UNCHANGED <<store, calls>> /\ now' = now + 1
    BY <1>3 DEF Tick
  <2>2. StoreInv' /\ seen' = seen /\ now' \in Nat
    BY <1>1, <2>1, StoreStands DEF store
  <2> QED
    BY <2>1, <2>2, CallsStand
<1> QED
  BY <1>2, <1>3

\* The invariant of the composed system is inductive.
LEMMA DeliveryNextKeepsInv == DInv /\ [DeliveryNext]_<<client, collector>> => DInv'
<1> SUFFICES ASSUME DInv, [DeliveryNext]_<<client, collector>> PROVE DInv'
  OBVIOUS
<1>1. CASE ClientActs
  BY <1>1, ClientActsKeep
<1>2. CASE TransportAccepts \/ TransportRefuses \/ FetchRejects
  BY <1>2, AnswersKeep
<1>3. CASE CollectorActs
  BY <1>3, HandleKeeps, TriageKeeps DEF CollectorActs, CollectorNext
<1>4. CASE UNCHANGED <<client, collector>>
  <2>1. UNCHANGED <<client, calls, seen>> /\ UNCHANGED store /\ now' = now
    BY <1>4 DEF collector, store
  <2>2. now' \in Nat /\ StoreInv
    BY <2>1 DEF DInv, CallInv, CallTypes
  <2> QED
    BY <2>1, <2>2, StoreStands, CallsStand
<1> QED
  BY <1>1, <1>2, <1>3, <1>4 DEF DeliveryNext

\* The invariant always holds.
LEMMA DeliveryInvAlways == DeliverySpec => []DInv
  BY DeliveryInitInv, DeliveryNextKeepsInv, PTL DEF DeliverySpec
-----------------------------------------------------------------------------
\* StoreIsItsRecords: whatever order stamps reach the store in - a batch waits
\* between prepareEvent and RecordBatch's mutex for as long as it likes - an
\* issue's counters and history are those of what was recorded.
THEOREM StoreAlwaysItsRecords == DeliverySpec => []StoreIsItsRecords
<1>1. DInv => StoreIsItsRecords
  BY StoreInvSuffices DEF DInv
<1> QED
  BY <1>1, DeliveryInvAlways, PTL

\* What was delivered is in an accepted call, and so in the store.
LEMMA SentSuffices == DInv => SentIsRecorded
<1> SUFFICES ASSUME DInv, NEW id \in Range(delivered)
             PROVE  Recorded(id) # {} \/ \E i \in Carrying(id) : calls[i].by = "beacon"
  BY DEF SentIsRecorded
<1>1. /\ IInv /\ CallInv /\ Tally /\ calls \in Seq(Call) /\ offered <= MaxEvents
  BY DEF DInv, CallInv, CallTypes
<1>2. id \in 1..MaxEvents
  <2>1. id \in 1..offered /\ offered \in Nat
    BY <1>1, CurrentBatch DEF OnTheWay
  <2> QED
    BY <1>1, <2>1, ConstantsAssumption
<1>3. PICK i \in Carrying(id) : Delivered(calls[i])
  BY <1>1 DEF CallInv, Acknowledged
<1>4. CASE calls[i].stage = "accepted"
  <2>1. i \in RecordedBy(id)
    BY <1>4 DEF RecordedBy
  <2>2. IsFiniteSet(RecordedBy(id)) /\ Cardinality(RecordedBy(id)) # 0
    BY <1>1, <2>1, RecordersFinite, FS_EmptySet
  <2>3. Cardinality(Recorded(id)) # 0
    BY <1>1, <1>2, <2>2 DEF Tally
  <2> QED
    BY <2>3, FS_EmptySet
<1> QED
  BY <1>3, <1>4 DEF Delivered

\* SentIsRecorded: stats.sent counts no event of an accepted fetch that the
\* store does not have.
THEOREM SentAlwaysRecorded == DeliverySpec => []SentIsRecorded
  BY SentSuffices, DeliveryInvAlways, PTL

\* An event's records are its calls'; of those the client heard of, one was
\* accepted at most, and none of an event it gave up.
LEMMA OnlyLostSuffices == DInv => OnlyLostAnswersMislead
<1> SUFFICES ASSUME DInv, NEW id \in 1..offered
             PROVE  Cardinality(Recorded(id)) <=
                       Cardinality({i \in Carrying(id) : calls[i].by = "fetch"
                                                         /\ ~calls[i].watched})
                       + (IF id \in lost THEN 0 ELSE 1)
  BY DEF OnlyLostAnswersMislead
<1> DEFINE Misled == {i \in Carrying(id) : calls[i].by = "fetch" /\ ~calls[i].watched}
           Sure == {i \in Carrying(id) : Sound(i)}
<1>1. /\ IInv /\ CallInv /\ Tally /\ calls \in Seq(Call) /\ offered <= MaxEvents
      /\ CallTypes /\ InTransport /\ Fates /\ Apart
  BY DEF DInv, CallInv, CallTypes
<1>2. OnTheWay
  BY <1>1, CurrentBatch
<1>3. id \in 1..MaxEvents
  BY <1>1, <1>2, ConstantsAssumption DEF OnTheWay
<1>4. \A i \in DOMAIN calls : calls[i].by \in {"fetch", "beacon"}
  <2>1. \A i \in DOMAIN calls : calls[i] \in Call
    BY <1>1
  <2> QED
    BY <2>1 DEF Call
<1>5. RecordedBy(id) \subseteq Misled \cup Sure
  BY <1>4 DEF RecordedBy, Carrying, Sound
<1>6. id \in lost => Sure = {}
  <2> SUFFICES ASSUME id \in lost, NEW i \in Sure PROVE FALSE
    OBVIOUS
  <2>1. i \in DOMAIN calls /\ Sound(i) /\ id \in Range(calls[i].batch)
    BY DEF Carrying
  <2>2. CASE Range(calls[i].batch) \subseteq Range(delivered)
    BY <1>2, <2>1, <2>2 DEF OnTheWay
  <2>3. CASE i = Len(calls) /\ current.phase = "transport"
    <3>1. calls[i].batch = current.batch
      BY <1>1, <2>3 DEF InTransport, LastCall
    <3> QED
      BY <1>2, <2>1, <3>1 DEF OnTheWay
  <2> QED
    BY <1>1, <2>1, <2>2, <2>3 DEF Fates
<1>7. \A i, j \in Sure : i = j
  BY <1>1 DEF Apart, Carrying
<1>8. IsFiniteSet(Misled) /\ IsFiniteSet(Sure)
  <2>1. Len(calls) \in Nat /\ DOMAIN calls = 1..Len(calls)
    BY <1>1
  <2>2. 1 \in Int /\ Len(calls) \in Int
    BY <2>1
  <2>3. IsFiniteSet(1..Len(calls))
    BY <2>2, FS_Interval
  <2>4. Misled \in SUBSET (1..Len(calls)) /\ Sure \in SUBSET (1..Len(calls))
    BY <2>1 DEF Carrying
  <2> HIDE DEF Misled, Sure
  <2> QED
    BY <2>3, <2>4, FS_Subset
<1> HIDE DEF Misled, Sure
<1>9. Cardinality(Sure) = IF Sure = {} THEN 0 ELSE 1
  <2>1. CASE Sure = {}
    BY <2>1, FS_EmptySet
  <2>2. CASE Sure # {}
    <3>1. PICK i \in Sure : TRUE
      BY <2>2
    <3>2. Sure = {i}
      BY <1>7, <3>1
    <3> QED
      BY <2>2, <3>2, FS_Singleton
  <2> QED
    BY <2>1, <2>2
<1>10. /\ IsFiniteSet(Misled \cup Sure)
       /\ Cardinality(Misled \cup Sure) =
             Cardinality(Misled) + Cardinality(Sure) - Cardinality(Misled \cap Sure)
  BY <1>8, FS_Union
<1>11. IsFiniteSet(Misled \cap Sure)
  <2>1. Misled \cap Sure \in SUBSET Misled
    OBVIOUS
  <2> QED
    BY <1>8, <2>1, FS_Subset
<1>12. Cardinality(RecordedBy(id)) <= Cardinality(Misled \cup Sure)
  BY <1>5, <1>10, FS_Subset
<1>13. /\ Cardinality(Misled) \in Nat /\ Cardinality(Sure) \in Nat
       /\ Cardinality(Misled \cap Sure) \in Nat /\ Cardinality(Misled \cup Sure) \in Nat
  BY <1>8, <1>10, <1>11, FS_CardinalityType
<1>14. /\ Cardinality(Recorded(id)) = Cardinality(RecordedBy(id))
       /\ Cardinality(RecordedBy(id)) \in Nat
  BY <1>1, <1>3, RecordersFinite DEF Tally
<1>15. Cardinality(Recorded(id)) <= Cardinality(Misled) + (IF id \in lost THEN 0 ELSE 1)
  BY <1>6, <1>9, <1>10, <1>12, <1>13, <1>14
<1> QED
  BY <1>15 DEF Misled

\* OnlyLostAnswersMislead: at-least-once delivery records an event twice only
\* for a call whose answer was lost, and one the client gave up only so.
THEOREM OnlyLostAnswersEverMislead == DeliverySpec => []OnlyLostAnswersMislead
  BY OnlyLostSuffices, DeliveryInvAlways, PTL
-----------------------------------------------------------------------------
(***************************************************************************)
(* Refinement: the collector's store is the issue ledger.                  *)
(***************************************************************************)

\* The empty store is an empty ledger.
LEMMA LedgerBegins == DeliveryInit => Ledger!Init
<1> SUFFICES ASSUME DeliveryInit PROVE Ledger!Init
  OBVIOUS
<1>1. issues = <<>> /\ calls = <<>>
  BY DEF DeliveryInit, CollectorInit, EmptyStore
<1>2. DOMAIN LedgerView = {}
  BY <1>1 DEF LedgerView
<1>3. AskedView = <<>>
  BY <1>1 DEF AskedView, Asking
<1> QED
  BY <1>2, <1>3 DEF Ledger!Init

\* What is asked is the same after a step that prepares no call, moves none on
\* and changes neither batches nor stamps.
LEMMA AskedStands ==
    ASSUME Asking' = Asking,
           \A i \in Asking : calls'[i].batch = calls[i].batch /\ calls'[i].at = calls[i].at
    PROVE  AskedView' = AskedView
  BY DEF AskedView

\* A request leaves.
LEMMA PostAsksNothing ==
    ASSUME calls \in Seq(Call), NEW batch, NEW by, calls' = Append(calls, Request(batch, by))
    PROVE  AskedView' = AskedView
<1>1. PICK c : c = Request(batch, by)
  OBVIOUS
<1>2. c.stage = "sent"
  BY <1>1 DEF Request
<1>3. calls' = Append(calls, c)
  BY <1>1
<1>4. /\ DOMAIN calls' = DOMAIN calls \cup {Len(calls) + 1}
      /\ calls'[Len(calls) + 1].stage = "sent"
      /\ \A i \in DOMAIN calls : calls'[i] = calls[i]
  BY <1>2, <1>3
<1>5. Asking' = Asking
  BY <1>4 DEF Asking
<1> QED
  BY <1>4, <1>5, AskedStands DEF Asking

\* Nobody waits for an answer any more.
LEMMA LossAsksNothing ==
    ASSUME calls \in Seq(Call), NEW n, calls' = [calls EXCEPT ![n].watched = FALSE]
    PROVE  AskedView' = AskedView
<1>1. /\ DOMAIN calls' = DOMAIN calls
      /\ \A i \in DOMAIN calls : i # n => calls'[i] = calls[i]
      /\ n \in DOMAIN calls => calls'[n] = [calls[n] EXCEPT !.watched = FALSE]
  OBVIOUS
<1>2. ASSUME NEW i \in DOMAIN calls
      PROVE  /\ calls'[i].batch = calls[i].batch /\ calls'[i].stage = calls[i].stage
             /\ calls'[i].at = calls[i].at
  <2>1. calls[i] \in Call
    OBVIOUS
  <2>2. CASE i = n
    <3>1. calls'[i] = [calls[i] EXCEPT !.watched = FALSE]
      BY <1>1, <2>2
    <3> QED
      BY <2>1, <3>1 DEF Call
  <2> QED
    BY <1>1, <2>2
<1>3. Asking' = Asking
  BY <1>1, <1>2 DEF Asking
<1> QED
  BY <1>2, <1>3, AskedStands DEF Asking

\* A handler that is not about to record asks no more, if it ever did.
LEMMA MoveAsksNoMore ==
    ASSUME NEW i \in DOMAIN calls, NEW st, st # "prepared", Moved(i, st)
    PROVE  /\ AskedView' = Ledger!Restrict(AskedView, DOMAIN AskedView \ {i})
           /\ i \notin Asking => AskedView' = AskedView
<1>1. /\ Asking' = Asking \ {i} /\ DOMAIN AskedView = Asking
      /\ \A j \in Asking \ {i} : calls'[j] = calls[j]
  BY DEF Moved, Asking, AskedView
<1>2. AskedView' = [j \in Asking \ {i} |-> AskedView[j]]
  BY <1>1 DEF AskedView
<1>3. i \notin Asking => AskedView = [j \in Asking \ {i} |-> AskedView[j]]
  <2>1. i \notin Asking => Asking \ {i} = Asking
    OBVIOUS
  <2> QED
    BY <2>1 DEF AskedView
<1> QED
  BY <1>1, <1>2, <1>3 DEF Ledger!Restrict

\* What the ledger needs to know of the calls.
CallsTyped ==
    /\ calls \in Seq(Call) /\ now \in Nat
    /\ \A i \in DOMAIN calls : calls[i].batch \in Seq(DOMAIN Fingerprint)

\* A handler that lets its request through asks for the batch, a request without
\* one for nothing.
LEMMA LedgerOfPrepare ==
    ASSUME CallsTyped, NEW i \in DOMAIN calls, Prepare(i)
    PROVE  Ledger!Next \/ UNCHANGED Ledger!vars
<1>1. /\ calls \in Seq(Call) /\ now \in Nat /\ calls[i].batch \in Seq(DOMAIN Fingerprint)
      /\ calls[i].stage = "sent" /\ UNCHANGED store
  BY DEF CallsTyped, Prepare
<1>2. LedgerView' = LedgerView /\ i \notin Asking
  BY <1>1 DEF LedgerView, store, Asking
<1>3. CASE calls' = At(i, "refused")
  <2>1. Moved(i, "refused")
    BY <1>1, <1>3, HandlerMoves
  <2>2. AskedView' = AskedView
    BY <1>2, <2>1, MoveAsksNoMore
  <2> QED
    BY <1>2, <2>2 DEF Ledger!vars
<1>4. CASE calls' = [At(i, "prepared") EXCEPT ![i].at = now]
  <2>1. Moved(i, "prepared")
    BY <1>1, <1>4, HandlerMoves
  <2>2. calls'[i].at = now
    <3>1. i \in DOMAIN At(i, "prepared") /\ DOMAIN At(i, "prepared")[i] = DOMAIN calls[i]
      BY DEF At
    <3>2. calls'[i] = [At(i, "prepared")[i] EXCEPT !.at = now]
      BY <1>4, <3>1
    <3>3. calls[i] \in Call
      BY <1>1
    <3>31. DOMAIN calls[i] = {"batch", "by", "stage", "at", "watched"}
      BY <3>3 DEF Call
    <3>4. "at" \in DOMAIN calls[i]
      BY <3>31
    <3> QED
      BY <3>1, <3>2, <3>4
  <2>3. PICK b : b = calls[i].batch
    OBVIOUS
  <2>4. /\ DOMAIN calls' = DOMAIN calls /\ calls'[i].batch = b /\ calls'[i].stage = "prepared"
        /\ \A j \in DOMAIN calls : j # i => calls'[j] = calls[j]
    BY <2>1, <2>3 DEF Moved
  <2>5. CASE b = <<>>
    <3>1. Asking' = Asking
      BY <1>2, <2>4, <2>5 DEF Asking
    <3>2. \A j \in Asking : j # i
      BY <1>2
    <3>3. AskedView' = AskedView
      BY <2>4, <3>1, <3>2, AskedStands DEF Asking
    <3> QED
      BY <1>2, <3>3 DEF Ledger!vars
  <2>6. CASE b # <<>>
    <3>1. /\ b \in Seq(DOMAIN Fingerprint) /\ now \in Nat
      BY <1>1, <2>3
    <3>2. Asking' = Asking \cup {i} /\ DOMAIN AskedView = Asking /\ DOMAIN AskedView' = Asking'
      BY <2>4, <2>6 DEF Asking, AskedView
    <3>3. \A j \in Asking : AskedView'[j] = AskedView[j]
      BY <1>2, <2>4, <3>2 DEF AskedView, Asking
    <3>4. AskedView'[i] = [m \in DOMAIN b |-> [shape |-> b[m], at |-> now]]
      BY <2>2, <2>4, <3>2 DEF AskedView
    <3>5. PICK asked : asked = [m \in DOMAIN b |-> [shape |-> b[m], at |-> now]]
      OBVIOUS
    <3>6. /\ Len(asked) = Len(b) /\ DOMAIN asked = 1..Len(asked) /\ asked # <<>>
          /\ \A m \in DOMAIN asked : asked[m] = [shape |-> b[m], at |-> now]
      <4>1. DOMAIN b = 1..Len(b) /\ Len(b) \in Nat \ {0}
        BY <2>6, <3>1
      <4>2. asked = [m \in 1..Len(b) |-> [shape |-> b[m], at |-> now]]
        BY <3>5, <4>1
      <4> QED
        BY <4>1, <4>2
    <3>7. Ledger!IsBatch(asked)
      <4>1. \A m \in DOMAIN asked : asked[m].shape = b[m] /\ asked[m].at = now
        BY <3>6
      <4>2. \A m \in 1..Len(b) : b[m] \in DOMAIN Fingerprint
        BY <3>1
      <4> QED
        BY <3>1, <3>6, <4>1, <4>2 DEF Ledger!IsBatch
    <3>8. AskedView'[i] = asked
      BY <3>4, <3>5
    <3>9. Ledger!Ask
      BY <1>2, <3>2, <3>3, <3>7, <3>8 DEF Ledger!Ask
    <3> QED
      BY <3>9 DEF Ledger!Next
  <2> QED
    BY <2>5, <2>6
<1> QED
  BY <1>3, <1>4 DEF Prepare

\* A handler's RecordBatch is a step of the ledger, that of an empty batch none.
LEMMA LedgerOfRecord ==
    ASSUME StoreInv, CallsTyped, NEW i \in DOMAIN calls, Record(i)
    PROVE  Ledger!Next \/ UNCHANGED Ledger!vars
<1>1. /\ calls[i].batch \in Seq(DOMAIN Fingerprint) /\ calls[i].at \in Nat
      /\ RecordBatch(calls[i].batch, calls[i].at) /\ calls[i].stage = "prepared"
      /\ calls \in Seq(Call) /\ calls' = At(i, "recorded") /\ sequence \in Nat
  <2>1. calls[i] \in Call
    BY DEF CallsTyped
  <2> QED
    BY <2>1 DEF Record, CallsTyped, Call, StoreInv
<1>2. PICK b, at : b = calls[i].batch /\ at = calls[i].at
  OBVIOUS
<1>3. Moved(i, "recorded")
  BY <1>1, HandlerMoves
<1>4. CASE b = <<>>
  <2>1. RecordBatch(<<>>, at) /\ i \notin Asking
    BY <1>1, <1>2, <1>4 DEF Asking
  <2>2. AskedView' = AskedView
    BY <1>3, <2>1, MoveAsksNoMore
  <2>3. LedgerView' = LedgerView
    BY <1>1, <1>2, <2>1, LedgerIdle
  <2> QED
    BY <2>2, <2>3 DEF Ledger!vars
<1>5. CASE b # <<>>
  <2>1. /\ Ledger!Gather /\ Ledger!Fresh = Entering(b, at)
        /\ \A o \in Ledger!Seen(DOMAIN LedgerView) : o.id \in Nat /\ o.id <= sequence
    BY <1>1, <1>2, <1>5, LedgerRecord
  <2>2. i \in DOMAIN AskedView /\ AskedView[i] = [m \in DOMAIN b |-> [shape |-> b[m], at |-> at]]
    BY <1>1, <1>2, <1>5 DEF AskedView, Asking
  <2>3. AskedView' = Ledger!Restrict(AskedView, DOMAIN AskedView \ {i})
    BY <1>3, MoveAsksNoMore
  <2>4. DOMAIN b = 1..Len(b) /\ 1 \in 1..Len(b)
    BY <1>1, <1>2, <1>5
  <2>5. PICK n : n = sequence + 1
    OBVIOUS
  <2>6. /\ n \in Nat /\ \A m \in 1..Len(b) : n + m - 1 = sequence + m
        /\ \A x \in Nat : x <= sequence => x < n
    BY <1>1, <2>5
  <2>7. Entering(b, at) = Ledger!Numbered(AskedView[i], n)
    <3>1. /\ DOMAIN AskedView[i] = 1..Len(b)
          /\ \A m \in 1..Len(b) : AskedView[i][m].shape = b[m] /\ AskedView[i][m].at = at
      BY <2>2, <2>4
    <3>2. \A m \in 1..Len(b) :
             Occurrence(b, at, m) = [id |-> n + m - 1, at |-> AskedView[i][m].at,
                                     shape |-> AskedView[i][m].shape]
      BY <2>6, <3>1 DEF Occurrence
    <3>3. Ledger!Numbered(AskedView[i], n) =
             {[id |-> n + m - 1, at |-> AskedView[i][m].at, shape |-> AskedView[i][m].shape] :
                 m \in 1..Len(b)}
      BY <3>1 DEF Ledger!Numbered
    <3> QED
      BY <3>2, <3>3 DEF Entering
  <2>8. n \in {o.id : o \in Ledger!Fresh}
    <3>1. Occurrence(b, at, 1) \in Entering(b, at)
      BY <2>4 DEF Entering
    <3>2. Occurrence(b, at, 1).id = n
      BY <2>5 DEF Occurrence
    <3> QED
      BY <2>1, <3>1, <3>2
  <2>9. \A o \in Ledger!Seen(DOMAIN LedgerView) : o.id < n
    BY <2>1, <2>6
  <2>10. Ledger!Fresh = Ledger!Numbered(AskedView[i], n)
    BY <2>1, <2>7
  <2>11. Ledger!Record(i)
    BY <2>1, <2>2, <2>3, <2>8, <2>9, <2>10, Zenon DEF Ledger!Record
  <2> QED
    BY <2>2, <2>11 DEF Ledger!Next
<1> QED
  BY <1>4, <1>5

\* What a handler does is a step of the ledger or leaves it as it is.
LEMMA LedgerOfHandle ==
    ASSUME StoreInv, CallsTyped, Handle
    PROVE  Ledger!Next \/ UNCHANGED Ledger!vars
<1>1. PICK i \in DOMAIN calls :
         Prepare(i) \/ Record(i) \/ RecordFails(i) \/ Accept202(i)
  BY DEF Handle
<1>2. calls \in Seq(Call) /\ now \in Nat
  BY DEF CallsTyped
<1>3. CASE RecordFails(i)
  <2>1. calls' = At(i, "refused") /\ UNCHANGED store
    BY <1>3 DEF RecordFails, Failing
  <2>2. Moved(i, "refused")
    BY <1>2, <2>1, HandlerMoves
  <2>3. LedgerView' = LedgerView
    BY <2>1 DEF LedgerView, store
  <2>4. AskedView' = Ledger!Restrict(AskedView, DOMAIN AskedView \ {i})
    BY <2>2, MoveAsksNoMore
  <2>5. CASE i \in DOMAIN AskedView
    <3>1. {i} \in SUBSET DOMAIN AskedView
      BY <2>5
    <3>2. Ledger!GiveUp
      BY <2>3, <2>4, <3>1 DEF Ledger!GiveUp
    <3> QED
      BY <3>2 DEF Ledger!Next
  <2>6. CASE i \notin DOMAIN AskedView
    <3>1. i \notin Asking
      BY <2>6 DEF AskedView
    <3>2. AskedView' = AskedView
      BY <2>2, <3>1, MoveAsksNoMore
    <3> QED
      BY <2>3, <3>2 DEF Ledger!vars
  <2> QED
    BY <2>5, <2>6
<1>4. CASE Accept202(i)
  <2>1. calls[i].stage = "recorded" /\ calls' = At(i, "accepted") /\ UNCHANGED store
    BY <1>4 DEF Accept202
  <2>2. Moved(i, "accepted")
    BY <1>2, <2>1, HandlerMoves
  <2>3. i \notin Asking
    BY <2>1 DEF Asking
  <2>4. AskedView' = AskedView
    BY <2>2, <2>3, MoveAsksNoMore
  <2>5. LedgerView' = LedgerView
    BY <2>1 DEF LedgerView, store
  <2> QED
    BY <2>4, <2>5 DEF Ledger!vars
<1> QED
  BY <1>1, <1>3, <1>4, LedgerOfPrepare, LedgerOfRecord

\* The batches pages and handlers have are asked for, recorded and given up as
\* the ledger says, and a triage is one of its steps; every other step leaves it.
LEMMA LedgerGoesOn ==
    DInv /\ [DeliveryNext]_<<client, collector>> => [Ledger!Next]_(Ledger!vars)
<1> SUFFICES ASSUME DInv, [DeliveryNext]_<<client, collector>>
             PROVE  Ledger!Next \/ UNCHANGED Ledger!vars
  OBVIOUS
<1>1. StoreInv /\ IInv /\ CallInv
  BY DEF DInv
<1>2. CallsTyped
  BY <1>1, BatchOfCall DEF CallsTyped, CallInv, CallTypes
<1>3. ASSUME UNCHANGED store, AskedView' = AskedView
      PROVE  UNCHANGED Ledger!vars
  BY <1>3 DEF store, LedgerView, Ledger!vars
<1>4. calls' = calls => AskedView' = AskedView
  BY DEF AskedView, Asking
<1>5. CASE Triage
  <2>1. PICK k \in DOMAIN issues, status \in {"resolved", "ignored"} : SetIssueStatus(k, status)
    BY <1>5 DEF Triage
  <2>2. status \in Statuses /\ calls' = calls
    BY <1>5 DEF Statuses, Triage
  <2> QED
    BY <1>1, <2>1, <2>2, LedgerSetStatus
<1>6. CASE CollectorActs
  <2>1. Tick => UNCHANGED store /\ calls' = calls
    BY DEF Tick
  <2> QED
    BY <1>1, <1>2, <1>3, <1>4, <1>5, <1>6, <2>1, LedgerOfHandle DEF CollectorActs, CollectorNext
<1>7. CASE ~CollectorActs
  <2>1. /\ UNCHANGED store
        /\ \/ calls' = calls
           \/ \E batch, by : calls' = Append(calls, Request(batch, by))
           \/ \E n : calls' = [calls EXCEPT ![n].watched = FALSE]
    BY <1>7 DEF DeliveryNext, ClientActs, Post, TransportAccepts, TransportRefuses,
                FetchRejects, collector
  <2>2. AskedView' = AskedView
    BY <1>2, <1>4, <2>1, PostAsksNothing, LossAsksNothing DEF CallsTyped
  <2> QED
    BY <1>3, <2>1, <2>2
<1> QED
  BY <1>6, <1>7

\* LedgerSpec: the memory store, under the ingest handlers and the triage API,
\* keeps the promise SQLiteStore keeps: a batch a handler let through is recorded
\* whole or, when RecordBatch fails, not at all.
THEOREM MemoryStoreIsALedger == DeliverySpec => LedgerSpec
  BY LedgerBegins, LedgerGoesOn, DeliveryInvAlways, PTL DEF DeliverySpec, LedgerSpec, Ledger!Spec
-----------------------------------------------------------------------------
(***************************************************************************)
(* PART 4.  The load test and its report.                                  *)
(*                                                                         *)
(* Every request is in one place: counted, in the channel, with a worker   *)
(* or abandoned (Placed).  Every acceptance that is counted, or will be,   *)
(* is of an accepted call nobody is waiting for any more (Credited), so    *)
(* that no call is counted twice; and what those calls carried is counted  *)
(* by the collector and stored (Stored).                                   *)
(***************************************************************************)
Outcome == {"accepted", "refused", "transport"}
Posting == [at : {"permit", "asking", "deliver", "done"}, call : Nat,
            saw : Outcome \cup {"nothing"}]
Summary == [requests : Nat, accepted : Nat, transport : Nat, refused : Nat]

\* The calls at one of the stages, and those a worker waits for.
In(stages) == {i \in DOMAIN calls : calls[i].stage \in stages}
Waited == {worker[w].call : w \in AskedBy("asking")}

\* Acceptances seen: in the channel, and by a worker about to deliver it.
Credits(rs) == {i \in 1..Len(rs) : rs[i] = "accepted"}
Cheerful == {w \in AskedBy("deliver") : worker[w].saw = "accepted"}

LoadTypes ==
    /\ calls \in Seq(Call) /\ now \in Nat
    /\ \A i \in DOMAIN calls : /\ calls[i].batch \in Seq(DOMAIN Fingerprint)
                               /\ Len(calls[i].batch) = LoadBatch
    /\ IsFiniteSet(DOMAIN worker) /\ DOMAIN worker # {}
    /\ worker \in [DOMAIN worker -> Posting]
    /\ \A w \in DOMAIN worker : worker[w].at = "deliver" => worker[w].saw \in Outcome
    /\ results \in Seq(Outcome) /\ summary \in Summary
    /\ initial => permits # Nil /\ calls = <<>>
Owned ==
    /\ abandoned \subseteq DOMAIN calls
    /\ \A w \in AskedBy("asking") : worker[w].call \in DOMAIN calls \ abandoned
    /\ \A v, w \in AskedBy("asking") : worker[v].call = worker[w].call => v = w
Placed ==
    Len(calls) = summary.requests + Len(results) + Cardinality(AskedBy("deliver"))
                   + Cardinality(AskedBy("asking")) + Cardinality(abandoned)
Credited ==
    /\ summary.requests = summary.accepted + summary.transport + summary.refused
    /\ summary.accepted + Cardinality(Credits(results)) + Cardinality(Cheerful)
          <= Cardinality(In({"accepted"}) \ Waited)
Stored ==
    /\ StoreInv
    /\ ingested = LoadBatch * Cardinality(In({"accepted"}))
    /\ sequence = LoadBatch * Cardinality(In({"recorded", "accepted"}))
    /\ IsFiniteSet(Occurrences) /\ Cardinality(Occurrences) = sequence
Reported ==
    exitCode # -1 =>
        /\ AllDone /\ results = <<>>
        /\ exitCode = 0 /\ FailOnError => ~Failures(summary)
LoadInv == LoadTypes /\ Owned /\ Placed /\ Credited /\ Stored /\ Reported

-----------------------------------------------------------------------------
\* The calls at a stage are finitely many.
LEMMA StagesFinite ==
    ASSUME calls \in Seq(Call), NEW stages
    PROVE  IsFiniteSet(In(stages)) /\ Cardinality(In(stages)) \in Nat
           /\ IsFiniteSet(DOMAIN calls)
<1>1. Len(calls) \in Nat /\ DOMAIN calls = 1..Len(calls)
  OBVIOUS
<1>2. 1 \in Int /\ Len(calls) \in Int
  BY <1>1
<1>3. IsFiniteSet(1..Len(calls))
  BY <1>2, FS_Interval
<1>4. In(stages) \in SUBSET (1..Len(calls))
  BY <1>1 DEF In
<1>5. IsFiniteSet(In(stages))
  BY <1>3, <1>4, FS_Subset
<1> QED
  BY <1>1, <1>3, <1>5, FS_CardinalityType

\* A handler moves its call from one stage to the other.
LEMMA StagesAfterMove ==
    ASSUME NEW i \in DOMAIN calls, NEW st, Moved(i, st), NEW stages
    PROVE  In(stages)' = IF st \in stages THEN In(stages) \cup {i} ELSE In(stages) \ {i}
  BY DEF Moved, In

\* A call is among those of its stage.
LEMMA AtStage ==
    ASSUME NEW i \in DOMAIN calls, NEW stages
    PROVE  i \in In(stages) <=> calls[i].stage \in stages
  BY DEF In

\* What a batch adds to the store: as many occurrences as it has items.
LEMMA OccurrencesGrow ==
    ASSUME StoreInv, IsFiniteSet(Occurrences), NEW batch \in Seq(DOMAIN Fingerprint),
           NEW at \in Nat, BatchRecorded(batch, at)
    PROVE  /\ IsFiniteSet(Occurrences')
           /\ Cardinality(Occurrences') = Cardinality(Occurrences) + Len(batch)
<1> DEFINE n == Len(batch)
           Fresh == {Occurrence(batch, at, j) : j \in 1..n}
           f == [j \in 1..n |-> Occurrence(batch, at, j)]
<1>1. /\ Occurrences' = Occurrences \cup Fresh
      /\ \A o \in Occurrences : o.id <= sequence /\ o.id \in Nat
  BY FreshOccurrences
<1>2. sequence \in Nat /\ n \in Nat
  BY DEF StoreInv
<1>3. \A j \in 1..n : Occurrence(batch, at, j).id = sequence + j
  BY DEF Occurrence
<1>4. f \in [1..n -> Fresh] /\ \A o \in Fresh : \E j \in 1..n : f[j] = o
  OBVIOUS
<1>5. \A j \in 1..n : f[j].id = sequence + j
  BY <1>3
<1> HIDE DEF f, Fresh, n
<1>6. \A i, j \in 1..n : f[i] = f[j] => i = j
  <2> SUFFICES ASSUME NEW i \in 1..n, NEW j \in 1..n, f[i] = f[j] PROVE i = j
    OBVIOUS
  <2>1. sequence + i = sequence + j
    BY <1>5
  <2> QED
    BY <1>2, <2>1
<1>7. f \in Surjection(1..n, Fresh)
  BY <1>4, Zenon DEF Surjection
<1>8. f \in Injection(1..n, Fresh)
  BY <1>4, <1>6, Zenon DEF Injection, IsInjective
<1>9. IsFiniteSet(1..n) /\ Cardinality(1..n) = n
  <2>1. 1 \in Int /\ n \in Int
    BY <1>2
  <2>2. IsFiniteSet(1..n) /\ Cardinality(1..n) = IF 1 > n THEN 0 ELSE n - 1 + 1
    BY <2>1, FS_Interval
  <2> QED
    BY <1>2, <2>2
<1>10. IsFiniteSet(Fresh) /\ Cardinality(Fresh) = n
  BY <1>7, <1>8, <1>9, FS_Surjection
<1>11. Occurrences \cap Fresh = {}
  <2> SUFFICES ASSUME NEW o \in Occurrences, o \in Fresh PROVE FALSE
    OBVIOUS
  <2>1. PICK j \in 1..n : o = f[j]
    BY <1>4
  <2>2. o.id = sequence + j /\ o.id <= sequence
    BY <1>1, <1>5, <2>1
  <2> QED
    BY <1>2, <2>2
<1>12. IsFiniteSet(Occurrences \cup Fresh)
       /\ Cardinality(Occurrences \cup Fresh) = Cardinality(Occurrences) + Cardinality(Fresh)
  BY <1>10, <1>11, DisjointUnion
<1> QED
  BY <1>1, <1>10, <1>12 DEF n
-----------------------------------------------------------------------------
(***************************************************************************)
(* The collector's handlers, while the load test stands still.             *)
(***************************************************************************)

\* What the workers and the report know of the calls outlives a handler that
\* takes no acceptance back.
LEMMA LoadStands ==
    ASSUME LoadInv, UNCHANGED load, now' = now, NEW i \in DOMAIN calls, NEW st, Moved(i, st),
           calls[i].stage = "accepted" => st = "accepted"
    PROVE  /\ LoadTypes' /\ Owned' /\ Placed' /\ Credited' /\ Reported'
<1>1. /\ worker' = worker /\ results' = results /\ permits' = permits /\ initial' = initial
      /\ summary' = summary /\ exitCode' = exitCode /\ abandoned' = abandoned
  BY DEF load
<1>2. /\ calls' \in Seq(Call) /\ Len(calls') = Len(calls) /\ DOMAIN calls' = DOMAIN calls
      /\ \A j \in DOMAIN calls : calls'[j].batch = calls[j].batch
  BY DEF Moved
<1>3. /\ LoadTypes /\ Owned /\ Placed /\ Credited /\ Reported /\ calls \in Seq(Call)
  BY DEF LoadInv, LoadTypes
<1>4. \A at : AskedBy(at)' = AskedBy(at)
  BY <1>1 DEF AskedBy
<1>5. LoadTypes'
  <2>1. calls # <<>>
    BY <1>3
  <2> QED
    BY <1>1, <1>2, <1>3, <2>1 DEF LoadTypes
<1>6. Owned'
  BY <1>1, <1>2, <1>3, <1>4 DEF Owned
<1>7. Placed'
  BY <1>1, <1>2, <1>3, <1>4 DEF Placed
<1>8. Credited'
  <2>1. Waited' = Waited /\ Cheerful' = Cheerful /\ Credits(results') = Credits(results)
    BY <1>1, <1>4 DEF Waited, Cheerful
  <2>2. In({"accepted"}) \subseteq In({"accepted"})'
    BY <1>2 DEF Moved, In
  <2>3. IsFiniteSet(In({"accepted"})) /\ IsFiniteSet(In({"accepted"})')
    <3>1. IsFiniteSet(In({"accepted"}))
      BY <1>3, StagesFinite
    <3>2. In({"accepted"})' = In({"accepted"}) \cup {i} \/ In({"accepted"})' = In({"accepted"}) \ {i}
      BY StagesAfterMove
    <3> QED
      BY <3>1, <3>2, FS_AddElement, FS_RemoveElement
  <2>4. PICK S, T : S = In({"accepted"}) \ Waited /\ T = In({"accepted"})' \ Waited
    OBVIOUS
  <2>5. S \in SUBSET T /\ IsFiniteSet(T) /\ IsFiniteSet(S)
    <3>1. S \in SUBSET T /\ T \in SUBSET In({"accepted"})'
      BY <2>2, <2>4
    <3>2. IsFiniteSet(T)
      BY <2>3, <3>1, FS_Subset
    <3> QED
      BY <3>1, <3>2, FS_Subset
  <2>6. Cardinality(S) <= Cardinality(T) /\ Cardinality(S) \in Nat /\ Cardinality(T) \in Nat
    BY <2>5, FS_Subset, FS_CardinalityType
  <2>7. PICK a, b, c : /\ a = summary.accepted /\ b = Cardinality(Credits(results))
                       /\ c = Cardinality(Cheerful)
    OBVIOUS
  <2>8. a + b + c \in Int
    <3>1. a \in Nat /\ IsFiniteSet(Credits(results)) /\ IsFiniteSet(Cheerful)
      <4>1. summary \in Summary /\ results \in Seq(Outcome) /\ IsFiniteSet(DOMAIN worker)
        BY <1>3 DEF LoadTypes
      <4>2. a \in Nat
        BY <2>7, <4>1 DEF Summary
      <4>3. Len(results) \in Int /\ 1 \in Int
        BY <4>1
      <4>4. IsFiniteSet(1..Len(results))
        BY <4>3, FS_Interval
      <4>5. Credits(results) \in SUBSET (1..Len(results)) /\ Cheerful \in SUBSET DOMAIN worker
        BY DEF Credits, Cheerful, AskedBy
      <4> QED
        BY <4>1, <4>2, <4>4, <4>5, FS_Subset
    <3>2. b \in Nat /\ c \in Nat
      BY <2>7, <3>1, FS_CardinalityType
    <3> QED
      BY <3>1, <3>2
  <2>9. a + b + c <= Cardinality(S)
    BY <1>3, <2>4, <2>7 DEF Credited
  <2>10. a + b + c <= Cardinality(T)
    BY <2>6, <2>8, <2>9
  <2> QED
    BY <1>1, <1>3, <2>1, <2>4, <2>7, <2>10 DEF Credited
<1>9. Reported'
  BY <1>1, <1>3 DEF Reported, AllDone, Failures
<1> QED
  BY <1>5, <1>6, <1>7, <1>8, <1>9
\* A handler that stores nothing and counts nothing.
LEMMA StoredStands ==
    ASSUME LoadInv, UNCHANGED <<store, ingested>>, NEW i \in DOMAIN calls, NEW st,
           calls[i].stage \in {"sent", "prepared"}, Moved(i, st), st \in {"prepared", "refused"}
    PROVE  Stored'
<1>1. Stored /\ StoreInv /\ ingested' = ingested /\ sequence' = sequence /\ Occurrences' = Occurrences
  BY DEF LoadInv, Stored, store, Occurrences
<1>2. StoreInv'
  BY <1>1, StoreStands
<1>3. In({"accepted"})' = In({"accepted"}) \ {i} /\ i \notin In({"accepted"})
  BY StagesAfterMove, AtStage
<1>4. /\ In({"recorded", "accepted"})' = In({"recorded", "accepted"}) \ {i}
      /\ i \notin In({"recorded", "accepted"})
  BY StagesAfterMove, AtStage
<1>5. In({"accepted"})' = In({"accepted"})
      /\ In({"recorded", "accepted"})' = In({"recorded", "accepted"})
  BY <1>3, <1>4
<1> QED
  BY <1>1, <1>2, <1>5 DEF Stored

\* So many calls more, so many items more.
LEMMA OneBatchMore ==
    ASSUME NEW m \in Nat
    PROVE  LoadBatch * (m + 1) = LoadBatch * m + LoadBatch /\ LoadBatch \in Nat \ {0}
  BY LoadAssumption

\* Every handler keeps the invariant of the load test.
LEMMA HandleKeepsLoad ==
    ASSUME LoadInv, Handle, UNCHANGED load
    PROVE  LoadInv'
<1>1. PICK i \in DOMAIN calls :
         Prepare(i) \/ Record(i) \/ RecordFails(i) \/ Accept202(i)
  BY DEF Handle
<1>2. /\ calls \in Seq(Call) /\ now \in Nat /\ Stored /\ StoreInv
      /\ calls[i].batch \in Seq(DOMAIN Fingerprint) /\ Len(calls[i].batch) = LoadBatch
  BY DEF LoadInv, LoadTypes, Stored
<1>3. calls[i].at \in Nat
  <2>1. calls[i] \in Call
    BY <1>2
  <2> QED
    BY <2>1 DEF Call
<1>4. CASE Prepare(i)
  <2>1. /\ calls[i].stage = "sent" /\ UNCHANGED <<store, ingested>> /\ now' = now
        /\ calls' = At(i, "refused") \/ calls' = [At(i, "prepared") EXCEPT ![i].at = now]
    BY <1>4 DEF Prepare
  <2>2. Moved(i, "refused") \/ Moved(i, "prepared")
    BY <1>2, <2>1, HandlerMoves
  <2> QED
    BY <2>1, <2>2, StoredStands, LoadStands DEF LoadInv
<1>5. CASE RecordFails(i)
  <2>1. /\ calls[i].stage = "prepared" /\ UNCHANGED <<store, ingested>> /\ now' = now
        /\ calls' = At(i, "refused")
    BY <1>5 DEF RecordFails, Failing
  <2>2. Moved(i, "refused")
    BY <1>2, <2>1, HandlerMoves
  <2> QED
    BY <2>1, <2>2, StoredStands, LoadStands DEF LoadInv
<1>6. CASE Record(i)
  <2>1. /\ calls[i].stage = "prepared" /\ RecordBatch(calls[i].batch, calls[i].at)
        /\ calls' = At(i, "recorded") /\ now' = now /\ ingested' = ingested
    BY <1>6 DEF Record
  <2>2. Moved(i, "recorded")
    BY <1>2, <2>1, HandlerMoves
  <2>3. PICK b, at : b = calls[i].batch /\ at = calls[i].at
    OBVIOUS
  <2>4. StoreInv' /\ BatchRecorded(b, at)
    BY <1>2, <1>3, <2>1, <2>3, RecordBatchKeeps
  <2>5. /\ IsFiniteSet(Occurrences')
        /\ Cardinality(Occurrences') = Cardinality(Occurrences) + LoadBatch
    BY <1>2, <1>3, <2>3, <2>4, OccurrencesGrow DEF Stored
  <2>6. sequence' = sequence + LoadBatch
    BY <1>2, <2>3, <2>4 DEF BatchRecorded
  <2>7. In({"accepted"})' = In({"accepted"})
    BY <2>1, <2>2, StagesAfterMove, AtStage
  <2>8. /\ In({"recorded", "accepted"})' = In({"recorded", "accepted"}) \cup {i}
        /\ i \notin In({"recorded", "accepted"})
    BY <2>1, <2>2, StagesAfterMove, AtStage
  <2>9. PICK R : R = In({"recorded", "accepted"})
    OBVIOUS
  <2>10. IsFiniteSet(R) /\ Cardinality(R) \in Nat
    BY <1>2, <2>9, StagesFinite
  <2>11. Cardinality(R \cup {i}) = Cardinality(R) + 1
    BY <2>8, <2>9, <2>10, FS_AddElement
  <2>12. LoadBatch * (Cardinality(R) + 1) = LoadBatch * Cardinality(R) + LoadBatch
    BY <2>10, OneBatchMore
  <2>13. sequence' = LoadBatch * Cardinality(In({"recorded", "accepted"})')
    BY <1>2, <2>6, <2>8, <2>9, <2>11, <2>12 DEF Stored
  <2>14. Stored'
    BY <1>2, <2>1, <2>4, <2>5, <2>6, <2>7, <2>13 DEF Stored
  <2> QED
    BY <2>1, <2>2, <2>14, LoadStands DEF LoadInv
<1>7. CASE Accept202(i)
  <2>1. /\ calls[i].stage = "recorded" /\ UNCHANGED store /\ now' = now
        /\ ingested' = ingested + LoadBatch /\ calls' = At(i, "accepted")
    BY <1>2, <1>7 DEF Accept202, IngestedAfter
  <2>2. Moved(i, "accepted")
    BY <1>2, <2>1, HandlerMoves
  <2>3. StoreInv' /\ sequence' = sequence /\ Occurrences' = Occurrences
    BY <1>2, <2>1, StoreStands DEF store, Occurrences
  <2>4. /\ In({"accepted"})' = In({"accepted"}) \cup {i}
        /\ i \notin In({"accepted"})
    BY <2>1, <2>2, StagesAfterMove, AtStage
  <2>5. In({"recorded", "accepted"})' = In({"recorded", "accepted"})
    BY <2>1, <2>2, StagesAfterMove, AtStage
  <2>6. PICK R : R = In({"accepted"})
    OBVIOUS
  <2>7. IsFiniteSet(R) /\ Cardinality(R) \in Nat
    BY <1>2, <2>6, StagesFinite
  <2>8. Cardinality(R \cup {i}) = Cardinality(R) + 1
    BY <2>4, <2>6, <2>7, FS_AddElement
  <2>9. LoadBatch * (Cardinality(R) + 1) = LoadBatch * Cardinality(R) + LoadBatch
    BY <2>7, OneBatchMore
  <2>10. ingested' = LoadBatch * Cardinality(In({"accepted"})')
    BY <1>2, <2>1, <2>4, <2>6, <2>8, <2>9 DEF Stored
  <2>11. Stored'
    BY <1>2, <2>3, <2>5, <2>10 DEF Stored
  <2> QED
    BY <2>1, <2>2, <2>11, LoadStands DEF LoadInv
<1> QED
  BY <1>1, <1>4, <1>5, <1>6, <1>7
-----------------------------------------------------------------------------
(***************************************************************************)
(* A worker goes on.                                                       *)
(***************************************************************************)

\* Worker w is now in the state v, and the others stay where they are.
Turned(w, v) ==
    /\ worker' \in [DOMAIN worker -> Posting] /\ worker'[w] = v
    /\ \A x \in DOMAIN worker : x # w => worker'[x] = worker[x]

\* Who is where after it, and how many.
LEMMA AskedAfterTurn ==
    ASSUME LoadTypes, NEW w \in DOMAIN worker, NEW v, Turned(w, v), NEW at
    PROVE  /\ AskedBy(at)' = IF v.at = at THEN AskedBy(at) \cup {w} ELSE AskedBy(at) \ {w}
           /\ w \in AskedBy(at) <=> worker[w].at = at
           /\ IsFiniteSet(AskedBy(at)) /\ Cardinality(AskedBy(at)) \in Nat
           /\ IsFiniteSet(AskedBy(at)')
           /\ Cardinality(AskedBy(at)') =
                 Cardinality(AskedBy(at)) + (IF v.at = at THEN 1 ELSE 0)
                                          - (IF worker[w].at = at THEN 1 ELSE 0)
<1>1. AskedBy(at) \in SUBSET DOMAIN worker /\ (w \in AskedBy(at) <=> worker[w].at = at)
  BY DEF AskedBy
<1>2. IsFiniteSet(AskedBy(at))
  BY <1>1, FS_Subset DEF LoadTypes
<1>3. Cardinality(AskedBy(at)) \in Nat
  BY <1>2, FS_CardinalityType
<1>4. AskedBy(at)' = IF v.at = at THEN AskedBy(at) \cup {w} ELSE AskedBy(at) \ {w}
  BY DEF AskedBy, Turned
<1>5. /\ IsFiniteSet(AskedBy(at) \cup {w}) /\ IsFiniteSet(AskedBy(at) \ {w})
      /\ Cardinality(AskedBy(at) \cup {w}) =
            IF w \in AskedBy(at) THEN Cardinality(AskedBy(at)) ELSE Cardinality(AskedBy(at)) + 1
      /\ Cardinality(AskedBy(at) \ {w}) =
            IF w \in AskedBy(at) THEN Cardinality(AskedBy(at)) - 1 ELSE Cardinality(AskedBy(at))
  BY <1>2, FS_AddElement, FS_RemoveElement
<1>6. IsFiniteSet(AskedBy(at)')
  BY <1>4, <1>5
<1>7. PICK S, T : S = AskedBy(at) /\ T = AskedBy(at)'
  OBVIOUS
<1>8. Cardinality(T) = Cardinality(S) + (IF v.at = at THEN 1 ELSE 0)
                                      - (IF worker[w].at = at THEN 1 ELSE 0)
  <2>1. CASE v.at = at
    <3>1. Cardinality(T) = IF worker[w].at = at THEN Cardinality(S) ELSE Cardinality(S) + 1
      BY <1>1, <1>4, <1>5, <1>7, <2>1
    <3> QED
      BY <1>3, <1>7, <2>1, <3>1
  <2>2. CASE v.at # at
    <3>1. Cardinality(T) = IF worker[w].at = at THEN Cardinality(S) - 1 ELSE Cardinality(S)
      BY <1>1, <1>4, <1>5, <1>7, <2>2
    <3> QED
      BY <1>3, <1>7, <2>2, <3>1
  <2> QED
    BY <2>1, <2>2
<1> QED
  BY <1>1, <1>2, <1>3, <1>4, <1>6, <1>7, <1>8

\* The acceptances about to be delivered.
Brings(v) == v.at = "deliver" /\ v.saw = "accepted"
LEMMA CheerAfterTurn ==
    ASSUME LoadTypes, NEW w \in DOMAIN worker, NEW v, Turned(w, v)
    PROVE  /\ IsFiniteSet(Cheerful) /\ Cardinality(Cheerful) \in Nat
           /\ Cardinality(Cheerful') =
                 Cardinality(Cheerful) + (IF Brings(v) THEN 1 ELSE 0)
                                       - (IF Brings(worker[w]) THEN 1 ELSE 0)
<1>1. Cheerful \in SUBSET DOMAIN worker /\ (w \in Cheerful <=> Brings(worker[w]))
  BY DEF Cheerful, AskedBy, Brings
<1>2. IsFiniteSet(Cheerful)
  BY <1>1, FS_Subset DEF LoadTypes
<1>3. Cardinality(Cheerful) \in Nat
  BY <1>2, FS_CardinalityType
<1>4. Cheerful' = IF Brings(v) THEN Cheerful \cup {w} ELSE Cheerful \ {w}
  BY DEF Cheerful, AskedBy, Turned, Brings
<1>5. /\ Cardinality(Cheerful \cup {w}) =
            IF w \in Cheerful THEN Cardinality(Cheerful) ELSE Cardinality(Cheerful) + 1
      /\ Cardinality(Cheerful \ {w}) =
            IF w \in Cheerful THEN Cardinality(Cheerful) - 1 ELSE Cardinality(Cheerful)
  BY <1>2, FS_AddElement, FS_RemoveElement
<1>6. PICK S, T : S = Cheerful /\ T = Cheerful'
  OBVIOUS
<1>7. Cardinality(T) = Cardinality(S) + (IF Brings(v) THEN 1 ELSE 0)
                                      - (IF Brings(worker[w]) THEN 1 ELSE 0)
  <2>1. CASE Brings(v)
    <3>1. Cardinality(T) = IF Brings(worker[w]) THEN Cardinality(S) ELSE Cardinality(S) + 1
      BY <1>1, <1>4, <1>5, <1>6, <2>1
    <3> QED
      BY <1>3, <1>6, <2>1, <3>1
  <2>2. CASE ~Brings(v)
    <3>1. Cardinality(T) = IF Brings(worker[w]) THEN Cardinality(S) - 1 ELSE Cardinality(S)
      BY <1>1, <1>4, <1>5, <1>6, <2>2
    <3> QED
      BY <1>3, <1>6, <2>2, <3>1
  <2> QED
    BY <2>1, <2>2
<1> QED
  BY <1>2, <1>3, <1>6, <1>7

\* What the sums add up are numbers.
LEMMA SumsAreNumbers ==
    ASSUME LoadTypes, Owned
    PROVE  /\ Len(calls) \in Nat /\ Len(results) \in Nat
           /\ summary.requests \in Nat /\ summary.accepted \in Nat
           /\ summary.transport \in Nat /\ summary.refused \in Nat
           /\ IsFiniteSet(Credits(results)) /\ Cardinality(Credits(results)) \in Nat
           /\ IsFiniteSet(abandoned) /\ Cardinality(abandoned) \in Nat
           /\ IsFiniteSet(In({"accepted"}) \ Waited)
           /\ Cardinality(In({"accepted"}) \ Waited) \in Nat
<1>1. Len(calls) \in Nat /\ Len(results) \in Nat /\ calls \in Seq(Call)
  BY DEF LoadTypes
<1>2. /\ summary.requests \in Nat /\ summary.accepted \in Nat
      /\ summary.transport \in Nat /\ summary.refused \in Nat
  BY DEF LoadTypes, Summary
<1>3. IsFiniteSet(Credits(results))
  <2>1. 1 \in Int /\ Len(results) \in Int
    BY <1>1
  <2>2. IsFiniteSet(1..Len(results))
    BY <2>1, FS_Interval
  <2>3. Credits(results) \in SUBSET (1..Len(results))
    BY DEF Credits
  <2> QED
    BY <2>2, <2>3, FS_Subset
<1>4. IsFiniteSet(DOMAIN calls) /\ IsFiniteSet(In({"accepted"}))
  BY <1>1, StagesFinite
<1>5. IsFiniteSet(abandoned)
  BY <1>4, FS_Subset DEF Owned
<1>6. IsFiniteSet(In({"accepted"}) \ Waited)
  <2>1. In({"accepted"}) \ Waited \in SUBSET In({"accepted"})
    OBVIOUS
  <2> QED
    BY <1>4, <2>1, FS_Subset
<1> QED
  BY <1>1, <1>2, <1>3, <1>5, <1>6, FS_CardinalityType

\* A step after which the store has what it had, and the calls their stages.
LEMMA StoredAgain ==
    ASSUME Stored, UNCHANGED <<store, ingested>>,
           In({"accepted"})' = In({"accepted"}),
           In({"recorded", "accepted"})' = In({"recorded", "accepted"})
    PROVE  Stored'
<1>1. StoreInv /\ ingested' = ingested /\ sequence' = sequence /\ Occurrences' = Occurrences
  BY DEF Stored, store, Occurrences
<1>2. StoreInv'
  BY <1>1, StoreStands DEF Stored
<1> QED
  BY <1>1, <1>2 DEF Stored
\* What is credited stays so while the calls nobody waits for grow: by one, if
\* the worker has now seen an acceptance.
LEMMA CreditedAfterTurn ==
    ASSUME LoadInv, NEW w \in DOMAIN worker, NEW v, Turned(w, v),
           results' = results, summary' = summary,
           IsFiniteSet(In({"accepted"})'),
           In({"accepted"}) \ Waited \subseteq (In({"accepted"}) \ Waited)',
           Brings(v) => \E c \in (In({"accepted"}) \ Waited)' : c \notin In({"accepted"}) \ Waited
    PROVE  Credited'
<1>1. LoadTypes /\ Owned /\ Credited
  BY DEF LoadInv
<1>2. PICK S, T : S = In({"accepted"}) \ Waited /\ T = (In({"accepted"}) \ Waited)'
  OBVIOUS
<1>3. IsFiniteSet(S) /\ Cardinality(S) \in Nat /\ S \in SUBSET T
  BY <1>1, <1>2, SumsAreNumbers
<1>4. IsFiniteSet(T)
  <2>1. T \in SUBSET In({"accepted"})'
    BY <1>2
  <2> QED
    BY <2>1, FS_Subset
<1>5. Cardinality(T) \in Nat /\ Cardinality(S) <= Cardinality(T)
  BY <1>3, <1>4, FS_CardinalityType, FS_Subset
<1>6. Brings(v) => Cardinality(S) + 1 <= Cardinality(T)
  <2> SUFFICES ASSUME Brings(v) PROVE Cardinality(S) + 1 <= Cardinality(T)
    OBVIOUS
  <2>1. PICK c \in T : c \notin S
    BY <1>2
  <2>2. S \cup {c} \in SUBSET T
    BY <1>3, <2>1
  <2>3. Cardinality(S \cup {c}) = Cardinality(S) + 1
    BY <1>3, <2>1, FS_AddElement
  <2>4. Cardinality(S \cup {c}) <= Cardinality(T)
    BY <1>4, <2>2, FS_Subset
  <2> QED
    BY <2>3, <2>4
<1>7. PICK a, b, c, d : /\ a = summary.accepted /\ b = Cardinality(Credits(results))
                        /\ c = Cardinality(Cheerful) /\ d = Cardinality(Cheerful')
  OBVIOUS
<1>8. a \in Nat /\ b \in Nat
  BY <1>1, <1>7, SumsAreNumbers
<1>9. c \in Nat /\ d = c + (IF Brings(v) THEN 1 ELSE 0) - (IF Brings(worker[w]) THEN 1 ELSE 0)
  BY <1>1, <1>7, CheerAfterTurn
<1>10. a + b + c <= Cardinality(S)
  BY <1>1, <1>2, <1>7 DEF Credited
<1>11. a + b + d <= Cardinality(T)
  <2>1. CASE Brings(v)
    <3>1. d <= c + 1 /\ d \in Int
      BY <1>9, <2>1
    <3> QED
      BY <1>3, <1>5, <1>6, <1>8, <1>9, <1>10, <2>1, <3>1
  <2>2. CASE ~Brings(v)
    <3>1. d <= c /\ d \in Int
      BY <1>9, <2>2
    <3> QED
      BY <1>3, <1>5, <1>8, <1>9, <1>10, <3>1
  <2> QED
    BY <2>1, <2>2
<1>12. summary'.requests = summary'.accepted + summary'.transport + summary'.refused
  BY <1>1 DEF Credited
<1> QED
  BY <1>2, <1>7, <1>11, <1>12 DEF Credited

\* A worker that is not done: there is no report yet.
LEMMA NoReportYet ==
    ASSUME LoadInv, NEW w \in DOMAIN worker, worker[w].at # "done", exitCode' = exitCode
    PROVE  exitCode = -1 /\ Reported'
<1>1. exitCode = -1
  BY DEF LoadInv, Reported, AllDone
<1> QED
  BY <1>1 DEF Reported

\* The next payload is as long as it should be and of events that have a group.
Postable(b) == b \in Seq(DOMAIN Fingerprint) /\ b \in Seq(Nat) /\ Len(b) = LoadBatch
LEMMA PayloadProperties ==
    ASSUME NEW n \in Nat
    PROVE  Postable(Payload(n % Payloads))
<1>1. LoadBatch \in Nat \ {0} /\ Cardinal \in Nat \ {0} /\ 1..Cardinal \subseteq DOMAIN Fingerprint
  BY LoadAssumption
<1>2. Payloads \in Nat \ {0}
  <2>1. Cardinal + LoadBatch - 1 \in Nat /\ LoadBatch <= Cardinal + LoadBatch - 1
    BY <1>1
  <2> QED
    BY <1>1, <2>1 DEF Payloads
<1>3. n % Payloads \in Nat
  BY <1>2
<1>4. PICK p \in Nat : p = n % Payloads
  BY <1>3
<1>5. ASSUME NEW e \in 1..LoadBatch
      PROVE  ((p * LoadBatch + e - 1) % Cardinal) + 1 \in 1..Cardinal
  <2>1. p * LoadBatch \in Nat
    BY <1>1
  <2>2. p * LoadBatch + e - 1 \in Nat
    BY <1>1, <2>1
  <2>3. PICK x \in Nat : x = p * LoadBatch + e - 1
    BY <2>2
  <2>4. x % Cardinal \in 0..(Cardinal - 1)
    BY <1>1
  <2> QED
    BY <1>1, <2>3, <2>4
<1>6. PICK b : b = [e \in 1..LoadBatch |-> ((p * LoadBatch + e - 1) % Cardinal) + 1]
  OBVIOUS
<1>7. DOMAIN b = 1..LoadBatch /\ \A e \in 1..LoadBatch : b[e] \in 1..Cardinal
  BY <1>5, <1>6
<1>8. b = [e \in 1..LoadBatch |-> b[e]]
  BY <1>6
<1>9. b \in Seq(1..Cardinal) /\ Len(b) = LoadBatch
  BY <1>1, <1>7, <1>8
<1>10. b \in Seq(DOMAIN Fingerprint) /\ b \in Seq(Nat)
  BY <1>1, <1>9
<1> QED
  BY <1>4, <1>6, <1>9, <1>10 DEF Payload, Postable
\* A worker's state is replaced.
LEMMA TurnOf ==
    ASSUME LoadTypes, NEW w \in DOMAIN worker, NEW v \in Posting,
           worker' = [worker EXCEPT ![w] = v]
    PROVE  Turned(w, v) /\ DOMAIN worker' = DOMAIN worker
  BY DEF Turned, LoadTypes

\* A worker's state is written in part.
InPart(w, at, what, a, v) ==
    /\ a \in Posting /\ a = [worker[w] EXCEPT !.at = at] /\ a.at = at
    /\ v \in Posting /\ v = [a EXCEPT !.saw = what] /\ v.at = at /\ v.saw = what
LEMMA TurnInPart ==
    ASSUME LoadTypes, NEW w \in DOMAIN worker, NEW what \in Outcome, NEW at \in {"deliver", "done"}
    PROVE  \E a, v : InPart(w, at, what, a, v)
<1>1. worker[w] \in Posting
  BY DEF LoadTypes
<1>2. PICK a : a = [worker[w] EXCEPT !.at = at]
  OBVIOUS
<1>3. a \in Posting /\ a.at = at
  BY <1>1, <1>2 DEF Posting
<1>4. PICK v : v = [a EXCEPT !.saw = what]
  OBVIOUS
<1>5. v \in Posting /\ v.at = at /\ v.saw = what
  BY <1>3, <1>4 DEF Posting
<1> QED
  BY <1>2, <1>3, <1>4, <1>5 DEF InPart

Ends(w) == worker' = [worker EXCEPT ![w].at = "done"]
Ended(w, v) == v \in Posting /\ Turned(w, v) /\ DOMAIN worker' = DOMAIN worker /\ v.at = "done"
LEMMA TurnToDone ==
    ASSUME LoadTypes, NEW w \in DOMAIN worker, Ends(w)
    PROVE  \E v : Ended(w, v)
<1>1. "transport" \in Outcome
  BY DEF Outcome
<1>2. PICK a : a \in Posting /\ a = [worker[w] EXCEPT !.at = "done"] /\ a.at = "done"
  <2>1. PICK a, v : InPart(w, "done", "transport", a, v)
    BY <1>1, TurnInPart
  <2> QED
    BY <2>1 DEF InPart
<1>3. worker' = [worker EXCEPT ![w] = a]
  BY <1>2 DEF Ends, LoadTypes
<1>4. Turned(w, a) /\ DOMAIN worker' = DOMAIN worker
  BY <1>2, <1>3, TurnOf
<1> QED
  BY <1>2, <1>4 DEF Ended

Seen(w, what, v) ==
    /\ v \in Posting /\ Turned(w, v) /\ DOMAIN worker' = DOMAIN worker
    /\ v.at = "deliver" /\ v.saw = what
LEMMA TurnToDeliver ==
    ASSUME LoadTypes, NEW w \in DOMAIN worker, NEW what \in Outcome, Saw(w, what)
    PROVE  \E v : Seen(w, what, v)
<1>1. PICK a, v : InPart(w, "deliver", what, a, v)
  BY TurnInPart
<1>2. /\ a = [worker[w] EXCEPT !.at = "deliver"] /\ v = [a EXCEPT !.saw = what]
      /\ v \in Posting /\ v.at = "deliver" /\ v.saw = what
  BY <1>1 DEF InPart
<1>3. worker' = [worker EXCEPT ![w] = v]
  BY <1>2 DEF Saw, LoadTypes
<1>4. Turned(w, v) /\ DOMAIN worker' = DOMAIN worker
  BY <1>2, <1>3, TurnOf
<1> QED
  BY <1>2, <1>4 DEF Seen

\* What of LoadTypes is about the workers.
WorkerTypes ==
    /\ IsFiniteSet(DOMAIN worker) /\ DOMAIN worker # {}
    /\ worker \in [DOMAIN worker -> Posting]
    /\ \A w \in DOMAIN worker : worker[w].at = "deliver" => worker[w].saw \in Outcome
LEMMA TurnKeepsTypes ==
    ASSUME LoadTypes, NEW w \in DOMAIN worker, NEW v, Turned(w, v),
           DOMAIN worker' = DOMAIN worker, v.at = "deliver" => v.saw \in Outcome
    PROVE  WorkerTypes'
  BY DEF LoadTypes, Turned, WorkerTypes

\* The step in which a worker posts.
LEMMA PermittedKeeps ==
    ASSUME LoadInv, NEW w \in DOMAIN worker, Permitted(w)
    PROVE  LoadInv'
<1> DEFINE n == Len(calls) + 1
           v == [at |-> "asking", call |-> n, saw |-> "nothing"]
           b == Payload(Len(calls) % Payloads)
           c == Request(b, "fetch")
<1>1. LoadTypes /\ Owned /\ Placed /\ Credited /\ Stored /\ Reported /\ calls \in Seq(Call)
  BY DEF LoadInv, LoadTypes
<1>2. /\ worker[w].at = "permit" /\ initial' = FALSE
      /\ calls' = Append(calls, c) /\ worker' = [worker EXCEPT ![w] = v]
      /\ UNCHANGED <<store, ingested>> /\ now' = now /\ results' = results /\ summary' = summary
      /\ exitCode' = exitCode /\ abandoned' = abandoned
  BY DEF Permitted, MayPost
<1>3. Len(calls) \in Nat /\ n \in Nat
  BY <1>1
<1>4. Postable(b)
  BY <1>3, PayloadProperties
<1>5. v \in Posting /\ v.at = "asking" /\ v.call = n
  BY <1>3 DEF Posting
<1> HIDE DEF b
<1>6. c \in Call /\ c.batch = b /\ c.stage = "sent"
  BY <1>4 DEF Request, Call, Postable
<1> HIDE DEF v, c
<1>7. Turned(w, v) /\ DOMAIN worker' = DOMAIN worker
  BY <1>1, <1>2, <1>5, TurnOf
<1>8. /\ calls' \in Seq(Call) /\ Len(calls') = n /\ DOMAIN calls' = DOMAIN calls \cup {n}
      /\ n \notin DOMAIN calls
      /\ \A i \in DOMAIN calls : calls'[i] = calls[i]
      /\ calls'[n] = c
  BY <1>1, <1>2, <1>6, AppendedCall
<1> HIDE DEF n
<1>9. LoadTypes'
  <2>1. \A i \in DOMAIN calls' : /\ calls'[i].batch \in Seq(DOMAIN Fingerprint)
                                 /\ Len(calls'[i].batch) = LoadBatch
    BY <1>1, <1>4, <1>6, <1>8 DEF LoadTypes, Postable
  <2>2. WorkerTypes'
    BY <1>1, <1>5, <1>7, TurnKeepsTypes
  <2>3. now \in Nat /\ results \in Seq(Outcome) /\ summary \in Summary
    BY <1>1 DEF LoadTypes
  <2> QED
    BY <1>2, <1>8, <2>1, <2>2, <2>3 DEF LoadTypes, WorkerTypes
<1>10. AskedBy("asking")' = AskedBy("asking") \cup {w} /\ w \notin AskedBy("asking")
  BY <1>1, <1>2, <1>5, <1>7, AskedAfterTurn
<1>11. /\ worker'[w].call = n
       /\ \A x \in AskedBy("asking") : /\ worker'[x].call = worker[x].call
                                       /\ worker[x].call \in DOMAIN calls \ abandoned
  BY <1>1, <1>5, <1>7, <1>10 DEF Turned, Owned, AskedBy
<1>12. Owned'
  <2>1. abandoned' \subseteq DOMAIN calls'
    BY <1>1, <1>2, <1>8 DEF Owned
  <2>2. n \notin abandoned
    BY <1>1, <1>8 DEF Owned
  <2>3. \A x \in AskedBy("asking")' : worker'[x].call \in DOMAIN calls' \ abandoned'
    BY <1>2, <1>8, <1>10, <1>11, <2>2
  <2>4. \A x, y \in AskedBy("asking")' : worker'[x].call = worker'[y].call => x = y
    <3> SUFFICES ASSUME NEW x \in AskedBy("asking")', NEW y \in AskedBy("asking")',
                        worker'[x].call = worker'[y].call
                 PROVE  x = y
      OBVIOUS
    <3>1. CASE x = w \/ y = w
      BY <1>8, <1>10, <1>11, <3>1
    <3>2. CASE x # w /\ y # w
      BY <1>1, <1>10, <1>11, <3>2 DEF Owned
    <3> QED
      BY <3>1, <3>2
  <2> QED
    BY <2>1, <2>3, <2>4 DEF Owned
<1>13. Placed'
  <2>1. /\ Cardinality(AskedBy("asking")') = Cardinality(AskedBy("asking")) + 1 - 0
        /\ Cardinality(AskedBy("asking")) \in Nat
    BY <1>1, <1>2, <1>5, <1>7, AskedAfterTurn
  <2>2. /\ Cardinality(AskedBy("deliver")') = Cardinality(AskedBy("deliver")) + 0 - 0
        /\ Cardinality(AskedBy("deliver")) \in Nat
    BY <1>1, <1>2, <1>5, <1>7, AskedAfterTurn
  <2>3. /\ Len(results) \in Nat /\ summary.requests \in Nat /\ Cardinality(abandoned) \in Nat
    BY <1>1, SumsAreNumbers
  <2>4. Len(calls') = Len(calls) + 1 /\ Len(calls) \in Nat
    BY <1>3, <1>8 DEF n
  <2> QED
    BY <1>1, <1>2, <2>1, <2>2, <2>3, <2>4, SMTT(60) DEF Placed
<1>14. In({"accepted"})' = In({"accepted"})
       /\ In({"recorded", "accepted"})' = In({"recorded", "accepted"})
  BY <1>6, <1>8 DEF In
<1>15. Credited'
  <2>1. Waited' = Waited \cup {n}
    BY <1>10, <1>11 DEF Waited
  <2>2. n \notin In({"accepted"})
    BY <1>8 DEF In
  <2>3. (In({"accepted"}) \ Waited)' = In({"accepted"}) \ Waited
    BY <1>14, <2>1, <2>2
  <2>4. IsFiniteSet(In({"accepted"})')
    BY <1>1, <1>14, StagesFinite
  <2>5. ~Brings(v)
    BY <1>5 DEF Brings
  <2> QED
    BY <1>2, <1>7, <2>3, <2>4, <2>5, CreditedAfterTurn
<1>16. Stored'
  BY <1>1, <1>2, <1>14, StoredAgain
<1>17. Reported'
  BY <1>2, NoReportYet
<1> QED
  BY <1>9, <1>12, <1>13, <1>15, <1>16, <1>17 DEF LoadInv
\* A step of a worker after which the calls are those there were, whoever
\* watches them.
CallsLast ==
    /\ calls' \in Seq(Call) /\ Len(calls') = Len(calls) /\ DOMAIN calls' = DOMAIN calls
    /\ \A i \in DOMAIN calls : calls'[i].batch = calls[i].batch /\ calls'[i].stage = calls[i].stage
LEMMA AnswerLost ==
    ASSUME calls \in Seq(Call), NEW i \in DOMAIN calls,
           calls' = [calls EXCEPT ![i].watched = FALSE]
    PROVE  CallsLast
<1> DEFINE n == Len(calls)
<1>1. n \in Nat /\ DOMAIN calls = 1..n /\ \A j \in 1..n : calls[j] \in Call
  OBVIOUS
<1>2. PICK c : c = [calls[i] EXCEPT !.watched = FALSE]
  OBVIOUS
<1>3. c \in Call /\ c.batch = calls[i].batch /\ c.stage = calls[i].stage
  <2>1. calls[i] \in Call
    BY <1>1
  <2> QED
    BY <1>2, <2>1 DEF Call
<1>4. DOMAIN calls' = DOMAIN calls /\ \A j \in DOMAIN calls : calls'[j] = IF j = i THEN c ELSE calls[j]
  BY <1>2
<1>5. \A j \in 1..n : calls'[j] \in Call
  BY <1>1, <1>3, <1>4
<1>6. calls' = [j \in 1..n |-> calls'[j]]
  BY <1>1
<1>7. calls' \in Seq(Call) /\ Len(calls') = n
  <2>1. \A d : (d = [j \in 1..n |-> d[j]] /\ \A j \in 1..n : d[j] \in Call)
                  => d \in Seq(Call) /\ Len(d) = n
    BY <1>1
  <2> QED
    BY <1>5, <1>6, <2>1, Zenon
<1> QED
  BY <1>3, <1>4, <1>7 DEF CallsLast

\* What such a step of worker w to the state v keeps of the invariant.
LEMMA TurnKeeps ==
    ASSUME LoadInv, NEW w \in DOMAIN worker, NEW v, Turned(w, v),
           DOMAIN worker' = DOMAIN worker, v.at = "deliver" => v.saw \in Outcome,
           CallsLast, UNCHANGED <<store, ingested, now, permits, initial, summary, exitCode>>,
           results' \in Seq(Outcome), worker[w].at # "done"
    PROVE  /\ LoadTypes' /\ Stored' /\ Reported'
           /\ In({"accepted"})' = In({"accepted"}) /\ IsFiniteSet(In({"accepted"})')
<1>1. LoadTypes /\ Stored /\ calls \in Seq(Call)
  BY DEF LoadInv, LoadTypes
<1>2. /\ calls' \in Seq(Call) /\ Len(calls') = Len(calls) /\ DOMAIN calls' = DOMAIN calls
      /\ \A i \in DOMAIN calls : /\ calls'[i].batch = calls[i].batch
                                 /\ calls'[i].stage = calls[i].stage
  BY DEF CallsLast
<1>3. LoadTypes'
  <2>1. \A i \in DOMAIN calls' : /\ calls'[i].batch \in Seq(DOMAIN Fingerprint)
                                 /\ Len(calls'[i].batch) = LoadBatch
    BY <1>1, <1>2 DEF LoadTypes
  <2>2. WorkerTypes'
    BY <1>1, TurnKeepsTypes
  <2>3. now \in Nat /\ summary \in Summary
    BY <1>1 DEF LoadTypes
  <2>4. initial' => permits' # Nil /\ calls' = <<>>
    BY <1>1, <1>2 DEF LoadTypes
  <2> QED
    BY <1>2, <2>1, <2>2, <2>3, <2>4 DEF LoadTypes, WorkerTypes
<1>4. In({"accepted"})' = In({"accepted"})
      /\ In({"recorded", "accepted"})' = In({"recorded", "accepted"})
  BY <1>2 DEF In
<1>5. Stored'
  BY <1>1, <1>4, StoredAgain
<1>6. Reported'
  BY NoReportYet
<1>7. IsFiniteSet(In({"accepted"})')
  BY <1>1, <1>4, StagesFinite
<1> QED
  BY <1>3, <1>4, <1>5, <1>6, <1>7

\* A worker that waited for an answer waits no more for its call, and no other
\* worker did.
LEMMA WaitEnds ==
    ASSUME LoadInv, NEW w \in DOMAIN worker, NEW v, Turned(w, v),
           worker[w].at = "asking", v.at # "asking", DOMAIN calls' = DOMAIN calls,
           abandoned' = abandoned \/ abandoned' = abandoned \cup {worker[w].call}
    PROVE  /\ Waited' = Waited \ {worker[w].call} /\ worker[w].call \in Waited
           /\ worker[w].call \in DOMAIN calls \ abandoned
           /\ Owned'
<1>1. LoadTypes /\ Owned
  BY DEF LoadInv
<1>2. AskedBy("asking")' = AskedBy("asking") \ {w} /\ w \in AskedBy("asking")
  BY <1>1, AskedAfterTurn
<1>3. PICK c : c = worker[w].call
  OBVIOUS
<1>4. c \in DOMAIN calls \ abandoned
  BY <1>1, <1>2, <1>3 DEF Owned
<1>5. \A x \in AskedBy("asking")' : /\ worker'[x].call = worker[x].call
                                    /\ x \in AskedBy("asking") /\ worker[x].call # c
  BY <1>1, <1>2, <1>3 DEF Turned, Owned, AskedBy
<1>6. Waited' = Waited \ {c} /\ c \in Waited
  <2>1. Waited' \subseteq Waited \ {c}
    BY <1>5 DEF Waited
  <2>2. ASSUME NEW x \in AskedBy("asking"), worker[x].call # c
        PROVE  worker[x].call \in Waited'
    <3>1. x \in AskedBy("asking")'
      BY <1>2, <1>3, <2>2
    <3> QED
      BY <1>5, <3>1 DEF Waited
  <2>3. Waited \ {c} \subseteq Waited'
    BY <2>2 DEF Waited
  <2> QED
    BY <1>2, <1>3, <2>1, <2>3 DEF Waited
<1>7. Owned'
  <2>1. abandoned' \subseteq DOMAIN calls'
    BY <1>1, <1>3, <1>4 DEF Owned
  <2>2. \A x \in AskedBy("asking")' : worker'[x].call \in DOMAIN calls' \ abandoned'
    BY <1>1, <1>3, <1>5 DEF Owned
  <2>3. \A x, y \in AskedBy("asking")' : worker'[x].call = worker'[y].call => x = y
    BY <1>1, <1>5 DEF Owned
  <2> QED
    BY <2>1, <2>2, <2>3 DEF Owned
<1> QED
  BY <1>3, <1>4, <1>6, <1>7

\* What a worker waits for is not disturbed by one that does not wait.
LEMMA OthersWait ==
    ASSUME LoadInv, NEW w \in DOMAIN worker, NEW v, Turned(w, v),
           worker[w].at # "asking", v.at # "asking", UNCHANGED <<calls, abandoned>>
    PROVE  Waited' = Waited /\ Owned'
<1>1. LoadTypes /\ Owned
  BY DEF LoadInv
<1>2. AskedBy("asking")' = AskedBy("asking") \ {w} /\ w \notin AskedBy("asking")
  BY <1>1, AskedAfterTurn
<1>3. AskedBy("asking")' = AskedBy("asking")
  BY <1>2
<1>4. \A x \in AskedBy("asking") : worker'[x].call = worker[x].call
  BY <1>2 DEF Turned, AskedBy
<1>5. Waited' = Waited
  BY <1>3, <1>4 DEF Waited
<1>6. Owned'
  BY <1>1, <1>3, <1>4 DEF Owned
<1> QED
  BY <1>5, <1>6
\* A worker learns what became of its request.
LEMMA AnsweredKeeps ==
    ASSUME LoadInv, NEW w \in DOMAIN worker, NEW what \in Outcome, worker[w].at = "asking",
           Saw(w, what), CallsLast,
           what = "accepted" => calls[worker[w].call].stage = "accepted",
           UNCHANGED <<store, ingested, now, results, permits, initial, summary, exitCode, abandoned>>
    PROVE  LoadInv'
<1>1. LoadTypes /\ Owned /\ Placed
  BY DEF LoadInv
<1>2. PICK v : Seen(w, what, v)
  BY <1>1, TurnToDeliver
<1>3. /\ v \in Posting /\ Turned(w, v) /\ DOMAIN worker' = DOMAIN worker
      /\ v.at = "deliver" /\ v.saw = what
  BY <1>2 DEF Seen
<1>4. DOMAIN calls' = DOMAIN calls /\ Len(calls') = Len(calls)
  BY DEF CallsLast
<1>5. /\ LoadTypes' /\ Stored' /\ Reported'
      /\ In({"accepted"})' = In({"accepted"}) /\ IsFiniteSet(In({"accepted"})')
  BY <1>1, <1>3, TurnKeeps DEF LoadTypes
<1>6. PICK c : c = worker[w].call
  OBVIOUS
<1>7. Owned' /\ Waited' = Waited \ {c} /\ c \in Waited /\ c \in DOMAIN calls
  BY <1>3, <1>4, <1>6, WaitEnds
<1>8. Placed'
  <2>1. /\ Cardinality(AskedBy("asking")') = Cardinality(AskedBy("asking")) + 0 - 1
        /\ Cardinality(AskedBy("asking")) \in Nat
    BY <1>1, <1>3, AskedAfterTurn
  <2>2. /\ Cardinality(AskedBy("deliver")') = Cardinality(AskedBy("deliver")) + 1 - 0
        /\ Cardinality(AskedBy("deliver")) \in Nat
    BY <1>1, <1>3, AskedAfterTurn
  <2>3. /\ Len(results) \in Nat /\ summary.requests \in Nat /\ Cardinality(abandoned) \in Nat
    BY <1>1, SumsAreNumbers
  <2>4. Len(calls') = Len(calls) /\ Len(calls) \in Nat
    BY <1>1, <1>4, SumsAreNumbers
  <2> QED
    BY <1>1, <2>1, <2>2, <2>3, <2>4, SMTT(60) DEF Placed
<1>9. Credited'
  <2>1. In({"accepted"}) \ Waited \subseteq (In({"accepted"}) \ Waited)'
    BY <1>5, <1>7
  <2>2. ASSUME Brings(v)
        PROVE  c \in (In({"accepted"}) \ Waited)' /\ c \notin In({"accepted"}) \ Waited
    <3>1. calls[c].stage = "accepted"
      BY <1>3, <1>6, <2>2 DEF Brings
    <3>2. c \in In({"accepted"})
      BY <1>7, <3>1, AtStage
    <3> QED
      BY <1>5, <1>7, <3>2
  <2> QED
    BY <1>3, <1>5, <2>1, <2>2, CreditedAfterTurn
<1> QED
  BY <1>5, <1>7, <1>8, <1>9 DEF LoadInv

\* A worker that the deadline finds waiting for an answer: its request is abandoned.
LEMMA AbandonedKeeps ==
    ASSUME LoadInv, NEW w \in DOMAIN worker, worker[w].at = "asking",
           Ends(w), abandoned' = abandoned \cup {worker[w].call}, CallsLast,
           UNCHANGED <<store, ingested, now, results, permits, initial, summary, exitCode>>
    PROVE  LoadInv'
<1>1. LoadTypes /\ Owned /\ Placed
  BY DEF LoadInv
<1>2. PICK v : /\ v \in Posting /\ Turned(w, v) /\ DOMAIN worker' = DOMAIN worker
               /\ v.at = "done"
  BY <1>1, TurnToDone DEF Ended
<1>3. DOMAIN calls' = DOMAIN calls /\ Len(calls') = Len(calls)
  BY DEF CallsLast
<1>4. /\ LoadTypes' /\ Stored' /\ Reported'
      /\ In({"accepted"})' = In({"accepted"}) /\ IsFiniteSet(In({"accepted"})')
  BY <1>1, <1>2, TurnKeeps DEF LoadTypes
<1>5. PICK c : c = worker[w].call
  OBVIOUS
<1>6. Owned' /\ Waited' = Waited \ {c} /\ c \notin abandoned
  BY <1>2, <1>3, <1>5, WaitEnds
<1>7. Placed'
  <2>1. /\ Cardinality(AskedBy("asking")') = Cardinality(AskedBy("asking")) + 0 - 1
        /\ Cardinality(AskedBy("asking")) \in Nat
    BY <1>1, <1>2, AskedAfterTurn
  <2>2. /\ Cardinality(AskedBy("deliver")') = Cardinality(AskedBy("deliver")) + 0 - 0
        /\ Cardinality(AskedBy("deliver")) \in Nat
    BY <1>1, <1>2, AskedAfterTurn
  <2>3. /\ Len(results) \in Nat /\ summary.requests \in Nat /\ Cardinality(abandoned) \in Nat
        /\ IsFiniteSet(abandoned)
    BY <1>1, SumsAreNumbers
  <2>4. Cardinality(abandoned') = Cardinality(abandoned) + 1
    <3>1. Cardinality(abandoned \cup {c}) = Cardinality(abandoned) + 1
      BY <1>6, <2>3, FS_AddElement
    <3> QED
      BY <1>5, <3>1
  <2>5. Len(calls') = Len(calls) /\ Len(calls) \in Nat
    BY <1>1, <1>3, SumsAreNumbers
  <2> QED
    BY <1>1, <2>1, <2>2, <2>3, <2>4, <2>5, SMTT(60) DEF Placed
<1>8. Credited'
  <2>1. In({"accepted"}) \ Waited \subseteq (In({"accepted"}) \ Waited)'
    BY <1>4, <1>6
  <2>2. ~Brings(v)
    BY <1>2 DEF Brings
  <2> QED
    BY <1>2, <1>4, <2>1, <2>2, CreditedAfterTurn
<1> QED
  BY <1>4, <1>6, <1>7, <1>8 DEF LoadInv

\* A worker that gets no permit is done.
LEMMA NotPermittedKeeps ==
    ASSUME LoadInv, NEW w \in DOMAIN worker, NotPermitted(w)
    PROVE  LoadInv'
<1>1. /\ LoadTypes /\ Owned /\ Placed /\ calls \in Seq(Call) /\ results \in Seq(Outcome)
  BY DEF LoadInv, LoadTypes
<1>2. /\ worker[w].at = "permit" /\ Ends(w)
      /\ UNCHANGED <<store, calls, ingested, now, results, permits, initial, summary, exitCode,
                     abandoned>>
  BY DEF NotPermitted, MayLeave, collector, Ends
<1>3. PICK v : /\ v \in Posting /\ Turned(w, v) /\ DOMAIN worker' = DOMAIN worker
               /\ v.at = "done"
  BY <1>1, <1>2, TurnToDone DEF Ended
<1>4. CallsLast
  BY <1>1, <1>2 DEF CallsLast
<1>5. /\ LoadTypes' /\ Stored' /\ Reported'
      /\ In({"accepted"})' = In({"accepted"}) /\ IsFiniteSet(In({"accepted"})')
  BY <1>1, <1>2, <1>3, <1>4, TurnKeeps
<1>6. Owned' /\ Waited' = Waited
  BY <1>2, <1>3, OthersWait
<1>7. Placed'
  <2>1. /\ Cardinality(AskedBy("asking")') = Cardinality(AskedBy("asking")) + 0 - 0
        /\ Cardinality(AskedBy("asking")) \in Nat
    BY <1>1, <1>2, <1>3, AskedAfterTurn
  <2>2. /\ Cardinality(AskedBy("deliver")') = Cardinality(AskedBy("deliver")) + 0 - 0
        /\ Cardinality(AskedBy("deliver")) \in Nat
    BY <1>1, <1>2, <1>3, AskedAfterTurn
  <2> QED
    BY <1>1, <1>2, <2>1, <2>2 DEF Placed
<1>8. Credited'
  <2>1. In({"accepted"}) \ Waited \subseteq (In({"accepted"}) \ Waited)'
    BY <1>5, <1>6
  <2>2. ~Brings(v)
    BY <1>3 DEF Brings
  <2> QED
    BY <1>2, <1>3, <1>5, <2>1, <2>2, CreditedAfterTurn
<1> QED
  BY <1>5, <1>6, <1>7, <1>8 DEF LoadInv
-----------------------------------------------------------------------------
(***************************************************************************)
(* The channel and the summary.                                            *)
(***************************************************************************)

\* An observation is sent ...
LEMMA CreditsAppended ==
    ASSUME NEW rs \in Seq(Outcome), NEW x \in Outcome
    PROVE  /\ Append(rs, x) \in Seq(Outcome) /\ Len(Append(rs, x)) = Len(rs) + 1
           /\ IsFiniteSet(Credits(rs)) /\ Cardinality(Credits(rs)) \in Nat
           /\ Cardinality(Credits(Append(rs, x))) =
                 Cardinality(Credits(rs)) + (IF x = "accepted" THEN 1 ELSE 0)
<1>1. PICK n \in Nat : n = Len(rs)
  OBVIOUS
<1>2. PICK t : t = Append(rs, x)
  OBVIOUS
<1>3. /\ t \in Seq(Outcome) /\ Len(t) = n + 1 /\ t[n + 1] = x
      /\ \A i \in 1..n : t[i] = rs[i]
  BY <1>1, <1>2
<1>4. IsFiniteSet(Credits(rs)) /\ Credits(rs) \in SUBSET (1..n)
  <2>1. 1 \in Int /\ n \in Int
    OBVIOUS
  <2>2. IsFiniteSet(1..n)
    BY <2>1, FS_Interval
  <2>3. Credits(rs) \in SUBSET (1..n)
    BY <1>1 DEF Credits
  <2> QED
    BY <2>2, <2>3, FS_Subset
<1>5. Cardinality(Credits(rs)) \in Nat
  BY <1>4, FS_CardinalityType
<1>6. n + 1 \notin Credits(rs)
  BY <1>4
<1>7. Credits(t) = IF x = "accepted" THEN Credits(rs) \cup {n + 1} ELSE Credits(rs)
  <2>1. 1..(n + 1) = (1..n) \cup {n + 1}
    OBVIOUS
  <2> QED
    BY <1>1, <1>3, <2>1 DEF Credits
<1>8. Cardinality(Credits(rs) \cup {n + 1}) = Cardinality(Credits(rs)) + 1
  BY <1>4, <1>6, FS_AddElement
<1>9. Cardinality(Credits(t)) = Cardinality(Credits(rs)) + (IF x = "accepted" THEN 1 ELSE 0)
  BY <1>5, <1>7, <1>8
<1> QED
  BY <1>1, <1>2, <1>3, <1>4, <1>5, <1>9

\* ... and received.
LEMMA CreditsReceived ==
    ASSUME NEW rs \in Seq(Outcome), rs # <<>>
    PROVE  /\ Head(rs) \in Outcome /\ Tail(rs) \in Seq(Outcome)
           /\ Len(rs) \in Nat /\ Len(Tail(rs)) = Len(rs) - 1
           /\ Cardinality(Credits(Tail(rs))) \in Nat
           /\ Cardinality(Credits(rs)) =
                 Cardinality(Credits(Tail(rs))) + (IF Head(rs) = "accepted" THEN 1 ELSE 0)
<1>1. PICK n \in Nat : n = Len(rs)
  OBVIOUS
<1>2. PICK t : t = Tail(rs)
  OBVIOUS
<1>3. /\ t \in Seq(Outcome) /\ Len(t) = n - 1 /\ n >= 1 /\ rs[1] = Head(rs)
      /\ Head(rs) \in Outcome
      /\ \A i \in 1..(n - 1) : t[i] = rs[i + 1]
  BY <1>1, <1>2
<1> DEFINE A == Credits(t)
           B == Credits(rs) \ {1}
           f == [i \in A |-> i + 1]
<1>4. IsFiniteSet(Credits(rs)) /\ Cardinality(Credits(rs)) \in Nat
      /\ IsFiniteSet(A) /\ Cardinality(A) \in Nat
  BY <1>3, CreditsAppended
<1>5. Credits(rs) = {i \in 1..n : rs[i] = "accepted"}
  BY <1>1 DEF Credits
<1>6. A = {i \in 1..(n - 1) : t[i] = "accepted"}
  BY <1>3 DEF Credits
<1> HIDE DEF A
<1>7. f \in [A -> B]
  <2>1. ASSUME NEW i \in A PROVE i + 1 \in B
    <3>1. i \in 1..(n - 1) /\ t[i] = "accepted" /\ t[i] = rs[i + 1]
      BY <1>3, <1>6
    <3>2. i + 1 \in 1..n /\ i + 1 # 1 /\ rs[i + 1] = "accepted"
      BY <3>1
    <3> QED
      BY <1>5, <3>2
  <2> QED
    BY <2>1
<1>8. \A j \in B : \E i \in A : f[i] = j
  <2> SUFFICES ASSUME NEW j \in B PROVE \E i \in A : f[i] = j
    OBVIOUS
  <2>1. j \in 1..n /\ j # 1 /\ rs[j] = "accepted"
    BY <1>5
  <2>2. j - 1 \in 1..(n - 1) /\ j - 1 + 1 = j
    BY <2>1
  <2>3. j - 1 \in A
    BY <1>3, <1>6, <2>1, <2>2
  <2> QED
    BY <2>2, <2>3
<1>9. \A i, j \in A : f[i] = f[j] => i = j
  <2>1. \A i \in A : i \in Int
    BY <1>6
  <2> QED
    BY <2>1
<1> HIDE DEF f, B
<1>10. f \in Surjection(A, B)
  BY <1>7, <1>8, Zenon DEF Surjection
<1>11. f \in Injection(A, B)
  BY <1>7, <1>9, Zenon DEF Injection, IsInjective
<1>12. Cardinality(B) = Cardinality(A)
  BY <1>4, <1>10, <1>11, FS_Surjection
<1>13. Cardinality(B) = IF 1 \in Credits(rs) THEN Cardinality(Credits(rs)) - 1
                        ELSE Cardinality(Credits(rs))
  BY <1>4, FS_RemoveElement DEF B
<1>14. 1 \in Credits(rs) <=> Head(rs) = "accepted"
  BY <1>3, <1>5
<1>15. Cardinality(Credits(rs)) =
          Cardinality(A) + (IF Head(rs) = "accepted" THEN 1 ELSE 0)
  BY <1>4, <1>12, <1>13, <1>14
<1> QED
  BY <1>1, <1>2, <1>3, <1>4, <1>15 DEF A

\* The summary counts it once, as what it is.
LEMMA ObservedOnce ==
    ASSUME NEW s \in Summary, NEW x \in Outcome
    PROVE  /\ Observed(s, x) \in Summary
           /\ Observed(s, x).requests = s.requests + 1
           /\ Observed(s, x).accepted = s.accepted + (IF x = "accepted" THEN 1 ELSE 0)
           /\ Observed(s, x).refused = s.refused + (IF x = "refused" THEN 1 ELSE 0)
           /\ Observed(s, x).transport = s.transport + (IF x = "transport" THEN 1 ELSE 0)
<1>1. /\ s.requests \in Nat /\ s.accepted \in Nat /\ s.refused \in Nat /\ s.transport \in Nat
  BY DEF Summary
<1>2. PICK a, r, t \in Nat : /\ a = s.accepted + (IF x = "accepted" THEN 1 ELSE 0)
                             /\ r = s.refused + (IF x = "refused" THEN 1 ELSE 0)
                             /\ t = s.transport + (IF x = "transport" THEN 1 ELSE 0)
  BY <1>1
<1>3. PICK s1 : s1 = [s EXCEPT !.requests = s.requests + 1]
  OBVIOUS
<1>4. /\ s1 \in Summary /\ s1.requests = s.requests + 1 /\ s1.accepted = s.accepted
      /\ s1.refused = s.refused /\ s1.transport = s.transport
  BY <1>1, <1>3 DEF Summary
<1>5. PICK s2 : s2 = [s1 EXCEPT !.accepted = a]
  OBVIOUS
<1>6. /\ s2 \in Summary /\ s2.requests = s.requests + 1 /\ s2.accepted = a
      /\ s2.refused = s.refused /\ s2.transport = s.transport
  BY <1>1, <1>2, <1>4, <1>5 DEF Summary
<1>7. PICK s3 : s3 = [s2 EXCEPT !.refused = r]
  OBVIOUS
<1>8. /\ s3 \in Summary /\ s3.requests = s.requests + 1 /\ s3.accepted = a
      /\ s3.refused = r /\ s3.transport = s.transport
  BY <1>1, <1>2, <1>6, <1>7 DEF Summary
<1>9. PICK s4 : s4 = [s3 EXCEPT !.transport = t]
  OBVIOUS
<1>10. /\ s4 \in Summary /\ s4.requests = s.requests + 1 /\ s4.accepted = a
       /\ s4.refused = r /\ s4.transport = t
  BY <1>1, <1>2, <1>8, <1>9 DEF Summary
<1>11. Observed(s, x) = s4
  BY <1>2, <1>3, <1>4, <1>5, <1>6, <1>7, <1>8, <1>9 DEF Observed
<1> QED
  BY <1>2, <1>10, <1>11
\* A worker hands over what it saw.
LEMMA DeliverKeeps ==
    ASSUME LoadInv, NEW w \in DOMAIN worker, Deliver(w)
    PROVE  LoadInv'
<1>1. /\ LoadTypes /\ Owned /\ Placed /\ Credited /\ calls \in Seq(Call)
      /\ results \in Seq(Outcome)
  BY DEF LoadInv, LoadTypes
<1>2. /\ worker[w].at = "deliver" /\ worker' = [worker EXCEPT ![w] = Waiting0]
      /\ results' = Append(results, worker[w].saw)
      /\ UNCHANGED <<store, calls, ingested, now, permits, initial, summary, exitCode, abandoned>>
  BY DEF Deliver, MayDeliver, collector
<1>3. PICK x : x = worker[w].saw
  OBVIOUS
<1>4. x \in Outcome /\ results' = Append(results, x)
  BY <1>1, <1>2, <1>3 DEF LoadTypes
<1>5. PICK v : v = Waiting0
  OBVIOUS
<1>6. v \in Posting /\ v.at = "permit"
  BY <1>5 DEF Waiting0, Posting
<1>7. Turned(w, v) /\ DOMAIN worker' = DOMAIN worker
  BY <1>1, <1>2, <1>5, <1>6, TurnOf
<1>8. CallsLast
  BY <1>1, <1>2 DEF CallsLast
<1>9. /\ results' \in Seq(Outcome) /\ Len(results') = Len(results) + 1
      /\ Cardinality(Credits(results)) \in Nat
      /\ Cardinality(Credits(results')) =
            Cardinality(Credits(results)) + (IF x = "accepted" THEN 1 ELSE 0)
  BY <1>1, <1>4, CreditsAppended
<1>10. /\ LoadTypes' /\ Stored' /\ Reported' /\ In({"accepted"})' = In({"accepted"})
  BY <1>2, <1>6, <1>7, <1>8, <1>9, TurnKeeps
<1>11. Owned' /\ Waited' = Waited
  BY <1>2, <1>6, <1>7, OthersWait
<1>12. Placed'
  <2>1. /\ Cardinality(AskedBy("asking")') = Cardinality(AskedBy("asking")) + 0 - 0
        /\ Cardinality(AskedBy("asking")) \in Nat
    BY <1>1, <1>2, <1>6, <1>7, AskedAfterTurn
  <2>2. /\ Cardinality(AskedBy("deliver")') = Cardinality(AskedBy("deliver")) + 0 - 1
        /\ Cardinality(AskedBy("deliver")) \in Nat
    BY <1>1, <1>2, <1>6, <1>7, AskedAfterTurn
  <2>3. /\ Len(results) \in Nat /\ summary.requests \in Nat /\ Cardinality(abandoned) \in Nat
    BY <1>1, SumsAreNumbers
  <2>4. Len(calls) \in Nat /\ calls' = calls /\ summary' = summary /\ abandoned' = abandoned
    BY <1>1, <1>2
  <2>5. Len(results') = Len(results) + 1
    BY <1>9
  <2> QED
    BY <1>1, <2>1, <2>2, <2>3, <2>4, <2>5, SMTT(60) DEF Placed
<1>13. Credited'
  <2>1. PICK a, b, c, e, d, g :
           /\ a = summary.accepted /\ b = Cardinality(Credits(results))
           /\ c = Cardinality(Cheerful) /\ d = Cardinality(In({"accepted"}) \ Waited)
           /\ e = Cardinality(Credits(results')) /\ g = Cardinality(Cheerful')
    OBVIOUS
  <2>2. a \in Nat /\ b \in Nat /\ d \in Nat
    BY <1>1, <2>1, SumsAreNumbers
  <2>3. ~Brings(v) /\ (Brings(worker[w]) <=> x = "accepted")
    BY <1>2, <1>3, <1>6 DEF Brings
  <2>4. c \in Nat /\ g = c + 0 - (IF x = "accepted" THEN 1 ELSE 0)
    BY <1>1, <1>7, <2>1, <2>3, CheerAfterTurn
  <2>5. e = b + (IF x = "accepted" THEN 1 ELSE 0)
    BY <1>9, <2>1
  <2>6. a + b + c <= d
    BY <1>1, <2>1 DEF Credited
  <2>7. a + e + g <= d
    BY <2>2, <2>4, <2>5, <2>6
  <2>8. d = Cardinality((In({"accepted"}) \ Waited)')
    BY <1>10, <1>11, <2>1
  <2>9. summary'.requests = summary'.accepted + summary'.transport + summary'.refused
    BY <1>1, <1>2 DEF Credited
  <2> QED
    BY <1>2, <2>1, <2>7, <2>8, <2>9 DEF Credited
<1> QED
  BY <1>10, <1>11, <1>12, <1>13 DEF LoadInv

\* The summary takes an observation from the channel.
LEMMA CollectKeeps ==
    ASSUME LoadInv, Collect
    PROVE  LoadInv'
<1>1. /\ LoadTypes /\ Owned /\ Placed /\ Credited /\ Stored /\ calls \in Seq(Call)
      /\ results \in Seq(Outcome) /\ summary \in Summary
  BY DEF LoadInv, LoadTypes
<1>2. /\ results # <<>> /\ summary' = Observed(summary, Head(results)) /\ results' = Tail(results)
      /\ UNCHANGED <<store, calls, ingested, now, worker, permits, initial, exitCode, abandoned>>
  BY DEF Collect, collector
<1>3. PICK x : x = Head(results)
  OBVIOUS
<1>4. /\ x \in Outcome /\ results' \in Seq(Outcome)
      /\ Len(results) \in Nat /\ Len(results') = Len(results) - 1
      /\ Cardinality(Credits(results')) \in Nat
      /\ Cardinality(Credits(results)) =
            Cardinality(Credits(results')) + (IF x = "accepted" THEN 1 ELSE 0)
  BY <1>1, <1>2, <1>3, CreditsReceived
<1>5. /\ summary' \in Summary /\ summary'.requests = summary.requests + 1
      /\ summary'.accepted = summary.accepted + (IF x = "accepted" THEN 1 ELSE 0)
      /\ summary'.refused = summary.refused + (IF x = "refused" THEN 1 ELSE 0)
      /\ summary'.transport = summary.transport + (IF x = "transport" THEN 1 ELSE 0)
  BY <1>1, <1>2, <1>3, <1>4, ObservedOnce
<1>6. LoadTypes'
  BY <1>1, <1>2, <1>4, <1>5 DEF LoadTypes
<1>7. \A at : AskedBy(at)' = AskedBy(at)
  BY <1>2 DEF AskedBy
<1>8. Waited' = Waited /\ Cheerful' = Cheerful /\ In({"accepted"})' = In({"accepted"})
      /\ In({"recorded", "accepted"})' = In({"recorded", "accepted"})
  BY <1>2, <1>7 DEF Waited, Cheerful, In
<1>9. Owned'
  BY <1>1, <1>2, <1>7 DEF Owned
<1>10. /\ summary.requests \in Nat /\ summary.accepted \in Nat /\ summary.transport \in Nat
       /\ summary.refused \in Nat /\ Cardinality(abandoned) \in Nat
  BY <1>1, SumsAreNumbers
<1>11. Placed'
  <2>1. PICK d, k : d = Cardinality(AskedBy("deliver")) /\ k = Cardinality(AskedBy("asking"))
    OBVIOUS
  <2>2. d \in Nat /\ k \in Nat
    <3>1. IsFiniteSet(DOMAIN worker)
      BY <1>1 DEF LoadTypes
    <3>2. AskedBy("deliver") \in SUBSET DOMAIN worker /\ AskedBy("asking") \in SUBSET DOMAIN worker
      BY DEF AskedBy
    <3> QED
      BY <2>1, <3>1, <3>2, FS_Subset, FS_CardinalityType
  <2>3. Len(calls) = summary.requests + Len(results) + d + k + Cardinality(abandoned)
    BY <1>1, <2>1 DEF Placed
  <2>4. Len(calls) = summary'.requests + Len(results') + d + k + Cardinality(abandoned)
    BY <1>4, <1>5, <1>10, <2>2, <2>3
  <2> QED
    BY <1>2, <1>7, <2>1, <2>4 DEF Placed
<1>12. Credited'
  <2>1. PICK c, d : /\ c = Cardinality(Cheerful) /\ d = Cardinality(In({"accepted"}) \ Waited)
    OBVIOUS
  <2>2. c \in Nat /\ d \in Nat
    <3>1. Cheerful \in SUBSET DOMAIN worker /\ IsFiniteSet(DOMAIN worker)
      BY <1>1 DEF LoadTypes, Cheerful, AskedBy
    <3>2. c \in Nat
      BY <2>1, <3>1, FS_Subset, FS_CardinalityType
    <3> QED
      BY <1>1, <2>1, <3>2, SumsAreNumbers
  <2>3. /\ summary.requests = summary.accepted + summary.transport + summary.refused
        /\ summary.accepted + Cardinality(Credits(results)) + c <= d
    BY <1>1, <2>1 DEF Credited
  <2>4. summary'.accepted + Cardinality(Credits(results')) + c <= d
    <3>1. PICK a, b, e, g : /\ a = summary.accepted /\ b = Cardinality(Credits(results))
                            /\ e = summary'.accepted /\ g = Cardinality(Credits(results'))
      OBVIOUS
    <3>2. /\ a \in Nat /\ g \in Nat /\ a + b + c <= d
          /\ b = g + (IF x = "accepted" THEN 1 ELSE 0) /\ e = a + (IF x = "accepted" THEN 1 ELSE 0)
      BY <1>4, <1>5, <1>10, <2>3, <3>1
    <3>3. e + g + c <= d
      BY <2>2, <3>2
    <3> QED
      BY <3>1, <3>3
  <2>5. summary'.requests = summary'.accepted + summary'.transport + summary'.refused
    BY <1>4, <1>5, <1>10, <2>3, SMTT(60) DEF Outcome
  <2> QED
    BY <1>8, <2>1, <2>4, <2>5 DEF Credited
<1>13. Stored'
  BY <1>1, <1>2, <1>8, StoredAgain
<1>14. Reported'
  BY <1>2 DEF LoadInv, Reported
<1> QED
  BY <1>6, <1>9, <1>11, <1>12, <1>13, <1>14 DEF LoadInv

\* The report, the ticker and the deadline move no request.
LEMMA QuietLoadKeeps ==
    ASSUME LoadInv, UNCHANGED <<collector, worker, results, summary, abandoned>>,
           initial' = initial, permits' = permits \/ permits' \in Nat, Reported'
    PROVE  LoadInv'
<1>1. /\ UNCHANGED <<store, ingested, calls, now, worker, results, summary, abandoned>>
      /\ LoadTypes /\ Owned /\ Placed /\ Credited /\ Stored
  BY DEF LoadInv, collector
<1>2. \A at : AskedBy(at)' = AskedBy(at)
  BY <1>1 DEF AskedBy
<1>3. Waited' = Waited /\ Cheerful' = Cheerful /\ In({"accepted"})' = In({"accepted"})
      /\ In({"recorded", "accepted"})' = In({"recorded", "accepted"})
  BY <1>1, <1>2 DEF Waited, Cheerful, In
<1>4. LoadTypes'
  BY <1>1 DEF LoadTypes, Nil
<1>5. Owned' /\ Placed'
  BY <1>1, <1>2 DEF Owned, Placed
<1>6. Credited'
  BY <1>1, <1>3 DEF Credited
<1>7. Stored'
  BY <1>1, <1>3, StoredAgain
<1> QED
  BY <1>4, <1>5, <1>6, <1>7 DEF LoadInv
-----------------------------------------------------------------------------
(***************************************************************************)
(* The whole load test, and the two kinds of poster together.              *)
(***************************************************************************)

\* Every step of a worker, of the summary and of the collector.
LEMMA WorkerKeeps ==
    ASSUME LoadInv, NEW w \in DOMAIN worker,
           Permitted(w) \/ NotPermitted(w) \/ Answered(w) \/ TransportFails(w) \/ Deliver(w)
    PROVE  LoadInv'
<1>1. LoadTypes /\ Owned /\ calls \in Seq(Call) /\ results \in Seq(Outcome)
  BY DEF LoadInv, LoadTypes
<1>2. ASSUME worker[w].at = "asking"
      PROVE  worker[w].call \in DOMAIN calls
  BY <1>1, <1>2 DEF Owned, AskedBy
<1>3. CASE Permitted(w)
  BY <1>3, PermittedKeeps
<1>4. CASE NotPermitted(w)
  BY <1>4, NotPermittedKeeps
<1>5. CASE Answered(w)
  <2>1. PICK what : what = calls[worker[w].call].stage
    OBVIOUS
  <2>2. /\ worker[w].at = "asking" /\ what \in {"accepted", "refused"} /\ Saw(w, what)
        /\ UNCHANGED <<store, calls, ingested, now, results, permits, initial, summary, exitCode,
                       abandoned>>
    BY <1>5, <2>1 DEF Answered, collector
  <2>3. what \in Outcome /\ CallsLast
    BY <1>1, <2>2 DEF Outcome, CallsLast
  <2> QED
    BY <2>1, <2>2, <2>3, AnsweredKeeps
<1>6. CASE TransportFails(w)
  <2>1. /\ worker[w].at = "asking"
        /\ calls' = [calls EXCEPT ![worker[w].call].watched = FALSE]
        /\ UNCHANGED <<store, ingested, now, results, permits, initial, summary, exitCode>>
    BY <1>6 DEF TransportFails
  <2>2. CallsLast
    <3>1. PICK c \in DOMAIN calls : c = worker[w].call
      BY <1>2, <2>1
    <3>2. calls' = [calls EXCEPT ![c].watched = FALSE]
      BY <2>1, <3>1
    <3> QED
      BY <1>1, <3>2, AnswerLost
  <2>3. CASE Saw(w, "transport") /\ UNCHANGED abandoned
    <3>1. "transport" \in Outcome /\ "transport" # "accepted"
      BY DEF Outcome
    <3> QED
      BY <2>1, <2>2, <2>3, <3>1, AnsweredKeeps
  <2>4. CASE Ends(w) /\ abandoned' = abandoned \cup {worker[w].call}
    BY <2>1, <2>2, <2>4, AbandonedKeeps
  <2> QED
    BY <1>6, <2>3, <2>4 DEF TransportFails, Ends
<1>7. CASE Deliver(w)
  BY <1>7, DeliverKeeps
<1> QED
  BY <1>3, <1>4, <1>5, <1>6, <1>7

LEMMA LoadNextKeepsInv == LoadInv /\ LoadNext => LoadInv'
<1> SUFFICES ASSUME LoadInv, LoadNext PROVE LoadInv'
  OBVIOUS
<1>1. CASE \E w \in DOMAIN worker : \/ Permitted(w) \/ NotPermitted(w) \/ Answered(w)
                                    \/ TransportFails(w) \/ Deliver(w)
  BY <1>1, WorkerKeeps
<1>2. CASE Collect
  BY <1>2, CollectKeeps
<1>3. CASE Report
  <2>1. /\ AllDone /\ results = <<>> /\ UNCHANGED <<collector, worker, results, summary, abandoned>>
        /\ initial' = initial /\ permits' = permits
        /\ exitCode' = IF FailOnError /\ Failures(summary) THEN 1 ELSE 0
    BY <1>3 DEF Report, MayReport
  <2>2. Reported'
    BY <2>1 DEF Reported, AllDone, Failures
  <2> QED
    BY <2>1, <2>2, QuietLoadKeeps
<1>4. CASE TickerTicks \/ Expire
  <2>1. /\ UNCHANGED <<collector, worker, results, summary, exitCode, abandoned>>
        /\ initial' = initial /\ (permits' = permits \/ permits' \in Nat)
    BY <1>4 DEF TickerTicks, Expire
  <2>2. Reported'
    BY <2>1 DEF LoadInv, Reported, AllDone, Failures
  <2> QED
    BY <2>1, <2>2, QuietLoadKeeps
<1>5. CASE Handle /\ UNCHANGED load
  BY <1>5, HandleKeepsLoad
<1> QED
  BY <1>1, <1>2, <1>3, <1>4, <1>5 DEF LoadNext, LoadActs

LEMMA LoadInitInv == CollectorInit /\ LoadInit => LoadInv
<1> SUFFICES ASSUME CollectorInit, LoadInit PROVE LoadInv
  OBVIOUS
<1>1. PICK started \in (SUBSET Worker) \ {{}} : worker = [w \in started |-> Waiting0]
  BY DEF LoadInit
<1>2. PICK rated \in Rates : permits = (IF rated THEN 0 ELSE Nil) /\ initial = rated
  BY DEF LoadInit
<1>3. /\ calls = <<>> /\ EmptyStore /\ ingested = 0 /\ now = 1
      /\ results = <<>> /\ exitCode = -1 /\ abandoned = {}
      /\ summary = [requests |-> 0, accepted |-> 0, transport |-> 0, refused |-> 0]
  BY DEF LoadInit, CollectorInit
<1>4. /\ summary \in Summary /\ summary.requests = 0 /\ summary.accepted = 0
      /\ summary.transport = 0 /\ summary.refused = 0
  BY <1>3 DEF Summary
<1>5. DOMAIN worker = started /\ \A w \in started : worker[w] = Waiting0
  BY <1>1
<1>6. IsFiniteSet(DOMAIN worker) /\ DOMAIN worker # {}
  BY <1>1, <1>5, LoadAssumption, FS_Subset
<1>7. Waiting0 \in Posting /\ Waiting0.at = "permit"
  BY DEF Waiting0, Posting
<1>8. \A w \in DOMAIN worker : worker[w] \in Posting /\ worker[w].at = "permit"
  BY <1>5, <1>7
<1>9. worker \in [DOMAIN worker -> Posting]
  BY <1>1, <1>5, <1>7
<1>10. calls \in Seq(Call) /\ results \in Seq(Outcome) /\ DOMAIN calls = {} /\ Len(calls) = 0
       /\ Len(results) = 0
  BY <1>3
<1>11. initial => permits # Nil
  BY <1>2, LoadAssumption DEF Nil
<1>12. LoadTypes
  BY <1>3, <1>4, <1>6, <1>8, <1>9, <1>10, <1>11 DEF LoadTypes
<1>13. AskedBy("asking") = {} /\ AskedBy("deliver") = {}
  BY <1>8 DEF AskedBy
<1>14. Waited = {} /\ Cheerful = {} /\ In({"accepted"}) = {} /\ In({"recorded", "accepted"}) = {}
  BY <1>10, <1>13 DEF Waited, Cheerful, In
<1>15. Credits(results) = {}
  BY <1>10 DEF Credits
<1>16. Owned
  BY <1>3, <1>13 DEF Owned
<1>17. Cardinality({}) = 0 /\ IsFiniteSet({})
  BY FS_EmptySet
<1>18. Placed
  <2>1. /\ Cardinality(AskedBy("asking")) = 0 /\ Cardinality(AskedBy("deliver")) = 0
        /\ Cardinality(abandoned) = 0
    BY <1>3, <1>13, <1>17
  <2> QED
    BY <1>4, <1>10, <2>1 DEF Placed
<1>19. Credited
  <2>1. In({"accepted"}) \ Waited = {}
    BY <1>14
  <2> QED
    <3>1. /\ Cardinality(In({"accepted"}) \ Waited) = 0 /\ Cardinality(Credits(results)) = 0
          /\ Cardinality(Cheerful) = 0
      BY <1>14, <1>15, <1>17, <2>1
    <3> QED
      BY <1>4, <3>1 DEF Credited
<1>20. Stored
  <2>1. StoreInv /\ sequence = 0
    BY <1>3, EmptyStoreInv DEF EmptyStore
  <2>2. Occurrences = {}
    BY <1>3 DEF EmptyStore, Occurrences
  <2>3. LoadBatch * 0 = 0
    BY LoadAssumption
  <2> QED
    BY <1>3, <1>14, <1>17, <2>1, <2>2, <2>3 DEF Stored
<1>21. Reported
  BY <1>3 DEF Reported
<1> QED
  BY <1>12, <1>16, <1>18, <1>19, <1>20, <1>21 DEF LoadInv
\* Once the deadline has come, somebody has something to do.
LEMMA LoadGoesOn == LoadInv => SomebodyGoesOn
<1> SUFFICES ASSUME LoadInv, expired, exitCode = -1, results = <<>>, ~AllDone,
                    NEW w \in DOMAIN worker, worker[w].at # "done"
             PROVE  MayPost(w) \/ MayLeave(w) \/ MayDeliver(w) \/ worker[w].at = "asking"
  BY DEF SomebodyGoesOn, MayReport, AllDone
<1>1. /\ worker[w] \in Posting /\ IsFiniteSet(DOMAIN worker)
      /\ initial => permits # Nil /\ calls = <<>>
  BY DEF LoadInv, LoadTypes
<1>2. worker[w].at \in {"permit", "asking", "deliver"}
  BY <1>1 DEF Posting
<1>3. CASE worker[w].at = "permit" /\ initial
  <2>1. Len(calls) = 0
    BY <1>1, <1>3
  <2>2. 0 < MaxCalls
    BY LoadAssumption
  <2> QED
    BY <1>3, <2>1, <2>2 DEF MayPost
<1>4. CASE worker[w].at = "permit" /\ ~initial
  BY <1>4 DEF MayLeave
<1>5. CASE worker[w].at = "deliver"
  <2>1. Cardinality(DOMAIN worker) # 0 /\ Cardinality(DOMAIN worker) \in Nat
    BY <1>1, FS_EmptySet, FS_CardinalityType
  <2>2. Len(results) = 0
    OBVIOUS
  <2>3. Len(results) < Capacity
    BY <2>1, <2>2 DEF Capacity
  <2> QED
    BY <1>5, <2>3 DEF MayDeliver
<1> QED
  BY <1>2, <1>3, <1>4, <1>5

LEMMA LoadInvSuffices == LoadInv => ReportIsComplete
<1> SUFFICES ASSUME LoadInv PROVE ReportIsComplete
  OBVIOUS
<1>1. LoadTypes /\ Owned /\ Placed /\ Credited /\ Stored /\ Reported /\ calls \in Seq(Call)
  BY DEF LoadInv, LoadTypes
<1>2. PICK A, R, S : /\ A = In({"accepted"}) /\ R = In({"recorded", "accepted"})
                     /\ S = In({"accepted"}) \ Waited
  OBVIOUS
<1>3. /\ IsFiniteSet(A) /\ IsFiniteSet(R) /\ Cardinality(A) \in Nat /\ Cardinality(R) \in Nat
  BY <1>1, <1>2, StagesFinite
<1>4. S \in SUBSET A /\ A \in SUBSET R
  BY <1>2 DEF In
<1>5. Cardinality(S) <= Cardinality(A) /\ Cardinality(A) <= Cardinality(R)
  BY <1>3, <1>4, FS_Subset
<1>6. /\ summary.requests \in Nat /\ summary.accepted \in Nat /\ summary.transport \in Nat
      /\ summary.refused \in Nat /\ Cardinality(Credits(results)) \in Nat
      /\ Cardinality(abandoned) \in Nat /\ Len(results) \in Nat /\ Cardinality(S) \in Nat
  BY <1>1, <1>2, SumsAreNumbers
<1>7. summary.accepted <= Cardinality(A)
  <2>1. PICK a, b, c : /\ a = summary.accepted /\ b = Cardinality(Credits(results))
                       /\ c = Cardinality(Cheerful)
    OBVIOUS
  <2>2. c \in Nat
    <3>1. Cheerful \in SUBSET DOMAIN worker /\ IsFiniteSet(DOMAIN worker)
      BY <1>1 DEF LoadTypes, Cheerful, AskedBy
    <3> QED
      BY <2>1, <3>1, FS_Subset, FS_CardinalityType
  <2>3. a + b + c <= Cardinality(S)
    BY <1>1, <1>2, <2>1 DEF Credited
  <2>4. a <= Cardinality(A)
    BY <1>3, <1>5, <1>6, <2>1, <2>2, <2>3
  <2> QED
    BY <2>1, <2>4
<1>8. \A m, n \in Nat : m <= n => m * LoadBatch <= LoadBatch * n /\ LoadBatch * m <= LoadBatch * n
  BY LoadAssumption
<1>9. ingested = LoadBatch * Cardinality(A) /\ Cardinality(Occurrences) = LoadBatch * Cardinality(R)
  BY <1>1, <1>2 DEF Stored
<1>10. summary.accepted * LoadBatch <= ingested /\ ingested <= Cardinality(Occurrences)
  BY <1>3, <1>5, <1>6, <1>7, <1>8, <1>9
<1>11. exitCode = 0 /\ FailOnError =>
          summary.accepted = Len(calls) - Cardinality(abandoned) /\ summary.accepted > 0
  <2> SUFFICES ASSUME exitCode = 0, FailOnError
               PROVE  summary.accepted = Len(calls) - Cardinality(abandoned) /\ summary.accepted > 0
    OBVIOUS
  <2>1. AllDone /\ results = <<>> /\ ~Failures(summary)
    BY <1>1 DEF Reported
  <2>2. AskedBy("asking") = {} /\ AskedBy("deliver") = {}
    BY <2>1 DEF AllDone, AskedBy
  <2>3. Cardinality(AskedBy("asking")) = 0 /\ Cardinality(AskedBy("deliver")) = 0
    BY <2>2, FS_EmptySet
  <2>4. Len(results) = 0
    BY <2>1
  <2>5. summary.requests = summary.accepted /\ summary.accepted > 0
    BY <1>1, <1>6, <2>1 DEF Credited, Failures
  <2>6. Len(calls) = summary.requests + 0 + 0 + 0 + Cardinality(abandoned)
    BY <1>1, <2>3, <2>4 DEF Placed
  <2> QED
    BY <1>6, <2>5, <2>6
<1> QED
  BY <1>1, <1>10, <1>11, LoadGoesOn DEF Placed, ReportIsComplete

\* One collector, whoever posts.
MCInv ==
    /\ party \in Page \cup {"load test"}
    /\ party \in Page => DInv
    /\ party = "load test" => LoadInv /\ offered = 0 /\ delivered = <<>>

LEMMA MCInvAlways == MCSpec => []MCInv
<1>1. MCInit => MCInv
  <2> SUFFICES ASSUME MCInit PROVE MCInv
    OBVIOUS
  <2>1. DeliveryInit /\ LoadInit /\ CollectorInit /\ Init /\ party \in Page \cup {"load test"}
    BY DEF MCInit, DeliveryInit
  <2>2. DInv /\ LoadInv
    BY <2>1, DeliveryInitInv, LoadInitInv
  <2>3. offered = 0 /\ delivered = <<>>
    BY <2>1 DEF Init
  <2> QED
    BY <2>1, <2>2, <2>3 DEF MCInv
<1>2. MCInv /\ [MCNext]_<<client, collector, load, party>> => MCInv'
  <2> SUFFICES ASSUME MCInv, [MCNext]_<<client, collector, load, party>> PROVE MCInv'
    OBVIOUS
  <2>1. party' = party
    BY DEF MCNext, PageNext
  <2>2. CASE party \in Page /\ PageNext
    <3>1. DInv'
      BY <2>2, DeliveryNextKeepsInv DEF MCInv, PageNext
    <3> QED
      BY <2>1, <2>2, <3>1 DEF MCInv, Page
  <2>3. CASE party = "load test" /\ LoadNext /\ UNCHANGED <<client, party>>
    <3>1. LoadInv'
      BY <2>3, LoadNextKeepsInv DEF MCInv
    <3>2. offered' = offered /\ delivered' = delivered
      BY <2>3 DEF client
    <3> QED
      BY <2>1, <2>3, <3>1, <3>2 DEF MCInv, Page
  <2>4. CASE UNCHANGED <<client, collector, load, party>>
    <3>1. party \in Page => DInv'
      BY <2>4, DeliveryNextKeepsInv DEF MCInv
    <3>2. party = "load test" => LoadInv'
      <4> SUFFICES ASSUME LoadInv PROVE LoadInv'
        BY DEF MCInv
      <4>1. /\ UNCHANGED <<collector, worker, results, summary, abandoned>>
            /\ initial' = initial /\ permits' = permits /\ exitCode' = exitCode
        BY <2>4 DEF load
      <4>2. Reported'
        BY <4>1 DEF LoadInv, Reported, AllDone, Failures
      <4> QED
        BY <4>1, <4>2, QuietLoadKeeps
    <3>3. offered' = offered /\ delivered' = delivered
      BY <2>4 DEF client
    <3> QED
      BY <2>1, <3>1, <3>2, <3>3 DEF MCInv
  <2> QED
    BY <2>2, <2>3, <2>4 DEF MCNext
<1> QED
  BY <1>1, <1>2, PTL DEF MCSpec
-----------------------------------------------------------------------------
\* LoadReportIsComplete: the summary of runLoad counts every request once, but
\* those the deadline cut off; it claims no more than metrics.ingested, which
\* claims no more than is stored; -fail-on-error's 0 means that all were
\* accepted; and the deadline leaves nobody waiting on a channel.
THEOREM ReportAlwaysAddsUp == MCSpec => []LoadReportIsComplete
<1>1. MCInv => LoadReportIsComplete
  BY LoadInvSuffices DEF MCInv, LoadReportIsComplete
<1> QED
  BY <1>1, MCInvAlways, PTL

\* The load test's requests are steps of the ledger too.
LEMMA LedgerUnderLoad == LoadInv /\ LoadNext => Ledger!Next \/ UNCHANGED Ledger!vars
<1> SUFFICES ASSUME LoadInv, LoadNext PROVE Ledger!Next \/ UNCHANGED Ledger!vars
  OBVIOUS
<1>1. StoreInv /\ CallsTyped
  BY DEF LoadInv, Stored, LoadTypes, CallsTyped
<1>2. CASE LoadActs \/ TickerTicks \/ Expire
  <2>1. /\ UNCHANGED store
        /\ \/ calls' = calls
           \/ \E batch, by : calls' = Append(calls, Request(batch, by))
           \/ \E n : calls' = [calls EXCEPT ![n].watched = FALSE]
    BY <1>2 DEF LoadActs, Permitted, NotPermitted, Answered, TransportFails, Deliver, Collect,
                Report, TickerTicks, Expire, collector
  <2>2. calls' = calls => AskedView' = AskedView
    BY DEF AskedView, Asking
  <2>3. AskedView' = AskedView
    BY <1>1, <2>1, <2>2, PostAsksNothing, LossAsksNothing DEF CallsTyped
  <2> QED
    BY <2>1, <2>3 DEF store, LedgerView, Ledger!vars
<1>3. CASE Handle
  BY <1>1, <1>3, LedgerOfHandle
<1> QED
  BY <1>2, <1>3 DEF LoadNext

\* StoreIsItsRecords, SentIsRecorded, OnlyLostAnswersMislead and LedgerSpec,
\* whether it is a page or the load test that posts to the collector.
THEOREM WhoeverPosts ==
    MCSpec => /\ [](StoreIsItsRecords /\ SentIsRecorded /\ OnlyLostAnswersMislead)
              /\ LedgerSpec
<1>1. MCInv => StoreIsItsRecords /\ SentIsRecorded /\ OnlyLostAnswersMislead
  <2>1. DInv => StoreIsItsRecords /\ SentIsRecorded /\ OnlyLostAnswersMislead
    BY StoreInvSuffices, SentSuffices, OnlyLostSuffices DEF DInv
  <2>2. LoadInv => StoreIsItsRecords
    BY StoreInvSuffices DEF LoadInv, Stored
  <2>3. delivered = <<>> => SentIsRecorded
    BY DEF SentIsRecorded, Range
  <2>4. offered = 0 => OnlyLostAnswersMislead
    BY DEF OnlyLostAnswersMislead
  <2> QED
    BY <2>1, <2>2, <2>3, <2>4 DEF MCInv
<1>2. MCInit => Ledger!Init
  BY LedgerBegins DEF MCInit
<1>3. MCInv /\ [MCNext]_<<client, collector, load, party>> =>
         [Ledger!Next]_(Ledger!vars)
  <2> SUFFICES ASSUME MCInv, [MCNext]_<<client, collector, load, party>>
               PROVE  [Ledger!Next]_(Ledger!vars)
    OBVIOUS
  <2>1. CASE party \in Page /\ PageNext
    <3>1. DInv /\ DeliveryNext
      BY <2>1 DEF MCInv, PageNext
    <3> QED
      BY <3>1, LedgerGoesOn
  <2>2. CASE party = "load test" /\ LoadNext
    BY <2>2, LedgerUnderLoad DEF MCInv
  <2>3. CASE UNCHANGED <<client, collector, load, party>>
    BY <2>3 DEF collector, store, LedgerView, AskedView, Asking, Ledger!vars
  <2> QED
    BY <2>1, <2>2, <2>3 DEF MCNext
<1> QED
  BY <1>1, <1>2, <1>3, MCInvAlways, PTL DEF MCSpec, LedgerSpec, Ledger!Spec
=============================================================================
