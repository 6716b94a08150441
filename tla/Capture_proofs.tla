--------------------------- MODULE Capture_proofs ---------------------------
(***************************************************************************)
(* Safety of Capture: the budget and the listeners, for every budget,      *)
(* window and course of the clock.                                         *)
(*                                                                         *)
(* hasBudget() counts stamps, the property counts captures.  The invariant *)
(* relates the two: each stamp is that of a capture of its own, and every  *)
(* capture that is still timely has its stamp.                             *)
(***************************************************************************)
EXTENDS Capture, SequenceTheorems, FiniteSetTheorems, WellFoundedInduction, TLAPS

InForce(at) == clock - Window < at /\ at <= clock
Sorted(s) == \A i, j \in DOMAIN s : i < j => s[i] <= s[j]

Grant == [at : Nat, timely : BOOLEAN]
Types ==
    /\ clock \in Nat
    /\ stats \in [Outcome -> Nat]
    /\ sentAt \in Seq(Nat)
    /\ granted \in Seq(Grant)

TimelyIsInForce == \A g \in DOMAIN granted : granted[g].timely => InForce(granted[g].at)

\* The stamps s are those of different captures, the timely ones among them.
Stamped(s, f) ==
    /\ \A i \in DOMAIN s : granted[f[i]].at = s[i]
    /\ \A g \in DOMAIN granted : granted[g].timely => \E i \in DOMAIN s : f[i] = g
Accounts(s) == \E f \in Injection(DOMAIN s, DOMAIN granted) : Stamped(s, f)

IInv ==
    /\ Types
    /\ TimelyIsInForce
    /\ Sorted(sentAt)
    /\ Accounts(sentAt)
-----------------------------------------------------------------------------
(***************************************************************************)
(* What hasBudget() leaves of the stamps.                                  *)
(***************************************************************************)

\* t is what remains of s without some stamps that are not in force, in order.
Places(t, s, h) ==
    /\ \A i, j \in DOMAIN t : i < j => h[i] < h[j]
    /\ \A i \in DOMAIN t : t[i] = s[h[i]]
    /\ \A j \in DOMAIN s : InForce(s[j]) => \E i \in DOMAIN t : h[i] = j
Thins(t, s) == \E h \in [DOMAIN t -> DOMAIN s] : Places(t, s, h)

\* Thinning out keeps the order, and every timely capture its stamp.
LEMMA Thinned ==
    ASSUME TimelyIsInForce, NEW s \in Seq(Nat), NEW t \in Seq(Nat), Thins(t, s),
           Sorted(s), Accounts(s)
    PROVE  Sorted(t) /\ Accounts(t)
<1>1. PICK h \in [DOMAIN t -> DOMAIN s] : Places(t, s, h)
  BY DEF Thins
<1>2. PICK f \in Injection(DOMAIN s, DOMAIN granted) : Stamped(s, f)
  BY DEF Accounts
<1>3. Sorted(t)
  BY <1>1 DEF Sorted, Places
<1> DEFINE g == [i \in DOMAIN t |-> f[h[i]]]
<1>4. \A i, j \in DOMAIN t : h[i] = h[j] => i = j
  <2>1. DOMAIN t \subseteq Nat /\ DOMAIN s \subseteq Nat
    BY LenProperties
  <2>2. \A i, j \in DOMAIN t : i < j \/ j < i \/ i = j
    BY <2>1
  <2>3. \A i, j \in DOMAIN s : i < j => i # j
    BY <2>1
  <2> QED
    BY <1>1, <2>2, <2>3 DEF Places
<1>5. g \in Injection(DOMAIN t, DOMAIN granted)
  <2>1. /\ f \in [DOMAIN s -> DOMAIN granted]
        /\ \A i, j \in DOMAIN s : f[i] = f[j] => i = j
    BY <1>2, Zenon DEF Injection, IsInjective
  <2>2. g \in [DOMAIN t -> DOMAIN granted]
    BY <2>1
  <2>3. \A i, j \in DOMAIN t : g[i] = g[j] => i = j
    BY <1>4, <2>1
  <2> HIDE DEF g
  <2> QED
    BY <2>2, <2>3, Zenon DEF Injection, IsInjective
<1>6. Stamped(t, g)
  <2>1. \A i \in DOMAIN t : granted[g[i]].at = t[i]
    BY <1>1, <1>2 DEF Places, Stamped
  <2>2. ASSUME NEW c \in DOMAIN granted, granted[c].timely
        PROVE  \E i \in DOMAIN t : g[i] = c
    <3>1. PICK j \in DOMAIN s : f[j] = c
      BY <1>2, <2>2 DEF Stamped
    <3>2. InForce(s[j])
      BY <1>2, <2>2, <3>1 DEF Stamped, TimelyIsInForce
    <3> QED
      BY <1>1, <3>1, <3>2 DEF Places
  <2> QED
    BY <2>1, <2>2 DEF Stamped
<1> QED
  BY <1>3, <1>5, <1>6 DEF Accounts

\* A set of numbers that contains a successor of each of its members is not
\* bounded.
LEMMA Unbounded ==
    ASSUME NEW n \in Nat, NEW S, S \subseteq 0..n, S # {}
    PROVE  \E m \in S : m + 1 \notin S
<1> DEFINE Above(m) == {k \in S : k > m}
           T == {Above(m) : m \in S}
           R == StrictSubsetOrdering(S)
<1>1. IsFiniteSet(S)
  <2>1. IsFiniteSet(0..n)
    BY FS_Interval
  <2> QED
    BY <2>1, FS_Subset
<1>2. T \subseteq FiniteSubsetsOf(S) /\ T # {}
  <2>1. FiniteSubsetsOf(S) = SUBSET S
    BY <1>1, FS_FiniteSubsetsOfFinite
  <2>2. PICK m \in S : TRUE
    OBVIOUS
  <2>3. Above(m) \in T /\ T \subseteq SUBSET S
    OBVIOUS
  <2> HIDE DEF T
  <2> QED
    BY <2>1, <2>3
<1>3. IsWellFoundedOn(R, FiniteSubsetsOf(S))
  BY <1>1, FS_StrictSubsetOrderingWellFounded
<1>4. PICK x \in T : \A y \in T : ~ (<<y, x>> \in R)
  <2> HIDE DEF T, R
  <2> QED
    BY <1>2, <1>3, WFMin
<1>5. PICK m \in S : x = Above(m)
  OBVIOUS
<1>6. ASSUME m + 1 \in S PROVE FALSE
  <2>1. m + 1 > m /\ ~(m + 1 > m + 1) /\ \A k \in S : k > m + 1 => k > m
    OBVIOUS
  <2>2. Above(m + 1) \subseteq Above(m) /\ m + 1 \in Above(m) /\ m + 1 \notin Above(m + 1)
    BY <1>6, <2>1
  <2>3. <<Above(m + 1), Above(m)>> \in R
    BY <2>2 DEF StrictSubsetOrdering
  <2>4. Above(m + 1) \in T
    BY <1>6
  <2> HIDE DEF Above, T, R
  <2> QED
    BY <1>4, <1>5, <2>3, <2>4
<1> QED
  BY <1>6

\* The stamps the window has passed leave at the front.
LEMMA Cut ==
    ASSUME NEW s \in Seq(Nat), Sorted(s), clock \in Nat
    PROVE  /\ InWindow(s) \in Seq(Nat) /\ Thins(InWindow(s), s)
           /\ \A i \in DOMAIN InWindow(s) : clock - Window < InWindow(s)[i]
<1> DEFINE Past(n) == \A i \in 1..n : s[i] <= clock - Window
           Last(n) == Past(n) /\ (n = Len(s) \/ ~Past(n + 1))
           first == CHOOSE n \in 0..Len(s) : Last(n)
           t == InWindow(s)
<1>0. PICK cutoff \in Int : cutoff = clock - Window
  BY ConstantsAssumption
<1>1. Len(s) \in Nat /\ \A i \in 1..Len(s) : s[i] \in Nat
  BY LenProperties
<1> HIDE DEF t, first, Past, Last
<1>2. \E n \in 0..Len(s) : Last(n)
  <2> DEFINE S == {n \in 0..Len(s) : Past(n)}
  <2>1. 0 \in S
    BY <1>1 DEF Past
  <2>2. PICK n \in S : n + 1 \notin S
    <3> HIDE DEF S
    <3>1. S \subseteq 0..Len(s)
      BY DEF S
    <3> QED
      BY <1>1, <2>1, <3>1, Unbounded
  <2>3. n = Len(s) \/ ~Past(n + 1)
    <3>1. n \in 0..Len(s)
      OBVIOUS
    <3>2. n = Len(s) \/ n + 1 \in 0..Len(s)
      BY <1>1, <3>1
    <3> QED
      BY <2>2, <3>2
  <2> QED
    BY <2>2, <2>3 DEF Last
<1>3. first \in 0..Len(s) /\ Last(first)
  BY <1>2 DEF first
<1>4. t = SubSeq(s, first + 1, Len(s))
  BY DEF InWindow, t, first, Last, Past
<1>5. PICK gone \in 0..Len(s) :
         /\ Past(gone) /\ (gone = Len(s) \/ ~Past(gone + 1))
         /\ t = SubSeq(s, gone + 1, Len(s))
  BY <1>3, <1>4 DEF Last
<1>6. /\ t \in Seq(Nat) /\ Len(t) = Len(s) - gone /\ DOMAIN t = 1..(Len(s) - gone)
      /\ \A i \in DOMAIN t : t[i] = s[i + gone]
  <2>1. \A i \in gone + 1 .. Len(s) : s[i] \in Nat
    BY <1>1, <1>5
  <2> QED
    BY <1>1, <1>5, <2>1, SubSeqProperties
<1>7. \A j \in gone + 1 .. Len(s) : clock - Window < s[j]
  <2> SUFFICES ASSUME NEW j \in gone + 1 .. Len(s) PROVE clock - Window < s[j]
    OBVIOUS
  <2>1. PICK i \in 1..(gone + 1) : ~(s[i] <= clock - Window)
    BY <1>1, <1>5 DEF Past
  <2>2. i = gone + 1
    BY <1>5, <2>1 DEF Past
  <2>3. s[i] <= s[j]
    BY <1>1, <1>5, <2>2 DEF Sorted
  <2>4. s[i] \in Nat /\ s[j] \in Nat
    BY <1>1, <1>5, <2>2
  <2> QED
    BY <1>0, <2>1, <2>3, <2>4
<1> DEFINE h == [i \in DOMAIN t |-> i + gone]
<1>8. h \in [DOMAIN t -> DOMAIN s]
  BY <1>1, <1>5, <1>6
<1>9. Places(t, s, h)
  <2>1. \A i, j \in DOMAIN t : i < j => h[i] < h[j]
    BY <1>5, <1>6
  <2>2. \A i \in DOMAIN t : t[i] = s[h[i]]
    BY <1>6
  <2>3. ASSUME NEW j \in DOMAIN s, InForce(s[j]) PROVE \E i \in DOMAIN t : h[i] = j
    <3>1. j > gone
      <4>1. s[j] \in Nat /\ ~(s[j] <= clock - Window)
        BY <1>1, <1>0, <2>3 DEF InForce
      <4> QED
        BY <1>1, <1>5, <4>1 DEF Past
    <3>2. j - gone \in DOMAIN t /\ h[j - gone] = j
      BY <1>1, <1>5, <1>6, <3>1
    <3> QED
      BY <3>2
  <2> QED
    BY <2>1, <2>2, <2>3 DEF Places
<1>10. \A i \in DOMAIN t : clock - Window < t[i]
  BY <1>5, <1>6, <1>7, SMTT(60)
<1> HIDE DEF h
<1> QED
  BY <1>6, <1>8, <1>9, <1>10 DEF Thins, t

\* Those ahead of the clock leave, which are the last ones.
LEMMA Trimmed ==
    ASSUME NEW s \in Seq(Nat), Sorted(s), clock \in Nat
    PROVE  /\ NotAhead(s) \in Seq(Nat) /\ Thins(NotAhead(s), s)
           /\ \A i \in DOMAIN NotAhead(s) : NotAhead(s)[i] <= clock
<1> DEFINE kept == {i \in DOMAIN s : s[i] <= clock}
           size == Cardinality(kept)
           Rises(f) == \A i, j \in 1..size : i < j => f[i] < f[j]
           place == CHOOSE f \in [1..size -> kept] : Rises(f)
           t == NotAhead(s)
<1>1. Len(s) \in Nat /\ DOMAIN s = 1..Len(s) /\ \A i \in 1..Len(s) : s[i] \in Nat
  BY LenProperties
<1>2. CASE ~(s # <<>> /\ s[Len(s)] > clock)
  <2>1. t = s
    BY <1>2 DEF NotAhead
  <2>2. \A i \in DOMAIN s : s[i] <= clock
    <3> SUFFICES ASSUME NEW i \in DOMAIN s PROVE s[i] <= clock
      OBVIOUS
    <3>1. s # <<>> /\ i \in 1..Len(s) /\ Len(s) \in 1..Len(s)
      BY <1>1
    <3>2. s[Len(s)] <= clock
      BY <1>1, <1>2, <3>1
    <3>3. i = Len(s) \/ s[i] <= s[Len(s)]
      BY <1>1, <3>1 DEF Sorted
    <3> QED
      BY <1>1, <3>1, <3>2, <3>3
  <2> DEFINE h == [i \in DOMAIN s |-> i]
  <2>3. h \in [DOMAIN s -> DOMAIN s] /\ Places(s, s, h)
    BY DEF Places
  <2> HIDE DEF h
  <2> QED
    BY <2>1, <2>2, <2>3 DEF Thins
<1>3. CASE s # <<>> /\ s[Len(s)] > clock
  <2>1. t = [i \in 1..size |-> s[place[i]]]
    BY <1>3 DEF NotAhead, Filtered
  <2>2. PICK k \in 0..Len(s) : kept = 1..k
    <3>1. {0} \cup kept # {} /\ {0} \cup kept \subseteq 0..Len(s)
      BY <1>1
    <3>2. PICK m \in {0} \cup kept : m + 1 \notin {0} \cup kept
      <4> HIDE DEF kept
      <4> QED
        BY <1>1, <3>1, Unbounded
    <3>3. m \in 0..Len(s)
      BY <3>1
    <3>4. \A i \in 1..m : i \in kept
      <4> SUFFICES ASSUME NEW i \in 1..m PROVE i \in kept
        OBVIOUS
      <4>1. m \in DOMAIN s /\ s[m] <= clock /\ i \in DOMAIN s
        BY <1>1, <3>2, <3>3
      <4>2. i = m \/ s[i] <= s[m]
        BY <1>1, <3>3, <4>1 DEF Sorted
      <4> QED
        BY <1>1, <3>3, <4>1, <4>2
    <3>5. \A i \in kept : i <= m
      <4> SUFFICES ASSUME NEW i \in kept, m < i PROVE FALSE
        BY <1>1, <3>3
      <4>1. m + 1 \in DOMAIN s /\ i \in DOMAIN s
        BY <1>1, <3>3
      <4>2. i = m + 1 \/ s[m + 1] <= s[i]
        BY <1>1, <3>3, <4>1, SMTT(60) DEF Sorted
      <4>3. s[m + 1] <= clock
        BY <1>1, <4>1, <4>2
      <4> QED
        BY <3>2, <4>1, <4>3
    <3>6. kept = 1..m
      <4>1. \A i \in kept : i \in 1..m
        BY <1>1, <3>3, <3>5
      <4> HIDE DEF kept
      <4> QED
        BY <3>4, <4>1
    <3> QED
      BY <3>3, <3>6
  <2>3. k \in Nat /\ IsFiniteSet(1..k) /\ Cardinality(1..k) = k
    <3>1. k \in Int /\ k >= 0
      BY <1>1
    <3>2. IsFiniteSet(1..k) /\ Cardinality(1..k) = IF 1 > k THEN 0 ELSE k - 1 + 1
      BY <3>1, FS_Interval
    <3> QED
      BY <3>1, <3>2
  <2>4. size = k /\ IsFiniteSet(kept) /\ kept \subseteq DOMAIN s /\ size \in Nat
    BY <2>2, <2>3
  <2>5. \A i \in kept : s[i] <= clock
    OBVIOUS
  <2>6. \A j \in DOMAIN s : InForce(s[j]) => j \in kept
    BY DEF InForce
  <2>7. \E f \in [1..size -> kept] : Rises(f)
    <3>1. [i \in 1..size |-> i] \in [1..size -> kept]
      BY <2>2, <2>4
    <3>2. Rises([i \in 1..size |-> i])
      OBVIOUS
    <3> QED
      BY <3>1, <3>2
  <2> HIDE DEF Rises
  <2>8. place \in [1..size -> kept] /\ Rises(place)
    BY <2>7
  <2>9. \A i, j \in 1..size : i < j => place[i] < place[j]
    BY <2>8 DEF Rises
  <2> HIDE DEF place, t
  <2>10. \A j \in kept : \E i \in 1..size : place[i] = j
    <3>1. \A i, j \in 1..size : place[i] = place[j] => i = j
      <4>1. \A i, j \in 1..size : i < j \/ j < i \/ i = j
        BY <2>4
      <4>2. \A i, j \in kept : i < j => i # j
        BY <1>1
      <4> HIDE DEF kept, size
      <4> QED
        BY <2>8, <2>9, <4>1, <4>2
    <3>2. place \in Injection(1..size, kept)
      BY <2>8, <3>1, Zenon DEF Injection, IsInjective
    <3>3. Cardinality(1..size) = Cardinality(kept)
      BY <2>2, <2>4
    <3>4. place \in Surjection(1..size, kept)
      <4> HIDE DEF kept, size
      <4> QED
        BY <2>4, <3>2, <3>3, FS_Injection
    <3> HIDE DEF kept, size
    <3> QED
      BY <3>4 DEF Surjection
  <2> HIDE DEF kept, size
  <2>11. /\ DOMAIN t = 1..size /\ t \in Seq(Nat)
         /\ \A i \in DOMAIN t : t[i] = s[place[i]] /\ t[i] <= clock
    <3>1. \A i \in 1..size : s[place[i]] \in Nat
      BY <1>1, <2>4, <2>8
    <3>2. t \in [1..size -> Nat]
      BY <2>1, <3>1
    <3> QED
      BY <2>1, <2>4, <2>5, <2>8, <3>2, IsASeq
  <2>12. place \in [DOMAIN t -> DOMAIN s] /\ Places(t, s, place)
    BY <2>4, <2>6, <2>8, <2>9, <2>10, <2>11 DEF Places
  <2> QED
    BY <2>11, <2>12 DEF Thins, t
<1> QED
  BY <1>2, <1>3
-----------------------------------------------------------------------------
(***************************************************************************)
(* The invariant, step by step.                                            *)
(***************************************************************************)

\* hasBudget() leaves stamps of the window, each timely capture's among them.
LEMMA StampsAreTheWindow ==
    ASSUME IInv
    PROVE  /\ Stamps \in Seq(Nat)
           /\ Sorted(Stamps) /\ Accounts(Stamps)
           /\ \A i \in DOMAIN Stamps : InForce(Stamps[i])
<1> DEFINE cut == InWindow(sentAt)
<1> USE DEF IInv, Types
<1>1. /\ cut \in Seq(Nat) /\ Thins(cut, sentAt)
      /\ \A i \in DOMAIN cut : clock - Window < cut[i]
  BY Cut
<1> HIDE DEF cut
<1>2. Sorted(cut) /\ Accounts(cut)
  BY <1>1, Thinned
<1>3. /\ NotAhead(cut) \in Seq(Nat) /\ Thins(NotAhead(cut), cut)
      /\ \A i \in DOMAIN NotAhead(cut) : NotAhead(cut)[i] <= clock
  BY <1>1, <1>2, Trimmed
<1>4. Sorted(NotAhead(cut)) /\ Accounts(NotAhead(cut))
  BY <1>1, <1>2, <1>3, Thinned
<1>5. \A i \in DOMAIN NotAhead(cut) : clock - Window < NotAhead(cut)[i]
  BY <1>1, <1>3 DEF Thins, Places
<1> QED
  BY <1>3, <1>4, <1>5 DEF Stamps, cut, InForce

\* Stamps of the window are as many as their captures, which are recent, and at
\* least as many as the timely ones.
LEMMA StampsAreCounted ==
    ASSUME NEW s \in Seq(Nat), Types, Accounts(s), \A i \in DOMAIN s : InForce(s[i])
    PROVE  /\ Len(s) <= Cardinality(Recent)
           /\ Cardinality({g \in DOMAIN granted : granted[g].timely}) <= Len(s)
<1> DEFINE timely == {g \in DOMAIN granted : granted[g].timely}
<1>1. PICK f \in Injection(DOMAIN s, DOMAIN granted) : Stamped(s, f)
  BY DEF Accounts
<1>2. /\ f \in [DOMAIN s -> DOMAIN granted]
      /\ \A i, j \in DOMAIN s : f[i] = f[j] => i = j
  BY <1>1, Zenon DEF Injection, IsInjective
<1>3. /\ Len(s) \in Nat /\ DOMAIN s = 1..Len(s)
      /\ Len(granted) \in Nat /\ DOMAIN granted = 1..Len(granted)
  BY LenProperties DEF Types
<1>4. /\ IsFiniteSet(DOMAIN s) /\ Cardinality(DOMAIN s) = Len(s)
      /\ IsFiniteSet(DOMAIN granted)
  <2>0. 1 \in Int /\ Len(s) \in Int /\ Len(granted) \in Int
    BY <1>3
  <2>1. /\ IsFiniteSet(1..Len(s)) /\ IsFiniteSet(1..Len(granted))
        /\ Cardinality(1..Len(s)) = IF 1 > Len(s) THEN 0 ELSE Len(s) - 1 + 1
    BY <2>0, FS_Interval, Zenon
  <2>2. (IF 1 > Len(s) THEN 0 ELSE Len(s) - 1 + 1) = Len(s)
    BY <1>3
  <2> QED
    BY <1>3, <2>1, <2>2, Zenon
<1>5. Recent \subseteq DOMAIN granted /\ IsFiniteSet(Recent)
  BY <1>4, FS_Subset DEF Recent
<1>6. f \in Injection(DOMAIN s, Recent)
  <2>1. \A i \in DOMAIN s : f[i] \in Recent
    BY <1>1, <1>2 DEF Stamped, Recent, InForce
  <2>2. f \in [DOMAIN s -> Recent]
    BY <1>2, <2>1
  <2> QED
    BY <1>2, <2>2, Zenon DEF Injection, IsInjective
<1>7. Len(s) <= Cardinality(Recent)
  <2>1. Cardinality(DOMAIN s) <= Cardinality(Recent)
    BY <1>5, <1>6, FS_Injection
  <2> QED
    BY <1>4, <2>1
<1> DEFINE back == [g \in timely |-> CHOOSE i \in DOMAIN s : f[i] = g]
<1>8. \A g \in timely : back[g] \in DOMAIN s /\ f[back[g]] = g
  BY <1>1 DEF Stamped
<1>9. back \in Injection(timely, DOMAIN s)
  <2>1. back \in [timely -> DOMAIN s]
    BY <1>8
  <2>2. \A g, c \in timely : back[g] = back[c] => g = c
    <3> HIDE DEF back, timely
    <3> QED
      BY <1>8
  <2> HIDE DEF back, timely
  <2> QED
    BY <2>1, <2>2, Zenon DEF Injection, IsInjective
<1>10. Cardinality(timely) <= Len(s)
  <2> HIDE DEF back, timely
  <2>1. Cardinality(timely) <= Cardinality(DOMAIN s)
    BY <1>4, <1>9, FS_Injection
  <2> QED
    BY <1>4, <2>1
<1> QED
  BY <1>7, <1>10

LEMMA InitInvariant == Init => IInv
<1> SUFFICES ASSUME Init PROVE IInv
  OBVIOUS
<1>1. /\ Types /\ DOMAIN sentAt = {} /\ DOMAIN granted = {}
  BY DEF Init, Types
<1>2. TimelyIsInForce /\ Sorted(sentAt)
  BY <1>1 DEF TimelyIsInForce, Sorted
<1>3. Accounts(sentAt)
  <2> DEFINE f == [i \in {} |-> i]
  <2>1. f \in Injection({}, {})
    BY DEF Injection, IsInjective
  <2>2. Stamped(sentAt, f)
    BY <1>1 DEF Stamped
  <2> QED
    BY <1>1, <2>1, <2>2 DEF Accounts
<1> QED
  BY <1>1, <1>2, <1>3 DEF IInv

LEMMA TallyTyped ==
    ASSUME Types, NEW o \in Outcome
    PROVE  Tally(o) \in [Outcome -> Nat]
BY DEF Types, Tally

\* The clock ends the time of some captures and brings none back.
LEMMA ClockInvariant ==
    ASSUME IInv, NEW t \in Nat, ClockTurnsTo(t)
    PROVE  IInv'
<1> USE DEF IInv, ClockTurnsTo
<1>0. Window \in Int
  BY ConstantsAssumption
<1>1. /\ DOMAIN granted' = DOMAIN granted
      /\ \A g \in DOMAIN granted :
            /\ granted[g] \in Grant /\ granted'[g] \in Grant
            /\ granted'[g].at = granted[g].at
            /\ granted'[g].timely <=>
                  granted[g].timely /\ t - Window < granted[g].at /\ granted[g].at <= t
  <2>1. \A g \in DOMAIN granted : granted[g] \in Grant
    BY DEF Types
  <2> QED
    BY <1>0, <2>1 DEF Grant
<1>2. Types'
  <2>1. granted' \in Seq(Grant)
    <3>1. Len(granted) \in Nat /\ DOMAIN granted = 1..Len(granted)
      BY LenProperties DEF Types
    <3>2. granted' \in [1..Len(granted) -> Grant]
      BY <1>1, <3>1
    <3> QED
      BY <3>1, <3>2
  <2> QED
    BY <2>1 DEF Types
<1>3. TimelyIsInForce'
  BY <1>1 DEF TimelyIsInForce, InForce
<1>4. Accounts(sentAt)'
  <2>1. PICK f \in Injection(DOMAIN sentAt, DOMAIN granted) : Stamped(sentAt, f)
    BY DEF Accounts
  <2>2. f \in [DOMAIN sentAt -> DOMAIN granted]
    BY <2>1, Zenon DEF Injection
  <2>3. /\ \A i \in DOMAIN sentAt : granted'[f[i]].at = sentAt[i]
        /\ \A g \in DOMAIN granted : granted'[g].timely => \E i \in DOMAIN sentAt : f[i] = g
    BY <1>1, <2>1, <2>2 DEF Stamped
  <2>4. sentAt' = sentAt
    OBVIOUS
  <2>5. f \in Injection(DOMAIN sentAt', DOMAIN granted')
    BY <1>1, <2>1, <2>4
  <2>6. Stamped(sentAt, f)'
    BY <1>1, <2>3, <2>4 DEF Stamped
  <2> QED
    BY <2>5, <2>6 DEF Accounts
<1> QED
  BY <1>2, <1>3, <1>4 DEF Sorted

LEMMA NextInvariant == IInv /\ [Next]_vars => IInv'
<1> SUFFICES ASSUME IInv, [Next]_vars PROVE IInv'
  OBVIOUS
<1>1. /\ Stamps \in Seq(Nat) /\ Sorted(Stamps) /\ Accounts(Stamps)
      /\ \A i \in DOMAIN Stamps : InForce(Stamps[i])
  BY StampsAreTheWindow
<1>2. ASSUME UNCHANGED <<clock, sentAt, granted>>, stats' \in [Outcome -> Nat]
      PROVE  IInv'
  BY <1>2 DEF IInv, Types, TimelyIsInForce, InForce, Sorted, Accounts, Stamped
<1>3. ASSUME UNCHANGED <<clock, granted>>, sentAt' = Stamps, stats' \in [Outcome -> Nat]
      PROVE  IInv'
  BY <1>1, <1>3 DEF IInv, Types, TimelyIsInForce, InForce, Sorted, Accounts, Stamped
<1>4. stats \in [Outcome -> Nat]
  BY DEF IInv, Types
<1>5. CASE Install \/ InstallFails \/ Destroy \/ CaptureBegins \/ UNCHANGED vars
  BY <1>2, <1>4, <1>5
     DEF Install, InstallFails, Destroy, CaptureBegins, vars, page, time
<1>6. CASE CaptureRefused
  <2>1. PICK why \in Outcome : Ends(why)
    BY <1>6 DEF CaptureRefused, Outcome
  <2> QED
    BY <1>2, <1>6, <2>1, TallyTyped DEF CaptureRefused, Ends, time, IInv
<1>7. CASE Throttle \/ DropNew
  <2>1. "throttled" \in Outcome /\ "full" \in Outcome
    BY DEF Outcome
  <2> QED
    BY <1>3, <1>7, <2>1, TallyTyped DEF Throttle, DropNew, Ends, time, IInv
<1>8. CASE Queue
  <2> DEFINE new == [at |-> clock, timely |-> TRUE]
  <2>1. /\ sentAt' = Append(Stamps, clock) /\ granted' = Append(granted, new)
        /\ clock' = clock
    BY <1>8 DEF Queue, Ends, time
  <2>2. clock \in Nat /\ granted \in Seq(Grant) /\ new \in Grant
    BY DEF IInv, Types, Grant
  <2>3. Window \in Int /\ Window > 0
    BY ConstantsAssumption
  <2>4. /\ sentAt' \in Seq(Nat) /\ Len(sentAt') = Len(Stamps) + 1
        /\ \A i \in 1..Len(Stamps) : sentAt'[i] = Stamps[i]
        /\ sentAt'[Len(Stamps) + 1] = clock
    BY <1>1, <2>1, <2>2, AppendProperties
  <2> DEFINE n == Len(Stamps)
             last == Len(granted) + 1
  <2>5. n \in Nat /\ DOMAIN Stamps = 1..n
    BY <1>1, LenProperties
  <2>6. DOMAIN sentAt' = 1..(n + 1)
    BY <2>4, LenProperties
  <2>7. Len(granted) \in Nat /\ DOMAIN granted = 1..Len(granted)
    BY <2>2, LenProperties
  <2>8. /\ granted' \in Seq(Grant) /\ DOMAIN granted' = 1..last
        /\ \A g \in 1..Len(granted) : granted'[g] = granted[g]
        /\ granted'[last] = new
    <3>1. /\ Append(granted, new) \in Seq(Grant)
          /\ Len(Append(granted, new)) = Len(granted) + 1
          /\ \A g \in 1..Len(granted) : Append(granted, new)[g] = granted[g]
          /\ Append(granted, new)[last] = new
      BY <2>2, AppendProperties
    <3> QED
      BY <2>1, <3>1, LenProperties
  <2>9. new.at = clock
    OBVIOUS
  <2> HIDE DEF new, n, last
  <2>10. stats' \in [Outcome -> Nat]
    BY <1>8, TallyTyped DEF Queue, Ends, IInv, Outcome
  <2>11. Types'
    BY <2>1, <2>2, <2>4, <2>8, <2>10 DEF Types
  <2>12. TimelyIsInForce'
    <3> SUFFICES ASSUME NEW g \in DOMAIN granted', granted'[g].timely
                 PROVE  clock - Window < granted'[g].at /\ granted'[g].at <= clock
      BY <2>1 DEF TimelyIsInForce, InForce
    <3>1. CASE g \in DOMAIN granted
      BY <2>7, <2>8, <3>1 DEF IInv, TimelyIsInForce, InForce
    <3>2. CASE g = last
      BY <2>2, <2>3, <2>8, <2>9, <3>2
    <3> QED
      BY <2>7, <2>8, <3>1, <3>2 DEF last
  <2>13. Sorted(sentAt)'
    <3> SUFFICES ASSUME NEW i \in 1..(n + 1), NEW j \in 1..(n + 1), i < j
                 PROVE  sentAt'[i] <= sentAt'[j]
      BY <2>6 DEF Sorted
    <3>0. i \in 1..n
      BY <2>5
    <3>1. i \in 1..n /\ sentAt'[i] = Stamps[i] /\ Stamps[i] <= clock
      BY <1>1, <2>4, <2>5, <3>0 DEF n, InForce
    <3>2. CASE j \in 1..n
      BY <1>1, <2>4, <2>5, <3>1, <3>2 DEF n, Sorted
    <3>3. CASE j = n + 1
      BY <2>4, <3>1, <3>3 DEF n
    <3> QED
      BY <2>5, <3>2, <3>3
  <2>14. Accounts(sentAt)'
    <3>1. PICK f \in Injection(DOMAIN Stamps, DOMAIN granted) : Stamped(Stamps, f)
      BY <1>1 DEF Accounts
    <3>2. /\ f \in [DOMAIN Stamps -> DOMAIN granted]
          /\ \A i, j \in DOMAIN Stamps : f[i] = f[j] => i = j
      BY <3>1, Zenon DEF Injection, IsInjective
    <3> DEFINE k == [i \in 1..(n + 1) |-> IF i \in 1..n THEN f[i] ELSE last]
    <3>3. \A i \in 1..n : k[i] = f[i] /\ k[i] \in 1..Len(granted)
      BY <2>5, <2>7, <3>2
    <3>4. k[n + 1] = last /\ last \notin 1..Len(granted) /\ last \in 1..last
      BY <2>5, <2>7 DEF last
    <3>5. \A i \in 1..(n + 1) : i \in 1..n \/ i = n + 1
      BY <2>5
    <3>6. k \in [1..(n + 1) -> 1..last]
      BY <2>7, <3>3, <3>4, <3>5 DEF last
    <3> HIDE DEF k
    <3>7. \A i, j \in 1..(n + 1) : k[i] = k[j] => i = j
      BY <2>5, <3>2, <3>3, <3>4, <3>5
    <3>8. k \in Injection(1..(n + 1), 1..last)
      BY <3>6, <3>7, Zenon DEF Injection, IsInjective
    <3>9. \A i \in 1..(n + 1) : granted'[k[i]].at = sentAt'[i]
      <4>1. \A i \in 1..n : granted'[k[i]].at = sentAt'[i]
        BY <2>4, <2>5, <2>8, <3>1, <3>3, ZenonT(60) DEF n, Stamped
      <4>2. granted'[k[n + 1]].at = sentAt'[n + 1]
        BY <2>4, <2>8, <2>9, <3>4 DEF n
      <4> QED
        BY <3>5, <4>1, <4>2
    <3>10. ASSUME NEW g \in 1..last, granted'[g].timely
           PROVE  \E i \in 1..(n + 1) : k[i] = g
      <4>1. CASE g \in 1..Len(granted)
        <5>1. PICK i \in 1..n : f[i] = g
          BY <2>5, <2>7, <2>8, <3>1, <3>10, <4>1 DEF Stamped
        <5> QED
          BY <2>5, <3>3, <5>1
      <4>2. CASE g = last
        BY <2>5, <3>4, <4>2
      <4> QED
        BY <2>7, <4>1, <4>2 DEF last
    <3> QED
      BY <2>6, <2>8, <3>8, <3>9, <3>10 DEF Accounts, Stamped
  <2> QED
    BY <2>11, <2>12, <2>13, <2>14 DEF IInv
<1>9. CASE Tick \/ SetBack
  <2>1. PICK t \in Nat : ClockTurnsTo(t)
    BY <1>9 DEF Tick, SetBack, IInv, Types
  <2> QED
    BY <2>1, ClockInvariant
<1> QED
  BY <1>5, <1>6, <1>7, <1>8, <1>9 DEF Next
-----------------------------------------------------------------------------
\* A capture is let through only if fewer than the budget were within the window,
\* and throttled only if as many were, even when the clock is set back.
THEOREM BudgetAlwaysTheWindow == Spec => BudgetIsTheWindow
<1> DEFINE Step ==
        /\ stats'["queued"] > stats["queued"] =>
             Cardinality({i \in DOMAIN granted : granted[i].timely}) < Budget
        /\ stats'["throttled"] > stats["throttled"] => Cardinality(Recent) >= Budget
<1>1. IInv /\ [Next]_vars => [Step]_vars
  <2> SUFFICES ASSUME IInv, Next PROVE Step
    OBVIOUS
  <2>1. /\ Stamps \in Seq(Nat) /\ Accounts(Stamps)
        /\ \A i \in DOMAIN Stamps : InForce(Stamps[i])
    BY StampsAreTheWindow
  <2> DEFINE timely == {i \in DOMAIN granted : granted[i].timely}
  <2>2. /\ Len(Stamps) <= Cardinality(Recent) /\ Cardinality(timely) <= Len(Stamps)
        /\ Len(Stamps) \in Nat
    BY <2>1, StampsAreCounted, LenProperties DEF IInv
  <2>3. stats["queued"] \in Nat /\ stats["throttled"] \in Nat
    BY DEF IInv, Types, Outcome
  <2>4. Cardinality(timely) \in Nat /\ Cardinality(Recent) \in Nat
    <3>1. IsFiniteSet(DOMAIN granted)
      <4>1. Len(granted) \in Nat /\ DOMAIN granted = 1..Len(granted)
        BY LenProperties DEF IInv, Types
      <4>2. IsFiniteSet(1..Len(granted))
        BY <4>1, FS_Interval
      <4> QED
        BY <4>1, <4>2, Zenon
    <3>2. IsFiniteSet(timely) /\ IsFiniteSet(Recent)
      BY <3>1, FS_Subset DEF Recent
    <3> HIDE DEF timely
    <3> QED
      BY <3>2, FS_CardinalityType
  <2>5. Budget \in Nat
    BY ConstantsAssumption
  <2>6. ASSUME NEW o \in Outcome, NEW p \in Outcome, Ends(o), o # p
        PROVE  stats'[p] = stats[p]
    BY <2>6 DEF Ends, Tally, IInv, Types
  <2>7. /\ ~Queue => stats'["queued"] = stats["queued"]
        /\ ~Throttle => stats'["throttled"] = stats["throttled"]
    BY <2>6 DEF Next, Install, InstallFails, Destroy, CaptureBegins, CaptureRefused,
                Throttle, DropNew, Queue, Tick, SetBack, ClockTurnsTo, Outcome
  <2> HIDE DEF timely
  <2>8. Queue => Cardinality(timely) < Budget
    BY <2>2, <2>4, <2>5 DEF Queue
  <2>9. Throttle => Cardinality(Recent) >= Budget
    BY <2>2, <2>4, <2>5 DEF Throttle
  <2> QED
    BY <2>3, <2>7, <2>8, <2>9 DEF timely
<1> QED
  BY <1>1, InitInvariant, NextInvariant, PTL DEF Spec, BudgetIsTheWindow

\* install(), a failed install() and destroy() leave exactly the listeners that
\* `installed` says.
THEOREM ListenersAlwaysMatch == Spec => []ListenersMatch
<1>1. Init => ListenersMatch
  BY DEF Init, ListenersMatch
<1>2. ListenersMatch /\ [Next]_vars => ListenersMatch'
  BY DEF ListenersMatch, Next, vars, page, Install, InstallFails, Destroy, CanInstall,
         RolledBack, CaptureBegins, CaptureRefused, Throttle, DropNew, Queue, Ends,
         Tick, SetBack, ClockTurnsTo
<1> QED
  BY <1>1, <1>2, PTL DEF Spec
=============================================================================
