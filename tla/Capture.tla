------------------------------- MODULE Capture -------------------------------
(***************************************************************************)
(* sdk/error-tracer.js up to its queue: the listeners install() attaches,  *)
(* and capture() with its sampling, host callbacks and budget of           *)
(* maxEventsPerMinute, over a clock that may be set back.  What happens    *)
(* after the queue is SDKClient.                                           *)
(*                                                                         *)
(* capture() calls host code - random, the getters of the candidate,       *)
(* beforeSend, clock - and that code may call the client again.  `nested`  *)
(* captures are inside such calls.  From reading the clock to pushing the  *)
(* stamp no host code runs.                                                *)
(*                                                                         *)
(* `made` and `granted` are history: the captures begun, and the stamps    *)
(* of those let through.  A stamp stays `timely` while the clock stays     *)
(* within a window after it, neither running past that nor set back before.*)
(***************************************************************************)
EXTENDS Integers, Sequences, FiniteSets

CONSTANTS
    Listeners,     \* how many install() attaches: 4, or 3 without a document
    Budget,        \* options.maxEventsPerMinute
    Window,        \* 60 000 ms, in ticks of the clock
    MaxNested,     \* bound: captures inside one another
    MaxCaptures,   \* bound: captures begun
    MaxTime,       \* bound: the clock
    MaxSetBack     \* bound: times the clock is set back

ASSUME ConstantsAssumption ==
    /\ {Listeners, Budget, Window} \subseteq Nat \ {0}
    /\ {MaxNested, MaxCaptures, MaxTime, MaxSetBack} \subseteq Nat

VARIABLES
    listeners,   \* registrations attached to the page
    installed,   \* this.installed
    stopped,     \* this.stopped
    clock,       \* what options.clock returns
    setBack,
    nested,
    stats,       \* this.stats; "queued" for the captures that got to the queue
    sentAt,      \* this.sentAt
    made,
    granted

vars == <<listeners, installed, stopped, clock, setBack, nested, stats, sentAt,
          made, granted>>
page == <<listeners, installed, stopped>>
time == <<clock, setBack>>

Listener == 1..Listeners   \* in the order install() adds them

\* stats.dropped counts the "oversized" (as stats.failed does) and the "full".
Outcome == {"sampled", "suppressed", "invalid", "oversized", "throttled", "full",
            "queued"}

Init ==
    /\ listeners = {} /\ installed = FALSE /\ stopped = FALSE
    /\ clock = 0 /\ setBack = 0
    /\ nested = 0 /\ made = 0
    /\ stats = [o \in Outcome |-> 0]
    /\ sentAt = <<>> /\ granted = <<>>

-----------------------------------------------------------------------------
\* Listeners.
CanInstall == ~stopped /\ ~installed

KeepOthers(added) == added \ {1}              \* mutant of RolledBack
RolledBack(added) == {}

\* Registering the n-th listener throws: those before it are removed again.
InstallFails ==
    /\ CanInstall
    /\ \E n \in Listener : listeners' = RolledBack(1..(n - 1))
    /\ UNCHANGED <<installed, stopped, time, nested, stats, sentAt, made, granted>>

Install ==
    /\ CanInstall
    /\ listeners' = Listener
    /\ installed' = TRUE
    /\ UNCHANGED <<stopped, time, nested, stats, sentAt, made, granted>>

\* destroy() removes what was installed, and flushes the queue (SDKClient).
Destroy ==
    /\ stopped' = TRUE
    /\ installed' = FALSE
    /\ listeners' = IF installed THEN {} ELSE listeners
    /\ UNCHANGED <<time, nested, stats, sentAt, made, granted>>

-----------------------------------------------------------------------------
\* capture().
CaptureBegins ==
    /\ ~stopped
    /\ nested < MaxNested /\ made < MaxCaptures
    /\ nested' = nested + 1
    /\ made' = made + 1
    /\ UNCHANGED <<page, time, stats, sentAt, granted>>

Tally(outcome) == [stats EXCEPT ![outcome] = @ + 1]

Ends(outcome) ==
    /\ nested > 0
    /\ nested' = nested - 1
    /\ stats' = Tally(outcome)
    /\ UNCHANGED <<page, time, made>>

\* Sampled out, refused by beforeSend, not an event, or too large.
CaptureRefused ==
    /\ \E why \in {"sampled", "suppressed", "invalid", "oversized"} : Ends(why)
    /\ UNCHANGED <<sentAt, granted>>

\* hasBudget: stamps leave at the front when the window has passed them ...
InWindow(stamps) ==
    LET Past(n) == \A i \in 1..n : stamps[i] <= clock - Window
        gone == CHOOSE n \in 0..Len(stamps) :
                   Past(n) /\ (n = Len(stamps) \/ ~Past(n + 1))
    IN  SubSeq(stamps, gone + 1, Len(stamps))

\* ... and those ahead of a clock that was set back leave too.
AllStamps(stamps) == stamps                   \* mutants of NotAhead
NoneAhead(stamps) ==
    IF stamps # <<>> /\ stamps[Len(stamps)] > clock THEN <<>> ELSE stamps
Filtered(stamps) ==
    LET kept  == {i \in DOMAIN stamps : stamps[i] <= clock}
        size  == Cardinality(kept)
        place == CHOOSE f \in [1..size -> kept] : \A i, j \in 1..size : i < j => f[i] < f[j]
    IN  [i \in 1..size |-> stamps[place[i]]]
NotAhead(stamps) ==
    IF stamps # <<>> /\ stamps[Len(stamps)] > clock THEN Filtered(stamps) ELSE stamps

Stamps == NotAhead(InWindow(sentAt))

Throttle ==
    /\ Len(Stamps) >= Budget
    /\ Ends("throttled")
    /\ sentAt' = Stamps
    /\ UNCHANGED granted

\* The queue and everything reserved are full: no stamp is spent.
DropNew ==
    /\ Len(Stamps) < Budget
    /\ Ends("full")
    /\ sentAt' = Stamps
    /\ UNCHANGED granted

Queue ==
    /\ Len(Stamps) < Budget
    /\ Ends("queued")
    /\ sentAt' = Append(Stamps, clock)
    /\ granted' = Append(granted, [at |-> clock, timely |-> TRUE])

-----------------------------------------------------------------------------
\* The clock shows t next.
ClockTurnsTo(t) ==
    /\ clock' = t
    /\ granted' = [i \in DOMAIN granted |->
                     [granted[i] EXCEPT !.timely = @ /\ t - Window < granted[i].at
                                                     /\ granted[i].at <= t]]
    /\ UNCHANGED <<page, nested, stats, sentAt, made>>

Tick ==
    /\ clock < MaxTime
    /\ ClockTurnsTo(clock + 1)
    /\ UNCHANGED setBack

SetBack ==
    /\ setBack < MaxSetBack
    /\ setBack' = setBack + 1
    /\ \E t \in 0..(clock - 1) : ClockTurnsTo(t)

Next == \/ Install \/ InstallFails \/ Destroy
        \/ CaptureBegins \/ CaptureRefused \/ Throttle \/ DropNew \/ Queue
        \/ Tick \/ SetBack

Spec == Init /\ [][Next]_vars
-----------------------------------------------------------------------------
Recent == {i \in DOMAIN granted : clock - Window < granted[i].at /\ granted[i].at <= clock}

\* maxEventsPerMinute is exactly that, whatever the clock does: a capture is let
\* through only if fewer than Budget were in the minute the clock has shown
\* since, and throttled only if Budget have stamps in the minute before now.
BudgetIsTheWindow ==
    [][/\ stats'["queued"] > stats["queued"] =>
             Cardinality({i \in DOMAIN granted : granted[i].timely}) < Budget
       /\ stats'["throttled"] > stats["throttled"] => Cardinality(Recent) >= Budget]_vars

\* The page carries the client's listeners exactly while it is installed: a
\* failed install() and a destroy() leave none behind, and a destroyed client
\* never attaches them again.
ListenersMatch ==
    /\ listeners = IF installed THEN Listener ELSE {}
    /\ installed => ~stopped
=============================================================================
