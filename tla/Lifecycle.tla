----------------------------- MODULE Lifecycle -----------------------------
(***************************************************************************)
(* cmd/error-tracer/main.go: run() and serve().  The process opens its     *)
(* database, serves, and on SIGTERM becomes unready, drains HTTP, stops    *)
(* the retention goroutine and closes the database, in that order.         *)
(*                                                                         *)
(* Goroutines: main, `closer` (the goroutine of serve() that waits for the *)
(* context), the retention goroutine and one handler per request.  SIGTERM *)
(* comes at any time; what it does depends on who has asked for it: the    *)
(* startup context, serve()'s context, or nobody, and then it kills.       *)
(*                                                                         *)
(* `failed` and `code` are history variables: whether something genuinely  *)
(* failed, and the exit code.                                              *)
(***************************************************************************)
EXTENDS Integers, FiniteSets

CONSTANTS
    Request,      \* bound: HTTP requests of one run
    Retention,    \* a retention bound is configured
    MaxSweeps     \* bound: sweep statements of one run

ASSUME ConstantsAssumption ==
    /\ Retention \in BOOLEAN
    /\ MaxSweeps \in Nat

VARIABLES
    main,        \* where run() and serve() are
    startup,     \* startupCtx is cancelled
    context,     \* serve()'s ctx is cancelled
    ready,       \* app.ready
    listener,    \* "none", "open", "closed"
    closer,      \* "none", "waiting", "unready", "draining", "forcing", "done"
    retention,   \* "off", "sweeping", "idle", "done"
    sweeps,      \* sweep statements so far
    store,       \* "none", "open", "closed"
    handler,     \* [Request -> "none", "running", "recorded", "answered", "cut", "over"]
    failed, code

vars == <<main, startup, context, ready, listener, closer, retention, sweeps,
          store, handler, failed, code>>
serving == <<context, ready, listener, closer, retention, sweeps, handler>>
history == <<failed, code>>

Init ==
    /\ main = "opening" /\ startup = FALSE /\ context = FALSE
    /\ ready = FALSE /\ listener = "none" /\ closer = "none"
    /\ retention = "off" /\ sweeps = 0 /\ store = "none"
    /\ handler = [r \in Request |-> "none"]
    /\ failed = FALSE /\ code = -1

Alive == main \notin {"exited", "killed"}

-----------------------------------------------------------------------------
\* OpenSQLiteWithOptions returns: with the store, which a cancellation after
\* its last query does not prevent, with an error of its own, or with the error
\* its cancelled context gave it.
OpenReturns ==
    /\ main = "opening"
    /\ \/ /\ main' = "opened" /\ store' = "open" /\ UNCHANGED failed
       \/ /\ main' = "openFailed" /\ failed' = TRUE /\ UNCHANGED store
       \/ /\ startup
          /\ main' = "openFailed" /\ UNCHANGED <<store, failed>>
    /\ UNCHANGED <<startup, serving, code>>

\* stopStartup() after the context was read: an interrupted open exits 0, any
\* other failure 1, a database that opened goes on whatever the context says.
ReadTooLate == 0                              \* mutant of OpenFailedCode
OpenFailedCode == IF startup THEN 0 ELSE 1

StopStartup ==
    /\ \/ /\ main = "openFailed"
          /\ main' = "exited" /\ code' = OpenFailedCode
       \/ /\ main = "opened"
          /\ main' = "building" /\ UNCHANGED code
    /\ UNCHANGED <<startup, store, serving, failed>>

\* New() and the first lines of serve(), up to ListenAndServe.
StartServing ==
    /\ main = "building"
    /\ main' = "listen" /\ ready' = TRUE
    /\ closer' = "waiting"
    /\ retention' = IF Retention THEN "sweeping" ELSE "off"
    /\ UNCHANGED <<startup, context, listener, sweeps, store, handler, history>>

\* Shutdown() has been called, so ListenAndServe returns ErrServerClosed.
ShuttingDown == closer \in {"draining", "forcing", "done"}

Listen ==
    /\ main = "listen"
    /\ \/ /\ ShuttingDown
          /\ main' = "stopping" /\ UNCHANGED listener
       \/ /\ ~ShuttingDown
          /\ main' = "serving" /\ listener' = "open"
    /\ UNCHANGED <<startup, context, ready, closer, retention, sweeps, store,
                   handler, history>>

\* The address is taken, or accepting fails; stop() cancels the context and
\* gives up the signal.
NotStopped == context                         \* mutant of Stopped
Stopped == TRUE

ListenFails ==
    /\ main \in {"listen", "serving"} /\ ~ShuttingDown
    /\ main' = "stopping" /\ failed' = TRUE
    /\ context' = Stopped
    /\ listener' = "closed"
    /\ UNCHANGED <<startup, ready, closer, retention, sweeps, store, handler,
                   code>>

ListenReturns ==
    /\ main = "serving" /\ ShuttingDown
    /\ main' = "stopping"
    /\ UNCHANGED <<startup, store, serving, history>>

-----------------------------------------------------------------------------
\* The goroutine that waits for ctx, makes the service unready and stops the
\* HTTP server.
DrainFirst == {"waiting"}                     \* mutant of MayDrain
MayDrain == {"unready"}

SetUnready ==
    /\ closer = "waiting" /\ context
    /\ ready' = FALSE /\ closer' = "unready"
    /\ UNCHANGED <<main, startup, context, listener, retention, sweeps, store,
                   handler, history>>

Shutdown ==
    /\ closer \in MayDrain /\ context
    /\ closer' = "draining" /\ listener' = "closed"
    /\ UNCHANGED <<main, startup, context, ready, retention, sweeps, store,
                   handler, history>>

InFlight == {r \in Request : handler[r] \in {"running", "recorded"}}

Drained == InFlight = {}

ShutdownReturns ==
    /\ closer = "draining"
    /\ \/ Drained /\ closer' = "done"
       \/ closer' = "forcing"                 \* the timeout came first
    /\ UNCHANGED <<main, startup, context, ready, listener, retention, sweeps,
                   store, handler, history>>

\* Close() cuts the connections left; their handlers run on unheard.
ForceClose ==
    /\ closer = "forcing"
    /\ closer' = "done"
    /\ handler' = [r \in Request |-> IF r \in InFlight THEN "cut" ELSE handler[r]]
    /\ UNCHANGED <<main, startup, context, ready, listener, retention, sweeps,
                   store, history>>

\* A handler takes a request, records, answers.
Accept(r) ==
    /\ Alive /\ listener = "open" /\ handler[r] = "none"
    /\ handler' = [handler EXCEPT ![r] = "running"]
    /\ UNCHANGED <<main, startup, context, ready, listener, closer, retention,
                   sweeps, store, history>>

Record(r) ==
    /\ Alive
    /\ \/ /\ handler[r] = "running"
          /\ handler' = [handler EXCEPT ![r] = "recorded"]
       \/ /\ handler[r] = "cut"               \* recorded or not, nobody hears
          /\ handler' = [handler EXCEPT ![r] = "over"]
    /\ UNCHANGED <<main, startup, context, ready, listener, closer, retention,
                   sweeps, store, history>>

Respond(r) ==
    /\ Alive /\ handler[r] = "recorded"
    /\ handler' = [handler EXCEPT ![r] = "answered"]
    /\ UNCHANGED <<main, startup, context, ready, listener, closer, retention,
                   sweeps, store, history>>

-----------------------------------------------------------------------------
\* The retention goroutine.  A sweep begun after ctx was cancelled returns
\* before it reaches the store, so only sweeps before that are steps.
SweepReturns ==
    /\ Alive /\ retention = "sweeping"
    /\ retention' = "idle"
    /\ UNCHANGED <<main, startup, context, ready, listener, closer, sweeps,
                   store, handler, history>>

Sweep ==
    /\ Alive /\ retention = "idle" /\ ~context /\ sweeps < MaxSweeps
    /\ retention' = "sweeping" /\ sweeps' = sweeps + 1
    /\ UNCHANGED <<main, startup, context, ready, listener, closer, store,
                   handler, history>>

RetentionStops ==
    /\ Alive /\ retention = "idle" /\ context
    /\ retention' = "done"
    /\ UNCHANGED <<main, startup, context, ready, listener, closer, sweeps,
                   store, handler, history>>

-----------------------------------------------------------------------------
\* serve() returns: wait for the closer, run the deferred stopBackground() and
\* stop(); then run() closes the store.
BackgroundStopped == retention \in {"off", "done"}

CloserDone == closer = "done"

ServeReturns ==
    /\ main = "stopping" /\ CloserDone
    /\ BackgroundStopped
    /\ main' = "closing"
    /\ UNCHANGED <<startup, store, serving, history>>

CloseStore ==
    /\ main = "closing"
    /\ store' = "closed" /\ main' = "exited"
    /\ code' = IF failed THEN 1 ELSE 0
    /\ UNCHANGED <<startup, serving, failed>>

\* SIGTERM.  serve() listens for it until it returns or, once its listener has
\* failed, until stop() there.
Opening == main \in {"opening", "opened", "openFailed"}
Serving == main \in {"listen", "serving"} \/ (main = "stopping" /\ ~failed)

Signal ==
    /\ Alive
    /\ \/ /\ Opening
          /\ startup' = TRUE
          /\ UNCHANGED <<main, context>>
       \/ /\ Serving
          /\ context' = TRUE
          /\ UNCHANGED <<main, startup>>
       \/ /\ ~Opening /\ ~Serving
          /\ main' = "killed"
          /\ UNCHANGED <<startup, context>>
    /\ UNCHANGED <<ready, listener, closer, retention, sweeps, store, handler,
                   failed, code>>

Main == OpenReturns \/ StopStartup \/ StartServing \/ Listen \/ ListenReturns
        \/ ServeReturns \/ CloseStore
Closer == SetUnready \/ Shutdown \/ ShutdownReturns \/ ForceClose
Retire == SweepReturns \/ RetentionStops

Next ==
    \/ Main \/ ListenFails \/ Signal
    \/ Alive /\ Closer
    \/ Retire \/ Sweep
    \/ \E r \in Request : Accept(r) \/ Record(r) \/ Respond(r)

\* Goroutines are scheduled and statements return; handlers may take as long
\* as they like, which is what the shutdown timeout is for.
Spec ==
    /\ Init /\ [][Next]_vars
    /\ WF_vars(Main) /\ WF_vars(Alive /\ Closer) /\ WF_vars(Retire)

-----------------------------------------------------------------------------
\* The shutdown keeps its order.  The service is unready before it stops taking
\* requests, so that a load balancer is told before connections are refused
\* (README, Operations); the listener failing by itself is the exception.  main
\* waits for the drain, and the database outlives everything that uses it: when
\* it closes no sweep is under way, and every request taken has been answered,
\* unless the drain timed out and its connection was cut.
ShutdownInOrder ==
    /\ ready => closer = "waiting"
    /\ listener = "closed" /\ ready => failed
    /\ main \in {"closing", "exited"} /\ store # "none" => closer = "done"
    /\ store = "closed" => retention \in {"off", "done"} /\ InFlight = {}

\* A supervisor can tell a failure from a clean stop: the exit code is 1 exactly
\* when something failed, unless a signal had interrupted the startup anyway.
ExitCodeTellsTheTruth ==
    main = "exited" => (code = 1) = (failed /\ ~(startup /\ store = "none"))

\* Once serve() has heard a signal or lost its listener the process ends: the
\* closer, the retention goroutine and main never wait in a circle.
ServingStops == context \/ main = "stopping" ~> ~Alive
=============================================================================
