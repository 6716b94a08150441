-------------------------- MODULE Lifecycle_proofs --------------------------
(***************************************************************************)
(* Proofs about Lifecycle: the shutdown keeps its order and the exit code  *)
(* tells the truth, for any number of requests and sweeps.                 *)
(***************************************************************************)
EXTENDS Lifecycle, TLAPS

HandlerState == {"none", "running", "recorded", "answered", "cut", "over"}

\* The part of the state the shutdown's order is about has its types.
Types ==
    /\ main \in {"opening", "opened", "openFailed", "building", "listen", "serving",
                 "stopping", "closing", "exited", "killed"}
    /\ ready \in BOOLEAN /\ failed \in BOOLEAN
    /\ closer \in {"none", "waiting", "unready", "draining", "forcing", "done"}
    /\ handler \in [Request -> HandlerState]

\* Before serve() starts them there is neither closer nor retention goroutine.
NotStarted ==
    main \in {"opening", "opened", "openFailed", "building"} =>
        /\ closer = "none" /\ ready = FALSE
        /\ retention = "off" /\ listener = "none"

\* Once Shutdown() was called nothing is accepted, and the closer is done only
\* when nothing is in flight.
Closing ==
    /\ ready => closer = "waiting"
    /\ ShuttingDown => listener = "closed"
    /\ listener = "closed" => failed \/ ShuttingDown
    /\ closer = "done" => InFlight = {}

\* main gets to the store only behind the closer and the retention goroutine.
StoreLast ==
    /\ main \in {"opening", "openFailed"} => store = "none"
    /\ store = "closed" => main = "exited"
    /\ main = "closing" \/ (main = "exited" /\ store # "none") =>
          closer = "done" /\ BackgroundStopped

\* The exit code, and what decides it while the process is still opening.
Codes ==
    /\ main = "openFailed" => failed \/ startup
    /\ ExitCodeTellsTheTruth

IInv == Types /\ NotStarted /\ Closing /\ StoreLast /\ Codes

LEMMA InitInv == Init => IInv
<1> SUFFICES ASSUME Init PROVE IInv
  OBVIOUS
<1>1. Types /\ NotStarted
  BY DEF Init, Types, NotStarted, HandlerState
<1>2. Closing
  BY DEF Init, Closing, ShuttingDown
<1>3. StoreLast /\ Codes
  BY DEF Init, StoreLast, Codes, ExitCodeTellsTheTruth
<1> QED
  BY <1>1, <1>2, <1>3 DEF IInv

\* The steps of the main goroutine and of signals.
LEMMA MainKeepsInv ==
    ASSUME IInv, Main \/ ListenFails \/ Signal
    PROVE  IInv'
<1> USE DEF IInv
<1>1. Types'
  BY DEF Main, OpenReturns, StopStartup, StartServing, Listen, ListenReturns, ListenFails,
         ServeReturns, CloseStore, Signal, Types, serving, history
<1>2. NotStarted'
  BY DEF Main, OpenReturns, StopStartup, StartServing, Listen, ListenReturns, ListenFails,
         ServeReturns, CloseStore, Signal, NotStarted, Types, serving, history
<1>3. Closing'
  <2>1. CASE StartServing
    BY <2>1 DEF StartServing, NotStarted, Closing, ShuttingDown, Types, history
  <2>2. CASE Listen
    BY <2>2 DEF Listen, Closing, ShuttingDown, InFlight, history
  <2>3. CASE ListenFails
    BY <2>3 DEF ListenFails, Closing, ShuttingDown, InFlight
  <2>4. CASE OpenReturns \/ StopStartup \/ ListenReturns \/ ServeReturns \/ CloseStore \/ Signal
    BY <2>4 DEF OpenReturns, StopStartup, ListenReturns, ServeReturns, CloseStore, Signal,
                Closing, ShuttingDown, InFlight, serving, history
  <2> QED
    BY <2>1, <2>2, <2>3, <2>4 DEF Main
<1>4. StoreLast'
  BY DEF Main, OpenReturns, StopStartup, StartServing, Listen, ListenReturns, ListenFails,
         ServeReturns, CloseStore, Signal, StoreLast, BackgroundStopped, CloserDone, Alive,
         Opening, Serving, serving, history
<1>5. Codes'
  <2>1. CASE OpenReturns \/ StopStartup
    BY <2>1 DEF OpenReturns, StopStartup, OpenFailedCode, StoreLast, Codes, Types,
                ExitCodeTellsTheTruth, serving, history
  <2>2. CASE CloseStore
    BY <2>2 DEF CloseStore, Codes, Types, ExitCodeTellsTheTruth, serving, history
  <2>3. CASE StartServing \/ Listen \/ ListenReturns \/ ListenFails \/ ServeReturns \/ Signal
    BY <2>3 DEF StartServing, Listen, ListenReturns, ListenFails, ServeReturns, Signal,
                Alive, Opening, Codes, ExitCodeTellsTheTruth, serving, history
  <2> QED
    BY <2>1, <2>2, <2>3 DEF Main
<1> QED
  BY <1>1, <1>2, <1>3, <1>4, <1>5

\* The steps of the goroutine that stops the HTTP server.
LEMMA CloserKeepsInv ==
    ASSUME IInv, Alive, Closer
    PROVE  IInv'
<1> USE DEF IInv
<1>1. Types'
  BY DEF Closer, SetUnready, Shutdown, ShutdownReturns, ForceClose, Types, HandlerState, history
<1>2. NotStarted'
  BY DEF Closer, SetUnready, Shutdown, MayDrain, ShutdownReturns, ForceClose, NotStarted, history
<1>3. Closing'
  <2>1. CASE SetUnready \/ Shutdown
    BY <2>1 DEF SetUnready, Shutdown, MayDrain, Closing, ShuttingDown, Types, history
  <2>2. CASE ShutdownReturns
    BY <2>2 DEF ShutdownReturns, Drained, Closing, ShuttingDown, InFlight, history
  <2>3. CASE ForceClose
    <3>1. InFlight' = {}
      BY <2>3 DEF ForceClose, InFlight, Types
    <3> QED
      BY <2>3, <3>1 DEF ForceClose, Closing, ShuttingDown, history
  <2> QED
    BY <2>1, <2>2, <2>3 DEF Closer
<1>4. StoreLast'
  BY DEF Closer, SetUnready, Shutdown, MayDrain, ShutdownReturns, ForceClose, StoreLast,
         BackgroundStopped, Alive, history
<1>5. Codes'
  BY DEF Closer, SetUnready, Shutdown, ShutdownReturns, ForceClose, Codes,
         ExitCodeTellsTheTruth, history
<1> QED
  BY <1>1, <1>2, <1>3, <1>4, <1>5

\* The steps of the retention goroutine.
LEMMA RetentionKeepsInv ==
    ASSUME IInv, Retire \/ Sweep
    PROVE  IInv'
  BY DEF IInv, Retire, SweepReturns, Sweep, RetentionStops, Types, NotStarted, Closing,
         ShuttingDown, InFlight, StoreLast, BackgroundStopped, Codes, ExitCodeTellsTheTruth,
         history

\* The steps of a handler: only Accept adds to what is in flight, and it needs
\* an open listener.
LEMMA HandlerKeepsInv ==
    ASSUME IInv, NEW r \in Request, Accept(r) \/ Record(r) \/ Respond(r)
    PROVE  IInv'
<1> USE DEF IInv
<1>1. UNCHANGED <<main, startup, ready, listener, closer, retention, store, failed, code>>
  BY DEF Accept, Record, Respond, history
<1>2. Types'
  BY <1>1 DEF Accept, Record, Respond, Types, HandlerState
<1>3. closer = "done" => InFlight' = {}
  <2> SUFFICES ASSUME closer = "done" PROVE InFlight' = {}
    OBVIOUS
  <2>1. listener = "closed" /\ InFlight = {}
    BY DEF Closing, ShuttingDown
  <2> QED
    BY <2>1 DEF Accept, Record, Respond, InFlight, Types
<1>4. Closing' /\ NotStarted' /\ StoreLast' /\ Codes'
  BY <1>1, <1>3 DEF Closing, ShuttingDown, NotStarted, StoreLast, BackgroundStopped, Codes,
                    ExitCodeTellsTheTruth
<1> QED
  BY <1>2, <1>4

LEMMA NextKeepsInv == IInv /\ [Next]_vars => IInv'
<1> SUFFICES ASSUME IInv, [Next]_vars PROVE IInv'
  OBVIOUS
<1>1. CASE UNCHANGED vars
  BY <1>1 DEF vars, IInv, Types, NotStarted, Closing, ShuttingDown, InFlight, StoreLast,
              BackgroundStopped, Codes, ExitCodeTellsTheTruth
<1>2. CASE Next
  BY <1>2, MainKeepsInv, CloserKeepsInv, RetentionKeepsInv, HandlerKeepsInv DEF Next
<1> QED
  BY <1>1, <1>2

LEMMA InvImpliesOrder == IInv => ShutdownInOrder /\ ExitCodeTellsTheTruth
  BY DEF IInv, Types, Closing, ShuttingDown, StoreLast, BackgroundStopped, Codes,
         ShutdownInOrder

LEMMA InvAlways == Spec => []IInv
  BY InitInv, NextKeepsInv, PTL DEF Spec

\* However signals, a failing listener, the drain's timeout, handlers and sweeps
\* interleave: readiness goes first, the drain before main goes on, the store
\* is closed under nobody (serve and stopHTTPServer in main.go).
THEOREM ShutdownAlwaysInOrder == Spec => []ShutdownInOrder
  BY InvAlways, InvImpliesOrder, PTL

\* The process exits 1 exactly when something failed that no signal to the
\* startup explains (run in main.go).
THEOREM ExitCodeAlwaysTrue == Spec => []ExitCodeTellsTheTruth
  BY InvAlways, InvImpliesOrder, PTL
=============================================================================
