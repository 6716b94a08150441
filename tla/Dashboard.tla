------------------------------ MODULE Dashboard ------------------------------
(***************************************************************************)
(* internal/server/dashboard/dashboard.js: sessions, the issue list and    *)
(* its cursors, the issue dialog and triage.                               *)
(*                                                                         *)
(* Every handler runs up to its first await and goes on when the answer    *)
(* arrives, possibly after the user connected with another token, opened   *)
(* another issue or left.  An action is such a stretch of code; what an    *)
(* answer needs to know of the call that asked is kept in `requests`.      *)
(*                                                                         *)
(* A cursor is abstracted to its depth in the walk, 0 for no cursor.  What *)
(* a page or a detail says is abstracted to the session it was fetched in. *)
(* The page behind the dialog stays clickable, as it does in a browser     *)
(* without showModal.  `asked` is a history variable.                      *)
(***************************************************************************)
EXTENDS Integers, FiniteSets, Sequences, SequencesExt

CONSTANTS
    Issue,         \* fingerprints listed
    Filter, All,   \* status filters, and the one that filters nothing
    Deployments,   \* servers it may run against: "private", "demo" (both), "demoOnly"
    Failures,      \* requests may fail other than by 401
    Null,
    MaxDepth,      \* bound: pages of the list
    MaxSessions,   \* bound: sessions the user begins
    MaxLoads,      \* bound: lists loaded, except the first of a session
    MaxDetails     \* bound: issues opened

\* What a page and a detail are remembered by; null is neither.
Pages == [session : Nat, cursor : Nat, filter : Filter, next : BOOLEAN]
Opened == [issue : Issue, session : Nat]

ASSUME ConstantsAssumption ==
    /\ All \in Filter
    /\ Deployments \subseteq {"private", "demo", "demoOnly"}
    /\ Failures \in BOOLEAN
    /\ Null \notin Pages \cup Opened \cup Issue
    /\ {MaxDepth, MaxSessions, MaxLoads, MaxDetails} \subseteq Nat

VARIABLES
    session,         \* state.session
    credential,      \* state.token and state.demo: "none", "token", "demo"
    loading,         \* state.loading
    statusUpdating,  \* state.statusUpdating
    loadRequest,     \* state.loadRequest
    detailRequest,   \* state.detailRequest
    paging,          \* state.cursor, cursorHistory and pageIndex
    filter,          \* state.status
    page,            \* state.page, and the session and query that fetched it
    selected,        \* state.selected
    screen,          \* which panel shows, whether the dialog is open and
                     \* which groups of controls are disabled
    demo,            \* the server, what discoverDemo() found of it so far, and
                     \* demo=1 in the URL
    requests,        \* fetches in flight and what awaits them
    asked            \* the issue clicked last

vars == <<session, credential, loading, statusUpdating, loadRequest,
          detailRequest, paging, filter, page, selected, screen, demo,
          requests, asked>>
listing == <<loading, loadRequest, paging, filter, page>>
detail  == <<statusUpdating, detailRequest, selected, asked>>

FirstPage == [cursor |-> 0, history |-> <<>>, index |-> 0]

Init ==
    /\ session = 0 /\ credential = "none"
    /\ loading = FALSE /\ statusUpdating = FALSE
    /\ loadRequest = 0 /\ detailRequest = 0
    /\ paging = FirstPage /\ filter = All
    /\ page = Null /\ selected = Null /\ asked = Null
    /\ screen = [panel |-> "login", dialog |-> FALSE, loginBusy |-> FALSE,
                 listBusy |-> FALSE, statusBusy |-> FALSE]
    /\ demo \in [server : Deployments, asked : {TRUE}, button : {FALSE},
                only : {FALSE}, url : BOOLEAN]
    /\ requests = {}

-----------------------------------------------------------------------------
\* What an answer may still touch.
AnySession(r) == TRUE                         \* mutant of CurrentSession
CurrentSession(r) == r.session = session
AnyDetail(r) == CurrentSession(r)             \* mutant of CurrentDetail
CurrentDetail(r) == CurrentSession(r) /\ r.request = detailRequest
AnyLoad(r) == r.request = loadRequest         \* mutant of CurrentLoad
CurrentLoad(r) == CurrentSession(r) /\ r.request = loadRequest

\* The first stretch of loadIssues(), in session s, with `rest` in flight.
StartLoad(s, cred, paging2, filter2, after, rest) ==
    /\ loading' = TRUE
    /\ loadRequest' = loadRequest + 1
    /\ requests' = rest \cup
          {[kind |-> "load", session |-> s, request |-> loadRequest + 1,
            credential |-> cred, cursor |-> paging2.cursor,
            filter |-> filter2, again |-> FALSE, after |-> after]}

\* beginSession() and the load that both ways in go on with.
Connect(cred) ==
    /\ session' = session + 1
    /\ statusUpdating' = FALSE
    /\ credential' = cred
    /\ paging' = FirstPage

\* updateDemoURL(false).
NoDemoURL == [demo EXCEPT !.url = FALSE]

Submit ==
    /\ screen.panel = "login" /\ ~screen.loginBusy /\ session < MaxSessions
    /\ Connect("token")
    /\ demo' = NoDemoURL
    /\ StartLoad(session + 1, "token", FirstPage, filter, "login", requests)
    /\ screen' = [screen EXCEPT !.loginBusy = TRUE, !.listBusy = TRUE]
    /\ UNCHANGED <<filter, page, selected, detailRequest, asked>>

EnterDemo ==
    /\ Connect("demo")
    /\ filter' = All /\ page' = Null /\ selected' = Null
    /\ StartLoad(session + 1, "demo", FirstPage, All, "login", requests)
    /\ screen' = [screen EXCEPT !.loginBusy = TRUE, !.listBusy = TRUE]
    /\ UNCHANGED <<detailRequest, asked>>

DemoClicked ==
    /\ screen.panel = "login" /\ ~screen.loginBusy /\ session < MaxSessions
    /\ demo.button
    /\ demo' = [demo EXCEPT !.url = TRUE]
    /\ EnterDemo

\* The screen disconnect() leaves.
StillConnecting ==                            \* mutant of LoginScreen
    [panel |-> "login", dialog |-> FALSE, loginBusy |-> screen.loginBusy,
     listBusy |-> FALSE, statusBusy |-> FALSE]
LoginScreen ==
    [panel |-> "login", dialog |-> FALSE, loginBusy |-> FALSE,
     listBusy |-> FALSE, statusBusy |-> FALSE]

\* disconnect(), with `rest` in flight.
Disconnect(rest) ==
    /\ session' = session + 1
    /\ credential' = "none"
    /\ loading' = FALSE /\ statusUpdating' = FALSE
    /\ filter' = All /\ paging' = FirstPage
    /\ page' = Null /\ selected' = Null
    /\ screen' = LoginScreen
    /\ demo' = NoDemoURL
    /\ requests' = rest
    /\ UNCHANGED <<loadRequest, detailRequest, asked>>

Logout ==
    /\ screen.panel = "workspace" /\ ~demo.only /\ session < MaxSessions
    /\ Disconnect(requests)

-----------------------------------------------------------------------------
\* The controls of the list.  A disabled control fires no click.
Workspace == screen.panel = "workspace" /\ loadRequest < MaxLoads
AlwaysEnabled == Workspace                    \* mutant of ListEnabled
ListEnabled == Workspace /\ ~screen.listBusy

\* loadIssues() from a handler that has set the cursors and the filter.
Load(paging2, filter2) ==
    /\ paging' = paging2 /\ filter' = filter2
    /\ \/ /\ loading
          /\ UNCHANGED <<loading, loadRequest, requests, screen>>
       \/ /\ ~loading
          /\ StartLoad(session, credential, paging2, filter2, "nothing", requests)
          /\ screen' = [screen EXCEPT !.listBusy = TRUE]
    /\ UNCHANGED <<session, credential, page, demo, detail>>

Refresh == ListEnabled /\ Load(paging, filter)

FilterChanged(f) == ListEnabled /\ f # filter /\ Load(FirstPage, f)

KeepIndex(p) ==                               \* mutant of SteppedBack
    [cursor |-> Last(p.history), history |-> Front(p.history), index |-> p.index]
SteppedBack(p) ==
    [cursor |-> Last(p.history), history |-> Front(p.history), index |-> p.index - 1]

Previous ==
    /\ ListEnabled /\ paging.history # <<>>
    /\ Load(SteppedBack(paging), filter)

NextPage ==
    /\ ListEnabled /\ page # Null /\ page.next
    /\ Load([cursor |-> page.cursor + 1,
             history |-> Append(paging.history, paging.cursor),
             index |-> paging.index + 1], filter)

-----------------------------------------------------------------------------
\* openIssue(), up to its fetch.
OpenIssue(i) ==
    /\ screen.panel = "workspace" /\ page # Null /\ detailRequest < MaxDetails
    /\ detailRequest' = detailRequest + 1
    /\ asked' = i
    /\ requests' = requests \cup
          {[kind |-> "detail", session |-> session, request |-> detailRequest + 1,
            credential |-> credential, issue |-> i]}
    /\ UNCHANGED <<session, credential, listing, statusUpdating, selected,
                   screen, demo>>

CloseDialog ==
    /\ screen.dialog
    /\ screen' = [screen EXCEPT !.dialog = FALSE]
    /\ UNCHANGED <<session, credential, listing, detail, demo, requests>>

\* updateIssueStatus(), up to its fetch, with a status other than the shown one.
UpdateStatus ==
    /\ screen.dialog /\ ~screen.statusBusy /\ credential # "demo"
    /\ selected # Null /\ ~statusUpdating /\ loadRequest < MaxLoads
    /\ statusUpdating' = TRUE
    /\ screen' = [screen EXCEPT !.statusBusy = TRUE]
    /\ requests' = requests \cup
          {[kind |-> "patch", session |-> session, request |-> detailRequest,
            credential |-> credential, issue |-> selected.issue]}
    /\ UNCHANGED <<session, credential, listing, detailRequest, selected,
                   asked, demo>>

-----------------------------------------------------------------------------
\* Answers.  Without(r) is what stays in flight.
Without(r) == requests \ {r}

\* An answer that came too late, or whose error is only shown.
Ignore(r) ==
    /\ requests' = Without(r)
    /\ UNCHANGED <<session, credential, listing, detail, screen, demo>>

\* What the caller of loadIssues() does once the list is loaded or has failed:
\* a way in shows the workspace or drops the credential, a triage ends.
AfterLoad(r, loaded) ==
    LET idle == [screen EXCEPT !.listBusy = FALSE]
        in   == r.after = "login" /\ loaded
    IN  /\ loading' = FALSE
        /\ credential' = IF r.after = "login" /\ ~loaded THEN "none" ELSE credential
        /\ statusUpdating' = (statusUpdating /\ r.after # "triage")
        /\ screen' = [idle EXCEPT
              !.panel      = IF in THEN "workspace" ELSE screen.panel,
              !.loginBusy  = screen.loginBusy /\ r.after # "login",
              !.statusBusy = screen.statusBusy /\ r.after # "triage"]

\* The server has the route, so that a 200 is possible.
Served(r) ==
    demo.server # (IF r.credential = "demo" THEN "private" ELSE "demoOnly")

ListFails(r) ==
    /\ r.kind = "load" /\ CurrentLoad(r)
    /\ AfterLoad(r, FALSE)
    /\ requests' = Without(r)
    /\ UNCHANGED <<session, loadRequest, detailRequest, paging, filter, page,
                   selected, demo, asked>>

\* An empty page after the first one: the list shrank, so ask for the page before.
ListShrank(r) ==
    /\ r.kind = "load" /\ CurrentLoad(r) /\ Served(r)
    /\ ~r.again /\ paging.cursor # 0 /\ paging.history # <<>>
    /\ paging' = SteppedBack(paging)
    /\ requests' = Without(r) \cup {[r EXCEPT !.cursor = paging'.cursor, !.again = TRUE]}
    /\ UNCHANGED <<session, credential, loading, loadRequest, filter, page,
                   detail, screen, demo>>

ListArrives(r) ==
    /\ r.kind = "load" /\ CurrentLoad(r) /\ Served(r)
    /\ \E more \in {b \in BOOLEAN : b => r.cursor < MaxDepth} :
          page' = [session |-> r.session, cursor |-> r.cursor,
                   filter |-> r.filter, next |-> more]
    /\ AfterLoad(r, TRUE)
    /\ requests' = Without(r)
    /\ UNCHANGED <<session, loadRequest, detailRequest, paging, filter,
                   selected, demo, asked>>

DetailArrives(r) ==
    /\ r.kind = "detail" /\ CurrentDetail(r) /\ Served(r)
    /\ selected' = [issue |-> r.issue, session |-> r.session]
    /\ screen' = [screen EXCEPT !.dialog = TRUE, !.statusBusy = statusUpdating]
    /\ requests' = Without(r)
    /\ UNCHANGED <<session, credential, listing, statusUpdating, detailRequest,
                   demo, asked>>

\* The PATCH failed, or answers about an issue that is not the shown one.
TriageEnds(r) ==
    /\ r.kind = "patch" /\ CurrentSession(r)
    /\ statusUpdating' = FALSE
    /\ screen' = [screen EXCEPT !.statusBusy = FALSE]
    /\ requests' = Without(r)
    /\ UNCHANGED <<session, credential, listing, detailRequest, selected, demo, asked>>

Shown(r) == selected # Null /\ selected.issue = r.issue

\* The PATCH succeeded: show its answer and reload the list, unless a load is
\* in flight already.
TriageArrives(r) ==
    /\ r.kind = "patch" /\ CurrentSession(r)
    /\ Served(r) /\ Shown(r)
    /\ selected' = [issue |-> r.issue, session |-> r.session]
    /\ \/ /\ loading
          /\ statusUpdating' = FALSE
          /\ screen' = [screen EXCEPT !.statusBusy = FALSE]
          /\ requests' = Without(r)
          /\ UNCHANGED <<loading, loadRequest>>
       \/ /\ ~loading
          /\ StartLoad(session, credential, paging, filter, "triage", Without(r))
          /\ screen' = [screen EXCEPT !.listBusy = TRUE, !.statusBusy = TRUE]
          /\ UNCHANGED statusUpdating
    /\ UNCHANGED <<session, credential, detailRequest, paging, filter, page, demo, asked>>

\* 401, which the demo routes never answer.
Unauthorized(r) ==
    /\ r.credential = "token" /\ CurrentSession(r)
    /\ Disconnect(Without(r))

TooLate(r) ==
    \/ r.kind = "load" /\ ~CurrentLoad(r)
    \/ r.kind = "detail" /\ ~CurrentDetail(r)
    \/ r.kind = "patch" /\ ~CurrentSession(r)

Fails(r) == Failures \/ ~Served(r)

Answer(r) ==
    \/ Unauthorized(r)
    \/ ListArrives(r)
    \/ ListShrank(r)
    \/ DetailArrives(r)
    \/ TriageArrives(r)
    \/ TriageEnds(r) /\ (Fails(r) \/ ~Shown(r))
    \/ ListFails(r) /\ Fails(r)
    \/ TooLate(r) /\ Ignore(r)
    \/ Fails(r) /\ r.kind = "detail" /\ Ignore(r)

\* discoverDemo() learns what the server offers.
Discover ==
    /\ demo.asked
    /\ \/ /\ Failures
          /\ demo' = [demo EXCEPT !.asked = FALSE]
          /\ UNCHANGED <<session, credential, listing, detail, screen, requests>>
       \/ LET only == demo.server = "demoOnly"
              enters == demo.server # "private" /\ (only \/ demo.url)
          IN  /\ demo' = [demo EXCEPT !.asked = FALSE, !.only = only,
                                      !.button = demo.server = "demo"]
              /\ \/ enters /\ EnterDemo
                 \/ /\ ~enters
                    /\ UNCHANGED <<session, credential, listing, detail, screen, requests>>

User ==
    \/ Submit \/ DemoClicked \/ Logout
    \/ Refresh \/ Previous \/ NextPage
    \/ \E f \in Filter : FilterChanged(f)
    \/ \E i \in Issue : OpenIssue(i)
    \/ CloseDialog \/ UpdateStatus

Next == User \/ Discover \/ \E r \in requests : Answer(r)

\* The user owes nothing; every fetch settles in the end.
Kind == {"load", "detail", "patch"}
Spec ==
    /\ Init /\ [][Next]_vars
    /\ WF_vars(Discover)
    /\ \A k \in Kind : WF_vars(\E r \in requests : r.kind = k /\ Answer(r))

-----------------------------------------------------------------------------
\* What is on screen was fetched in the current session: a list or an issue
\* fetched with one token or in the demo never shows in another session, and no
\* workspace is shown without credentials to work in it.  Controls are disabled
\* exactly while this session's work is under way, though the finally blocks of
\* an older one are skipped, and the page number is that of the cursor stack.
OnScreenIsThisSession ==
    /\ screen.panel = "workspace" => page # Null /\ credential # "none"
    /\ page # Null => page.session = session
    /\ selected # Null => selected.session = session
    /\ screen.dialog => selected # Null
    /\ screen.listBusy = loading
    /\ credential = "token" => screen.statusBusy = statusUpdating
    /\ screen.loginBusy <=> \E r \in requests :
          r.kind = "load" /\ CurrentLoad(r) /\ r.after = "login"
    /\ paging.index = Len(paging.history)

\* An answer to a session that is over changes nothing the user sees or does
\* next: not the list, not the dialog, not the flags of a triage under way,
\* and a late 401 does not end the new session.
StaleAnswersChangeNothing ==
    [][\A r \in requests \ requests' :
          r.session # session =>
             UNCHANGED <<session, credential, listing, detail, screen, demo>>]_vars

\* A list is only ever rendered for the cursor and the filter in force.
RenderedListIsTheView ==
    [][page' # page /\ page' # Null =>
          page'.cursor = paging'.cursor /\ page'.filter = filter']_vars

\* The dialog turns to the issue clicked last, whatever order details and
\* PATCH answers arrive in.
DialogShowsTheIssueAsked ==
    [][selected' # selected /\ selected' # Null =>
          \/ selected'.issue = asked
          \/ selected # Null /\ selected'.issue = selected.issue]_vars

\* The page number and the offsets shown with a list are those of the list.
PageNumberIsDepth ==
    [][page' # page /\ page' # Null => paging'.index = page'.cursor]_vars

\* No group of controls stays disabled: every login, load and triage ends.
BusyEnds ==
    /\ screen.loginBusy ~> ~screen.loginBusy
    /\ screen.listBusy ~> ~screen.listBusy
    /\ screen.statusBusy ~> ~screen.statusBusy
=============================================================================
