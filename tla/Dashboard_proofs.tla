--------------------------- MODULE Dashboard_proofs ---------------------------
(***************************************************************************)
(* Safety of Dashboard for every number of issues, pages, sessions, loads  *)
(* and details, and whatever order answers arrive in.                      *)
(*                                                                         *)
(* No invariant of the panels alone is inductive: what an answer may do    *)
(* depends on what was on screen when its question was asked.  The         *)
(* invariant below says what a request still in flight knows about the     *)
(* state it will come back to.                                             *)
(***************************************************************************)
EXTENDS Dashboard, TLAPS

Credential == {"none", "token", "demo"}
ListRequest ==
    [kind : {"load"}, session : Nat, request : Nat, credential : Credential,
     cursor : Nat, filter : Filter, again : BOOLEAN,
     after : {"login", "nothing", "triage"}]
IssueRequest ==
    [kind : {"detail", "patch"}, session : Nat, request : Nat,
     credential : Credential, issue : Issue]

Screens ==
    [panel : {"login", "workspace"}, dialog : BOOLEAN, loginBusy : BOOLEAN,
     listBusy : BOOLEAN, statusBusy : BOOLEAN]
Demos ==
    [server : Deployments, asked : BOOLEAN, button : BOOLEAN, only : BOOLEAN,
     url : BOOLEAN]
Pagings == [cursor : Nat, history : Seq(Nat), index : Int]

\* What the variables range over.
Types ==
    /\ session \in Nat /\ loadRequest \in Nat /\ detailRequest \in Nat
    /\ credential \in Credential
    /\ loading \in BOOLEAN /\ statusUpdating \in BOOLEAN
    /\ paging \in Pagings
    /\ filter \in Filter
    /\ page \in Pages \cup {Null} /\ selected \in Opened \cup {Null}
    /\ screen \in Screens
    /\ demo \in Demos
    /\ requests \subseteq ListRequest \cup IssueRequest

\* A request was made in this session or an earlier one.
NoneAhead == \A r \in requests : r.session <= session

\* At most one load of this session is in flight.  It will find the cursors,
\* filter and credential it was started with, and it was started by a way in
\* exactly while the login panel still shows.
OneLoad ==
    \A r \in requests : r.kind = "load" /\ CurrentSession(r) =>
        /\ r.request = loadRequest /\ loading
        /\ r.cursor = paging.cursor /\ r.filter = filter
        /\ r.credential = credential /\ credential # "none"
        /\ r.after = "login" <=> screen.panel = "login"
        /\ \A q \in requests : q.kind = "load" /\ CurrentSession(q) => q = r

\* A triage of this session is one request at a time: its PATCH, or the load
\* that follows.
Triaging(r) == CurrentSession(r) /\ (r.kind = "patch" \/ (r.kind = "load" /\ r.after = "triage"))
OneTriage ==
    \A r \in requests : Triaging(r) =>
        /\ statusUpdating
        /\ \A q \in requests : Triaging(q) => q = r

\* The detail asked for last is that of the issue clicked last.
LatestDetail ==
    \A r \in requests : r.kind = "detail" =>
        /\ r.request <= detailRequest
        /\ r.request = detailRequest => r.issue = asked

\* The login panel is shown on a clean slate, and no request about an issue
\* can come back to it.
CleanLogin ==
    screen.panel = "login" =>
        /\ page = Null /\ selected = Null
        /\ ~screen.dialog /\ ~statusUpdating
        /\ \A r \in requests : CurrentSession(r) => r.kind = "load"

\* Busy controls are those of the work under way.
BusyIsWork ==
    /\ screen.listBusy = loading
    /\ screen.statusBusy = statusUpdating
    /\ screen.loginBusy <=> \E r \in requests :
          r.kind = "load" /\ CurrentLoad(r) /\ r.after = "login"

\* Whoever is in the workspace has a credential and a list, both of this session.
Inside ==
    /\ screen.panel = "workspace" => page # Null /\ credential # "none"
    /\ page # Null => page.session = session
    /\ selected # Null => selected.session = session
    /\ screen.dialog => selected # Null
    /\ paging.index = Len(paging.history)

\* Before discoverDemo() is answered nobody is in the demo, and where its
\* answer leads into the demo nobody is in the workspace.
BeforeDemo ==
    demo.asked =>
        /\ ~demo.button /\ credential # "demo"
        /\ demo.url => requests = {}
        /\ demo.url \/ demo.server = "demoOnly" => screen.panel = "login"

IInv ==
    /\ Types /\ NoneAhead /\ OneLoad /\ OneTriage /\ LatestDetail
    /\ CleanLogin /\ BusyIsWork /\ Inside /\ BeforeDemo

-----------------------------------------------------------------------------
LEMMA InitInv == Init => IInv
<1> SUFFICES ASSUME Init PROVE IInv
  OBVIOUS
<1>1. Types
  <2>1. paging \in Pagings
    BY DEF Init, FirstPage, Pagings
  <2>2. demo \in Demos
    BY DEF Init, Demos
  <2>3. screen \in Screens
    BY DEF Init, Screens
  <2> QED
    BY <2>1, <2>2, <2>3, ConstantsAssumption DEF Init, Types, Credential
<1> QED
  BY <1>1 DEF Init, IInv, NoneAhead, OneLoad, OneTriage, Triaging, LatestDetail,
     CleanLogin, BusyIsWork, Inside, BeforeDemo, FirstPage

\* Every way in starts a session of its own from the login panel.
Enters(cred, f) ==
    /\ Connect(cred)
    /\ StartLoad(session + 1, cred, FirstPage, f, "login", requests)
    /\ screen' = [screen EXCEPT !.loginBusy = TRUE, !.listBusy = TRUE]
    /\ filter' = f /\ page' = Null /\ selected' = Null
    /\ UNCHANGED <<detailRequest, asked>>

LEMMA EntersKeeps ==
    ASSUME IInv, NEW cred \in {"token", "demo"}, NEW f \in Filter, Enters(cred, f),
           screen.panel = "login",
           demo' \in Demos
    PROVE  /\ Types' /\ NoneAhead' /\ OneLoad' /\ OneTriage' /\ LatestDetail'
           /\ CleanLogin' /\ BusyIsWork' /\ Inside' /\ screen'.panel = "login"
<1> DEFINE n == [kind |-> "load", session |-> session + 1, request |-> loadRequest + 1,
                 credential |-> cred, cursor |-> 0, filter |-> f, again |-> FALSE,
                 after |-> "login"]
<1>1. /\ requests' = requests \cup {n}
      /\ session' = session + 1 /\ loadRequest' = loadRequest + 1
      /\ credential' = cred /\ loading' = TRUE /\ statusUpdating' = FALSE
      /\ paging' = FirstPage /\ filter' = f /\ page' = Null /\ selected' = Null
      /\ UNCHANGED <<detailRequest, asked>>
  BY DEF Enters, Connect, StartLoad, FirstPage
<1>2. /\ n \in ListRequest /\ n.kind = "load" /\ n.session = session + 1
      /\ n.request = loadRequest + 1 /\ n.credential = cred /\ n.cursor = 0
      /\ n.filter = f /\ n.after = "login"
  BY DEF IInv, Types, ListRequest, Credential
<1> HIDE DEF n
<1>3. /\ session \in Nat /\ loadRequest \in Nat /\ detailRequest \in Nat
      /\ requests \subseteq ListRequest \cup IssueRequest
      /\ \A r \in requests : r.session <= session
  BY DEF IInv, Types, NoneAhead
<1>4. \A r \in requests : r.session \in Nat /\ r.session # session + 1
  BY <1>3 DEF ListRequest, IssueRequest
<1>5. /\ screen' \in Screens
      /\ screen'.panel = "login" /\ screen'.dialog = screen.dialog
      /\ screen'.loginBusy = TRUE /\ screen'.listBusy = TRUE
      /\ screen'.statusBusy = screen.statusBusy
  BY DEF IInv, Types, Enters, Screens
<1>6. paging'.index = 0 /\ paging'.history = <<>> /\ paging'.cursor = 0
      /\ paging' \in Pagings
  BY <1>1 DEF FirstPage, Pagings
<1>7. ~screen.dialog /\ statusUpdating = FALSE /\ screen.statusBusy = statusUpdating
  BY DEF IInv, Types, CleanLogin, BusyIsWork, Screens
<1>8. \A r \in requests' : r.session = session' => r = n
  BY <1>1, <1>4
<1>9. Types'
  <2>1. requests' \subseteq ListRequest \cup IssueRequest
    BY <1>1, <1>2, <1>3
  <2>2. session' \in Nat /\ loadRequest' \in Nat /\ detailRequest' \in Nat
    BY <1>1, <1>3
  <2>3. /\ loading' \in BOOLEAN /\ statusUpdating' \in BOOLEAN
        /\ credential' \in Credential /\ filter' \in Filter
        /\ page' \in Pages \cup {Null} /\ selected' \in Opened \cup {Null}
    BY <1>1 DEF Credential
  <2> QED
    BY <1>5, <1>6, <2>1, <2>2, <2>3 DEF Types
<1>10. NoneAhead'
  BY <1>1, <1>2, <1>3, <1>4 DEF NoneAhead
<1>11. OneLoad'
  BY <1>1, <1>2, <1>5, <1>6, <1>8 DEF OneLoad, CurrentSession
<1>12. OneTriage'
  BY <1>2, <1>8 DEF OneTriage, Triaging, CurrentSession
<1>13. LatestDetail'
  BY <1>1, <1>2 DEF IInv, LatestDetail
<1>14. CleanLogin'
  BY <1>1, <1>2, <1>5, <1>7, <1>8 DEF CleanLogin, CurrentSession
<1>15. BusyIsWork'
  <2>1. n \in requests' /\ n.request = loadRequest' /\ n.session = session'
    BY <1>1, <1>2
  <2> QED
    BY <1>1, <1>2, <1>5, <1>7, <2>1 DEF BusyIsWork, CurrentLoad, CurrentSession
<1>16. Inside'
  BY <1>1, <1>5, <1>6, <1>7 DEF Inside
<1> QED
  BY <1>5, <1>9, <1>10, <1>11, <1>12, <1>13, <1>14, <1>15, <1>16

LEMMA SubmitKeepsInv ==
    ASSUME IInv, Submit
    PROVE  IInv'
<1>1. Enters("token", filter) /\ screen.panel = "login" /\ filter \in Filter
  BY DEF IInv, Types, CleanLogin, Submit, Enters
<1>2. /\ demo' \in Demos
      /\ demo'.asked = demo.asked /\ demo'.button = demo.button /\ demo'.url = FALSE
      /\ demo'.server = demo.server
  BY DEF IInv, Types, Submit, NoDemoURL, Demos
<1>3. /\ Types' /\ NoneAhead' /\ OneLoad' /\ OneTriage' /\ LatestDetail'
      /\ CleanLogin' /\ BusyIsWork' /\ Inside' /\ screen'.panel = "login"
  BY <1>1, <1>2, EntersKeeps
<1>4. BeforeDemo'
  BY <1>1, <1>2, <1>3 DEF IInv, BeforeDemo, Enters, Connect
<1> QED
  BY <1>3, <1>4 DEF IInv

LEMMA DemoClickedKeepsInv ==
    ASSUME IInv, DemoClicked
    PROVE  IInv'
<1>1. Enters("demo", All) /\ screen.panel = "login" /\ All \in Filter
  BY ConstantsAssumption DEF DemoClicked, EnterDemo, Enters
<1>2. /\ demo' \in Demos
      /\ demo'.asked = demo.asked /\ demo.button
  BY DEF IInv, Types, DemoClicked, Demos
<1>3. /\ Types' /\ NoneAhead' /\ OneLoad' /\ OneTriage' /\ LatestDetail'
      /\ CleanLogin' /\ BusyIsWork' /\ Inside' /\ screen'.panel = "login"
  BY <1>1, <1>2, EntersKeeps
<1>4. BeforeDemo'
  BY <1>2 DEF IInv, BeforeDemo
<1> QED
  BY <1>3, <1>4 DEF IInv
\* disconnect() leaves a login panel nothing in flight can come back to.
LEMMA DisconnectKeepsInv ==
    ASSUME IInv, NEW rest, rest \subseteq requests, Disconnect(rest)
    PROVE  IInv'
<1>1. /\ session' = session + 1 /\ credential' = "none"
      /\ loading' = FALSE /\ statusUpdating' = FALSE /\ filter' = All
      /\ paging' = FirstPage /\ page' = Null /\ selected' = Null
      /\ requests' = rest /\ requests' \subseteq requests
      /\ UNCHANGED <<loadRequest, detailRequest, asked>>
  BY DEF Disconnect
<1>2. /\ session \in Nat /\ loadRequest \in Nat /\ detailRequest \in Nat
      /\ requests \subseteq ListRequest \cup IssueRequest
      /\ \A r \in requests : r.session <= session
  BY DEF IInv, Types, NoneAhead
<1>3. \A r \in requests' : r.session \in Nat /\ r.session # session' /\ r.session <= session'
  BY <1>1, <1>2 DEF ListRequest, IssueRequest
<1>4. /\ screen' \in Screens
      /\ screen'.panel = "login" /\ screen'.dialog = FALSE /\ screen'.loginBusy = FALSE
      /\ screen'.listBusy = FALSE /\ screen'.statusBusy = FALSE
  BY DEF Disconnect, LoginScreen, Screens
<1>5. /\ demo' \in Demos /\ demo'.asked = demo.asked /\ demo'.button = demo.button
      /\ demo'.url = FALSE
  BY DEF IInv, Types, Disconnect, NoDemoURL, Demos
<1>6. /\ paging' \in Pagings /\ paging'.index = 0 /\ paging'.history = <<>>
  BY <1>1 DEF FirstPage, Pagings
<1>7. Types'
  <2>1. session' \in Nat /\ loadRequest' \in Nat /\ detailRequest' \in Nat
    BY <1>1, <1>2
  <2>2. /\ loading' \in BOOLEAN /\ statusUpdating' \in BOOLEAN
        /\ credential' \in Credential /\ filter' \in Filter
        /\ page' \in Pages \cup {Null} /\ selected' \in Opened \cup {Null}
        /\ requests' \subseteq ListRequest \cup IssueRequest
    BY <1>1, <1>2, ConstantsAssumption DEF Credential
  <2> QED
    BY <1>4, <1>5, <1>6, <2>1, <2>2 DEF Types
<1>8. NoneAhead' /\ OneLoad' /\ OneTriage'
  BY <1>3 DEF NoneAhead, OneLoad, OneTriage, Triaging, CurrentSession
<1>9. LatestDetail'
  BY <1>1 DEF IInv, LatestDetail
<1>10. CleanLogin' /\ BusyIsWork' /\ Inside'
  BY <1>1, <1>3, <1>4, <1>6
     DEF CleanLogin, BusyIsWork, Inside, CurrentLoad, CurrentSession
<1>11. BeforeDemo'
  BY <1>1, <1>4, <1>5 DEF IInv, BeforeDemo
<1> QED
  BY <1>7, <1>8, <1>9, <1>10, <1>11 DEF IInv

\* discoverDemo()'s answer finds the login panel wherever it leads into the demo.
LEMMA DiscoverKeepsInv ==
    ASSUME IInv, Discover
    PROVE  IInv'
<1>1. demo.asked /\ demo \in Demos
  BY DEF Discover, IInv, Types
<1>2. demo' \in Demos /\ demo'.asked = FALSE
  BY <1>1 DEF Discover, Demos
<1>3. BeforeDemo'
  BY <1>2 DEF BeforeDemo
<1>4. CASE UNCHANGED <<session, credential, listing, detail, screen, requests>>
  <2>1. Types' /\ NoneAhead' /\ OneLoad' /\ OneTriage' /\ LatestDetail'
    BY <1>2, <1>4 DEF IInv, Types, NoneAhead, OneLoad, OneTriage, Triaging,
       LatestDetail, CurrentSession, listing, detail
  <2>2. CleanLogin' /\ BusyIsWork' /\ Inside'
    BY <1>4 DEF IInv, CleanLogin, BusyIsWork, Inside, CurrentLoad, CurrentSession,
       listing, detail
  <2> QED
    BY <1>3, <2>1, <2>2 DEF IInv
<1>5. CASE (demo.server = "demoOnly" \/ demo.url) /\ EnterDemo
  <2>1. screen.panel = "login"
    BY <1>1, <1>5 DEF IInv, BeforeDemo
  <2>2. Enters("demo", All) /\ All \in Filter
    BY <1>5, ConstantsAssumption DEF EnterDemo, Enters
  <2>3. /\ Types' /\ NoneAhead' /\ OneLoad' /\ OneTriage' /\ LatestDetail'
        /\ CleanLogin' /\ BusyIsWork' /\ Inside'
    BY <1>2, <2>1, <2>2, EntersKeeps
  <2> QED
    BY <1>3, <2>3 DEF IInv
<1> QED
  BY <1>4, <1>5 DEF Discover
\* Every list control asks for a page nobody is loading: it is disabled while
\* the workspace loads.
LEMMA LoadKeepsInv ==
    ASSUME IInv, ListEnabled, NEW paging2 \in Pagings, NEW filter2 \in Filter,
           paging2.index = Len(paging2.history), Load(paging2, filter2)
    PROVE  IInv'
<1> DEFINE n == [kind |-> "load", session |-> session, request |-> loadRequest + 1,
                 credential |-> credential, cursor |-> paging2.cursor,
                 filter |-> filter2, again |-> FALSE, after |-> "nothing"]
<1>1. /\ Types /\ screen.panel = "workspace" /\ loading = FALSE
      /\ ~screen.listBusy /\ credential # "none"
  BY DEF IInv, ListEnabled, Workspace, BusyIsWork, Types, Inside
<1>2. /\ requests' = requests \cup {n} /\ loading' = TRUE
      /\ loadRequest' = loadRequest + 1 /\ paging' = paging2 /\ filter' = filter2
      /\ UNCHANGED <<session, credential, statusUpdating, detailRequest, page,
                     selected, demo, asked>>
  BY <1>1 DEF Load, StartLoad, detail
<1>3. /\ screen' \in Screens /\ screen'.panel = "workspace"
      /\ screen'.dialog = screen.dialog /\ screen'.loginBusy = screen.loginBusy
      /\ screen'.listBusy = TRUE /\ screen'.statusBusy = screen.statusBusy
  BY <1>1 DEF Load, Types, Screens
<1>4. /\ n \in ListRequest /\ n.kind = "load" /\ n.session = session
      /\ n.request = loadRequest + 1 /\ n.credential = credential
      /\ n.cursor = paging2.cursor /\ n.filter = filter2 /\ n.after = "nothing"
  BY <1>1 DEF Types, ListRequest, Pagings
<1> HIDE DEF n
<1>5. \A r \in requests : r.kind = "load" => ~CurrentSession(r)
  BY <1>1 DEF IInv, OneLoad
<1>6. Types'
  <2>1. session' \in Nat /\ loadRequest' \in Nat /\ detailRequest' \in Nat
    BY <1>1, <1>2 DEF Types
  <2>2. requests' \subseteq ListRequest \cup IssueRequest
    BY <1>1, <1>2, <1>4 DEF Types
  <2> QED
    BY <1>1, <1>2, <1>3, <2>1, <2>2 DEF Types
<1>7. NoneAhead'
  BY <1>1, <1>2, <1>4 DEF IInv, NoneAhead, Types
<1>8. OneLoad'
  BY <1>1, <1>2, <1>3, <1>4, <1>5 DEF OneLoad, CurrentSession
<1>9. OneTriage'
  BY <1>2, <1>4 DEF IInv, OneTriage, Triaging, CurrentSession
<1>10. LatestDetail'
  BY <1>2, <1>4 DEF IInv, LatestDetail
<1>11. CleanLogin' /\ Inside'
  <2>1. CleanLogin'
    BY <1>3 DEF CleanLogin
  <2>2. Inside
    BY DEF IInv
  <2>3. Inside'
    BY <1>1, <1>2, <1>3, <2>2 DEF Inside
  <2> QED
    BY <2>1, <2>3
<1>12. BusyIsWork'
  <2>1. ~screen.loginBusy
    BY <1>1, <1>5 DEF IInv, BusyIsWork, CurrentLoad, Types, Screens
  <2>2. \A r \in requests' : r.kind = "load" /\ r.session = session' => r = n
    BY <1>2, <1>5 DEF CurrentSession
  <2> QED
    BY <1>2, <1>3, <1>4, <2>1, <2>2
       DEF IInv, BusyIsWork, CurrentLoad, CurrentSession
<1>13. BeforeDemo'
  BY <1>1, <1>2, <1>3 DEF IInv, BeforeDemo
<1> QED
  BY <1>6, <1>7, <1>8, <1>9, <1>10, <1>11, <1>12, <1>13 DEF IInv

\* Popping the cursor history keeps the page number its length.
LEMMA SteppedBackFits ==
    ASSUME NEW p \in Pagings, p.history # <<>>, p.index = Len(p.history)
    PROVE  /\ SteppedBack(p) \in Pagings
           /\ SteppedBack(p).index = Len(SteppedBack(p).history)
<1> DEFINE h == p.history
<1>1. h \in Seq(Nat) /\ p.index \in Int
  BY DEF Pagings
<1>2. Len(h) \in Nat /\ Len(h) > 0
  <2>1. Len(h) \in Nat /\ h # <<>>
    BY <1>1
  <2>2. Len(h) = 0 => h = <<>>
    BY <1>1
  <2> QED
    BY <2>1, <2>2
<1>3. Last(h) \in Nat
  BY <1>1, <1>2 DEF Last
<1>4. Front(h) \in Seq(Nat) /\ Len(Front(h)) = Len(h) - 1
  BY <1>1, <1>2 DEF Front
<1> HIDE DEF h
<1>5. SteppedBack(p) = [cursor |-> Last(h), history |-> Front(h), index |-> p.index - 1]
  BY DEF SteppedBack, h
<1> QED
  BY <1>1, <1>3, <1>4, <1>5 DEF Pagings, h

LEMMA ListControlsKeepInv ==
    ASSUME IInv, Refresh \/ Previous \/ NextPage \/ \E f \in Filter : FilterChanged(f)
    PROVE  IInv'
<1>1. paging \in Pagings /\ filter \in Filter /\ paging.index = Len(paging.history)
  BY DEF IInv, Types, Inside
<1>2. CASE Refresh
  BY <1>1, <1>2, LoadKeepsInv DEF Refresh
<1>3. CASE Previous
  BY <1>1, <1>3, LoadKeepsInv, SteppedBackFits DEF Previous
<1>4. CASE NextPage
  <2> DEFINE q == [cursor |-> page.cursor + 1,
                   history |-> Append(paging.history, paging.cursor),
                   index |-> paging.index + 1]
  <2>1. page \in Pages
    BY <1>4 DEF NextPage, IInv, Types
  <2>2. /\ paging.cursor \in Nat /\ paging.history \in Seq(Nat) /\ paging.index \in Int
        /\ page.cursor \in Nat
    BY <1>1, <2>1 DEF Pagings, Pages
  <2>3. q \in Pagings /\ q.index = Len(q.history)
    BY <1>1, <2>2 DEF Pagings
  <2> QED
    BY <1>1, <1>4, <2>3, LoadKeepsInv DEF NextPage
<1>5. ASSUME NEW f \in Filter, FilterChanged(f) PROVE IInv'
  <2>1. FirstPage \in Pagings /\ FirstPage.index = Len(FirstPage.history)
    BY DEF FirstPage, Pagings
  <2> QED
    BY <1>5, <2>1, LoadKeepsInv DEF FilterChanged
<1> QED
  BY <1>2, <1>3, <1>4, <1>5
\* The issue clicked last is the one the latest detail is about.
LEMMA OpenIssueKeepsInv ==
    ASSUME IInv, NEW i \in Issue, OpenIssue(i)
    PROVE  IInv'
<1> DEFINE n == [kind |-> "detail", session |-> session, request |-> detailRequest + 1,
                 credential |-> credential, issue |-> i]
<1>1. Types /\ screen.panel = "workspace" /\ page # Null
  BY DEF IInv, OpenIssue
<1>2. /\ requests' = requests \cup {n} /\ detailRequest' = detailRequest + 1
      /\ asked' = i
      /\ UNCHANGED <<session, credential, loading, loadRequest, paging, filter, page,
                     statusUpdating, selected, screen, demo>>
  BY DEF OpenIssue, listing
<1>3. /\ n \in IssueRequest /\ n.kind = "detail" /\ n.session = session
      /\ n.request = detailRequest + 1 /\ n.issue = i
  BY <1>1 DEF Types, IssueRequest
<1> HIDE DEF n
<1>4. Types'
  <2>1. detailRequest' \in Nat /\ requests' \subseteq ListRequest \cup IssueRequest
    BY <1>1, <1>2, <1>3 DEF Types
  <2> QED
    BY <1>1, <1>2, <2>1 DEF Types
<1>5. NoneAhead'
  BY <1>1, <1>2, <1>3 DEF IInv, NoneAhead, Types
<1>6. OneLoad'
  BY <1>2, <1>3 DEF IInv, OneLoad, CurrentSession
<1>7. OneTriage'
  BY <1>2, <1>3 DEF IInv, OneTriage, Triaging, CurrentSession
<1>8. LatestDetail'
  <2>1. ASSUME NEW r \in requests, r.kind = "detail"
        PROVE  r.request \in Nat /\ r.request <= detailRequest
    BY <1>1, <2>1 DEF IInv, LatestDetail, Types, ListRequest, IssueRequest
  <2> QED
    BY <1>1, <1>2, <1>3, <2>1 DEF LatestDetail, Types
<1>9. CleanLogin' /\ Inside'
  BY <1>1, <1>2 DEF IInv, CleanLogin, Inside
<1>10. BusyIsWork'
  BY <1>2, <1>3 DEF IInv, BusyIsWork, CurrentLoad, CurrentSession
<1>11. BeforeDemo'
  BY <1>1, <1>2 DEF IInv, BeforeDemo
<1> QED
  BY <1>4, <1>5, <1>6, <1>7, <1>8, <1>9, <1>10, <1>11 DEF IInv

LEMMA CloseDialogKeepsInv ==
    ASSUME IInv, CloseDialog
    PROVE  IInv'
<1>1. Types /\ UNCHANGED <<session, credential, listing, detail, demo, requests>>
  BY DEF IInv, CloseDialog
<1>2. /\ screen' \in Screens /\ screen'.panel = screen.panel /\ screen'.dialog = FALSE
      /\ screen'.loginBusy = screen.loginBusy /\ screen'.listBusy = screen.listBusy
      /\ screen'.statusBusy = screen.statusBusy
  BY <1>1 DEF CloseDialog, Types, Screens
<1>3. Types' /\ NoneAhead' /\ OneLoad' /\ OneTriage' /\ LatestDetail'
  BY <1>1, <1>2 DEF IInv, Types, NoneAhead, OneLoad, OneTriage, Triaging,
     LatestDetail, CurrentSession, listing, detail
<1>4. CleanLogin' /\ BusyIsWork' /\ Inside'
  BY <1>1, <1>2 DEF IInv, CleanLogin, BusyIsWork, Inside, CurrentLoad,
     CurrentSession, listing, detail
<1>5. BeforeDemo'
  BY <1>1, <1>2 DEF IInv, BeforeDemo
<1> QED
  BY <1>3, <1>4, <1>5 DEF IInv

\* A triage starts only when none is under way.
LEMMA UpdateStatusKeepsInv ==
    ASSUME IInv, UpdateStatus
    PROVE  IInv'
<1> DEFINE n == [kind |-> "patch", session |-> session, request |-> detailRequest,
                 credential |-> credential, issue |-> selected.issue]
<1>1. /\ Types /\ screen.dialog /\ selected # Null /\ selected \in Opened
      /\ statusUpdating = FALSE
  BY DEF IInv, UpdateStatus, Types
<1>2. screen.panel = "workspace"
  BY <1>1 DEF IInv, CleanLogin, Types, Screens
<1>3. /\ requests' = requests \cup {n} /\ statusUpdating' = TRUE
      /\ UNCHANGED <<session, credential, loading, loadRequest, paging, filter, page,
                     detailRequest, selected, asked, demo>>
  BY DEF UpdateStatus, listing
<1>4. /\ screen' \in Screens /\ screen'.panel = screen.panel
      /\ screen'.dialog = screen.dialog /\ screen'.loginBusy = screen.loginBusy
      /\ screen'.listBusy = screen.listBusy /\ screen'.statusBusy = TRUE
  BY <1>1 DEF UpdateStatus, Types, Screens
<1>5. n \in IssueRequest /\ n.kind = "patch" /\ n.session = session
  BY <1>1 DEF Types, IssueRequest, Opened
<1> HIDE DEF n
<1>6. \A r \in requests : ~Triaging(r)
  BY <1>1 DEF IInv, OneTriage
<1>7. Types'
  <2>1. requests' \subseteq ListRequest \cup IssueRequest
    BY <1>1, <1>3, <1>5 DEF Types
  <2> QED
    BY <1>1, <1>3, <1>4, <2>1 DEF Types
<1>8. NoneAhead'
  BY <1>1, <1>3, <1>5 DEF IInv, NoneAhead, Types
<1>9. OneLoad'
  BY <1>3, <1>4, <1>5 DEF IInv, OneLoad, CurrentSession
<1>10. OneTriage'
  BY <1>3, <1>5, <1>6 DEF OneTriage, Triaging, CurrentSession
<1>11. LatestDetail'
  BY <1>3, <1>5 DEF IInv, LatestDetail
<1>12. CleanLogin' /\ Inside'
  BY <1>2, <1>3, <1>4 DEF IInv, CleanLogin, Inside
<1>13. BusyIsWork'
  BY <1>3, <1>4, <1>5 DEF IInv, BusyIsWork, CurrentLoad, CurrentSession
<1>14. BeforeDemo'
  BY <1>2, <1>3, <1>4 DEF IInv, BeforeDemo
<1> QED
  BY <1>7, <1>8, <1>9, <1>10, <1>11, <1>12, <1>13, <1>14 DEF IInv
\* The end of loadIssues() and of what awaits it: only a way in that loaded
\* leaves the login panel.
LEMMA AfterLoadKeeps ==
    ASSUME IInv, NEW r \in requests, r.kind = "load", CurrentLoad(r),
           NEW loaded \in BOOLEAN, AfterLoad(r, loaded), requests' = Without(r),
           page' \in Pages \cup {Null},
           loaded => /\ page' # Null /\ page'.session = session
                     /\ ~(demo.asked /\ (demo.url \/ demo.server = "demoOnly")),
           ~loaded => page' = page,
           UNCHANGED <<session, loadRequest, detailRequest, paging, filter,
                       selected, demo, asked>>
    PROVE  IInv'
<1> DEFINE in == r.after = "login" /\ loaded
<1>1. /\ Types /\ CurrentSession(r)
      /\ r.after = "login" <=> screen.panel = "login"
      /\ r.credential = credential /\ credential # "none"
  BY DEF IInv, OneLoad, CurrentLoad
<1>2. r \in ListRequest
  BY <1>1 DEF Types, IssueRequest
<1>3. /\ loading' = FALSE
      /\ credential' = IF r.after = "login" /\ ~loaded THEN "none" ELSE credential
      /\ statusUpdating' = (statusUpdating /\ r.after # "triage")
  BY DEF AfterLoad
<1>4. /\ screen' \in Screens
      /\ screen'.panel = (IF in THEN "workspace" ELSE screen.panel)
      /\ screen'.dialog = screen.dialog
      /\ screen'.loginBusy = (screen.loginBusy /\ r.after # "login")
      /\ screen'.listBusy = FALSE
      /\ screen'.statusBusy = (screen.statusBusy /\ r.after # "triage")
  BY <1>1 DEF AfterLoad, Types, Screens
<1>5. \A q \in requests' : q \in requests /\ (q.kind = "load" => ~CurrentSession(q))
  BY <1>1 DEF IInv, OneLoad, Without
<1>6. screen'.panel = "login" => screen.panel = "login" /\ ~loaded
  BY <1>1, <1>4
<1>7. Types'
  <2>1. requests' \subseteq ListRequest \cup IssueRequest
    BY <1>1, <1>5 DEF Types
  <2>2. credential' \in Credential /\ statusUpdating' \in BOOLEAN /\ loading' \in BOOLEAN
    BY <1>1, <1>3 DEF Types, Credential
  <2> QED
    BY <1>1, <1>4, <2>1, <2>2 DEF Types
<1>8. NoneAhead' /\ OneLoad' /\ LatestDetail'
  BY <1>5 DEF IInv, NoneAhead, OneLoad, LatestDetail, CurrentSession
<1>9. OneTriage'
  <2>1. r.after = "triage" => Triaging(r)
    BY <1>1 DEF Triaging
  <2>2. ASSUME NEW q \in requests', Triaging(q)' PROVE Triaging(q) /\ q # r
    BY <2>2 DEF Triaging, CurrentSession, Without
  <2>3. ASSUME NEW q \in requests', Triaging(q)'
        PROVE  statusUpdating' /\ \A p \in requests' : Triaging(p)' => p = q
    BY <1>3, <1>5, <2>1, <2>2, <2>3 DEF IInv, OneTriage
  <2> QED
    BY <2>3 DEF OneTriage
<1>10. CleanLogin'
  BY <1>1, <1>3, <1>4, <1>5, <1>6 DEF IInv, CleanLogin, CurrentSession
<1>11. BusyIsWork'
  <2>1. screen.loginBusy => r.after = "login"
    BY <1>1 DEF IInv, BusyIsWork, OneLoad, CurrentLoad
  <2> QED
    BY <1>1, <1>3, <1>4, <1>5, <2>1 DEF IInv, BusyIsWork, CurrentLoad, CurrentSession
<1>12. Inside'
  <2>1. CASE loaded
    BY <1>1, <1>3, <1>4, <2>1 DEF IInv, Inside
  <2>2. CASE ~loaded
    BY <1>1, <1>3, <1>4, <2>2 DEF IInv, Inside
  <2> QED
    BY <2>1, <2>2
<1>13. BeforeDemo'
  BY <1>1, <1>3, <1>4, <1>5 DEF IInv, BeforeDemo
<1> QED
  BY <1>7, <1>8, <1>9, <1>10, <1>11, <1>12, <1>13 DEF IInv

LEMMA ListAnswersKeepInv ==
    ASSUME IInv, NEW r \in requests, ListArrives(r) \/ ListFails(r)
    PROVE  IInv'
<1>1. CASE ListFails(r)
  BY <1>1, AfterLoadKeeps DEF ListFails, IInv, Types
<1>2. CASE ListArrives(r)
  <2>1. PICK more \in BOOLEAN :
           page' = [session |-> r.session, cursor |-> r.cursor,
                    filter |-> r.filter, next |-> more]
    BY <1>2 DEF ListArrives
  <2>2. /\ r.kind = "load" /\ CurrentLoad(r) /\ Served(r) /\ AfterLoad(r, TRUE)
        /\ requests' = Without(r)
        /\ UNCHANGED <<session, loadRequest, detailRequest, paging, filter,
                       selected, demo, asked>>
    BY <1>2 DEF ListArrives
  <2>3. /\ r \in ListRequest /\ r.session = session
        /\ r.credential = credential /\ credential # "none" /\ credential \in Credential
    BY <2>2 DEF IInv, Types, IssueRequest, OneLoad, CurrentLoad, CurrentSession
  <2>4. page' \in Pages /\ page' # Null /\ page'.session = session
    BY <2>1, <2>3, ConstantsAssumption DEF ListRequest, Pages
  <2>5. ~(demo.asked /\ (demo.url \/ demo.server = "demoOnly"))
    BY <2>2, <2>3 DEF IInv, BeforeDemo, Served, Credential
  <2> QED
    BY <2>2, <2>4, <2>5, AfterLoadKeeps
<1> QED
  BY <1>1, <1>2

\* Asking again for the page before keeps the load that is under way.
LEMMA ListShrankKeepsInv ==
    ASSUME IInv, NEW r \in requests, ListShrank(r)
    PROVE  IInv'
<1> DEFINE n == [r EXCEPT !.cursor = paging'.cursor, !.again = TRUE]
<1>1. /\ r.kind = "load" /\ CurrentLoad(r) /\ paging.history # <<>>
      /\ paging' = SteppedBack(paging) /\ requests' = Without(r) \cup {n}
      /\ UNCHANGED <<session, credential, loading, loadRequest, filter, page,
                     detailRequest, statusUpdating, selected, asked, screen, demo>>
  BY DEF ListShrank, detail
<1>2. /\ Types /\ CurrentSession(r) /\ r.request = loadRequest /\ loading
      /\ r.filter = filter /\ r.credential = credential /\ credential # "none"
      /\ r.after = "login" <=> screen.panel = "login"
      /\ \A q \in requests : q.kind = "load" /\ CurrentSession(q) => q = r
  BY <1>1 DEF IInv, OneLoad, CurrentLoad
<1>3. paging' \in Pagings /\ paging'.index = Len(paging'.history) /\ paging'.cursor \in Nat
  <2>1. paging \in Pagings /\ paging.index = Len(paging.history)
    BY <1>2 DEF IInv, Types, Inside
  <2>2. /\ SteppedBack(paging) \in Pagings
        /\ SteppedBack(paging).index = Len(SteppedBack(paging).history)
    BY <1>1, <2>1, SteppedBackFits
  <2>3. SteppedBack(paging).cursor \in Nat
    BY <2>2 DEF Pagings
  <2> QED
    BY <1>1, <2>2, <2>3
<1>4. /\ n \in ListRequest /\ n.kind = "load" /\ n.session = session
      /\ n.request = loadRequest /\ n.credential = credential
      /\ n.cursor = paging'.cursor /\ n.filter = filter /\ n.after = r.after
  <2>1. r \in ListRequest /\ r.session = session
    BY <1>1, <1>2 DEF Types, IssueRequest, CurrentSession
  <2> QED
    BY <1>1, <1>2, <1>3, <2>1 DEF ListRequest
<1> HIDE DEF n
<1>5. \A q \in requests' : q.kind = "load" /\ q.session = session => q = n
  BY <1>1, <1>2 DEF Without, CurrentSession
<1>6. \A q \in requests' : q = n \/ q \in requests
  BY <1>1 DEF Without
<1>7. Types'
  <2>1. requests' \subseteq ListRequest \cup IssueRequest
    BY <1>2, <1>4, <1>6 DEF Types
  <2> QED
    BY <1>1, <1>2, <1>3, <2>1 DEF Types
<1>8. NoneAhead' /\ LatestDetail'
  BY <1>1, <1>2, <1>4, <1>6 DEF IInv, NoneAhead, LatestDetail, Types
<1>9. OneLoad'
  BY <1>1, <1>2, <1>4, <1>5 DEF OneLoad, CurrentSession
<1>10. OneTriage'
  <2>1. ASSUME NEW q \in requests', Triaging(q)'
        PROVE  \/ q = n /\ Triaging(r)
               \/ q \in requests /\ Triaging(q) /\ q # r /\ q # n
    BY <1>1, <1>2, <1>4, <1>5, <1>6, <2>1 DEF Triaging, CurrentSession, Without
  <2>2. ASSUME NEW q \in requests', Triaging(q)'
        PROVE  statusUpdating' /\ \A p \in requests' : Triaging(p)' => p = q
    BY <1>1, <2>1, <2>2 DEF IInv, OneTriage
  <2> QED
    BY <2>2 DEF OneTriage
<1>11. CleanLogin' /\ Inside'
  BY <1>1, <1>3, <1>4, <1>6 DEF IInv, CleanLogin, Inside, CurrentSession
<1>12. BusyIsWork'
  BY <1>1, <1>2, <1>4, <1>5, <1>6 DEF IInv, BusyIsWork, CurrentLoad, CurrentSession
<1>13. BeforeDemo'
  BY <1>1 DEF IInv, BeforeDemo
<1> QED
  BY <1>7, <1>8, <1>9, <1>10, <1>11, <1>12, <1>13 DEF IInv
\* The latest detail is shown in the session that asked for it.
LEMMA DetailArrivesKeepsInv ==
    ASSUME IInv, NEW r \in requests, DetailArrives(r)
    PROVE  IInv'
<1>1. /\ r.kind = "detail" /\ r.session = session /\ Types
      /\ selected' = [issue |-> r.issue, session |-> r.session]
      /\ requests' \subseteq requests
      /\ UNCHANGED <<session, credential, loading, loadRequest, paging, filter, page,
                     statusUpdating, detailRequest, demo, asked>>
  BY DEF DetailArrives, CurrentDetail, CurrentSession, Without, IInv, listing
<1>2. /\ screen' \in Screens /\ screen'.panel = screen.panel /\ screen'.dialog = TRUE
      /\ screen'.loginBusy = screen.loginBusy /\ screen'.listBusy = screen.listBusy
      /\ screen'.statusBusy = statusUpdating
  BY <1>1 DEF DetailArrives, Types, Screens
<1>3. screen.panel = "workspace"
  BY <1>1 DEF IInv, CleanLogin, CurrentSession, Types, Screens
<1>4. selected' \in Opened /\ selected' # Null /\ selected'.session = session
  <2>1. r \in IssueRequest
    BY <1>1 DEF Types, ListRequest
  <2> QED
    BY <1>1, <2>1, ConstantsAssumption DEF IssueRequest, Opened
<1>5. \A q \in requests : q.kind = "load" => q \in requests'
  BY <1>1 DEF DetailArrives, Without
<1>6. Types'
  BY <1>1, <1>2, <1>4 DEF Types
<1>7. NoneAhead' /\ OneLoad' /\ OneTriage' /\ LatestDetail'
  BY <1>1, <1>2 DEF IInv, NoneAhead, OneLoad, OneTriage, Triaging, LatestDetail,
     CurrentSession
<1>8. CleanLogin' /\ Inside'
  BY <1>1, <1>2, <1>3, <1>4 DEF IInv, CleanLogin, Inside
<1>9. BusyIsWork'
  BY <1>1, <1>2, <1>5 DEF IInv, BusyIsWork, CurrentLoad, CurrentSession
<1>10. BeforeDemo'
  BY <1>1, <1>2 DEF IInv, BeforeDemo
<1> QED
  BY <1>6, <1>7, <1>8, <1>9, <1>10 DEF IInv

\* With the PATCH answered no request of a triage is left.
LEMMA TriageEndsKeepsInv ==
    ASSUME IInv, NEW r \in requests, r.kind = "patch", CurrentSession(r),
           statusUpdating' = FALSE,
           screen' = [screen EXCEPT !.statusBusy = FALSE],
           requests' = Without(r),
           selected' = selected \/ selected' = [issue |-> r.issue, session |-> r.session],
           UNCHANGED <<session, credential, loading, loadRequest, paging, filter,
                       page, detailRequest, demo, asked>>
    PROVE  IInv'
<1>1. Types /\ requests' \subseteq requests
  BY DEF IInv, Without
<1>2. /\ screen' \in Screens /\ screen'.panel = screen.panel
      /\ screen'.dialog = screen.dialog /\ screen'.loginBusy = screen.loginBusy
      /\ screen'.listBusy = screen.listBusy /\ screen'.statusBusy = FALSE
  BY <1>1 DEF Types, Screens
<1>3. screen.panel = "workspace"
  BY <1>1 DEF IInv, CleanLogin, Types, Screens
<1>4. \/ selected' = selected
      \/ selected' \in Opened /\ selected' # Null /\ selected'.session = session
  <2>1. r \in IssueRequest
    BY <1>1 DEF Types, ListRequest
  <2> QED
    BY <2>1, ConstantsAssumption DEF IssueRequest, Opened, CurrentSession
<1>5. \A q \in requests : q.kind = "load" => q \in requests'
  BY DEF Without
<1>6. \A q \in requests' : ~Triaging(q)
  BY DEF IInv, OneTriage, Triaging, Without
<1>7. Types'
  BY <1>1, <1>2, <1>4 DEF Types
<1>8. NoneAhead' /\ OneLoad' /\ LatestDetail'
  BY <1>1, <1>2 DEF IInv, NoneAhead, OneLoad, LatestDetail, CurrentSession
<1>9. OneTriage'
  BY <1>6 DEF OneTriage, Triaging, CurrentSession
<1>10. CleanLogin' /\ Inside'
  BY <1>1, <1>2, <1>3, <1>4 DEF IInv, CleanLogin, Inside
<1>11. BusyIsWork'
  BY <1>1, <1>2, <1>5 DEF IInv, BusyIsWork, CurrentLoad, CurrentSession
<1>12. BeforeDemo'
  BY <1>1, <1>2 DEF IInv, BeforeDemo
<1> QED
  BY <1>7, <1>8, <1>9, <1>10, <1>11, <1>12 DEF IInv

\* The triage goes on as the load of the list it changed.
LEMMA TriageReloadsKeepsInv ==
    ASSUME IInv, NEW r \in requests, TriageArrives(r), ~loading
    PROVE  IInv'
<1> DEFINE n == [kind |-> "load", session |-> session, request |-> loadRequest + 1,
                 credential |-> credential, cursor |-> paging.cursor,
                 filter |-> filter, again |-> FALSE, after |-> "triage"]
<1>1. /\ r.kind = "patch" /\ r.session = session /\ Types /\ Shown(r)
      /\ selected' = [issue |-> r.issue, session |-> r.session]
      /\ loading' = TRUE /\ loadRequest' = loadRequest + 1
      /\ requests' = Without(r) \cup {n}
      /\ UNCHANGED <<session, credential, paging, filter, page, statusUpdating,
                     detailRequest, demo, asked>>
  BY DEF TriageArrives, StartLoad, CurrentSession, IInv
<1>2. /\ screen' \in Screens /\ screen'.panel = screen.panel
      /\ screen'.dialog = screen.dialog /\ screen'.loginBusy = screen.loginBusy
      /\ screen'.listBusy = TRUE /\ screen'.statusBusy = TRUE
  BY <1>1 DEF TriageArrives, Types, Screens
<1>3. screen.panel = "workspace" /\ credential # "none"
  BY <1>1 DEF IInv, CleanLogin, Inside, CurrentSession, Types, Screens
<1>4. /\ n \in ListRequest /\ n.kind = "load" /\ n.session = session
      /\ n.request = loadRequest + 1 /\ n.credential = credential
      /\ n.cursor = paging.cursor /\ n.filter = filter /\ n.after = "triage"
  BY <1>1 DEF Types, ListRequest, Pagings
<1> HIDE DEF n
<1>5. /\ statusUpdating = TRUE
      /\ \A q \in requests : Triaging(q) => q = r
  BY <1>1 DEF IInv, OneTriage, Triaging, CurrentSession, Types
<1>6. \A q \in requests' : q = n \/ (q \in requests /\ q # r)
  BY <1>1 DEF Without
<1>7. \A q \in requests : q.kind = "load" => q.session # session
  BY <1>1 DEF IInv, OneLoad, CurrentSession
<1>8. selected' \in Opened /\ selected' # Null /\ selected'.session = session
  <2>1. r \in IssueRequest
    BY <1>1 DEF Types, ListRequest
  <2> QED
    BY <1>1, <2>1, ConstantsAssumption DEF IssueRequest, Opened
<1>9. Types'
  <2>1. loadRequest' \in Nat /\ requests' \subseteq ListRequest \cup IssueRequest
    BY <1>1, <1>4, <1>6 DEF Types
  <2> QED
    BY <1>1, <1>2, <1>8, <2>1 DEF Types
<1>10. NoneAhead' /\ LatestDetail'
  BY <1>1, <1>4, <1>6 DEF IInv, NoneAhead, LatestDetail, Types
<1>11. OneLoad'
  BY <1>1, <1>2, <1>3, <1>4, <1>6, <1>7 DEF OneLoad, CurrentSession
<1>12. OneTriage'
  BY <1>1, <1>4, <1>5, <1>6 DEF OneTriage, Triaging, CurrentSession
<1>13. CleanLogin' /\ Inside'
  BY <1>1, <1>2, <1>3, <1>8 DEF IInv, CleanLogin, Inside
<1>14. BusyIsWork'
  <2>1. ~screen.loginBusy
    BY <1>7 DEF IInv, BusyIsWork, CurrentLoad, CurrentSession
  <2>2. \A q \in requests' : q.kind = "load" /\ q.session = session => q = n
    BY <1>6, <1>7
  <2> QED
    BY <1>1, <1>2, <1>4, <1>5, <2>1, <2>2 DEF BusyIsWork, CurrentLoad, CurrentSession
<1>15. BeforeDemo'
  BY <1>1, <1>2, <1>3 DEF IInv, BeforeDemo
<1> QED
  BY <1>9, <1>10, <1>11, <1>12, <1>13, <1>14, <1>15 DEF IInv

LEMMA TriageAnswersKeepInv ==
    ASSUME IInv, NEW r \in requests, TriageEnds(r) \/ TriageArrives(r)
    PROVE  IInv'
<1>1. CASE TriageEnds(r)
  BY <1>1, TriageEndsKeepsInv DEF TriageEnds, listing
<1>2. CASE TriageArrives(r) /\ loading
  BY <1>2, TriageEndsKeepsInv DEF TriageArrives
<1>3. CASE TriageArrives(r) /\ ~loading
  BY <1>3, TriageReloadsKeepsInv
<1> QED
  BY <1>1, <1>2, <1>3

\* An answer without effect is one request less, and never that of a current load.
LEMMA IgnoreKeepsInv ==
    ASSUME IInv, NEW r \in requests, Ignore(r), ~(r.kind = "load" /\ CurrentLoad(r))
    PROVE  IInv'
<1>1. /\ requests' \subseteq requests
      /\ UNCHANGED <<session, credential, loading, loadRequest, paging, filter, page,
                     statusUpdating, detailRequest, selected, asked, screen, demo>>
      /\ \A q \in requests : q.kind = "load" /\ CurrentLoad(q) => q \in requests'
  BY DEF Ignore, Without, listing, detail
<1>2. Types' /\ NoneAhead' /\ OneLoad' /\ LatestDetail'
  BY <1>1 DEF IInv, Types, NoneAhead, OneLoad, LatestDetail, CurrentSession
<1>3. OneTriage' /\ CleanLogin' /\ Inside'
  BY <1>1 DEF IInv, OneTriage, Triaging, CleanLogin, Inside, CurrentSession
<1>4. BusyIsWork'
  BY <1>1 DEF IInv, BusyIsWork, CurrentLoad, CurrentSession
<1>5. BeforeDemo'
  BY <1>1 DEF IInv, BeforeDemo
<1> QED
  BY <1>2, <1>3, <1>4, <1>5 DEF IInv

LEMMA AnswerKeepsInv ==
    ASSUME IInv, NEW r \in requests, Answer(r)
    PROVE  IInv'
<1>1. CASE Unauthorized(r)
  BY <1>1, DisconnectKeepsInv DEF Unauthorized, Without
<1>2. CASE ListArrives(r) \/ ListFails(r)
  BY <1>2, ListAnswersKeepInv
<1>3. CASE ListShrank(r)
  BY <1>3, ListShrankKeepsInv
<1>4. CASE DetailArrives(r)
  BY <1>4, DetailArrivesKeepsInv
<1>5. CASE TriageArrives(r) \/ TriageEnds(r)
  BY <1>5, TriageAnswersKeepInv
<1>6. CASE Ignore(r) /\ (TooLate(r) \/ r.kind = "detail")
  BY <1>6, IgnoreKeepsInv DEF TooLate
<1> QED
  BY <1>1, <1>2, <1>3, <1>4, <1>5, <1>6 DEF Answer

LEMMA NextKeepsInv == IInv /\ [Next]_vars => IInv'
<1> SUFFICES ASSUME IInv, [Next]_vars PROVE IInv'
  OBVIOUS
<1>1. CASE Submit \/ DemoClicked
  BY <1>1, SubmitKeepsInv, DemoClickedKeepsInv
<1>2. CASE Logout
  BY <1>2, DisconnectKeepsInv DEF Logout
<1>3. CASE Refresh \/ Previous \/ NextPage \/ \E f \in Filter : FilterChanged(f)
  BY <1>3, ListControlsKeepInv
<1>4. CASE (\E i \in Issue : OpenIssue(i)) \/ CloseDialog \/ UpdateStatus
  BY <1>4, OpenIssueKeepsInv, CloseDialogKeepsInv, UpdateStatusKeepsInv
<1>5. CASE Discover
  BY <1>5, DiscoverKeepsInv
<1>6. CASE \E r \in requests : Answer(r)
  BY <1>6, AnswerKeepsInv
<1>7. CASE UNCHANGED vars
  BY <1>7 DEF vars, IInv, Types, NoneAhead, OneLoad, OneTriage, Triaging, LatestDetail,
     CleanLogin, BusyIsWork, Inside, BeforeDemo, CurrentLoad, CurrentSession
<1> QED
  BY <1>1, <1>2, <1>3, <1>4, <1>5, <1>6, <1>7 DEF Next, User
LEMMA InvAlways == Spec => []IInv
<1>1. Init => IInv
  BY InitInv
<1>2. IInv /\ [Next]_vars => IInv'
  BY NextKeepsInv
<1> QED
  BY <1>1, <1>2, PTL DEF Spec

-----------------------------------------------------------------------------
(***************************************************************************)
(* What follows.                                                           *)
(***************************************************************************)

\* Whatever order answers, 401s and logouts come in, list, dialog, busy flags
\* and page number on screen are those of the session in force (the session
\* checks after every await of dashboard.js).
THEOREM ScreenIsThisSession == Spec => []OnScreenIsThisSession
<1>1. IInv => OnScreenIsThisSession
  BY DEF IInv, Inside, BusyIsWork, OnScreenIsThisSession
<1> QED
  BY <1>1, InvAlways, PTL

\* Only Ignore takes a request of an earlier session.
LEMMA StaleAnswerIsIgnored ==
    ASSUME [Next]_vars, NEW r \in requests \ requests', r.session # session
    PROVE  UNCHANGED <<session, credential, listing, detail, screen, demo>>
<1>1. requests' # requests
  OBVIOUS
<1>2. CASE User \/ Discover
  <2>1. requests \subseteq requests'
    BY <1>2 DEF User, Discover, Submit, DemoClicked, EnterDemo, Logout, Disconnect,
       Refresh, Previous, NextPage, FilterChanged, Load, StartLoad, OpenIssue,
       CloseDialog, UpdateStatus
  <2> QED
    BY <2>1
<1>3. ASSUME NEW q \in requests, Answer(q)
      PROVE  UNCHANGED <<session, credential, listing, detail, screen, demo>>
  <2>1. Without(q) \subseteq requests' /\ q \in requests
    BY <1>3 DEF Answer, Unauthorized, Disconnect, ListArrives, ListShrank, DetailArrives,
       TriageArrives, StartLoad, TriageEnds, ListFails, Ignore
  <2>2. r = q
    BY <2>1 DEF Without
  <2>3. Ignore(q)
    BY <1>3, <2>2 DEF Answer, Unauthorized, ListArrives, ListShrank, DetailArrives,
       TriageArrives, TriageEnds, ListFails, CurrentLoad, CurrentDetail, CurrentSession
  <2> QED
    BY <2>3 DEF Ignore
<1> QED
  BY <1>1, <1>2, <1>3 DEF Next, vars

\* An answer to an earlier session's request changes nothing the user sees or
\* does next, and a late 401 does not end the new session.
THEOREM StaleAnswersAreIgnored == Spec => StaleAnswersChangeNothing
<1>1. [Next]_vars =>
        [\A r \in requests \ requests' :
            r.session # session =>
               UNCHANGED <<session, credential, listing, detail, screen, demo>>]_vars
  BY StaleAnswerIsIgnored
<1> QED
  BY <1>1, PTL DEF Spec, StaleAnswersChangeNothing

\* A list is rendered only for the cursor and the filter in force: every control
\* that moves them is disabled while a load is under way (renderIssues).
THEOREM ListAlwaysTheView == Spec => RenderedListIsTheView
<1>1. IInv /\ [Next]_vars =>
        [page' # page /\ page' # Null =>
            page'.cursor = paging'.cursor /\ page'.filter = filter']_vars
  <2> SUFFICES ASSUME IInv, Next, page' # page, page' # Null
               PROVE  page'.cursor = paging'.cursor /\ page'.filter = filter'
    BY DEF vars
  <2>1. PICK r \in requests : ListArrives(r)
    BY DEF Next, User, Discover, Submit, DemoClicked, EnterDemo, Logout, Disconnect,
       Refresh, Previous, NextPage, FilterChanged, Load, OpenIssue, CloseDialog,
       UpdateStatus, Answer, Unauthorized, ListShrank, DetailArrives, TriageArrives,
       TriageEnds, ListFails, Ignore, listing
  <2>2. /\ r.cursor = paging.cursor /\ r.filter = filter
        /\ UNCHANGED <<paging, filter>>
    BY <2>1 DEF ListArrives, IInv, OneLoad, CurrentLoad
  <2>3. page'.cursor = r.cursor /\ page'.filter = r.filter
    BY <2>1 DEF ListArrives
  <2> QED
    BY <2>2, <2>3
<1> QED
  BY <1>1, InvAlways, PTL DEF Spec, RenderedListIsTheView

\* Whatever order details and PATCH answers arrive in, the dialog turns only to
\* the issue clicked last (detailRequest in openIssue, the fingerprint check of
\* updateIssueStatus).
THEOREM DialogAlwaysShowsTheIssueAsked == Spec => DialogShowsTheIssueAsked
<1>1. IInv /\ [Next]_vars =>
        [selected' # selected /\ selected' # Null =>
            \/ selected'.issue = asked
            \/ selected # Null /\ selected'.issue = selected.issue]_vars
  <2> SUFFICES ASSUME IInv, Next, selected' # selected, selected' # Null
               PROVE  \/ selected'.issue = asked
                      \/ selected # Null /\ selected'.issue = selected.issue
    BY DEF vars
  <2>1. PICK r \in requests : DetailArrives(r) \/ TriageArrives(r)
    BY DEF Next, User, Discover, Submit, DemoClicked, EnterDemo, Logout, Disconnect,
       Refresh, Previous, NextPage, FilterChanged, Load, OpenIssue, CloseDialog,
       UpdateStatus, Answer, Unauthorized, ListShrank, ListArrives, TriageEnds,
       ListFails, Ignore, detail
  <2>2. selected'.issue = r.issue
    BY <2>1 DEF DetailArrives, TriageArrives
  <2>3. DetailArrives(r) => r.issue = asked
    BY DEF DetailArrives, CurrentDetail, IInv, LatestDetail
  <2>4. TriageArrives(r) => selected # Null /\ selected.issue = r.issue
    BY DEF TriageArrives, Shown
  <2> QED
    BY <2>1, <2>2, <2>3, <2>4
<1> QED
  BY <1>1, InvAlways, PTL DEF Spec, DialogShowsTheIssueAsked
=============================================================================
