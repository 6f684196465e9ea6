----------------------------- MODULE LiveConsole -----------------------------
(***************************************************************************)
(* The dashboard watching a case: every write of a run or of an approval   *)
(* request is followed by a broadcast to the WebSockets connected at that  *)
(* moment, one awaited send after the other inside the coroutine that      *)
(* published; a page that hears an event it subscribes to loads its data   *)
(* again, and some pages also load it on a timer.  An event carries no     *)
(* data a page shows, so hearing one is all it does.                       *)
(*                                                                         *)
(* The case is CaseCore without crashes and asynchronous steps.  Of the    *)
(* pages that load on a timer (approvals, dashboard, the badge of the menu)*)
(* the approvals page is modelled; the case page has none.  A page has at  *)
(* most one load the server has not begun: a second one would read the     *)
(* same or newer rows.                                                     *)
(*                                                                         *)
(* Of the other cases only the number of newer ones counts (created_at is  *)
(* the time of the first alert): the list of pending approvals stops after *)
(* the newest Limit cases, closed ones included.  The events of their runs *)
(* cause loads, as the timer does.                                         *)
(***************************************************************************)
EXTENDS CaseCore

CONSTANTS
  Client,       \* browser tabs in which somebody is logged in
  ViewerOf,     \* [Client -> Account]
  Screens,      \* the pages the tabs may show: functions Client -> Page
  Limit,        \* the cases list_all_pending_approvals looks at (200)
  MaxNewer,     \* bound on cases newer than this one
  MaxFailures,  \* bound on failed loads, broken and stalled connections
  MaxAnswers,   \* bound on answers on their way to one page
  MaxRequests   \* bound on approval requests under way at once

Page == {"approvals", "case"}

ASSUME ConsoleAssumption ==
  /\ ViewerOf \in [Client -> Account]
  /\ \A c \in Client : MaySign(ViewerOf[c])
  /\ Screens \subseteq [Client -> Page]
  /\ Limit \in Nat \ {0}
  /\ MaxNewer \in Nat
  /\ MaxFailures \in Nat
  /\ MaxAnswers \in Nat \ {0}
  /\ MaxRequests \in Nat \ {0}

VARIABLES
  page,         \* the page each tab shows
  newer,        \* how many cases have a later created_at than this one
  due,          \* events each coroutine has still to publish
  sending,      \* the broadcast each coroutine is inside
  connections,  \* EventBroadcaster._connections
  socket,       \* the connection as the browser has it
  session,      \* how many connections of the tab have ended
  asked,        \* tabs whose load the server has not begun
  reading,      \* the gated actions list_all_pending found for a tab
  answers,      \* answers on their way to each tab, oldest first
  shown,        \* what each tab shows
  failures      \* failed loads, broken and stalled connections so far

loadVars == <<asked, reading, answers, shown>>
socketVars == <<connections, socket, session>>
consoleVars == <<page, newer, due, sending, socketVars, loadVars, failures>>
caseVars == <<storeVars, pc, runVars, external, vote, crashes>>
liveVars == <<caseVars, consoleVars>>

Event == {"case_created", "execution_step", "approval_submitted",
          "approval_rejected", "case_resolved"}

\* What the pages subscribe to, as far as this case publishes it
Subscribed(pg) ==
  CASE pg = "approvals" -> {"approval_submitted", "approval_rejected", "case_created"}
    [] pg = "case" -> {"execution_step", "approval_submitted", "approval_rejected",
                       "case_resolved"}

Socket == Client \X (0..MaxFailures)
NoBroadcast == [event |-> "none", left |-> {}, dead |-> {}]

\* An item of the approvals page: one action that lacks a signature
Item == [action : Action, approved : SUBSET ApprovalRole, rejected : BOOLEAN]
CaseView == [status : CaseStatus, log : Seq(Step)]
NotReading == {"none"}
BlankCase == [status |-> "none", log |-> <<>>]

Blank(pg) == IF pg = "case" THEN BlankCase ELSE {}

ConsoleInit ==
  /\ page \in Screens
  /\ newer = 0
  /\ due = [p \in Process |-> IF p = Trigger THEN <<"case_created">> ELSE <<>>]
  /\ sending = [p \in Process |-> NoBroadcast]
  /\ connections = Client \X {0}
  /\ socket = [c \in Client |-> "open"]
  /\ session = [c \in Client |-> 0]
  /\ asked = Client
  /\ reading = [c \in Client |-> NotReading]
  /\ answers = [c \in Client |-> <<>>]
  /\ shown = [c \in Client |-> Blank(page[c])]
  /\ failures = 0

LiveInit == Init /\ ConsoleInit
-----------------------------------------------------------------------------
(* The case, with the events its steps publish.                            *)

\* A dashboard vote is announced; one that came through an IM callback is not
Announced(p) == p \in Request /\ vote[p].user \notin IMSource

Answered(p, event) == IF Announced(p) THEN <<event>> ELSE <<>>

\* MUTANT: closing the case is not announced
published_without_close(p) ==
  CASE pc[p] = "write_log" -> <<"execution_step">>
    [] pc[p] = "resolve" -> Answered(p, "approval_submitted")
    [] pc[p] = "close" -> Answered(p, "approval_rejected")
    [] pc[p] = "tally" /\ pc'[p] = "voted" -> Answered(p, "approval_submitted")
    [] OTHER -> <<>>

\* What the step that p takes now makes it publish before its next one
published(p) ==
  CASE pc[p] = "write_log" -> <<"execution_step">>
    [] pc[p] = "resolve" -> <<"case_resolved">> \o Answered(p, "approval_submitted")
    [] pc[p] = "close" -> Answered(p, "approval_rejected")
    [] pc[p] = "tally" /\ pc'[p] = "voted" -> Answered(p, "approval_submitted")
    [] OTHER -> <<>>

\* p is not inside broadcaster.publish, nor about to call it
Quiet(p) == due[p] = <<>> /\ sending[p] = NoBroadcast

Advance(p) ==
  /\ Quiet(p)
  /\ \/ p = Trigger /\ Orchestrate
     \/ Execute(p)
     \/ p \in Request /\ Approve(p)
  /\ due' = [due EXCEPT ![p] = published(p)]
  /\ UNCHANGED <<page, newer, sending, socketVars, loadVars, failures>>

Submit(r) ==
  /\ Cardinality({q \in Request : Active(q)}) < MaxRequests
  /\ submit_approval(r)
  /\ UNCHANGED <<crashes, consoleVars>>
-----------------------------------------------------------------------------
(* EventBroadcaster and the /ws/events endpoint.                           *)

\* The server cannot reach the tab over this connection any more
Broken(s) == s[2] # session[s[1]] \/ socket[s[1]] = "closed"

Hears(c, event) == event \in Subscribed(page[c])

\* The last send is over: forget the connections that failed
end_publish(p, dead) ==
  /\ connections' = connections \ dead
  /\ sending' = [sending EXCEPT ![p] = NoBroadcast]

\* publish: the connections are copied under the lock
publish(p) ==
  /\ due[p] # <<>>
  /\ sending[p] = NoBroadcast
  /\ due' = [due EXCEPT ![p] = Tail(@)]
  /\ sending' = IF connections = {} THEN sending
                ELSE [sending EXCEPT ![p] = [event |-> Head(due[p]), left |-> connections,
                                             dead |-> {}]]
  /\ UNCHANGED <<caseVars, page, newer, socketVars, loadVars, failures>>

\* MUTANT: a send that fails is not caught and ends the coroutine
send_uncaught(p) ==
  \E s \in sending[p].left :
    /\ socket[s[1]] # "stalled" \/ Broken(s)
    /\ pc' = IF Broken(s) /\ Active(p) THEN [pc EXCEPT ![p] = "lost"] ELSE pc
    /\ asked' = IF ~ Broken(s) /\ Hears(s[1], sending[p].event)
                THEN asked \cup {s[1]} ELSE asked
    /\ IF Broken(s) \/ sending[p].left = {s}
       THEN end_publish(p, {})
       ELSE /\ sending' = [sending EXCEPT ![p].left = @ \ {s}]
            /\ UNCHANGED connections
    /\ UNCHANGED <<storeVars, runVars, external, vote, crashes, page, newer, due, socket, session,
                   reading, answers, shown, failures>>

\* One send: a broken connection is remembered, a stalled one keeps the
\* coroutine waiting, any other lets the page hear the event
send(p) ==
  \E s \in sending[p].left :
    /\ socket[s[1]] # "stalled" \/ Broken(s)
    /\ asked' = IF ~ Broken(s) /\ Hears(s[1], sending[p].event)
                THEN asked \cup {s[1]} ELSE asked
    /\ LET dead == sending[p].dead \cup IF Broken(s) THEN {s} ELSE {}
       IN  IF sending[p].left = {s}
           THEN end_publish(p, dead)
           ELSE /\ sending' = [sending EXCEPT ![p].left = @ \ {s}, ![p].dead = dead]
                /\ UNCHANGED connections
    /\ UNCHANGED <<caseVars, page, newer, due, socket, session, reading, answers, shown, failures>>

\* ws_events accepts an access token; lib/ws connects again after a break
connect(c) ==
  /\ socket[c] = "closed"
  /\ socket' = [socket EXCEPT ![c] = "open"]
  /\ connections' = connections \cup {<<c, session[c]>>}
  /\ UNCHANGED <<caseVars, page, newer, due, sending, session, loadVars, failures>>

end_session(c) ==
  /\ socket' = [socket EXCEPT ![c] = "closed"]
  /\ session' = [session EXCEPT ![c] = @ + 1]

break_connection(c) ==
  /\ failures < MaxFailures
  /\ socket[c] = "open"
  /\ end_session(c)
  /\ failures' = failures + 1
  /\ UNCHANGED <<caseVars, page, newer, due, sending, connections, loadVars>>

\* The tab stops reading: its send buffer is full and send_json awaits
stall(c) ==
  /\ failures < MaxFailures
  /\ socket[c] = "open"
  /\ socket' = [socket EXCEPT ![c] = "stalled"]
  /\ failures' = failures + 1
  /\ UNCHANGED <<caseVars, page, newer, due, sending, connections, session, loadVars>>

\* The server's keep-alive pings get no answer: it closes the connection
ping_timeout(c) ==
  /\ socket[c] = "stalled"
  /\ end_session(c)
  /\ UNCHANGED <<caseVars, page, newer, due, sending, connections, loadVars, failures>>

\* receive_text raises WebSocketDisconnect: the finally clause disconnects
disconnect(s) ==
  /\ Broken(s)
  /\ connections' = connections \ {s}
  /\ UNCHANGED <<caseVars, page, newer, due, sending, socket, session, loadVars, failures>>
-----------------------------------------------------------------------------
(* The loads of the pages.                                                 *)

\* MUTANT: the page relies on the events alone
polls_nothing(pg) == FALSE

\* setInterval: the approvals page loads every 30 s, the case page never
polls(pg) == pg = "approvals"

\* Bound: the timer fires only when no load of the page is under way
Idle(c) == c \notin asked /\ reading[c] = NotReading /\ answers[c] = <<>>

poll_page(c) ==
  /\ polls(page[c])
  /\ Idle(c)
  /\ asked' = asked \cup {c}
  /\ UNCHANGED <<caseVars, page, newer, due, sending, socketVars, reading, answers, shown, failures>>

\* A newer case is created
create_newer ==
  /\ newer < MaxNewer
  /\ newer' = newer + 1
  /\ UNCHANGED <<caseVars, page, due, sending, socketVars, loadVars, failures>>

\* The SELECT of the cases, newest first, still reaches this one
Listed == newer < Limit

\* list_all_pending, its SELECT of the cases: the gated actions of open ones
list_open ==
  IF Listed /\ status \notin TERMINAL_CASE_STATUSES THEN GatedActions(proposed_actions) ELSE {}

\* ... and for each gated action the SELECT of its votes; what is completely
\* signed and not rejected is left out
PendingItem(a) ==
  [action |-> a, approved |-> ApprovedRoles(list_by_action(a)),
   rejected |-> AnyRejected(list_by_action(a))]
list_items(actions) ==
  {PendingItem(a) : a \in {b \in actions :
     ~ RequiredRoles(b) \subseteq ApprovedRoles(list_by_action(b)) \/ AnyRejected(list_by_action(b))}}

answer(c, view) ==
  /\ Len(answers[c]) < MaxAnswers
  /\ answers' = [answers EXCEPT ![c] = Append(@, view)]

list_all_pending(c) ==
  /\ page[c] = "approvals"
  /\ \/ /\ c \in asked
        /\ reading[c] = NotReading
        /\ asked' = asked \ {c}
        /\ reading' = [reading EXCEPT ![c] = list_open]
        /\ UNCHANGED answers
     \/ /\ reading[c] # NotReading
        /\ answer(c, list_items(reading[c]))
        /\ reading' = [reading EXCEPT ![c] = NotReading]
        /\ UNCHANGED asked
  /\ UNCHANGED <<caseVars, page, newer, due, sending, socketVars, shown, failures>>

get_case(c) ==
  /\ page[c] = "case"
  /\ c \in asked
  /\ asked' = asked \ {c}
  /\ answer(c, [status |-> status, log |-> execution_log])
  /\ UNCHANGED <<caseVars, page, newer, due, sending, socketVars, reading, shown, failures>>

\* An answer reaches its page; answers may overtake each other
show(c) ==
  \E i \in 1..Len(answers[c]) :
    /\ shown' = [shown EXCEPT ![c] = answers[c][i]]
    /\ answers' = [answers EXCEPT ![c] = SubSeq(@, 1, i - 1) \o SubSeq(@, i + 1, Len(@))]
    /\ failures' = IF i = 1 THEN failures ELSE failures + 1
    /\ failures' <= MaxFailures
    /\ UNCHANGED <<caseVars, page, newer, due, sending, socketVars, asked, reading>>

\* A load fails: the approvals page empties its list, the case page keeps
\* what it shows
load_fails(c) ==
  /\ failures < MaxFailures
  /\ c \in asked
  /\ asked' = asked \ {c}
  /\ shown' = IF page[c] = "case" THEN shown ELSE [shown EXCEPT ![c] = {}]
  /\ failures' = failures + 1
  /\ UNCHANGED <<caseVars, page, newer, due, sending, socketVars, reading, answers>>

\* The role the viewer of a tab signs for
MyRole(c) == SigningRole(ViewerOf[c])

Items(c) == IF page[c] = "approvals" THEN shown[c] ELSE {}

\* MUTANT: who has signed is offered the button again
offered_again(c) == {i.action : i \in {x \in Items(c) : ~ x.rejected}}

\* renderOpButton of the approvals page: the rows with a button
offered(c) ==
  {i.action : i \in {x \in Items(c) : ~ x.rejected /\ MyRole(c) \notin x.approved}}
-----------------------------------------------------------------------------
Broadcast(p) == publish(p) \/ send(p)
Load(c) == list_all_pending(c) \/ get_case(c)

LiveNext ==
  \/ \E p \in Process : Advance(p) \/ Broadcast(p)
  \/ \E r \in Request : Submit(r)
  \/ \E c \in Client :
       \/ connect(c) \/ break_connection(c) \/ stall(c) \/ ping_timeout(c)
       \/ poll_page(c) \/ Load(c) \/ show(c) \/ load_fails(c)
  \/ \E s \in connections : disconnect(s)
  \/ create_newer

LiveSpec == LiveInit /\ [][LiveNext]_liveVars

\* Coroutines go on, loads are answered, timers fire, and a connection that
\* does not answer pings is closed; nothing forces a tab to connect again
LiveFairSpec ==
  /\ LiveSpec
  /\ \A p \in Process : WF_liveVars(Advance(p) \/ Broadcast(p))
  /\ \A c \in Client :
       /\ WF_liveVars(ping_timeout(c))
       /\ WF_liveVars(poll_page(c))
       /\ WF_liveVars(Load(c))
       /\ WF_liveVars(show(c))
-----------------------------------------------------------------------------
(* Properties                                                              *)

ConsoleTypeOK ==
  /\ page \in Screens
  /\ newer \in 0..MaxNewer
  /\ due \in [Process -> Seq(Event)]
  /\ sending \in [Process -> [event : Event \cup {"none"}, left : SUBSET Socket,
                              dead : SUBSET Socket]]
  /\ connections \subseteq Socket
  /\ socket \in [Client -> {"closed", "open", "stalled"}]
  /\ session \in [Client -> 0..MaxFailures]
  /\ asked \subseteq Client
  /\ \A c \in Client : reading[c] = NotReading \/ reading[c] \subseteq Action
  /\ \A c \in Client :
       LET views == {answers[c][i] : i \in 1..Len(answers[c])} \cup {shown[c]}
       IN  IF page[c] = "case" THEN views \subseteq CaseView \cup {BlankCase}
           ELSE views \subseteq SUBSET Item
  /\ failures \in 0..MaxFailures

\* The case page shows the case closed, with all its steps
ShowsTheEnd(c) ==
  page[c] = "case" /\ shown[c] = [status |-> "resolved", log |-> execution_log]

\* The action lacks the viewer's signature and may still get it
AwaitsMe(c, a) ==
  /\ status \notin TERMINAL_CASE_STATUSES
  /\ a \in GatedActions(proposed_actions)
  /\ ~ AnyRejected(list_by_action(a))
  /\ MyRole(c) \in RequiredRoles(a) \ ApprovedRoles(list_by_action(a))

\* Nobody has to look for work: an action that lacks the viewer's signature
\* gets a button on the approvals page, whatever loads fail, answers overtake
\* each other and connections break (Approvals.tsx:108), unless Limit newer
\* cases push its case off the list (api/approvals.py:97, 110).  The plan that
\* makes it wait is announced by no event, so only the timer brings it there.
WaitingIsOffered ==
  \A c \in Client, a \in Action :
    page[c] = "approvals" /\ AwaitsMe(c, a) ~>
      a \in offered(c) \/ ~ AwaitsMe(c, a) \/ ~ Listed

\* A button on a page that shows what is stored now leads to a signature: the
\* list (approvals.py:114-127) and the button (Approvals.tsx:163-188) leave
\* out what submit_approval would refuse, but for a role that has deferred and
\* is refused for good (service.py:69-79).
OfferedCanBeSigned ==
  \A c \in Client :
    page[c] = "approvals" /\ shown[c] = list_items(list_open) =>
      \A a \in offered(c) :
        /\ Votable(a)
        /\ AlreadyVoted(ViewerOf[c], a) =>
             \E x \in list_by_action(a) : x.role = MyRole(c) /\ x.decision = "deferred"

\* Whoever watches a case over a connection that holds sees its end: closed,
\* with every step of the log (CaseDetail.tsx:50), unless another process has
\* written its status again.  The page has no timer, so after a break, a failed
\* load or an overtaken answer it may show an old state for ever.
ClosureIsShown ==
  \A c \in Client, p \in Process :
    page[c] = "case" /\ socket[c] = "open" /\ pc[p] = "resolve" ~>
      ShowsTheEnd(c) \/ failures > 0 \/ (pc[p] = "finished" /\ status # "resolved")
=============================================================================
