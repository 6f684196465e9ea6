---------------------------- MODULE MCLiveConsole ----------------------------
(* A small instance of LiveConsole: one tab on either page watches a case    *)
(* with one action, signed or automatic.                                     *)
EXTENDS LiveConsole, TLC

CONSTANTS r1, r2

\* The console adds no poller: asynchronous steps are left to CaseCore
ASSUME AnswersAtOnce == "executing" \notin Outcomes

MCAccount == {"admin", "analyst", "approver"}
MCLoginRole == [u \in MCAccount |-> u]
MCAction == {"kill", "notify"}
MCActionType == [kill |-> "kill_process", notify |-> "notify"]
MCAutonomy == [kill |-> "L2", notify |-> "L4"]
MCPlaybooks == {<<"kill">>, <<"notify">>}
MCRequest == {r1, r2}

Ask(users, decisions) ==
  {[user |-> u, action |-> "kill", decision |-> d] : u \in users, d \in decisions}

\* The IM application signs, unannounced, as incident commander; the approver,
\* who watches, approves, defers or vetoes
MCVotes ==
  (r1 :> Ask({"feishu"}, {"approved"})
     @@ r2 :> Ask({"approver"}, {"approved", "deferred", "rejected"}))

MCClient == {"tab"}
MCViewerOf == [tab |-> "approver"]
MCScreens == {[tab |-> pg] : pg \in {"approvals", "case"}}

\* A failure is explored, or a newer case that pushes the other off the list
OneDisturbance == newer + failures <= 1
=============================================================================
