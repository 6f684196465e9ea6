------------------------------ MODULE MCCaseCore ------------------------------
(* Small instances of CaseCore: the seeded accounts of the application, one *)
(* IM source, one action of each kind.                                     *)
EXTENDS CaseCore, TLC, SequencesExt

CONSTANTS r1, r2, r3, r4

MCAccount == {"admin", "analyst", "approver", "viewer"}
MCIMSource == {"feishu"}
MCLoginRole == [u \in MCAccount |-> u]

MCAction == {"isolate", "kill", "quarantine", "notify", "ticket"}
MCActionType ==
  [isolate |-> "isolate_host", kill |-> "kill_process",
   quarantine |-> "quarantine_file", notify |-> "notify", ticket |-> "notify"]
MCAutonomy ==
  [isolate |-> "L2", kill |-> "L2", quarantine |-> "L2", notify |-> "L4", ticket |-> "L5"]

Ask(users, actions, decisions) ==
  {[user |-> u, action |-> a, decision |-> d] :
     u \in users, a \in actions, d \in decisions}

Anyone(votes) == [r \in Request |-> votes]

MCRequest2 == {r1, r2}
MCRequest3 == {r1, r2, r3}
MCRequest4 == {r1, r2, r3, r4}
Symmetry == Permutations(Request)

\* A double-sign action that two roles sign and any can veto; a critical one
\* with two ways to be incident commander; two double-sign actions, whose tally
\* has two SELECTs; a gated action among automatic ones; only automatic ones;
\* no playbook
VotesPlaybooks ==
  {<<"kill">>, <<"isolate">>, <<"kill", "quarantine">>, <<"notify", "kill">>,
   <<"notify", "ticket">>, <<>>}

VotesVotes ==
  (r1 :> Ask({"analyst"}, {"kill", "isolate"}, {"approved"})
     @@ r2 :> Ask({"approver"}, {"kill"}, {"approved", "deferred"})
                \cup Ask({"approver", "feishu"}, {"isolate"}, {"approved"})
     @@ r3 :> Ask({"admin"}, {"kill"}, {"approved", "rejected"})
                \cup Ask({"admin"}, {"isolate"}, {"approved"})
                \cup Ask({"analyst"}, {"quarantine"}, {"approved"})
     @@ r4 :> Ask({"approver"}, {"quarantine"}, {"approved"}))

\* Bound of that run for playbooks of two actions: states with two runs
\* executing, or after a crash, are checked but not continued
TwoActionsOneRun ==
  Len(playbook) < 2 \/ (Cardinality({p \in Process : Executing(p)}) <= 1 /\ crashes = 0)

\* One request per signer, for the liveness run
SinglePlaybooks == {<<"kill">>}
OneEachVotes ==
  (r1 :> Ask({"analyst"}, {"kill"}, {"approved"})
     @@ r2 :> Ask({"approver"}, {"kill"}, {"approved", "deferred"})
     @@ r3 :> Ask({"admin"}, {"kill"}, {"approved", "rejected"}))

\* Two signatures and a veto; asynchronous steps, in the trigger run and in
\* two resume runs
PollPlaybooks == {<<"notify", "ticket">>, <<"kill">>}
KillVotes == Anyone(Ask({"analyst", "approver"}, {"kill"}, {"approved"}))
VetoedVotes ==
  (r1 :> Ask({"analyst"}, {"kill"}, {"approved"})
     @@ r2 :> Ask({"approver"}, {"kill"}, {"approved"})
     @@ r3 :> Ask({"admin"}, {"kill"}, {"rejected"}))
-----------------------------------------------------------------------------
(* What the rules of execution compute                                     *)

ER == INSTANCE ExecutionRules

\* The settings as far as two types tell them apart, one of them a type that
\* the executor looks up itself; an id may be blank
SmallSettings ==
  LET some(x, y) ==
        [t \in ER!ActionTypes |-> CASE t = "block_ip" -> x [] t = "create_ticket" -> y [] OTHER -> ""]
      ids == {some(x, y) : x, y \in {"", " ", "w1", "w2"}}
  IN  [mock_mode : BOOLEAN, enable_shuffle : BOOLEAN, base_url : BOOLEAN, env : ids, json : ids]

\* A step ends in the statuses the runs start from, or the call raises; both
\* an asynchronous step and a raise only if Shuffle is called
ASSUME ExecutorReportsOutcomes ==
  \A s \in SmallSettings, t \in {"block_ip", "create_ticket", "notify"} :
    ER!Reported(s, t) =
      IF ER!CallsShuffle(s, t) THEN {"success", "failed", "executing", "raises"} ELSE {"success"}

\* An action Shuffle is called for was not announced as one of the mock's, but
\* for an id of blanks in a variable the executor looks up
ASSUME ShuffleIsAnnounced ==
  \A s \in SmallSettings, t \in ER!ActionTypes :
    ER!CallsShuffle(s, t) =>
      (t \in ER!AnnouncedMock(s)
         <=> t \in ER!LookedUp /\ s.env[t] = ER!Blank /\ s.json[t] = ER!NoId)

\* ... but not the other way round: a variable hides the JSON of other types
ASSUME AnnouncedShuffleMayBeMock ==
  \E s \in SmallSettings :
    /\ ER!get_executor(s) = "shuffle" /\ s.base_url
    /\ s.json["create_ticket"] = "w2" /\ "create_ticket" \notin ER!AnnouncedMock(s)
    /\ ~ ER!CallsShuffle(s, "create_ticket")

\* Polling stops at the first end it sees and forgets what follows
ASSUME PollingStopsAtTheEnd ==
  LET words == {"", "executing", "FINISHED", "error"}
      \* answers one by one, as the loop takes them
      loop(answers) ==
        FoldLeft(LAMBDA verdict, answer :
                   IF verdict # "executing" THEN verdict
                   ELSE CASE ER!lower(answer) = "finished" -> "success"
                          [] ER!lower(answer) = "error" -> "failed"
                          [] OTHER -> "executing",
                 "executing", answers)
  IN  \A n \in 0..4 : \A answers \in [1..n -> words] :
        /\ ER!poll_to_terminal(answers) = loop(answers)
        /\ ER!poll_to_terminal([k \in 1..10 |-> ""] \o answers) = "executing"
=============================================================================
