------------------------------ MODULE CaseIntake ------------------------------
(***************************************************************************)
(* How cases begin: alerts pushed by sensors, pulled by a poll, or raised  *)
(* by a proactive scan are ingested one after the other by the coroutine   *)
(* that received them (a feed).  ingest_alert looks for an open case of    *)
(* the same incident and either appends to it or opens a case in several   *)
(* commits, for which trigger_workflow is then started.                    *)
(*                                                                         *)
(* A case is named by the alert that opened it.  Workflow and approval     *)
(* requests are reduced to what they do to the columns the lookup reads,   *)
(* status and updated_at.  Like the code they write a status over whatever *)
(* it has become, so a case that is resolved may be open again.            *)
(***************************************************************************)
EXTENDS Integers, Sequences, FiniteSets

CONSTANTS
  Alert,       \* alerts (and findings turned into alerts)
  Key,         \* aggregation keys: rule, host, source address
  KeyOf,       \* [Alert -> Key], compute_agg_key
  NoKey,       \* agg_key is NULL
  Matched,     \* alerts for which a playbook matches
  Feed,        \* coroutines that ingest alerts
  AlertsOf,    \* [Feed -> Seq(Alert)], in the order they are ingested
  Scan,        \* the feeds that are proactive runs, scheduled or manual
  Request,     \* approval requests that may come
  About,       \* [Request -> Alert], the case each is for
  Window,      \* alert_dedup_window_minutes, in clock ticks
  MaxClock,    \* bound on the clock
  MaxCrashes   \* bound on crashes

ASSUME IntakeAssumption ==
  /\ KeyOf \in [Alert -> Key]
  /\ NoKey \notin Key
  /\ Matched \subseteq Alert
  /\ AlertsOf \in [Feed -> Seq(Alert) \ {<<>>}]
  /\ Scan \subseteq Feed
  /\ About \in [Request -> Alert]
  /\ \A f \in Feed : \A i, j \in DOMAIN AlertsOf[f] :
       AlertsOf[f][i] = AlertsOf[f][j] => i = j
  /\ \A f, g \in Feed : \A i \in DOMAIN AlertsOf[f], j \in DOMAIN AlertsOf[g] :
       AlertsOf[f][i] = AlertsOf[g][j] => f = g
  /\ Window \in Nat /\ MaxClock \in Nat /\ MaxCrashes \in Nat

VARIABLES
  clock,      \* utcnow, in ticks
  created,    \* cases there are, named by their first alert
  status,     \* column status
  key,        \* column agg_key
  playbook,   \* column playbook_id is set
  gated,      \* cases with a proposed action that needs signatures
  alerts,     \* column alerts (alert_count is its length)
  updated,    \* column updated_at
  trigger,    \* where the trigger run of each case is
  request,    \* where each approval request is
  pc,         \* where each feed awaits
  at,         \* index of the alert it ingests
  target,     \* the case it appends to or opens
  seen,       \* the alerts of that case when the lookup read it
  opened,     \* cases a scan has counted so far
  runs,       \* rows of proactive_runs
  answered,   \* [alert -> case], what the feeds were told
  contended,  \* keys looked up while a case was being opened for them
  raced,      \* cases whose alerts two feeds have rewritten at the same time
  reopened,   \* cases whose status has been written again after "resolved"
  crashes

tableVars == <<created, status, key, playbook, gated, alerts, updated>>
workflowVars == <<trigger, request>>
feedVars == <<pc, at, target, seen, opened>>
historyVars == <<contended, raced, reopened>>
intakeVars == <<clock, tableVars, workflowVars, feedVars, runs, answered, historyVars, crashes>>

\* MUTANT: a case that waits for approval absorbs nothing
AggregatableUntilParked == {"open", "investigating"}

\* Statuses of cases that may absorb alerts
AGGREGATABLE == {"open", "investigating", "pending_approval", "contained"}

Init ==
  /\ clock = 0
  /\ created = {}
  /\ status = [c \in Alert |-> "open"]
  /\ key = [c \in Alert |-> NoKey]
  /\ playbook = [c \in Alert |-> FALSE]
  /\ gated = {}
  /\ alerts = [c \in Alert |-> {}]
  /\ updated = [c \in Alert |-> 0]
  /\ trigger = [c \in Alert |-> "none"]
  /\ request = [r \in Request |-> "idle"]
  /\ pc = [f \in Feed |-> "find"]
  /\ at = [f \in Feed |-> 1]
  /\ target = [f \in Feed |-> AlertsOf[f][1]]
  /\ seen = [f \in Feed |-> {}]
  /\ opened = [f \in Feed |-> 0]
  /\ runs = {}
  /\ answered = [a \in {} |-> a]
  /\ contended = {}
  /\ raced = {}
  /\ reopened = {}
  /\ crashes = 0

Tick ==
  /\ clock < MaxClock
  /\ clock' = clock + 1
  /\ UNCHANGED <<tableVars, workflowVars, feedVars, runs, answered, historyVars, crashes>>
-----------------------------------------------------------------------------
(* ingest_alert                                                            *)

Current(f) == AlertsOf[f][at[f]]

\* The alerts of the feed have come, and it has looked the first one up
Begun(f) == pc[f] # "find" \/ at[f] > 1

\* The open cases of the incident that were updated within the window
Candidates(k) ==
  {c \in created : key[c] = k /\ status[c] \in AGGREGATABLE /\ updated[c] >= clock - Window}

\* ORDER BY updated_at DESC LIMIT 1
Latest(cs) == {c \in cs : \A d \in cs : updated[d] <= updated[c]}

\* A feed that found nothing, and whose case others cannot find yet
Opening(f) == pc[f] \in {"create", "key"}

NoteContention(f) ==
  contended' =
    IF \E g \in Feed \ {f} : Opening(g) /\ KeyOf[Current(g)] = KeyOf[Current(f)]
    THEN contended \cup {KeyOf[Current(f)]} ELSE contended

find_open_case_for_alert(f) ==
  /\ pc[f] = "find"
  /\ \/ /\ Candidates(KeyOf[Current(f)]) = {}
        /\ target' = [target EXCEPT ![f] = Current(f)]
        /\ pc' = [pc EXCEPT ![f] = "create"]
        /\ UNCHANGED seen
     \/ \E c \in Latest(Candidates(KeyOf[Current(f)])) :
          /\ target' = [target EXCEPT ![f] = c]
          /\ seen' = [seen EXCEPT ![f] = alerts[c]]
          /\ pc' = [pc EXCEPT ![f] = "append"]
  /\ NoteContention(f)
  /\ UNCHANGED <<clock, tableVars, workflowVars, at, opened, runs, answered, raced, reopened,
                 crashes>>

\* Where a feed goes when it has dealt with an alert: to the next one, or to
\* the end, where a scan still has to record its run
NextPC(f) ==
  IF at[f] < Len(AlertsOf[f]) THEN "find" ELSE IF f \in Scan THEN "record" ELSE "done"

\* MUTANT: the loop goes past its last alert
AnswerPastEnd(f) ==
  /\ answered' = [a \in DOMAIN answered \cup {Current(f)} |->
                    IF a = Current(f) THEN target[f] ELSE answered[a]]
  /\ pc' = [pc EXCEPT ![f] = NextPC(f)]
  /\ at' = [at EXCEPT ![f] = @ + 1]
  /\ seen' = [seen EXCEPT ![f] = {}]

\* The caller (or the log) learns the case of the alert; the next one is taken
Answer(f) ==
  /\ answered' = [a \in DOMAIN answered \cup {Current(f)} |->
                    IF a = Current(f) THEN target[f] ELSE answered[a]]
  /\ pc' = [pc EXCEPT ![f] = NextPC(f)]
  /\ at' = [at EXCEPT ![f] = IF @ < Len(AlertsOf[f]) THEN @ + 1 ELSE @]
  /\ seen' = [seen EXCEPT ![f] = {}]

\* MUTANT: the list is rebuilt from nothing
append_to_new_list(f) ==
  /\ pc[f] = "append"
  /\ alerts' = [alerts EXCEPT ![target[f]] = {Current(f)}]
  /\ updated' = [updated EXCEPT ![target[f]] = clock]
  /\ raced' = IF alerts[target[f]] = seen[f] THEN raced ELSE raced \cup {target[f]}
  /\ Answer(f)
  /\ UNCHANGED <<clock, created, status, key, playbook, gated, workflowVars, target, opened, runs,
                 contended, reopened, crashes>>

\* MUTANT: a finding merged into a case is counted as a case
append_alert_counted(f) ==
  /\ pc[f] = "append"
  /\ alerts' = [alerts EXCEPT ![target[f]] = seen[f] \cup {Current(f)}]
  /\ updated' = [updated EXCEPT ![target[f]] = clock]
  /\ raced' = IF alerts[target[f]] = seen[f] THEN raced ELSE raced \cup {target[f]}
  /\ opened' = [opened EXCEPT ![f] = @ + 1]
  /\ Answer(f)
  /\ UNCHANGED <<clock, created, status, key, playbook, gated, workflowVars, target, runs,
                 contended, reopened, crashes>>

\* The list of alerts is rebuilt from what the lookup read
append_alert(f) ==
  /\ pc[f] = "append"
  /\ alerts' = [alerts EXCEPT ![target[f]] = seen[f] \cup {Current(f)}]
  /\ updated' = [updated EXCEPT ![target[f]] = clock]
  /\ raced' = IF alerts[target[f]] = seen[f] THEN raced ELSE raced \cup {target[f]}
  /\ Answer(f)
  /\ UNCHANGED <<clock, created, status, key, playbook, gated, workflowVars, target, opened, runs,
                 contended, reopened, crashes>>

\* create_from_alert: the row, without its key
create(f) ==
  /\ pc[f] = "create"
  /\ created' = created \cup {Current(f)}
  /\ alerts' = [alerts EXCEPT ![Current(f)] = {Current(f)}]
  /\ updated' = [updated EXCEPT ![Current(f)] = clock]
  /\ pc' = [pc EXCEPT ![f] = "key"]
  /\ UNCHANGED <<clock, status, key, playbook, gated, workflowVars, at, target, seen, opened, runs,
                 answered, historyVars, crashes>>

\* MUTANT: without a playbook there is nothing to start
set_agg_key_or_stop(f) ==
  /\ pc[f] = "key"
  /\ key' = [key EXCEPT ![Current(f)] = KeyOf[Current(f)]]
  /\ updated' = [updated EXCEPT ![Current(f)] = clock]
  /\ IF Current(f) \in Matched
     THEN pc' = [pc EXCEPT ![f] = "status"] /\ UNCHANGED <<at, seen, answered>>
     ELSE Answer(f)
  /\ UNCHANGED <<clock, created, status, playbook, gated, alerts, workflowVars, target, opened,
                 runs, historyVars, crashes>>

set_agg_key(f) ==
  /\ pc[f] = "key"
  /\ key' = [key EXCEPT ![Current(f)] = KeyOf[Current(f)]]
  /\ updated' = [updated EXCEPT ![Current(f)] = clock]
  /\ pc' = [pc EXCEPT ![f] = IF Current(f) \in Matched THEN "status" ELSE "dispatch"]
  /\ UNCHANGED <<clock, created, status, playbook, gated, alerts, workflowVars, at, target, seen,
                 opened, runs, answered, historyVars, crashes>>
-----------------------------------------------------------------------------
(* _ingest_and_dispatch and _create_case_from_finding: a new case          *)

set_investigating(f) ==
  /\ pc[f] = "status"
  /\ status' = [status EXCEPT ![Current(f)] = "investigating"]
  /\ updated' = [updated EXCEPT ![Current(f)] = clock]
  /\ pc' = [pc EXCEPT ![f] = "playbook"]
  /\ UNCHANGED <<clock, created, key, playbook, gated, alerts, workflowVars, at, target, seen,
                 opened, runs, answered, historyVars, crashes>>

set_playbook(f) ==
  /\ pc[f] = "playbook"
  /\ playbook' = [playbook EXCEPT ![Current(f)] = TRUE]
  /\ updated' = [updated EXCEPT ![Current(f)] = clock]
  /\ pc' = [pc EXCEPT ![f] = "dispatch"]
  /\ UNCHANGED <<clock, created, status, key, gated, alerts, workflowVars, at, target, seen,
                 opened, runs, answered, historyVars, crashes>>

\* Alerts start the workflow in the background; a scan awaits it
spawn_orchestration(f) ==
  /\ pc[f] = "dispatch"
  /\ f \notin Scan
  /\ trigger' = [trigger EXCEPT ![Current(f)] = "started"]
  /\ Answer(f)
  /\ UNCHANGED <<clock, tableVars, request, target, opened, runs, historyVars, crashes>>

await_workflow(f) ==
  /\ pc[f] = "dispatch"
  /\ f \in Scan
  /\ trigger' = [trigger EXCEPT ![Current(f)] = "started"]
  /\ pc' = [pc EXCEPT ![f] = "await"]
  /\ UNCHANGED <<clock, tableVars, request, at, target, seen, opened, runs, answered,
                 historyVars, crashes>>

workflow_returns(f) ==
  /\ pc[f] = "await"
  /\ trigger[Current(f)] = "ended"
  /\ opened' = [opened EXCEPT ![f] = @ + 1]
  /\ Answer(f)
  /\ UNCHANGED <<clock, tableVars, workflowVars, target, runs, historyVars, crashes>>

\* MUTANT: the exception leaves the run without a record
workflow_raises_unrecorded(f) ==
  /\ pc[f] = "await"
  /\ trigger[Current(f)] = "failed"
  /\ pc' = [pc EXCEPT ![f] = "done"]
  /\ UNCHANGED <<clock, tableVars, workflowVars, at, target, seen, opened, runs, answered,
                 historyVars, crashes>>

\* The exception of the workflow ends the scan, whatever findings are left
workflow_raises(f) ==
  /\ pc[f] = "await"
  /\ trigger[Current(f)] = "failed"
  /\ pc' = [pc EXCEPT ![f] = "record_failed"]
  /\ UNCHANGED <<clock, tableVars, workflowVars, at, target, seen, opened, runs, answered,
                 historyVars, crashes>>

\* run_proactive_with_record: one row at the end of the run
record_run(f) ==
  /\ pc[f] \in {"record", "record_failed"}
  /\ runs' = runs \cup
       {IF pc[f] = "record" THEN [scan |-> f, status |-> "success", cases |-> opened[f]]
                            ELSE [scan |-> f, status |-> "failed", cases |-> 0]}
  /\ pc' = [pc EXCEPT ![f] = "done"]
  /\ UNCHANGED <<clock, tableVars, workflowVars, at, target, seen, opened, answered, historyVars,
                 crashes>>

ingest(f) ==
  \/ find_open_case_for_alert(f) \/ append_alert(f)
  \/ create(f) \/ set_agg_key(f) \/ set_investigating(f) \/ set_playbook(f)
  \/ spawn_orchestration(f) \/ await_workflow(f)
  \/ workflow_returns(f) \/ workflow_raises(f) \/ record_run(f)
-----------------------------------------------------------------------------
(* What the workflow and the approval requests do to the row               *)

\* update_status: the new status replaces whatever there is now
Write(c, s) ==
  /\ status' = [status EXCEPT ![c] = s]
  /\ updated' = [updated EXCEPT ![c] = clock]
  /\ reopened' = IF status[c] = "resolved" /\ s # "resolved" THEN reopened \cup {c} ELSE reopened
  /\ UNCHANGED <<clock, created, key, playbook, gated, alerts, feedVars, runs, answered,
                 contended, raced, crashes>>

\* The trigger run is in stage "from", writes status s and goes on to "to"
Trigger(c, from, s, to) ==
  /\ trigger[c] = from
  /\ Write(c, s)
  /\ trigger' = [trigger EXCEPT ![c] = to]
  /\ UNCHANGED request

ingest_alerts_node(c) == Trigger(c, "started", "investigating", "running")

\* A run under way stores what it has found or done
store_results(c) ==
  /\ \/ trigger[c] \in {"running", "executing", "closing"}
     \/ \E r \in Request : About[r] = c /\ request[r] \in {"executing", "closing"}
  /\ updated' = [updated EXCEPT ![c] = clock]
  /\ UNCHANGED <<clock, created, status, key, playbook, gated, alerts, workflowVars, feedVars, runs,
                 answered, historyVars, crashes>>

\* The plan of a case with a playbook may have actions that need signatures
plan_actions_node(c) ==
  /\ trigger[c] = "running"
  /\ \/ /\ playbook[c]
        /\ gated' = gated \cup {c}
        /\ trigger' = [trigger EXCEPT ![c] = "asking"]
     \/ /\ trigger' = [trigger EXCEPT ![c] = "executing"]
        /\ UNCHANGED gated
  /\ updated' = [updated EXCEPT ![c] = clock]
  /\ UNCHANGED <<clock, created, status, key, playbook, alerts, request, feedVars, runs, answered,
                 historyVars, crashes>>

human_approve_node(c) == Trigger(c, "asking", "pending_approval", "ended")
contain(c) == Trigger(c, "executing", "contained", "closing")
close(c) == Trigger(c, "closing", "resolved", "ended")

\* The LLM or the executor raises: nothing is written
workflow_fails(c) ==
  /\ trigger[c] \in {"running", "executing"}
  /\ trigger' = [trigger EXCEPT ![c] = "failed"]
  /\ UNCHANGED <<clock, tableVars, request, feedVars, runs, answered, historyVars, crashes>>

trigger_workflow(c) ==
  \/ ingest_alerts_node(c) \/ plan_actions_node(c) \/ human_approve_node(c)
  \/ contain(c) \/ close(c) \/ workflow_fails(c)

\* submit_approval finds the action, in a case that is not closed
submit_approval(r) ==
  /\ request[r] = "idle"
  /\ About[r] \in gated
  /\ status[About[r]] # "resolved"
  /\ request' = [request EXCEPT ![r] = "checked"]
  /\ UNCHANGED <<clock, tableVars, trigger, feedVars, runs, answered, historyVars, crashes>>

\* The request is in stage "from", writes status s and goes on to "to"
Answering(r, from, s, to) ==
  /\ request[r] = from
  /\ Write(About[r], s)
  /\ request' = [request EXCEPT ![r] = to]
  /\ UNCHANGED trigger

\* After the status check come the votes: a rejection closes the case, the
\* last signature resumes its workflow.  Which votes there are, and a request
\* that is refused or is not the last, are left to CaseCore.
reject(r) == Answering(r, "checked", "resolved", "done")
resume(r) == Answering(r, "checked", "investigating", "executing")
resume_contains(r) == Answering(r, "executing", "contained", "closing")
resume_closes(r) == Answering(r, "closing", "resolved", "done")

\* The executor raises
resume_fails(r) ==
  /\ request[r] = "executing"
  /\ request' = [request EXCEPT ![r] = "done"]
  /\ UNCHANGED <<clock, tableVars, trigger, feedVars, runs, answered, historyVars, crashes>>

approve(r) ==
  \/ submit_approval(r) \/ reject(r) \/ resume(r)
  \/ resume_contains(r) \/ resume_closes(r) \/ resume_fails(r)

\* Every coroutine and background task is lost; a feed that has not begun is
\* one that comes after the restart
Crash ==
  /\ crashes < MaxCrashes
  /\ crashes' = crashes + 1
  /\ pc' = [f \in Feed |-> IF pc[f] = "done" \/ ~ Begun(f) THEN pc[f] ELSE "lost"]
  /\ trigger' = [c \in Alert |-> IF trigger[c] \in {"none", "ended", "failed"}
                                 THEN trigger[c] ELSE "lost"]
  /\ request' = [r \in Request |-> IF request[r] = "idle" THEN "idle" ELSE "done"]
  /\ UNCHANGED <<clock, tableVars, at, target, seen, opened, runs, answered, historyVars>>
-----------------------------------------------------------------------------
Next ==
  \/ Tick \/ Crash
  \/ \E f \in Feed : ingest(f)
  \/ \E c \in created : trigger_workflow(c) \/ store_results(c)
  \/ \E r \in Request : approve(r)

Spec == Init /\ [][Next]_intakeVars

\* The event loop runs every feed that has begun, and every trigger run, to
\* its end; nothing makes alerts or approvals come
FairSpec ==
  /\ Spec
  /\ \A f \in Feed : WF_intakeVars(Begun(f) /\ ingest(f))
  /\ \A c \in Alert : WF_intakeVars(c \in created /\ trigger_workflow(c))
-----------------------------------------------------------------------------
(* Properties                                                              *)

TypeOK ==
  /\ clock \in 0..MaxClock
  /\ created \subseteq Alert
  /\ status \in [Alert -> {"open", "investigating", "pending_approval",
                           "contained", "resolved"}]
  /\ key \in [Alert -> Key \cup {NoKey}]
  /\ playbook \in [Alert -> BOOLEAN]
  /\ gated \subseteq created
  /\ alerts \in [Alert -> SUBSET Alert]
  /\ updated \in [Alert -> 0..MaxClock]
  /\ trigger \in [Alert -> {"none", "started", "running", "asking", "executing", "closing",
                            "ended", "failed", "lost"}]
  /\ request \in [Request -> {"idle", "checked", "executing", "closing", "done"}]
  /\ pc \in [Feed -> {"find", "append", "create", "key", "status", "playbook",
                      "dispatch", "await", "record", "record_failed", "done", "lost"}]
  /\ \A f \in Feed : at[f] \in DOMAIN AlertsOf[f]
  /\ target \in [Feed -> Alert]
  /\ seen \in [Feed -> SUBSET Alert]
  /\ opened \in [Feed -> Nat]
  /\ runs \subseteq [scan : Feed, status : {"success", "failed"}, cases : Nat]
  /\ DOMAIN answered \subseteq Alert
  /\ \A a \in DOMAIN answered : answered[a] \in created
  /\ contended \subseteq Key /\ raced \subseteq created /\ reopened \subseteq created
  /\ crashes \in 0..MaxCrashes

\* Every alert that was answered is in the case its sender was told, unless
\* two feeds rewrote that case's list at the same time; no alert is in two
\* cases, and no case mixes incidents (repositories.py:217-247).
AlertsAccounted ==
  /\ \A a \in DOMAIN answered : a \in alerts[answered[a]] \/ answered[a] \in raced
  /\ \A c, d \in created : c # d => alerts[c] \cap alerts[d] = {}
  /\ \A c \in created : \A a \in alerts[c] : KeyOf[a] = KeyOf[c]

\* A crash came before the commit of the key: no alert will find the case
Unfindable(c) == key[c] = NoKey /\ \E f \in Feed : Current(f) = c /\ pc[f] = "lost"

\* A case that absorbs alerts, or would if its feed had got that far
Absorbing(c) == c \in created /\ status[c] # "resolved" /\ ~ Unfindable(c)

\* Within one window an incident has one open case, however its alerts, its
\* workflow, approval requests and crashes interleave (repositories.py:193-215),
\* but for three gaps of the code: an alert looked up while the case is being
\* opened opens another (repositories.py:239-247), a crash between the first
\* two commits leaves a case that no lookup finds (repositories.py:186-190),
\* and an approval request or a run that was under way writes a resolved case
\* open again (service.py:52, 124).
StormOpensOneCase ==
  clock <= Window =>
    \A c, d \in Alert :
      /\ Absorbing(c) /\ Absorbing(d)
      /\ KeyOf[c] = KeyOf[d] /\ KeyOf[c] \notin contended
      /\ {c, d} \cap reopened = {}
      => c = d

\* The feed that opened a case and has not started its workflow yet
OnItsWay(c) ==
  \E f \in Feed : Current(f) = c /\ pc[f] \in {"key", "status", "playbook", "dispatch"}

\* A case is never left without a workflow, matched playbook or not, except
\* by a crash of the feed that opened it (alerts.py:92-127).
EveryCaseIsDispatched ==
  \A c \in created :
    \/ trigger[c] # "none"
    \/ OnItsWay(c)
    \/ \E f \in Feed : Current(f) = c /\ pc[f] = "lost"

\* The cases a scan has opened
CasesOf(f) == {c \in created : \E i \in DOMAIN AlertsOf[f] : c = AlertsOf[f][i]}

\* The history of proactive runs is right about successful runs: the cases
\* counted are those the run opened, and their workflows did not raise.  A
\* failed run is one of whose cases the workflow raised (scheduler.py:159-195).
RunsTellTheTruth ==
  \A r \in runs :
    /\ r.status = "success" =>
         /\ r.cases = Cardinality(CasesOf(r.scan))
         /\ \A c \in CasesOf(r.scan) : trigger[c] = "ended"
    /\ r.status = "failed" => \E c \in CasesOf(r.scan) : trigger[c] = "failed"

\* A scan gave up, with the findings it had left, because the workflow of a
\* case it had opened raised, and its history says so
GaveUp(f) ==
  /\ \E c \in CasesOf(f) : trigger[c] = "failed"
  /\ \E r \in runs : r.scan = f /\ r.status = "failed"

\* Every feed that has begun comes to its end, or dies in a crash, and then
\* each of its alerts has its case: no parked case and no signature that never
\* comes keeps a scan waiting, and a workflow that raises does not keep a poll from the
\* alerts that are left (alerts.py:118-130).  A scan whose workflow raises
\* does give up what it has left (scheduler.py:129-195), and says so.
IntakeCompletes ==
  \A f \in Feed :
    Begun(f) ~>
      \/ pc[f] = "lost"
      \/ /\ pc[f] = "done"
         /\ GaveUp(f) \/ \A i \in DOMAIN AlertsOf[f] : AlertsOf[f][i] \in DOMAIN answered
=============================================================================
