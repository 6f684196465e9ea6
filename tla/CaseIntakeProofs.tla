--------------------------- MODULE CaseIntakeProofs ---------------------------
(***************************************************************************)
(* Proofs about the beginning of cases, for any number of feeds, alerts,   *)
(* incidents and crashes and for every length of the window.               *)
(***************************************************************************)
EXTENDS CaseIntake, FiniteSetTheorems, TLAPS

PCs == {"find", "append", "create", "key", "status", "playbook",
        "dispatch", "await", "record", "record_failed", "done", "lost"}
Statuses == {"open", "investigating", "pending_approval", "contained", "resolved"}
Stages == {"none", "started", "running", "asking", "executing", "closing",
           "ended", "failed", "lost"}
RequestStages == {"idle", "checked", "executing", "closing", "done"}

USE DEF tableVars, workflowVars, feedVars, historyVars

\* The part of the type invariant that the proofs need
Shape ==
  /\ clock \in Int
  /\ created \subseteq Alert
  /\ status \in [Alert -> Statuses]
  /\ key \in [Alert -> Key \cup {NoKey}]
  /\ DOMAIN alerts = Alert
  /\ updated \in [Alert -> Int]
  /\ \A c \in Alert : updated[c] >= 0
  /\ trigger \in [Alert -> Stages]
  /\ request \in [Request -> RequestStages]
  /\ pc \in [Feed -> PCs]
  /\ DOMAIN at = Feed
  /\ \A f \in Feed : at[f] \in DOMAIN AlertsOf[f]
  /\ target \in [Feed -> Alert]
  /\ DOMAIN seen = Feed
  /\ clock >= 0

LEMMA CurrentType ==
  ASSUME Shape, NEW f \in Feed
  PROVE  Current(f) \in Alert /\ at[f] \in Nat \ {0} /\ at[f] <= Len(AlertsOf[f])
<1>1. AlertsOf[f] \in Seq(Alert) /\ at[f] \in DOMAIN AlertsOf[f]
  BY IntakeAssumption DEF IntakeAssumption, Shape
<1>2. at[f] \in 1..Len(AlertsOf[f]) /\ Len(AlertsOf[f]) \in Nat
  BY <1>1
<1>3. Current(f) \in Alert
  BY <1>1 DEF Current
<1> QED BY <1>2, <1>3

LEMMA ShapeInit == ASSUME Init PROVE Shape
<1>1. \A f \in Feed : AlertsOf[f] \in Seq(Alert) \ {<<>>}
  BY IntakeAssumption DEF IntakeAssumption
<1>2. \A f \in Feed : 1 \in DOMAIN AlertsOf[f] /\ AlertsOf[f][1] \in Alert
  BY <1>1
<1> QED BY <1>2, IntakeAssumption
       DEF Init, Shape, IntakeAssumption, PCs, Statuses, Stages, RequestStages

\* Answering moves within the sequence of the feed.
LEMMA AnswerShape ==
  ASSUME Shape, NEW f \in Feed, Answer(f)
  PROVE  /\ pc' \in [Feed -> PCs]
         /\ DOMAIN at' = Feed /\ \A g \in Feed : at'[g] \in DOMAIN AlertsOf[g]
         /\ DOMAIN seen' = Feed
<1>1. AlertsOf[f] \in Seq(Alert) /\ at[f] \in 1..Len(AlertsOf[f])
  BY IntakeAssumption DEF IntakeAssumption, Shape
<1>2. at'[f] \in DOMAIN AlertsOf[f]
  BY <1>1 DEF Answer, Shape
<1>3. \A g \in Feed \ {f} : at'[g] \in DOMAIN AlertsOf[g]
  BY DEF Answer, Shape
<1>4. pc' \in [Feed -> PCs]
  BY DEF Answer, Shape, NextPC, PCs
<1> QED BY <1>2, <1>3, <1>4 DEF Answer, Shape

\* What trigger runs and approval requests do
Work ==
  \/ \E c \in created : trigger_workflow(c) \/ store_results(c)
  \/ \E r \in Request : approve(r)

\* The workflow of case c has been started, or a request for it is under way
UnderWay(c) ==
  trigger[c] # "none" \/ \E r \in Request : About[r] = c /\ request[r] # "idle"

\* What they leave alone, what they disturb and what they never undo
WorkEffect ==
  /\ UNCHANGED <<clock, created, key, playbook, alerts, feedVars, runs, answered,
                 contended, raced, crashes>>
  /\ status' \in [Alert -> Statuses]
  /\ updated' \in [Alert -> Int] /\ \A d \in Alert : updated'[d] \in {updated[d], clock}
  /\ trigger' \in [Alert -> Stages]
  /\ request' \in [Request -> RequestStages]
  /\ \A d \in Alert : /\ trigger'[d] = "none" <=> trigger[d] = "none"
                      /\ trigger[d] \in {"ended", "failed"} => trigger'[d] = trigger[d]
  /\ \A d \in Alert : status[d] = "resolved" => status'[d] = "resolved" \/ d \in reopened'
  /\ \A d \in Alert : status'[d] # status[d] => UnderWay(d)
  /\ reopened \subseteq reopened'
  /\ \A d \in reopened' \ reopened : d \in Alert /\ UnderWay(d)
  /\ gated \subseteq gated'
  /\ \A d \in gated' \ gated : d \in created /\ trigger[d] # "none"
  /\ \A r \in Request : request'[r] # "idle" => request[r] # "idle" \/ About[r] \in gated

\* Trigger runs and approval requests move the row of one case whose workflow
\* has been started, or that a request is about.
LEMMA WorkStep == ASSUME Shape, Work PROVE WorkEffect
<1> USE DEF Shape
<1>1. ASSUME NEW c \in created, NEW from \in Stages \ {"none", "ended", "failed"},
             NEW s \in Statuses, NEW to \in Stages \ {"none"}, Trigger(c, from, s, to)
      PROVE  WorkEffect
  <2>1. c \in Alert /\ UnderWay(c) /\ trigger[c] = from
    BY <1>1 DEF Trigger, UnderWay
  <2>2. /\ status' = [status EXCEPT ![c] = s] /\ updated' = [updated EXCEPT ![c] = clock]
        /\ trigger' = [trigger EXCEPT ![c] = to] /\ UNCHANGED <<request, gated>>
        /\ reopened' = IF status[c] = "resolved" /\ s # "resolved" THEN reopened \cup {c}
                                                                  ELSE reopened
        /\ UNCHANGED <<clock, created, key, playbook, alerts, feedVars, runs, answered,
                       contended, raced, crashes>>
    BY <1>1 DEF Trigger, Write
  <2> QED BY <2>1, <2>2 DEF WorkEffect
<1>2. ASSUME NEW r \in Request, NEW from \in RequestStages \ {"idle"},
             NEW s \in Statuses, NEW to \in RequestStages \ {"idle"}, Answering(r, from, s, to)
      PROVE  WorkEffect
  <2> DEFINE c == About[r]
  <2>1. c \in Alert /\ UnderWay(c) /\ request[r] # "idle"
    BY <1>2, IntakeAssumption DEF Answering, UnderWay, IntakeAssumption
  <2>2. /\ status' = [status EXCEPT ![c] = s] /\ updated' = [updated EXCEPT ![c] = clock]
        /\ request' = [request EXCEPT ![r] = to] /\ UNCHANGED <<trigger, gated>>
        /\ reopened' = IF status[c] = "resolved" /\ s # "resolved" THEN reopened \cup {c}
                                                                  ELSE reopened
        /\ UNCHANGED <<clock, created, key, playbook, alerts, feedVars, runs, answered,
                       contended, raced, crashes>>
    BY <1>2 DEF Answering, Write
  <2> HIDE DEF c
  <2> QED BY <2>1, <2>2 DEF WorkEffect
<1>3. ASSUME NEW c \in created, trigger_workflow(c) \/ store_results(c) PROVE WorkEffect
  <2>1. c \in Alert
    OBVIOUS
  <2>2. CASE ingest_alerts_node(c)
    BY <1>1, <2>2 DEF ingest_alerts_node, Stages, Statuses
  <2>3. CASE human_approve_node(c)
    BY <1>1, <2>3 DEF human_approve_node, Stages, Statuses
  <2>4. CASE contain(c)
    BY <1>1, <2>4 DEF contain, Stages, Statuses
  <2>5. CASE close(c)
    BY <1>1, <2>5 DEF close, Stages, Statuses
  <2>6. CASE plan_actions_node(c)
    <3>1. PICK to \in {"asking", "executing"} :
            /\ trigger' = [trigger EXCEPT ![c] = to]
            /\ gated' = gated \cup {c} \/ UNCHANGED gated
      BY <2>6 DEF plan_actions_node
    <3>2. /\ trigger[c] = "running" /\ updated' = [updated EXCEPT ![c] = clock]
          /\ UNCHANGED <<status, request, reopened>>
          /\ UNCHANGED <<clock, created, key, playbook, alerts, feedVars, runs, answered,
                         contended, raced, crashes>>
      BY <2>6 DEF plan_actions_node
    <3> QED BY <2>1, <3>1, <3>2 DEF WorkEffect, Stages
  <2>7. CASE workflow_fails(c)
    BY <2>1, <2>7 DEF workflow_fails, WorkEffect, Stages
  <2>8. CASE store_results(c)
    BY <2>1, <2>8 DEF store_results, WorkEffect
  <2> QED BY <1>3, <2>2, <2>3, <2>4, <2>5, <2>6, <2>7, <2>8 DEF trigger_workflow
<1>4. ASSUME NEW r \in Request, approve(r) PROVE WorkEffect
  <2>1. CASE submit_approval(r)
    BY <2>1 DEF submit_approval, WorkEffect, RequestStages
  <2>2. CASE reject(r) \/ resume(r) \/ resume_contains(r) \/ resume_closes(r)
    BY <1>2, <2>2 DEF reject, resume, resume_contains, resume_closes, RequestStages, Statuses
  <2>3. CASE resume_fails(r)
    BY <2>3 DEF resume_fails, WorkEffect, RequestStages
  <2> QED BY <1>4, <2>1, <2>2, <2>3 DEF approve
<1> QED BY <1>3, <1>4 DEF Work

LEMMA ShapeStep == ASSUME Shape, [Next]_intakeVars PROVE Shape'
<1> USE DEF Shape
<1> USE IntakeAssumption DEF IntakeAssumption
<1>1. CASE Tick
  BY <1>1 DEF Tick
<1>2. CASE Crash
  BY <1>2 DEF Crash, Begun, PCs, Stages, RequestStages
<1>3. ASSUME NEW f \in Feed, ingest(f) PROVE Shape'
  <2>1. Current(f) \in Alert
    BY CurrentType
  <2>2. CASE find_open_case_for_alert(f)
    <3>1. UNCHANGED <<clock, tableVars, workflowVars, at>>
      BY <2>2 DEF find_open_case_for_alert
    <3>2. PICK c \in Alert, q \in PCs :
            target' = [target EXCEPT ![f] = c] /\ pc' = [pc EXCEPT ![f] = q]
      <4>1. CASE Candidates(KeyOf[Current(f)]) = {} /\ target' = [target EXCEPT ![f] = Current(f)]
                   /\ pc' = [pc EXCEPT ![f] = "create"]
        BY <2>1, <4>1 DEF PCs
      <4>2. ASSUME NEW c \in Latest(Candidates(KeyOf[Current(f)])),
                   target' = [target EXCEPT ![f] = c], pc' = [pc EXCEPT ![f] = "append"]
            PROVE  \E d \in Alert, q \in PCs :
                     target' = [target EXCEPT ![f] = d] /\ pc' = [pc EXCEPT ![f] = q]
        <5>1. c \in Alert
          BY DEF Latest, Candidates
        <5> QED BY <4>2, <5>1 DEF PCs
      <4> QED BY <2>2, <4>1, <4>2 DEF find_open_case_for_alert
    <3>3. DOMAIN seen' = Feed
      BY <2>2 DEF find_open_case_for_alert
    <3> QED BY <3>1, <3>2, <3>3
  <2>3. CASE append_alert(f)
    BY <2>1, <2>3, AnswerShape DEF append_alert
  <2>4. CASE create(f)
    BY <2>1, <2>4 DEF create, PCs
  <2>5. CASE set_agg_key(f)
    BY <2>1, <2>5 DEF set_agg_key, PCs
  <2>6. CASE set_investigating(f)
    BY <2>1, <2>6 DEF set_investigating, PCs, Statuses
  <2>7. CASE set_playbook(f)
    BY <2>1, <2>7 DEF set_playbook, PCs
  <2>8. CASE spawn_orchestration(f)
    BY <2>1, <2>8, AnswerShape DEF spawn_orchestration, Stages
  <2>9. CASE await_workflow(f)
    BY <2>1, <2>9 DEF await_workflow, PCs, Stages
  <2>10. CASE workflow_returns(f)
    BY <2>1, <2>10, AnswerShape DEF workflow_returns
  <2>11. CASE workflow_raises(f)
    BY <2>11 DEF workflow_raises, PCs
  <2>12. CASE record_run(f)
    BY <2>12 DEF record_run, PCs
  <2> QED BY <1>3, <2>2, <2>3, <2>4, <2>5, <2>6, <2>7, <2>8, <2>9, <2>10, <2>11, <2>12 DEF ingest
<1>4. CASE Work
  BY <1>4, WorkStep DEF WorkEffect
<1>5. CASE UNCHANGED intakeVars
  BY <1>5 DEF intakeVars
<1> HIDE DEF Shape
<1> QED BY <1>1, <1>2, <1>3, <1>4, <1>5 DEF Next, Work
-----------------------------------------------------------------------------
\* A feed that opens a case keeps it in hand until its workflow is started.
LEMMA DispatchStep ==
  ASSUME Shape, EveryCaseIsDispatched, [Next]_intakeVars
  PROVE  EveryCaseIsDispatched'
<1> DEFINE Held(c) == \/ OnItsWay(c)
                      \/ \E f \in Feed : Current(f) = c /\ pc[f] = "lost"
<1> USE DEF EveryCaseIsDispatched, OnItsWay
<1>1. CASE Tick \/ UNCHANGED intakeVars
  BY <1>1 DEF Tick, intakeVars, Current
<1>2. CASE Crash
  <2>1. UNCHANGED <<created, at>>
    BY <1>2 DEF Crash, Begun
  <2>2. \A c \in created : trigger[c] # "none" => trigger'[c] # "none"
    BY <1>2 DEF Crash, Begun, Shape
  <2>3. \A f \in Feed : pc[f] \notin {"find", "done"} => pc'[f] = "lost"
    BY <1>2 DEF Crash, Begun
  <2> QED BY <2>1, <2>2, <2>3 DEF Current
<1>3. ASSUME NEW f \in Feed, ingest(f) PROVE EveryCaseIsDispatched'
  <2>1. Current(f) \in Alert
    BY CurrentType
  <2>2. \A g \in Feed \ {f} : UNCHANGED <<pc[g], at[g]>>
    BY <1>3 DEF ingest, find_open_case_for_alert, append_alert, create, set_agg_key,
                set_investigating, set_playbook, spawn_orchestration, await_workflow,
                workflow_returns, workflow_raises, record_run, Answer, Shape
  <2>3. CASE create(f)
    <3>1. created' = created \cup {Current(f)} /\ UNCHANGED <<trigger, at>>
             /\ pc'[f] = "key" /\ pc[f] = "create"
      BY <2>3 DEF create, Shape
    <3> QED BY <2>2, <3>1 DEF Current
  <2>4. CASE \/ set_agg_key(f) \/ set_investigating(f) \/ set_playbook(f)
    <3>1. /\ UNCHANGED <<created, trigger, at>>
          /\ pc'[f] \in {"status", "playbook", "dispatch"}
          /\ pc[f] # "lost"
      BY <2>4 DEF set_agg_key, set_investigating, set_playbook, Shape
    <3> QED BY <2>2, <3>1 DEF Current
  <2>5. CASE \/ spawn_orchestration(f) \/ await_workflow(f)
    <3>1. /\ UNCHANGED created
          /\ trigger' = [trigger EXCEPT ![Current(f)] = "started"]
          /\ pc[f] = "dispatch"
      BY <2>5 DEF spawn_orchestration, await_workflow
    <3>2. trigger'[Current(f)] # "none" /\ \A c \in Alert : trigger[c] # "none" => trigger'[c] # "none"
      BY <2>1, <3>1 DEF Shape
    <3>3. \A c \in created : (c # Current(f) /\ Held(c)) => Held(c)'
      BY <2>2 DEF Current
    <3> QED BY <3>1, <3>2, <3>3 DEF Shape
  <2>6. CASE \/ find_open_case_for_alert(f) \/ append_alert(f) \/ workflow_returns(f)
             \/ workflow_raises(f) \/ record_run(f)
    <3>1. /\ UNCHANGED <<created, trigger>>
          /\ pc[f] \in {"find", "append", "await", "record", "record_failed"}
      BY <2>6 DEF find_open_case_for_alert, append_alert, workflow_returns, workflow_raises,
                  record_run
    <3> QED BY <2>2, <3>1 DEF Current
  <2> QED BY <1>3, <2>3, <2>4, <2>5, <2>6 DEF ingest
<1>4. CASE Work
  BY <1>4, WorkStep DEF WorkEffect, Shape, Current
<1> QED BY <1>1, <1>2, <1>3, <1>4 DEF Next, Work

\* A case is never left without a workflow, except by a crash of its feed.
THEOREM NoCaseForgotten == Spec => []EveryCaseIsDispatched
<1>1. Init => EveryCaseIsDispatched
  BY DEF Init, EveryCaseIsDispatched
<1>2. Init => Shape
  BY ShapeInit
<1>3. Shape /\ EveryCaseIsDispatched /\ [Next]_intakeVars => Shape' /\ EveryCaseIsDispatched'
  BY ShapeStep, DispatchStep
<1> QED BY <1>1, <1>2, <1>3, PTL DEF Spec
-----------------------------------------------------------------------------
(* Where alerts end up                                                     *)

\* An alert belongs to the case it opened, or to the one it was answered with
Home(a, c) == a = c \/ (a \in DOMAIN answered /\ answered[a] = c /\ a \notin created)

Untaken == {"find", "append", "create"}
InHand == {"key", "status", "playbook", "dispatch", "await"}

\* Alerts still to come have opened nothing and have no answer
FreshOK ==
  \A f \in Feed : \A i \in DOMAIN AlertsOf[f] :
    i > at[f] \/ (i = at[f] /\ pc[f] \in Untaken)
      => AlertsOf[f][i] \notin created /\ AlertsOf[f][i] \notin DOMAIN answered

\* The case a feed is opening is its own
OpeningOK ==
  \A f \in Feed :
    /\ pc[f] \in InHand \cup {"create"} => target[f] = Current(f)
    /\ pc[f] \in InHand => Current(f) \in created /\ Current(f) \notin DOMAIN answered

\* Lists hold what belongs to their case; so do the lists that feeds have read
ListsOK ==
  /\ \A c \in Alert : key[c] \in {NoKey, KeyOf[c]}
  /\ \A c \in created : \A a \in alerts[c] : Home(a, c) /\ KeyOf[a] = KeyOf[c]
  /\ \A f \in Feed : pc[f] = "append" =>
       /\ target[f] \in created
       /\ KeyOf[target[f]] = KeyOf[Current(f)]
       /\ \A a \in seen[f] : Home(a, target[f]) /\ KeyOf[a] = KeyOf[target[f]]

\* Only rewriting a list at the same time can take an alert out of it
KeptOK ==
  /\ \A a \in DOMAIN answered :
       answered[a] \in created /\ (a \in alerts[answered[a]] \/ answered[a] \in raced)
  /\ \A c \in created : c \in alerts[c] \/ c \in raced

Belonging == FreshOK /\ OpeningOK /\ ListsOK /\ KeptOK

LEMMA BelongingSuffices == ASSUME Belonging PROVE AlertsAccounted
<1>1. ASSUME NEW c \in created, NEW d \in created, c # d,
             NEW a \in alerts[c] \cap alerts[d]
      PROVE  FALSE
  BY <1>1 DEF Belonging, ListsOK, Home
<1> QED BY <1>1 DEF Belonging, ListsOK, KeptOK, AlertsAccounted

LEMMA BelongingInit == ASSUME Init PROVE Belonging
<1>1. \A f \in Feed : pc[f] = "find"
  BY DEF Init
<1>2. created = {} /\ DOMAIN answered = {}
  BY DEF Init
<1>3. \A c \in Alert : key[c] = NoKey
  BY DEF Init
<1> QED BY <1>1, <1>2, <1>3 DEF Belonging, FreshOK, OpeningOK, ListsOK, KeptOK, Untaken, InHand

\* The alerts of a feed are its own, and each comes once.
LEMMA OwnAlerts ==
  ASSUME Shape, NEW f \in Feed, NEW g \in Feed, NEW i \in DOMAIN AlertsOf[g],
         g # f \/ i > at[f]
  PROVE  AlertsOf[g][i] # Current(f)
<1>1. at[f] \in DOMAIN AlertsOf[f]
  BY DEF Shape
<1>2. CASE g # f
  BY <1>1, <1>2, IntakeAssumption DEF IntakeAssumption, Current
<1>3. CASE g = f /\ i > at[f]
  <2>1. AlertsOf[f][i] = AlertsOf[f][at[f]] => i = at[f]
    BY <1>1, <1>3, IntakeAssumption DEF IntakeAssumption
  <2>2. at[f] \in Nat
    BY CurrentType
  <2> QED BY <1>3, <2>1, <2>2 DEF Current
<1> QED BY <1>2, <1>3

\* What answering does, in the terms of the invariant.
LEMMA AnswerEffect ==
  ASSUME Shape, NEW f \in Feed, Answer(f)
  PROVE  /\ DOMAIN answered' = DOMAIN answered \cup {Current(f)}
         /\ answered'[Current(f)] = target[f]
         /\ \A a \in DOMAIN answered : a # Current(f) => answered'[a] = answered[a]
         /\ \A g \in Feed \ {f} : UNCHANGED <<pc[g], at[g], seen[g]>>
         /\ pc'[f] \in {"find", "record", "done"}
         /\ \A i \in DOMAIN AlertsOf[f] :
              i > at'[f] \/ (i = at'[f] /\ pc'[f] \in Untaken) => i > at[f]
<1>1. at[f] \in Nat /\ Len(AlertsOf[f]) \in Nat /\ DOMAIN AlertsOf[f] = 1..Len(AlertsOf[f])
         /\ at[f] <= Len(AlertsOf[f])
  BY CurrentType, IntakeAssumption DEF IntakeAssumption
<1>2. /\ at'[f] = IF at[f] < Len(AlertsOf[f]) THEN at[f] + 1 ELSE at[f]
      /\ pc'[f] = NextPC(f)
      /\ \A g \in Feed \ {f} : UNCHANGED <<pc[g], at[g], seen[g]>>
  BY DEF Answer, Shape
<1>3. \A i \in DOMAIN AlertsOf[f] :
        i > at'[f] \/ (i = at'[f] /\ pc'[f] \in Untaken) => i > at[f]
  BY <1>1, <1>2 DEF NextPC, Untaken
<1> QED BY <1>2, <1>3 DEF Answer, NextPC
LEMMA BelongingStep ==
  ASSUME Shape, Belonging, [Next]_intakeVars
  PROVE  Belonging'
<1> USE DEF Belonging
<1>1. ASSUME UNCHANGED <<created, key, alerts, answered, raced, at, target, seen>>,
             \/ UNCHANGED pc
             \/ \A f \in Feed : pc'[f] = pc[f] \/ pc'[f] \in {"record_failed", "done", "lost"}
      PROVE  Belonging'
  <2>1. \A f \in Feed : Current(f)' = Current(f)
    BY <1>1 DEF Current
  <2>2. FreshOK'
    BY <1>1 DEF FreshOK, Untaken
  <2>3. OpeningOK'
    BY <1>1, <2>1 DEF OpeningOK, InHand
  <2>4. ListsOK'
    BY <1>1, <2>1 DEF ListsOK, Home
  <2>5. KeptOK'
    BY <1>1 DEF KeptOK
  <2> QED BY <2>2, <2>3, <2>4, <2>5
<1>2. CASE Tick \/ UNCHANGED intakeVars
  BY <1>1, <1>2 DEF Tick, intakeVars
<1>3. CASE Crash
  <2>1. \A f \in Feed : pc'[f] = pc[f] \/ pc'[f] \in {"record_failed", "done", "lost"}
    BY <1>3 DEF Crash, Begun
  <2> QED BY <1>1, <1>3, <2>1 DEF Crash, Begun
<1>4. CASE Work
  BY <1>1, <1>4, WorkStep DEF WorkEffect
<1>5. ASSUME NEW f \in Feed, ingest(f) PROVE Belonging'
  <2>1. PICK a \in Alert : a = Current(f)
    BY CurrentType
  <2>2. \A g \in Feed \ {f} : UNCHANGED <<pc[g], at[g], target[g], seen[g]>>
    BY <1>5 DEF ingest, find_open_case_for_alert, append_alert, create, set_agg_key,
                set_investigating, set_playbook, spawn_orchestration, await_workflow,
                workflow_returns, workflow_raises, record_run, Answer, Shape
  <2>3. \A g \in Feed \ {f} : Current(g)' = Current(g)
    BY <2>2 DEF Current
  <2>4. CASE find_open_case_for_alert(f)
    <3>1. UNCHANGED <<created, key, alerts, answered, raced, at>> /\ pc[f] = "find"
      BY <2>4 DEF find_open_case_for_alert
    <3>2. Current(f)' = a
      BY <2>1, <3>1 DEF Current
    <3>3. PICK c \in Alert, q \in {"create", "append"} :
            /\ target'[f] = c /\ pc'[f] = q
            /\ q = "create" => c = a
            /\ q = "append" => c \in Candidates(KeyOf[a]) /\ seen'[f] = alerts[c]
      <4>1. CASE target' = [target EXCEPT ![f] = a] /\ pc' = [pc EXCEPT ![f] = "create"]
        BY <2>1, <4>1 DEF Shape
      <4>2. ASSUME NEW c \in Latest(Candidates(KeyOf[a])),
                   target' = [target EXCEPT ![f] = c], seen' = [seen EXCEPT ![f] = alerts[c]],
                   pc' = [pc EXCEPT ![f] = "append"]
            PROVE  \E d \in Alert, q \in {"create", "append"} :
                     /\ target'[f] = d /\ pc'[f] = q
                     /\ q = "create" => d = a
                     /\ q = "append" => d \in Candidates(KeyOf[a]) /\ seen'[f] = alerts[d]
        <5>1. c \in Candidates(KeyOf[a]) /\ c \in Alert
          BY DEF Latest, Candidates, Shape
        <5>2. target'[f] = c /\ pc'[f] = "append" /\ seen'[f] = alerts[c]
          BY <4>2 DEF Shape
        <5> QED BY <5>1, <5>2
      <4> QED BY <2>1, <2>4, <4>1, <4>2 DEF find_open_case_for_alert
    <3>4. FreshOK'
      BY <2>2, <3>1, <3>3 DEF FreshOK, Untaken
    <3>5. OpeningOK'
      BY <2>2, <2>3, <3>1, <3>2, <3>3 DEF OpeningOK, InHand
    <3>6. ListsOK'
      <4>1. pc'[f] = "append" =>
              /\ target'[f] \in created
              /\ KeyOf[target'[f]] = KeyOf[a]
              /\ \A b \in seen'[f] : Home(b, target'[f]) /\ KeyOf[b] = KeyOf[target'[f]]
        BY <2>1, <3>3, IntakeAssumption DEF ListsOK, Candidates, IntakeAssumption
      <4> QED BY <2>2, <2>3, <3>1, <3>2, <4>1 DEF ListsOK, Home
    <3>7. KeptOK'
      BY <3>1 DEF KeptOK
    <3> QED BY <3>4, <3>5, <3>6, <3>7
  <2>5. CASE append_alert(f)
    <3>1. /\ UNCHANGED <<created, key, target>> /\ pc[f] = "append" /\ Answer(f)
          /\ alerts' = [alerts EXCEPT ![target[f]] = seen[f] \cup {a}]
          /\ raced' = IF alerts[target[f]] = seen[f] THEN raced ELSE raced \cup {target[f]}
      BY <2>1, <2>5 DEF append_alert
    <3>e. /\ DOMAIN answered' = DOMAIN answered \cup {a}
          /\ answered'[a] = target[f]
          /\ \A b \in DOMAIN answered : b # a => answered'[b] = answered[b]
          /\ pc'[f] \in {"find", "record", "done"}
          /\ \A i \in DOMAIN AlertsOf[f] :
               i > at'[f] \/ (i = at'[f] /\ pc'[f] \in Untaken) => i > at[f]
      BY <2>1, <3>1, AnswerEffect
    <3>a. \A g \in Feed : \A i \in DOMAIN AlertsOf[g] : g # f \/ i > at[f] => AlertsOf[g][i] # a
      BY <2>1, OwnAlerts
    <3>2. a \notin created /\ a \notin DOMAIN answered
      BY <2>1, <3>1 DEF FreshOK, Shape, Untaken, Current
    <3>3. target[f] \in created /\ KeyOf[target[f]] = KeyOf[a]
             /\ \A b \in seen[f] : Home(b, target[f]) /\ KeyOf[b] = KeyOf[target[f]]
      BY <2>1, <3>1 DEF ListsOK
    <3>4. FreshOK'
      <4>1. ASSUME NEW g \in Feed, NEW i \in DOMAIN AlertsOf[g],
                   i > at'[g] \/ (i = at'[g] /\ pc'[g] \in Untaken)
            PROVE  AlertsOf[g][i] \notin created /\ AlertsOf[g][i] \notin DOMAIN answered'
        <5>1. i > at[g] \/ (i = at[g] /\ pc[g] \in Untaken)
          BY <2>2, <3>e, <4>1
        <5>2. AlertsOf[g][i] # a
          BY <2>2, <3>1, <4>1, <3>e, <3>a
        <5> QED BY <3>e, <5>1, <5>2 DEF FreshOK
      <4> QED BY <3>1, <4>1 DEF FreshOK
    <3>5. OpeningOK'
      <4>1. pc'[f] \notin InHand \cup {"create"}
        BY <3>1, <3>e DEF InHand
      <4>2. \A g \in Feed \ {f} : Current(g) # a
        BY <3>a, <2>2 DEF Current, Shape
      <4> QED BY <2>2, <2>3, <3>1, <4>1, <4>2, <3>e DEF OpeningOK
    <3>6. \A b, c : Home(b, c) => Home(b, c)'
      BY <3>1, <3>2, <3>e DEF Home
    <3>7. Home(a, target[f])'
      BY <3>1, <3>2, <3>e DEF Home
    <3>8. ListsOK'
      <4>1. \A c \in created : \A b \in alerts'[c] : Home(b, c)' /\ KeyOf[b] = KeyOf[c]
        BY <2>1, <3>1, <3>3, <3>6, <3>7 DEF ListsOK, Shape
      <4>2. pc'[f] # "append"
        BY <3>1, <3>e
      <4> QED BY <2>2, <2>3, <3>1, <3>6, <4>1, <4>2 DEF ListsOK
    <3>9. KeptOK'
      <4>1. \A b, c : c \in created /\ (b \in alerts[c] \/ c \in raced)
                        => b \in alerts'[c] \/ c \in raced'
        BY <3>1, <3>3 DEF Shape
      <4>2. a \in alerts'[target[f]]
        BY <3>1 DEF Shape
      <4> QED BY <3>1, <3>3, <4>1, <4>2, <3>e DEF KeptOK
    <3> QED BY <3>4, <3>5, <3>8, <3>9
  <2>6. CASE create(f)
    <3>1. /\ UNCHANGED <<key, answered, raced, at, target, seen>>
          /\ pc[f] = "create" /\ pc'[f] = "key"
          /\ created' = created \cup {a}
          /\ alerts' = [alerts EXCEPT ![a] = {a}]
      BY <2>1, <2>6 DEF create, Shape
    <3>2. a \notin created /\ a \notin DOMAIN answered /\ target[f] = a
      BY <2>1, <3>1 DEF FreshOK, OpeningOK, Shape, Untaken, Current
    <3>3. Current(f)' = a
      BY <2>1, <3>1 DEF Current
    <3>4. FreshOK'
      <4>1. ASSUME NEW g \in Feed, NEW i \in DOMAIN AlertsOf[g],
                   i > at[g] \/ (i = at[g] /\ pc'[g] \in Untaken)
            PROVE  AlertsOf[g][i] \notin created' /\ AlertsOf[g][i] \notin DOMAIN answered
        <5>1. g # f \/ i > at[f]
          BY <3>1, <4>1 DEF Untaken
        <5>2. AlertsOf[g][i] # a
          BY <2>1, <5>1, OwnAlerts
        <5>3. i > at[g] \/ (i = at[g] /\ pc[g] \in Untaken)
          BY <2>2, <4>1, <5>1
        <5> QED BY <3>1, <5>2, <5>3 DEF FreshOK
      <4> QED BY <3>1, <4>1 DEF FreshOK
    <3>5. OpeningOK'
      BY <2>2, <2>3, <3>1, <3>2, <3>3 DEF OpeningOK, InHand
    <3>6. \A b, c : Home(b, c) => Home(b, c)'
      BY <3>1, <3>2 DEF Home
    <3>7. ListsOK'
      <4>3. \A c \in created' : \A b \in alerts'[c] : Home(b, c)' /\ KeyOf[b] = KeyOf[c]
        BY <2>1, <3>1, <3>6 DEF ListsOK, Home, Shape
      <4> QED BY <2>2, <2>3, <3>1, <3>6, <4>3 DEF ListsOK
    <3>8. KeptOK'
      BY <2>1, <3>1, <3>2 DEF KeptOK, Shape
    <3> QED BY <3>4, <3>5, <3>7, <3>8
  <2>7. CASE \/ set_agg_key(f) \/ set_investigating(f) \/ set_playbook(f) \/ await_workflow(f)
    <3>1. /\ UNCHANGED <<created, alerts, answered, raced, at, target, seen>>
          /\ pc[f] \in InHand /\ pc'[f] \in InHand
          /\ key' = key \/ key' = [key EXCEPT ![a] = KeyOf[a]]
      BY <2>1, <2>7 DEF set_agg_key, set_investigating, set_playbook, await_workflow, Shape, InHand
    <3>2. Current(f)' = a
      BY <2>1, <3>1 DEF Current
    <3>3. FreshOK'
      BY <2>2, <3>1 DEF FreshOK, Untaken, InHand
    <3>4. OpeningOK'
      BY <2>1, <2>2, <2>3, <3>1, <3>2 DEF OpeningOK
    <3>5. ListsOK'
      <4>1. \A c \in Alert : key'[c] \in {NoKey, KeyOf[c]}
        BY <2>1, <3>1 DEF ListsOK, Shape
      <4> QED BY <2>2, <2>3, <3>1, <4>1 DEF ListsOK, Home, InHand
    <3>6. KeptOK'
      BY <3>1 DEF KeptOK
    <3> QED BY <3>3, <3>4, <3>5, <3>6
  <2>8. CASE \/ spawn_orchestration(f) \/ workflow_returns(f)
    <3>1. /\ UNCHANGED <<created, key, alerts, raced, target>> /\ Answer(f)
          /\ pc[f] \in InHand
      BY <2>8 DEF spawn_orchestration, workflow_returns, InHand
    <3>e. /\ DOMAIN answered' = DOMAIN answered \cup {a}
          /\ answered'[a] = target[f]
          /\ \A b \in DOMAIN answered : b # a => answered'[b] = answered[b]
          /\ pc'[f] \in {"find", "record", "done"}
          /\ \A i \in DOMAIN AlertsOf[f] :
               i > at'[f] \/ (i = at'[f] /\ pc'[f] \in Untaken) => i > at[f]
      BY <2>1, <3>1, AnswerEffect
    <3>a. \A g \in Feed : \A i \in DOMAIN AlertsOf[g] : g # f \/ i > at[f] => AlertsOf[g][i] # a
      BY <2>1, OwnAlerts
    <3>2. a \in created /\ a \notin DOMAIN answered /\ target[f] = a
      BY <2>1, <3>1 DEF OpeningOK
    <3>3. FreshOK'
      <4>1. ASSUME NEW g \in Feed, NEW i \in DOMAIN AlertsOf[g],
                   i > at'[g] \/ (i = at'[g] /\ pc'[g] \in Untaken)
            PROVE  AlertsOf[g][i] \notin created /\ AlertsOf[g][i] \notin DOMAIN answered'
        <5>1. i > at[g] \/ (i = at[g] /\ pc[g] \in Untaken)
          BY <2>2, <3>e, <4>1
        <5>2. AlertsOf[g][i] # a
          BY <2>2, <3>1, <4>1, <3>e, <3>a
        <5> QED BY <3>e, <5>1, <5>2 DEF FreshOK
      <4> QED BY <3>1, <4>1 DEF FreshOK
    <3>4. OpeningOK'
      <4>1. pc'[f] \notin InHand \cup {"create"}
        BY <3>1, <3>e DEF InHand
      <4>2. \A g \in Feed \ {f} : Current(g) # a
        BY <3>a, <2>2 DEF Current, Shape
      <4> QED BY <2>2, <2>3, <3>1, <4>1, <4>2, <3>e DEF OpeningOK
    <3>5. \A b, c : Home(b, c) => Home(b, c)'
      BY <3>1, <3>2, <3>e DEF Home
    <3>6. ListsOK'
      <4>1. pc'[f] # "append"
        BY <3>1, <3>e
      <4> QED BY <2>2, <2>3, <3>1, <3>5, <4>1 DEF ListsOK
    <3>7. KeptOK'
      BY <3>1, <3>2, <3>e DEF KeptOK
    <3> QED BY <3>3, <3>4, <3>6, <3>7
  <2>9. CASE \/ workflow_raises(f) \/ record_run(f)
    <3>1. UNCHANGED <<created, key, alerts, answered, raced, at, target, seen>>
      BY <2>9 DEF workflow_raises, record_run
    <3>2. pc'[f] \in {"record_failed", "done", "lost"}
      BY <2>9 DEF workflow_raises, record_run, Shape
    <3> QED BY <1>1, <2>2, <3>1, <3>2
  <2> QED BY <1>5, <2>4, <2>5, <2>6, <2>7, <2>8, <2>9 DEF ingest
<1> QED BY <1>2, <1>3, <1>4, <1>5 DEF Next, Work

\* No interleaving of feeds, workflows and crashes puts an alert into a wrong
\* case, into two, or out of its case without two feeds rewriting its list.
THEOREM AlertsNeverStray == Spec => []AlertsAccounted
<1>1. Init => Shape /\ Belonging
  BY ShapeInit, BelongingInit
<1>2. Shape /\ Belonging /\ [Next]_intakeVars => Shape' /\ Belonging'
  BY ShapeStep, BelongingStep
<1>3. Belonging => AlertsAccounted
  BY BelongingSuffices
<1> QED BY <1>1, <1>2, <1>3, PTL DEF Spec
-----------------------------------------------------------------------------
(* One open case per incident and window                                   *)

Preparing == {"key", "status", "playbook", "dispatch"}

\* A case whose workflow has not been started is as its feed left it; only
\* cases with a workflow have actions to sign, and only those get requests.
UnstartedOK ==
  /\ \A c \in Alert \ created : key[c] = NoKey /\ status[c] = "open" /\ trigger[c] = "none"
  /\ \A f \in Feed : pc[f] \in Preparing =>
       status[Current(f)] \in {"open", "investigating"} /\ trigger[Current(f)] = "none"
  /\ \A c \in gated : c \in created /\ trigger[c] # "none"
  /\ \A r \in Request : request[r] # "idle" => About[r] \in gated
  /\ reopened \subseteq created

\* A case without a key is in the hands of the feed that opened it, or was
\* when that feed was lost
KeylessOK ==
  \A c \in created : key[c] = NoKey =>
    \E g \in Feed : Current(g) = c /\ pc[g] \in {"key", "lost"}

\* A case that no longer counts against the opening of another
Settled(c) == status[c] = "resolved" \/ c \in reopened \/ Unfindable(c)

\* While a feed opens a case, nobody else has one open or opens one
AloneOK ==
  clock <= Window =>
    \A f \in Feed : Opening(f) /\ KeyOf[Current(f)] \notin contended =>
      /\ \A c \in created \ {Current(f)} : KeyOf[c] = KeyOf[Current(f)] => Settled(c)
      /\ \A g \in Feed \ {f} : Opening(g) => KeyOf[Current(g)] # KeyOf[Current(f)]

StormInv == Shape /\ Belonging /\ UnstartedOK /\ KeylessOK /\ AloneOK /\ StormOpensOneCase

\* A workflow under way is that of a case there is.
LEMMA UnderWayCreated ==
  ASSUME Shape, UnstartedOK, NEW c \in Alert, UnderWay(c)
  PROVE  c \in created /\ trigger[c] # "none"
  BY DEF UnderWay, UnstartedOK, Shape

LEMMA UnstartedInit == ASSUME Init PROVE UnstartedOK
  BY DEF Init, UnstartedOK, Preparing

LEMMA UnstartedStep ==
  ASSUME Shape, Belonging, UnstartedOK, [Next]_intakeVars
  PROVE  UnstartedOK'
<1>1. CASE Tick \/ UNCHANGED intakeVars
  BY <1>1 DEF Tick, intakeVars, UnstartedOK, Current
<1>2. CASE Crash
  <2>1. UNCHANGED <<created, key, status, gated, at, reopened>>
    BY <1>2 DEF Crash, Begun
  <2>2. \A f \in Feed : pc'[f] \notin Preparing
    BY <1>2 DEF Crash, Begun, Preparing
  <2>3. \A c \in Alert : trigger[c] = "none" <=> trigger'[c] = "none"
    BY <1>2 DEF Crash, Begun, Shape
  <2>4. \A r \in Request : request'[r] # "idle" => request[r] # "idle"
    BY <1>2 DEF Crash, Begun
  <2>5. \A c \in gated : c \in Alert
    BY DEF UnstartedOK, Shape
  <2> QED BY <2>1, <2>2, <2>3, <2>4, <2>5 DEF UnstartedOK
<1>3. CASE Work
  <2>1. WorkEffect /\ created \subseteq Alert
    BY <1>3, WorkStep DEF Shape
  <2>2. \A d \in Alert : UnderWay(d) => d \in created /\ trigger[d] # "none"
    BY UnderWayCreated
  <2>3. \A f \in Feed : Current(f)' = Current(f) /\ Current(f) \in Alert
    BY <2>1, CurrentType DEF WorkEffect, Current
  <2> QED BY <2>1, <2>2, <2>3 DEF UnstartedOK, WorkEffect
<1>4. ASSUME NEW f \in Feed, ingest(f) PROVE UnstartedOK'
  <2>1. PICK a \in Alert : a = Current(f)
    BY CurrentType
  <2>2. /\ \A g \in Feed \ {f} : UNCHANGED <<pc[g], at[g]>> /\ Current(g)' = Current(g)
        /\ UNCHANGED <<gated, request, reopened>>
    BY <1>4 DEF ingest, find_open_case_for_alert, append_alert, create, set_agg_key,
                set_investigating, set_playbook, spawn_orchestration, await_workflow,
                workflow_returns, workflow_raises, record_run, Answer, Shape, Current
  <2>3. \A g \in Feed \ {f} : Current(g) # a /\ Current(g) \in Alert
    BY <2>1, OwnAlerts, CurrentType DEF Current, Shape
  <2>g. gated \subseteq Alert
    BY DEF UnstartedOK, Shape
  <2>4. CASE create(f)
    <3>1. /\ UNCHANGED <<key, status, trigger, at>>
          /\ pc[f] = "create" /\ created' = created \cup {a}
      BY <2>1, <2>4 DEF create
    <3>2. a \notin created /\ Current(f)' = a
      BY <2>1, <3>1 DEF Belonging, FreshOK, Shape, Untaken, Current
    <3> QED BY <2>1, <2>2, <3>1, <3>2 DEF UnstartedOK
  <2>5. CASE set_agg_key(f) \/ set_investigating(f) \/ set_playbook(f)
    <3>1. /\ UNCHANGED <<created, trigger, at>>
          /\ pc[f] \in {"key", "status", "playbook"}
          /\ \A d \in Alert : d # a => UNCHANGED <<key[d], status[d]>>
          /\ status'[a] = status[a] \/ status'[a] = "investigating"
      BY <2>1, <2>5 DEF set_agg_key, set_investigating, set_playbook, Shape
    <3>2. a \in created /\ Current(f)' = a
      BY <2>1, <3>1 DEF Belonging, OpeningOK, InHand, Current
    <3> QED BY <2>1, <2>2, <2>3, <3>1, <3>2 DEF UnstartedOK, Preparing
  <2>6. CASE spawn_orchestration(f) \/ await_workflow(f)
    <3>1. /\ UNCHANGED <<created, key, status>>
          /\ pc[f] = "dispatch" /\ pc'[f] \in {"await", "find", "record", "done"}
          /\ trigger' = [trigger EXCEPT ![a] = "started"]
      BY <2>1, <2>6, AnswerEffect DEF spawn_orchestration, await_workflow, Shape
    <3>2. a \in created
      BY <2>1, <3>1 DEF Belonging, OpeningOK, InHand
    <3>3. \A d \in Alert : trigger[d] # "none" => trigger'[d] # "none"
      BY <3>1 DEF Shape
    <3>4. \A d \in Alert : d # a => UNCHANGED trigger[d]
      BY <3>1 DEF Shape
    <3> QED BY <2>2, <2>3, <2>g, <3>1, <3>2, <3>3, <3>4 DEF UnstartedOK, Preparing
  <2>7. CASE \/ find_open_case_for_alert(f) \/ append_alert(f) \/ workflow_returns(f)
             \/ workflow_raises(f) \/ record_run(f)
    <3>1. UNCHANGED <<created, key, status, trigger>>
      BY <2>7 DEF find_open_case_for_alert, append_alert, workflow_returns,
                  workflow_raises, record_run
    <3>2. pc'[f] \notin Preparing
      BY <2>7, AnswerEffect DEF find_open_case_for_alert, append_alert, workflow_returns,
                                workflow_raises, record_run, Shape, Preparing
    <3> QED BY <2>2, <3>1, <3>2 DEF UnstartedOK
  <2> QED BY <1>4, <2>4, <2>5, <2>6, <2>7 DEF ingest
<1> QED BY <1>1, <1>2, <1>3, <1>4 DEF Next, Work

\* A case that no lookup finds stays so; any other has a key or its feed.
LEMMA KeylessStep ==
  ASSUME Shape, KeylessOK, [Next]_intakeVars
  PROVE  KeylessOK' /\ \A c \in Alert : Unfindable(c) => Unfindable(c)'
<1>1. CASE Tick \/ UNCHANGED intakeVars
  BY <1>1 DEF Tick, intakeVars, KeylessOK, Unfindable, Current
<1>2. CASE Work
  BY <1>2, WorkStep DEF WorkEffect, KeylessOK, Unfindable, Current
<1>3. CASE Crash
  <2>1. /\ UNCHANGED <<created, key, at>>
        /\ \A f \in Feed : pc[f] \in {"key", "lost"} => pc'[f] = "lost"
    BY <1>3 DEF Crash, Begun
  <2> QED BY <2>1 DEF KeylessOK, Unfindable, Current
<1>4. ASSUME NEW f \in Feed, ingest(f)
      PROVE  KeylessOK' /\ \A c \in Alert : Unfindable(c) => Unfindable(c)'
  <2>1. PICK a \in Alert : a = Current(f)
    BY CurrentType
  <2>2. /\ \A g \in Feed \ {f} : pc'[g] = pc[g] /\ Current(g)' = Current(g)
        /\ pc[f] # "lost"
    BY <1>4 DEF ingest, find_open_case_for_alert, append_alert, create, set_agg_key,
                set_investigating, set_playbook, spawn_orchestration, await_workflow,
                workflow_returns, workflow_raises, record_run, Answer, Shape, Current
  <2>3. \A g \in Feed \ {f} : Current(g) # a
    BY <2>1, OwnAlerts DEF Current, Shape
  <2>4. CASE set_agg_key(f)
    <3>1. UNCHANGED created /\ key'[a] = KeyOf[a] /\ \A d \in Alert : d # a => key'[d] = key[d]
      BY <2>1, <2>4 DEF set_agg_key, Shape
    <3>2. KeyOf[a] # NoKey
      BY IntakeAssumption DEF IntakeAssumption
    <3> QED BY <2>1, <2>2, <2>3, <3>1, <3>2 DEF KeylessOK, Unfindable, Shape
  <2>5. CASE create(f)
    <3>1. /\ UNCHANGED <<key, at>> /\ created' = created \cup {a}
          /\ pc'[f] = "key" /\ pc[f] = "create" /\ Current(f)' = a
      BY <2>1, <2>5 DEF create, Current, Shape
    <3> QED BY <2>1, <2>2, <3>1 DEF KeylessOK, Unfindable
  <2>6. CASE ~ set_agg_key(f) /\ ~ create(f)
    <3>1. UNCHANGED <<created, key>> /\ pc[f] # "key"
      BY <1>4, <2>6 DEF ingest, find_open_case_for_alert, append_alert, set_investigating,
                  set_playbook, spawn_orchestration, await_workflow,
                  workflow_returns, workflow_raises, record_run
    <3> QED BY <2>2, <3>1 DEF KeylessOK, Unfindable
  <2> QED BY <2>4, <2>5, <2>6
<1> QED BY <1>1, <1>2, <1>3, <1>4 DEF Next, Work

LEMMA StormStep ==
  ASSUME StormInv, [Next]_intakeVars
  PROVE  AloneOK' /\ StormOpensOneCase'
<1> USE DEF StormInv
<1>1. clock' \in Int /\ clock <= clock'
  <2>1. CASE Work
    BY <2>1, WorkStep DEF WorkEffect, Shape
  <2> QED BY <2>1 DEF Next, Work, Tick, Crash, Begun, ingest, find_open_case_for_alert, append_alert,
         create, set_agg_key, set_investigating, set_playbook, spawn_orchestration,
         await_workflow, workflow_returns, workflow_raises, record_run, intakeVars, Shape
<1>2. SUFFICES ASSUME clock' <= Window
               PROVE  AloneOK' /\ StormOpensOneCase'
  BY DEF AloneOK, StormOpensOneCase
<1>3. clock <= Window
  BY <1>1, <1>2, IntakeAssumption DEF IntakeAssumption, Shape
<1>4. \A c \in Alert : Unfindable(c) => Unfindable(c)'
  BY KeylessStep
<1>5. ASSUME UNCHANGED <<created, at, contended>>, reopened \subseteq reopened',
             \A f \in Feed : Opening(f)' => Opening(f),
             \A c \in Alert : status[c] = "resolved" => status'[c] = "resolved" \/ c \in reopened'
      PROVE  AloneOK' /\ StormOpensOneCase'
  <2>1. \A f \in Feed : Current(f)' = Current(f)
    BY <1>5 DEF Current
  <2>2. \A c \in created : Settled(c) => Settled(c)'
    BY <1>4, <1>5 DEF Settled, Shape
  <2>3. \A c \in Alert : Absorbing(c)' => Absorbing(c) \/ c \in reopened'
    BY <1>4, <1>5 DEF Absorbing
  <2>4. AloneOK'
    BY <1>3, <1>5, <2>1, <2>2 DEF AloneOK
  <2>5. StormOpensOneCase'
    BY <1>3, <1>5, <2>3 DEF StormOpensOneCase
  <2> QED BY <2>4, <2>5
<1>6. CASE Tick \/ Crash \/ UNCHANGED intakeVars
  BY <1>5, <1>6 DEF Tick, Crash, Begun, intakeVars, Opening
<1>7. CASE Work
  BY <1>5, <1>7, WorkStep DEF WorkEffect, Opening
<1>8. ASSUME NEW f \in Feed, ingest(f) PROVE AloneOK' /\ StormOpensOneCase'
  <2>1. PICK a \in Alert : a = Current(f)
    BY CurrentType
  <2>2. /\ \A g \in Feed \ {f} : UNCHANGED <<pc[g], at[g]>> /\ Current(g)' = Current(g)
                                /\ (Opening(g)' <=> Opening(g))
        /\ UNCHANGED reopened
    BY <1>8 DEF ingest, find_open_case_for_alert, append_alert, create, set_agg_key,
                set_investigating, set_playbook, spawn_orchestration, await_workflow,
                workflow_returns, workflow_raises, record_run, Answer, Shape,
                Current, Opening
  <2>3. \A g \in Feed \ {f} : Current(g) # a
    BY <2>1, OwnAlerts DEF Current, Shape
  <2>4. CASE find_open_case_for_alert(f)
    <3>1. /\ UNCHANGED <<created, key, status, at>> /\ pc[f] = "find"
          /\ NoteContention(f)
          /\ pc'[f] = "append" \/ (pc'[f] = "create" /\ Candidates(KeyOf[a]) = {})
      BY <2>1, <2>4 DEF find_open_case_for_alert, Shape
    <3>2. Current(f)' = a
      BY <2>1, <3>1 DEF Current
    <3>3. contended \subseteq contended'
      BY <3>1 DEF NoteContention
    <3>4. \A g \in Feed \ {f} : Opening(g) /\ KeyOf[Current(g)] = KeyOf[a] => KeyOf[a] \in contended'
      BY <2>1, <3>1 DEF NoteContention
    <3>5. \A c \in created : Settled(c) => Settled(c)'
      BY <1>4, <2>2, <3>1 DEF Settled, Shape
    <3>6. pc'[f] = "create" /\ KeyOf[a] \notin contended' =>
            \A c \in created : KeyOf[c] = KeyOf[a] => Settled(c)
      <4>1. SUFFICES ASSUME pc'[f] = "create", KeyOf[a] \notin contended',
                            NEW c \in created, KeyOf[c] = KeyOf[a]
                     PROVE  Settled(c)
        OBVIOUS
      <4>2. c \in Alert /\ updated[c] >= clock - Window
        BY <1>3, IntakeAssumption DEF Shape, IntakeAssumption
      <4>3. CASE key[c] = KeyOf[a]
        <5>1. status[c] \notin AGGREGATABLE
          BY <3>1, <4>1, <4>2, <4>3 DEF Candidates
        <5> QED BY <4>2, <5>1 DEF AGGREGATABLE, Settled, Shape, Statuses
      <4>4. CASE key[c] = NoKey
        <5>1. PICK g \in Feed : Current(g) = c /\ pc[g] \in {"key", "lost"}
          BY <4>4 DEF KeylessOK
        <5>2. pc[g] # "key"
          BY <3>1, <3>4, <4>1, <5>1 DEF Opening
        <5> QED BY <4>4, <5>1, <5>2 DEF Settled, Unfindable
      <4> QED BY <4>1, <4>2, <4>3, <4>4 DEF Belonging, ListsOK
    <3>7. Opening(f)' => pc'[f] = "create"
      BY <3>1 DEF Opening
    <3>8. AloneOK'
      <4>1. ASSUME NEW g \in Feed, Opening(g)', KeyOf[Current(g)'] \notin contended'
            PROVE  /\ \A c \in created \ {Current(g)'} :
                        KeyOf[c] = KeyOf[Current(g)'] => Settled(c)'
                   /\ \A h \in Feed \ {g} : Opening(h)' => KeyOf[Current(h)'] # KeyOf[Current(g)']
        <5>1. CASE g = f
          BY <2>2, <3>2, <3>4, <3>5, <3>6, <3>7, <4>1, <5>1
        <5>2. CASE g # f
          BY <1>3, <2>2, <3>2, <3>3, <3>4, <3>5, <4>1, <5>2 DEF AloneOK
        <5> QED BY <5>1, <5>2
      <4> QED BY <3>1, <4>1 DEF AloneOK
    <3>9. StormOpensOneCase'
      <4>1. \A c \in Alert : Absorbing(c)' => Absorbing(c)
        BY <1>4, <3>1 DEF Absorbing
      <4> QED BY <1>3, <2>2, <3>3, <4>1 DEF StormOpensOneCase
    <3> QED BY <3>8, <3>9
  <2>5. CASE create(f)
    <3>1. /\ UNCHANGED <<key, status, at, contended>> /\ created' = created \cup {a}
          /\ pc[f] = "create" /\ pc'[f] = "key"
      BY <2>1, <2>5 DEF create, Shape
    <3>2. Current(f)' = a /\ a \notin created
      BY <2>1, <3>1 DEF Belonging, FreshOK, Shape, Untaken, Current
    <3>3. \A g \in Feed : (Opening(g)' <=> Opening(g)) /\ Current(g)' = Current(g)
      BY <2>1, <2>2, <3>1, <3>2 DEF Opening
    <3>4. \A c \in created : Settled(c) => Settled(c)'
      BY <1>4, <2>2, <3>1 DEF Settled, Shape
    <3>5. Opening(f)
      BY <3>1 DEF Opening
    <3>6. AloneOK'
      <4>1. ASSUME NEW g \in Feed, Opening(g), KeyOf[Current(g)] \notin contended
            PROVE  /\ \A c \in created' \ {Current(g)} : KeyOf[c] = KeyOf[Current(g)] => Settled(c)'
                   /\ \A h \in Feed \ {g} : Opening(h) => KeyOf[Current(h)] # KeyOf[Current(g)]
        BY <1>3, <2>1, <3>1, <3>4, <3>5, <4>1 DEF AloneOK
      <4> QED BY <3>1, <3>3, <4>1 DEF AloneOK
    <3>7. StormOpensOneCase'
      <4>1. \A c \in Alert : Absorbing(c)' => Absorbing(c) \/ c = a
        BY <1>4, <3>1 DEF Absorbing
      <4>2. KeyOf[a] \notin contended =>
              \A c \in Alert : Absorbing(c) /\ KeyOf[c] = KeyOf[a] => c \in reopened
        BY <1>3, <2>1, <3>2, <3>5 DEF AloneOK, Absorbing, Settled
      <4> QED BY <1>3, <2>2, <3>1, <4>1, <4>2 DEF StormOpensOneCase
    <3> QED BY <3>6, <3>7
  <2>6. CASE set_investigating(f)
    <3>1. /\ UNCHANGED <<created, at, contended>>
          /\ pc[f] = "status" /\ pc'[f] = "playbook"
          /\ status' = [status EXCEPT ![a] = "investigating"]
      BY <2>1, <2>6 DEF set_investigating, Shape
    <3>2. status[a] # "resolved"
      BY <2>1, <3>1 DEF UnstartedOK, Preparing
    <3>3. \A c \in Alert : status[c] = "resolved" => status'[c] = "resolved"
      BY <3>1, <3>2 DEF Shape
    <3>4. \A g \in Feed : Opening(g)' => Opening(g)
      BY <2>2, <3>1 DEF Opening
    <3> QED BY <1>5, <2>2, <3>1, <3>3, <3>4
  <2>7. CASE \/ append_alert(f) \/ set_agg_key(f) \/ set_playbook(f) \/ spawn_orchestration(f)
             \/ await_workflow(f) \/ workflow_returns(f) \/ workflow_raises(f) \/ record_run(f)
    <3>1. UNCHANGED <<created, status, contended>>
      BY <2>7 DEF append_alert, set_agg_key, set_playbook, spawn_orchestration, await_workflow,
                  workflow_returns, workflow_raises, record_run
    <3>2. ~ Opening(f)'
      BY <2>7, AnswerEffect DEF append_alert, set_agg_key, set_playbook, spawn_orchestration,
                  await_workflow, workflow_returns, workflow_raises, record_run, Opening, Shape
    <3>3. \A c \in created : Settled(c) => Settled(c)'
      BY <1>4, <2>2, <3>1 DEF Settled, Shape
    <3>4. AloneOK'
      BY <1>3, <2>2, <3>1, <3>2, <3>3 DEF AloneOK
    <3>5. \A c \in Alert : Absorbing(c)' => Absorbing(c)
      BY <1>4, <3>1 DEF Absorbing
    <3>6. StormOpensOneCase'
      BY <1>3, <2>2, <3>1, <3>5 DEF StormOpensOneCase
    <3> QED BY <3>4, <3>6
  <2> QED BY <1>8, <2>4, <2>5, <2>6, <2>7 DEF ingest
<1> QED BY <1>6, <1>7, <1>8 DEF Next, Work

\* Within a window an incident has one open case, whatever feeds, runs,
\* approval requests and crashes do, unless two lookups overlapped, a crash
\* left a case without a key, or a resolved case was written open again
\* (repositories.py:193-247, service.py:52-130).
THEOREM OneOpenCase == Spec => []StormOpensOneCase
<1>1. Init => Shape /\ Belonging
  BY ShapeInit, BelongingInit
<1>2. Init => UnstartedOK /\ KeylessOK /\ AloneOK /\ StormOpensOneCase
  BY UnstartedInit DEF Init, KeylessOK, AloneOK, StormOpensOneCase, Absorbing, Opening
<1>3. StormInv /\ [Next]_intakeVars => StormInv'
  BY ShapeStep, BelongingStep, UnstartedStep, KeylessStep, StormStep DEF StormInv
<1>4. Init => StormInv
  BY <1>1, <1>2 DEF StormInv
<1>5. StormInv => StormOpensOneCase
  BY DEF StormInv
<1> QED BY <1>3, <1>4, <1>5, PTL DEF Spec
-----------------------------------------------------------------------------
(* Types                                                                   *)

\* The part of the type invariant that Shape leaves open
Typed ==
  /\ clock <= MaxClock
  /\ playbook \in [Alert -> BOOLEAN]
  /\ alerts \in [Alert -> SUBSET Alert]
  /\ updated \in [Alert -> 0..MaxClock]
  /\ seen \in [Feed -> SUBSET Alert]
  /\ opened \in [Feed -> Nat]
  /\ runs \subseteq [scan : Feed, status : {"success", "failed"}, cases : Nat]
  /\ DOMAIN answered \subseteq Alert
  /\ contended \subseteq Key /\ raced \subseteq created
  /\ crashes \in 0..MaxCrashes

LEMMA TypedSuffices == ASSUME Shape, Belonging, UnstartedOK, Typed PROVE TypeOK
<1>1. clock \in 0..MaxClock
  BY IntakeAssumption DEF Shape, Typed, IntakeAssumption
<1>2. \A a \in DOMAIN answered : answered[a] \in created
  BY DEF Belonging, KeptOK
<1>3. gated \subseteq created /\ reopened \subseteq created
  BY DEF UnstartedOK
<1> QED BY <1>1, <1>2, <1>3 DEF Shape, Typed, TypeOK, PCs, Statuses, Stages, RequestStages

LEMMA TypedInit == ASSUME Init PROVE Typed
  BY IntakeAssumption DEF Init, Typed, IntakeAssumption

LEMMA TypedIngest ==
  ASSUME Shape, Belonging, Typed, NEW f \in Feed, ingest(f)
  PROVE  Typed'
<1>0. clock \in 0..MaxClock /\ Current(f) \in Alert /\ KeyOf[Current(f)] \in Key
  BY CurrentType, IntakeAssumption DEF Shape, Typed, IntakeAssumption
<1>1. ASSUME Answer(f) PROVE seen' \in [Feed -> SUBSET Alert] /\ DOMAIN answered' \subseteq Alert
  BY <1>0, <1>1 DEF Answer, Typed
<1>2. CASE find_open_case_for_alert(f)
  <2>1. UNCHANGED <<clock, tableVars, opened, runs, answered, raced, crashes>>
    BY <1>2 DEF find_open_case_for_alert
  <2>2. contended' \subseteq Key
    BY <1>0, <1>2 DEF find_open_case_for_alert, NoteContention, Typed
  <2>3. seen' \in [Feed -> SUBSET Alert]
    <3>1. \A c \in Latest(Candidates(KeyOf[Current(f)])) : alerts[c] \in SUBSET Alert
      BY DEF Latest, Candidates, Shape, Typed
    <3> QED BY <1>2, <3>1 DEF find_open_case_for_alert, Typed
  <2> QED BY <2>1, <2>2, <2>3 DEF Typed
<1>3. CASE append_alert(f)
  <2>1. target[f] \in created /\ target[f] \in Alert
    BY <1>3 DEF append_alert, Belonging, ListsOK, Shape
  <2>2. alerts' \in [Alert -> SUBSET Alert] /\ updated' \in [Alert -> 0..MaxClock]
        /\ raced' \subseteq created
    BY <1>0, <1>3, <2>1 DEF append_alert, Typed
  <2> QED BY <1>1, <1>3, <2>2 DEF append_alert, Typed
<1>4. CASE create(f)
  BY <1>0, <1>4 DEF create, Typed
<1>5. CASE set_agg_key(f) \/ set_investigating(f) \/ set_playbook(f)
  BY <1>0, <1>5 DEF set_agg_key, set_investigating, set_playbook, Typed
<1>6. CASE spawn_orchestration(f) \/ await_workflow(f) \/ workflow_raises(f)
  BY <1>1, <1>6 DEF spawn_orchestration, await_workflow, workflow_raises, Typed
<1>7. CASE workflow_returns(f)
  <2>1. opened' \in [Feed -> Nat]
    BY <1>7 DEF workflow_returns, Typed
  <2> QED BY <1>1, <1>7, <2>1 DEF workflow_returns, Typed
<1>8. CASE record_run(f)
  <2>1. runs' \subseteq [scan : Feed, status : {"success", "failed"}, cases : Nat]
    BY <1>8 DEF record_run, Typed
  <2> QED BY <1>8, <2>1 DEF record_run, Typed
<1> QED BY <1>2, <1>3, <1>4, <1>5, <1>6, <1>7, <1>8 DEF ingest

LEMMA TypedStep ==
  ASSUME Shape, Belonging, Typed, [Next]_intakeVars
  PROVE  Typed'
<1>0. clock \in 0..MaxClock /\ created \subseteq Alert
  BY IntakeAssumption DEF Shape, Typed, IntakeAssumption
<1>1. CASE Tick
  BY <1>0, <1>1, IntakeAssumption DEF Tick, Typed, IntakeAssumption
<1>2. CASE Crash
  BY <1>2, IntakeAssumption DEF Crash, Begun, Typed, IntakeAssumption
<1>3. CASE Work
  BY <1>0, <1>3, WorkStep DEF WorkEffect, Typed
<1>4. CASE UNCHANGED intakeVars
  BY <1>4 DEF intakeVars, Typed
<1> QED BY <1>1, <1>2, <1>3, <1>4, TypedIngest DEF Next, Work

\* Whatever feeds, workflows and crashes do, the columns of the case table
\* and what the feeds hold of it keep their types (repositories.py:150-247).
THEOREM IntakeTypeCorrect == Spec => []TypeOK
<1> DEFINE TypeInv == Shape /\ Belonging /\ UnstartedOK /\ Typed
<1>1. Init => TypeInv
  BY ShapeInit, BelongingInit, UnstartedInit, TypedInit
<1>2. TypeInv /\ [Next]_intakeVars => TypeInv'
  BY ShapeStep, BelongingStep, UnstartedStep, TypedStep
<1>3. TypeInv => TypeOK
  BY TypedSuffices
<1> QED BY <1>1, <1>2, <1>3, PTL DEF Spec
-----------------------------------------------------------------------------
(* What the history of scans says                                          *)

\* While a scan is at an alert it has counted the cases it opened before
ScanOK ==
  /\ \A f \in Feed \ Scan : pc[f] \notin {"await", "record", "record_failed"}
  /\ \A f \in Scan :
       /\ pc[f] \in Untaken \cup {"record"} =>
            /\ opened[f] = Cardinality(CasesOf(f))
            /\ \A c \in CasesOf(f) : trigger[c] = "ended"
       /\ pc[f] \in InHand =>
            /\ opened[f] = Cardinality(CasesOf(f) \ {Current(f)})
            /\ \A c \in CasesOf(f) \ {Current(f)} : trigger[c] = "ended"
       /\ pc[f] = "record_failed" => \E c \in CasesOf(f) : trigger[c] = "failed"
  /\ \A r \in runs : r.scan \in Feed /\ pc[r.scan] = "done"

HistoryInv == Shape /\ Belonging /\ UnstartedOK /\ Typed /\ ScanOK /\ RunsTellTheTruth

\* A trigger run that has ended or failed is not started again
LEMMA EndsStay ==
  ASSUME HistoryInv, [Next]_intakeVars
  PROVE  \A d \in Alert : trigger[d] \in {"ended", "failed"} => trigger'[d] = trigger[d]
<1> USE DEF HistoryInv
<1>1. CASE Tick \/ UNCHANGED intakeVars
  BY <1>1 DEF Tick, intakeVars
<1>2. CASE Crash
  BY <1>2 DEF Crash, Begun
<1>3. CASE Work
  BY <1>3, WorkStep DEF WorkEffect
<1>4. ASSUME NEW f \in Feed, ingest(f)
      PROVE  \A d \in Alert : trigger[d] \in {"ended", "failed"} => trigger'[d] = trigger[d]
  <2>1. CASE spawn_orchestration(f) \/ await_workflow(f)
    <3>1. pc[f] = "dispatch" /\ trigger' = [trigger EXCEPT ![Current(f)] = "started"]
      BY <2>1 DEF spawn_orchestration, await_workflow
    <3>2. trigger[Current(f)] = "none"
      BY <3>1 DEF UnstartedOK, Preparing
    <3> QED BY <3>1, <3>2 DEF Shape
  <2>2. CASE \/ find_open_case_for_alert(f) \/ append_alert(f) \/ create(f) \/ set_agg_key(f)
             \/ set_investigating(f) \/ set_playbook(f) \/ workflow_returns(f)
             \/ workflow_raises(f) \/ record_run(f)
    BY <2>2 DEF find_open_case_for_alert, append_alert, create, set_agg_key, set_investigating,
                set_playbook, workflow_returns, workflow_raises, record_run
  <2> QED BY <1>4, <2>1, <2>2 DEF ingest
<1> QED BY <1>1, <1>2, <1>3, <1>4 DEF Next, Work

\* The cases of a feed are finitely many.
LEMMA CasesFinite ==
  ASSUME Shape, NEW f \in Feed
  PROVE  IsFiniteSet(CasesOf(f)) /\ CasesOf(f) \subseteq Alert
<1> DEFINE s == AlertsOf[f]
           R == {s[i] : i \in 1..Len(s)}
<1>1. s \in Seq(Alert) /\ Len(s) \in Nat /\ DOMAIN s = 1..Len(s)
  BY IntakeAssumption DEF IntakeAssumption
<1> HIDE DEF s
<1>2. IsFiniteSet(1..Len(s))
  BY <1>1, FS_Interval
<1>3. [i \in 1..Len(s) |-> s[i]] \in Surjection(1..Len(s), R)
  BY DEF Surjection
<1>4. IsFiniteSet(R)
  BY <1>2, <1>3, FS_Surjection
<1>5. CasesOf(f) \subseteq R
  BY <1>1 DEF CasesOf, s
<1> QED BY <1>4, <1>5, FS_Subset DEF CasesOf, Shape

\* What a feed does leaves the cases of the other feeds, and their places.
LEMMA OthersStay ==
  ASSUME HistoryInv, NEW f \in Feed, ingest(f)
  PROVE  /\ \A g \in Feed \ {f} : /\ CasesOf(g)' = CasesOf(g)
                                  /\ UNCHANGED <<pc[g], at[g], opened[g]>>
                                  /\ Current(g)' = Current(g)
         /\ pc[f] # "done"
<1> USE DEF HistoryInv
<1>1. created' = created \/ created' = created \cup {Current(f)}
  BY DEF ingest, find_open_case_for_alert, append_alert, create, set_agg_key, set_investigating,
         set_playbook, spawn_orchestration, await_workflow, workflow_returns, workflow_raises,
         record_run
<1>2. ASSUME NEW g \in Feed \ {f}
      PROVE  CasesOf(g)' = CasesOf(g)
  BY <1>1, OwnAlerts DEF CasesOf
<1>3. ASSUME NEW g \in Feed \ {f}
      PROVE  UNCHANGED <<pc[g], at[g], opened[g]>> /\ Current(g)' = Current(g)
  BY DEF ingest, find_open_case_for_alert, append_alert, create, set_agg_key, set_investigating,
         set_playbook, spawn_orchestration, await_workflow, workflow_returns, workflow_raises,
         record_run, Answer, Shape, Typed, Current
<1>4. pc[f] # "done"
  BY DEF ingest, find_open_case_for_alert, append_alert, create, set_agg_key,
         set_investigating, set_playbook, spawn_orchestration, await_workflow,
         workflow_returns, workflow_raises, record_run
<1> QED BY <1>2, <1>3, <1>4

\* What the invariant says of one scan
Counts(f) ==
  /\ pc[f] \in Untaken \cup {"record"} =>
       /\ opened[f] = Cardinality(CasesOf(f))
       /\ \A c \in CasesOf(f) : trigger[c] = "ended"
  /\ pc[f] \in InHand =>
       /\ opened[f] = Cardinality(CasesOf(f) \ {Current(f)})
       /\ \A c \in CasesOf(f) \ {Current(f)} : trigger[c] = "ended"
  /\ pc[f] = "record_failed" => \E c \in CasesOf(f) : trigger[c] = "failed"

\* The steps of a scan
LEMMA CountsStep ==
  ASSUME HistoryInv, NEW f \in Scan, ingest(f)
  PROVE  Counts(f)'
<1> USE DEF HistoryInv
<1>0. f \in Feed /\ Counts(f)
  BY IntakeAssumption DEF IntakeAssumption, ScanOK, Counts
<1>1. PICK a \in Alert : a = Current(f)
  BY <1>0, CurrentType
<1>2. \A d \in Alert : trigger[d] \in {"ended", "failed"} => trigger'[d] = trigger[d]
  BY <1>0, EndsStay DEF Next
<1>3. CasesOf(f) \subseteq Alert /\ IsFiniteSet(CasesOf(f))
  BY <1>0, CasesFinite
<1>4. CASE find_open_case_for_alert(f)
  <2>1. UNCHANGED <<created, trigger, at, opened>> /\ pc[f] = "find" /\ pc'[f] \in {"create", "append"}
    BY <1>0, <1>4 DEF find_open_case_for_alert, Shape
  <2> QED BY <1>0, <2>1 DEF Counts, CasesOf, Untaken, InHand
<1>5. CASE append_alert(f)
  <2>1. UNCHANGED <<created, trigger, opened>> /\ pc[f] = "append" /\ pc'[f] \in {"find", "record", "done"}
    BY <1>0, <1>5, AnswerEffect DEF append_alert
  <2> QED BY <1>0, <2>1 DEF Counts, CasesOf, Untaken, InHand
<1>6. CASE create(f)
  <2>1. /\ UNCHANGED <<trigger, opened, at>> /\ pc[f] = "create" /\ pc'[f] = "key"
        /\ created' = created \cup {a}
    BY <1>0, <1>1, <1>6 DEF create, Shape
  <2>2. a \notin created /\ Current(f)' = a
    BY <1>0, <1>1, <2>1 DEF Belonging, FreshOK, Shape, Untaken, Current
  <2>3. CasesOf(f)' \ {a} = CasesOf(f)
    BY <2>1, <2>2 DEF CasesOf
  <2> QED BY <1>0, <2>1, <2>2, <2>3 DEF Counts, Untaken, InHand
<1>7. CASE set_agg_key(f) \/ set_investigating(f) \/ set_playbook(f)
  <2>1. /\ UNCHANGED <<created, trigger, opened, at>>
        /\ pc[f] \in InHand /\ pc'[f] \in {"status", "playbook", "dispatch"}
    BY <1>0, <1>7 DEF set_agg_key, set_investigating, set_playbook, Shape, InHand
  <2> QED BY <1>0, <2>1 DEF Counts, CasesOf, Current, Untaken, InHand
<1>8. CASE await_workflow(f)
  <2>1. /\ UNCHANGED <<created, opened, at>> /\ pc[f] = "dispatch" /\ pc'[f] = "await"
    BY <1>0, <1>8 DEF await_workflow, Shape
  <2> QED BY <1>0, <1>2, <1>3, <2>1 DEF Counts, CasesOf, Current, Untaken, InHand
<1>9. CASE workflow_returns(f)
  <2>1. /\ UNCHANGED <<created, trigger>> /\ pc[f] = "await" /\ Answer(f)
        /\ trigger[a] = "ended" /\ opened'[f] = opened[f] + 1
    BY <1>0, <1>1, <1>9 DEF workflow_returns, Typed
  <2>2. pc'[f] \in {"find", "record", "done"} /\ CasesOf(f)' = CasesOf(f)
    BY <1>0, <2>1, AnswerEffect DEF CasesOf
  <2>3. a \in CasesOf(f)
    BY <1>0, <1>1, <2>1 DEF Belonging, OpeningOK, InHand, CasesOf, Current, Shape
  <2>4. opened[f] = Cardinality(CasesOf(f)) - 1
    BY <1>0, <1>1, <1>3, <2>1, <2>3, FS_RemoveElement DEF Counts, InHand
  <2>5. opened'[f] = Cardinality(CasesOf(f))
    BY <1>3, <2>1, <2>4, FS_CardinalityType
  <2>6. \A c \in CasesOf(f) : trigger[c] = "ended"
    BY <1>0, <1>1, <2>1 DEF Counts, InHand
  <2> QED BY <2>1, <2>2, <2>5, <2>6 DEF Counts, Untaken, InHand
<1>10. CASE workflow_raises(f)
  <2>1. /\ UNCHANGED <<created, trigger>> /\ pc[f] = "await"
        /\ trigger[a] = "failed" /\ pc'[f] = "record_failed"
    BY <1>0, <1>1, <1>10 DEF workflow_raises, Shape
  <2>2. a \in CasesOf(f) /\ CasesOf(f)' = CasesOf(f)
    BY <1>0, <1>1, <2>1 DEF Belonging, OpeningOK, InHand, CasesOf, Current, Shape
  <2> QED BY <2>1, <2>2 DEF Counts, Untaken, InHand
<1>11. CASE record_run(f)
  <2>1. pc'[f] = "done"
    BY <1>0, <1>11 DEF record_run, Shape
  <2> QED BY <2>1 DEF Counts, Untaken, InHand
<1>12. ~ spawn_orchestration(f)
  BY DEF spawn_orchestration
<1> QED BY <1>4, <1>5, <1>6, <1>7, <1>8, <1>9, <1>10, <1>11, <1>12 DEF ingest

\* A run is written down once, when its scan is over; what it says of the
\* cases of the scan stays true.
LEMMA RunsStep ==
  ASSUME HistoryInv, NEW f \in Feed, ingest(f)
  PROVE  RunsTellTheTruth' /\ \A r \in runs' : r.scan \in Feed /\ pc'[r.scan] = "done"
<1> USE DEF HistoryInv
<1>1. /\ \A g \in Feed \ {f} : CasesOf(g)' = CasesOf(g) /\ pc'[g] = pc[g]
      /\ pc[f] # "done"
  BY OthersStay
<1>2. \A d \in Alert : trigger[d] \in {"ended", "failed"} => trigger'[d] = trigger[d]
  BY EndsStay DEF Next
<1>3. \A g \in Feed : CasesOf(g) \subseteq Alert
  BY CasesFinite
<1>4. ASSUME NEW r \in runs
      PROVE  /\ r.scan \in Feed /\ pc'[r.scan] = "done"
             /\ r.status = "success" =>
                  /\ r.cases = Cardinality(CasesOf(r.scan)')
                  /\ \A c \in CasesOf(r.scan)' : trigger'[c] = "ended"
             /\ r.status = "failed" => \E c \in CasesOf(r.scan)' : trigger'[c] = "failed"
  <2>1. r.scan \in Feed \ {f} /\ pc[r.scan] = "done"
    BY <1>1 DEF ScanOK
  <2>2. CasesOf(r.scan)' = CasesOf(r.scan) /\ CasesOf(r.scan) \subseteq Alert
    BY <1>1, <1>3, <2>1
  <2> QED BY <1>1, <1>2, <2>1, <2>2 DEF RunsTellTheTruth
<1>5. CASE record_run(f)
  <2>1. /\ pc[f] \in {"record", "record_failed"} /\ pc'[f] = "done"
        /\ UNCHANGED <<created, trigger>>
        /\ runs' = runs \cup
             {IF pc[f] = "record" THEN [scan |-> f, status |-> "success", cases |-> opened[f]]
                                  ELSE [scan |-> f, status |-> "failed", cases |-> 0]}
    BY <1>5 DEF record_run, Shape
  <2>2. f \in Scan /\ CasesOf(f)' = CasesOf(f)
    BY <2>1 DEF ScanOK, CasesOf
  <2>3. ASSUME NEW r \in runs', r \notin runs
        PROVE  /\ r.scan = f
               /\ r.status = "success" =>
                    /\ r.cases = Cardinality(CasesOf(f)')
                    /\ \A c \in CasesOf(f)' : trigger'[c] = "ended"
               /\ r.status = "failed" => \E c \in CasesOf(f)' : trigger'[c] = "failed"
    <3>1. CASE pc[f] = "record"
      <4>1. r = [scan |-> f, status |-> "success", cases |-> opened[f]]
        BY <2>1, <2>3, <3>1
      <4> QED BY <2>1, <2>2, <3>1, <4>1 DEF ScanOK
    <3>2. CASE pc[f] = "record_failed"
      <4>1. r = [scan |-> f, status |-> "failed", cases |-> 0]
        BY <2>1, <2>3, <3>2
      <4>2. r.scan = f /\ r.status = "failed"
        BY <4>1
      <4>3. \E c \in CasesOf(f) : trigger[c] = "failed"
        BY <2>2, <3>2 DEF ScanOK
      <4> QED BY <2>1, <2>2, <4>2, <4>3
    <3> QED BY <2>1, <3>1, <3>2
  <2>4. \A r \in runs' : r.scan \in Feed /\ pc'[r.scan] = "done"
    BY <1>4, <2>1, <2>3
  <2> QED BY <1>4, <2>3, <2>4 DEF RunsTellTheTruth
<1>6. CASE ~ record_run(f)
  <2>1. runs' = runs
    BY <1>6 DEF ingest, find_open_case_for_alert, append_alert, create, set_agg_key,
         set_investigating, set_playbook, spawn_orchestration, await_workflow,
         workflow_returns, workflow_raises
  <2> QED BY <1>4, <2>1 DEF RunsTellTheTruth
<1> QED BY <1>5, <1>6

LEMMA ScanStep ==
  ASSUME HistoryInv, [Next]_intakeVars
  PROVE  ScanOK' /\ RunsTellTheTruth'
<1>1. \A d \in Alert : trigger[d] \in {"ended", "failed"} => trigger'[d] = trigger[d]
  BY EndsStay
<1>2. \A g \in Feed : CasesOf(g) \subseteq Alert
  BY CasesFinite DEF HistoryInv
<1>3. Scan \subseteq Feed
  BY IntakeAssumption DEF IntakeAssumption
<1>4. ScanOK /\ RunsTellTheTruth /\ Shape
  BY DEF HistoryInv
<1>5. ASSUME UNCHANGED <<created, at, opened, runs>>,
             \A f \in Feed : pc'[f] = pc[f] \/ pc'[f] \in {"done", "lost"},
             \A f \in Feed : pc[f] = "done" => pc'[f] = "done"
      PROVE  ScanOK' /\ RunsTellTheTruth'
  <2>1. \A f \in Feed : CasesOf(f)' = CasesOf(f) /\ Current(f)' = Current(f)
    BY <1>5 DEF CasesOf, Current
  <2>2. ScanOK'
    BY <1>1, <1>2, <1>3, <1>4, <1>5, <2>1 DEF ScanOK, Untaken, InHand
  <2>3. \A r \in runs : r.scan \in Feed
    BY <1>4 DEF ScanOK
  <2>4. RunsTellTheTruth'
    BY <1>1, <1>2, <1>4, <1>5, <2>1, <2>3 DEF RunsTellTheTruth
  <2> QED BY <2>2, <2>4
<1>6. CASE Tick \/ Crash \/ UNCHANGED intakeVars
  BY <1>5, <1>6 DEF Tick, Crash, Begun, intakeVars
<1>7. CASE Work
  BY <1>4, <1>5, <1>7, WorkStep DEF WorkEffect
<1>8. ASSUME NEW f \in Feed, ingest(f) PROVE ScanOK' /\ RunsTellTheTruth'
  <2>1. /\ RunsTellTheTruth'
        /\ \A r \in runs' : r.scan \in Feed /\ pc'[r.scan] = "done"
    BY <1>8, RunsStep
  <2>2. ASSUME NEW g \in Scan PROVE Counts(g)'
    <3>1. CASE g = f
      BY <1>8, <3>1, CountsStep
    <3>2. CASE g # f
      <4>1. /\ CasesOf(g)' = CasesOf(g) /\ CasesOf(g) \subseteq Alert
            /\ UNCHANGED <<pc[g], at[g], opened[g]>>
            /\ Current(g)' = Current(g)
        BY <1>2, <1>3, <1>8, <3>2, OthersStay
      <4>2. Counts(g)
        BY <1>4 DEF ScanOK, Counts
      <4> QED BY <1>1, <4>1, <4>2 DEF Counts
    <3> QED BY <3>1, <3>2
  <2>3. ASSUME NEW g \in Feed \ Scan PROVE pc'[g] \notin {"await", "record", "record_failed"}
    <3>1. CASE g # f
      BY <1>4, <1>8, <3>1, OthersStay DEF ScanOK
    <3>2. CASE g = f
      <4>1. Answer(f) => pc'[f] \in {"find", "done"}
        BY <1>4, <2>3, <3>2 DEF Answer, NextPC, Shape
      <4>2. pc[f] \notin {"await", "record", "record_failed"}
        BY <1>4, <2>3, <3>2 DEF ScanOK
      <4> QED BY <1>4, <1>8, <2>3, <3>2, <4>1, <4>2
              DEF ingest, find_open_case_for_alert, append_alert, create, set_agg_key,
                  set_investigating, set_playbook, spawn_orchestration, await_workflow,
                  workflow_returns, workflow_raises, record_run, Shape
    <3> QED BY <3>1, <3>2
  <2> QED BY <2>1, <2>2, <2>3 DEF ScanOK, Counts
<1> QED BY <1>6, <1>7, <1>8 DEF Next, Work

LEMMA HistoryInit == ASSUME Init PROVE HistoryInv
<1>1. Shape /\ Belonging /\ Typed
  BY ShapeInit, BelongingInit, TypedInit
<1>2. UnstartedOK /\ RunsTellTheTruth
  BY UnstartedInit DEF Init, RunsTellTheTruth
<1>3. ScanOK
  <2>1. \A f \in Feed : pc[f] = "find" /\ opened[f] = 0 /\ CasesOf(f) = {}
    BY DEF Init, CasesOf
  <2> QED BY <2>1, IntakeAssumption, FS_EmptySet
          DEF Init, ScanOK, Untaken, InHand, IntakeAssumption
<1> QED BY <1>1, <1>2, <1>3 DEF HistoryInv

\* The history of proactive runs is right whatever else goes on: a successful
\* run counted exactly the cases it opened, all of whose workflows ended, and
\* a failed one has a case whose workflow raised (scheduler.py:159-195).
THEOREM HistoryIsTrue == Spec => []RunsTellTheTruth
<1>1. Init => HistoryInv
  BY HistoryInit
<1>2. HistoryInv /\ [Next]_intakeVars => HistoryInv'
  BY ShapeStep, BelongingStep, UnstartedStep, TypedStep, ScanStep DEF HistoryInv
<1>3. HistoryInv => RunsTellTheTruth
  BY DEF HistoryInv
<1> QED BY <1>1, <1>2, <1>3, PTL DEF Spec
=============================================================================
