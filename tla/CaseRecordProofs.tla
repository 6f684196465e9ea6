--------------------------- MODULE CaseRecordProofs ---------------------------
(***************************************************************************)
(* What the records of a case say of what was done, for every set of       *)
(* requests, actions and playbooks and any number of crashes: the closed   *)
(* case, the log with its concurrent writers, the status a step gets from  *)
(* the executor, and what the dashboard shows of it all.                   *)
(***************************************************************************)
EXTENDS CaseCoreProofs, LiveConsole, SequenceTheorems

Executor == INSTANCE ExecutionRules

(* A closed case with nothing under way.                                   *)

\* A settled case takes no step but the submissions it refuses, so it stays
\* as it is: nothing signs, reopens or executes it again.
THEOREM SettledForGood == Spec => SettledIsFinal
<1>1. [Next]_vars => [Settled => Settled' /\ UNCHANGED <<storeVars, dispatched>>]_vars
  <2> SUFFICES ASSUME [Next]_vars, Settled PROVE UNCHANGED vars
    BY DEF Settled, vars, storeVars, external, Active
  <2> USE DEF Settled, Active, StoppedPC
  <2>1. ~ Orchestrate
    BY DEF Orchestrate, trigger_workflow, ingest_alerts_node, investigate_nodes,
           analyze_node_raises, plan_actions_node, human_approve_node, Process
  <2>2. ASSUME NEW p \in Process, Execute(p) PROVE FALSE
    BY <2>2 DEF Execute, Run, execute_node, update_case_node, skip_action, clear_action,
                execute_action, execute_action_raises, append_reads, append_writes, contain_case,
                collect_evidence, seal_evidence, close_case
  <2>3. ASSUME NEW r \in Request, submit_approval(r) PROVE FALSE
    BY <2>3 DEF submit_approval, Votable
  <2>4. ASSUME NEW r \in Request, Approve(r) PROVE FALSE
    BY <2>4 DEF Approve, approve_action, refuse_duplicate, accept_vote, add_record,
                close_rejected, tally_action, resume_workflow, Process
  <2>5. ~ Poll /\ ~ Crash
    BY DEF Poll, Crash
  <2> QED BY <2>1, <2>2, <2>3, <2>4, <2>5 DEF Next
<1> QED BY <1>1, PTL DEF Spec, SettledIsFinal
-----------------------------------------------------------------------------
(* The log and the copies of it that are being rewritten.                  *)

Views == {execution_log} \cup {seen[p] : p \in Process} \cup {k.seen : k \in pollers}

StepsOf(log) == {log[i] : i \in 1..Len(log)}

Viewed == UNION {StepsOf(log) : log \in Views}

Appending(p) == pc[p] \in {"read_log", "write_log"}

\* The step a run is about to append
Pending(p) == [action |-> Current(p), status |-> outcome[p], by |-> p]

Known == Viewed \cup {Pending(p) : p \in {q \in Process : Appending(q)}}

\* The runs that are known to have called the executor for an action
Callers(a) == {s.by : s \in {t \in Known : t.action = a /\ t.status # "skipped"}}

Looping(p) == pc[p] \in {"check", "execute", "read_log", "write_log"}

\* A run has one step per action in every copy of the log
OnceOK ==
  \A log \in Views : \A i, j \in 1..Len(log) :
    log[i].action = log[j].action /\ log[i].by = log[j].by => i = j

\* A run has steps of the actions before its index only
PassedOK ==
  \A s \in Viewed :
    /\ HasRun(s.by)
    /\ Looping(s.by) =>
         \E i \in 1..Len(proposed_actions) : i < at[s.by] /\ s.action = proposed_actions[i]

\* Runs have signed plans, so only a rejection makes one skip an action
SkippedOK == \A s \in Known : s.status = "skipped" => Rejected(s.action)

\* Every caller was counted when it called, unless a poll result has gone to
\* the step of a run that skipped the rejected action
CalledOK ==
  \A a \in Action :
    /\ Rejected(a)
         \/ (IsFiniteSet(Callers(a)) /\ Cardinality(Callers(a)) <= dispatched[a])
    /\ Callers(a) # {} \/ (\E k \in pollers : k.action = a) => dispatched[a] > 0

LogInv == OnceOK /\ PassedOK /\ SkippedOK /\ CalledOK

LEMMA ViewsTyped ==
  ASSUME TypeOK
  PROVE  /\ Views \subseteq Seq(Step)
         /\ Viewed \subseteq Step
         /\ \A k \in pollers : k.action \in Action /\ k.result \in {"pending", "success", "failed"}
<1>1. Views \subseteq Seq(Step)
  BY DEF Views, TypeOK, Poller
<1>2. \A log \in Seq(Step) : StepsOf(log) \subseteq Step
  BY DEF StepsOf
<1>3. \A k \in pollers : k.action \in Action /\ k.result \in {"pending", "success", "failed"}
  BY DEF TypeOK, Poller
<1> QED BY <1>1, <1>2, <1>3 DEF Viewed

\* Where copies of the log come from
LEMMA ViewsStep ==
  ASSUME TypeOK, [Next]_vars, NEW log \in Views'
  PROVE  \/ log \in Views
         \/ log = <<>>
         \/ \E p \in Process : append_writes(p, proposed_actions) /\ log = Append(seen[p], Pending(p))
         \/ \E k \in pollers : poll_writes(k) /\ log = WithLatest(k.seen, k.action, k.result)
<1> USE DEF Views, runVars, storeVars, external
<1>0. seen \in [Process -> Seq(Step)]
  BY DEF TypeOK
<1>1. CASE Orchestrate
  BY <1>1 DEF Orchestrate, trigger_workflow, ingest_alerts_node, investigate_nodes,
              analyze_node_raises, plan_actions_node, human_approve_node
<1>2. ASSUME NEW p \in Process, Execute(p)
      PROVE  log \in Views \/ log = <<>>
               \/ (append_writes(p, proposed_actions) /\ log = Append(seen[p], Pending(p)))
  <2>1. CASE append_reads(p) \/ collect_evidence(p)
    <3>1. /\ execution_log' = execution_log /\ pollers' = pollers
          /\ seen' = [seen EXCEPT ![p] = execution_log]
      BY <2>1 DEF append_reads, collect_evidence
    <3> QED BY <1>0, <3>1
  <2>2. CASE append_writes(p, proposed_actions)
    <3>1. /\ execution_log' = Append(seen[p], Pending(p)) /\ pollers' = pollers
          /\ seen' = [seen EXCEPT ![p] = <<>>]
      BY <2>2 DEF append_writes, Pending, Current
    <3> QED BY <1>0, <2>2, <3>1
  <2>3. CASE seal_evidence(p)
    <3>1. /\ execution_log' = execution_log /\ pollers' = pollers
          /\ seen' = [seen EXCEPT ![p] = <<>>]
      BY <2>3 DEF seal_evidence
    <3> QED BY <1>0, <3>1
  <2>4. CASE execute_action(p, proposed_actions)
    <3>1. execution_log' = execution_log /\ seen' = seen
      BY <2>4 DEF execute_action
    <3>2. \A k \in pollers' : k \in pollers \/ k.seen = <<>>
      BY <2>4 DEF execute_action
    <3> QED BY <3>1, <3>2
  <2>5. CASE \/ skip_action(p, proposed_actions) \/ clear_action(p, proposed_actions)
             \/ execute_action_raises(p, proposed_actions)
             \/ contain_case(p, proposed_actions) \/ close_case(p)
    BY <2>5 DEF skip_action, clear_action, execute_action_raises, contain_case, close_case
  <2> QED BY <1>2, <2>1, <2>2, <2>3, <2>4, <2>5 DEF Execute, Run, execute_node, update_case_node
<1>3. ASSUME NEW r \in Request, submit_approval(r) PROVE log \in Views
  BY <1>3 DEF submit_approval
<1>4. ASSUME NEW r \in Request, Approve(r) PROVE log \in Views
  BY <1>4 DEF Approve, approve_action, refuse_duplicate, accept_vote, add_record,
              close_rejected, tally_action, resume_workflow
<1>5. ASSUME NEW k \in pollers, poll_shuffle(k)
      PROVE  log \in Views \/ (poll_writes(k) /\ log = WithLatest(k.seen, k.action, k.result))
  <2>1. CASE poll_answers(k)
    <3>1. execution_log' = execution_log /\ seen' = seen
      BY <2>1 DEF poll_answers
    <3>2. \A j \in pollers' : j \in pollers \/ j.seen = execution_log
      <4>1. k \in Poller
        BY DEF TypeOK
      <4>2. PICK r : pollers' = (pollers \ {k}) \cup {[k EXCEPT !.result = r, !.seen = execution_log]}
        BY <2>1 DEF poll_answers
      <4>3. [k EXCEPT !.result = r, !.seen = execution_log].seen = execution_log
        BY <4>1 DEF Poller
      <4> QED BY <4>2, <4>3
    <3> QED BY <3>1, <3>2
  <2>2. CASE poll_writes(k)
    BY <2>2 DEF poll_writes
  <2>3. CASE poll_misses(k) \/ poll_times_out(k)
    BY <2>3 DEF poll_misses, poll_times_out
  <2> QED BY <1>5, <2>1, <2>2, <2>3 DEF poll_shuffle
<1>6. CASE Crash
  <2>1. /\ execution_log' = execution_log /\ pollers' = {}
        /\ seen' = [p \in Process |-> <<>>]
    BY <1>6 DEF Crash
  <2> QED BY <2>1
<1>7. CASE UNCHANGED vars
  BY <1>7 DEF vars
<1> QED BY <1>1, <1>2, <1>3, <1>4, <1>5, <1>6, <1>7 DEF Next, Poll

\* A run that has begun stays begun; in its loop it only moves on
LEMMA RunsGoOn ==
  ASSUME Base, PlanOK, [Next]_vars, NEW p \in Process, HasRun(p)
  PROVE  /\ HasRun(p)'
         /\ Looping(p)' => /\ Looping(p) /\ at[p] <= at'[p]
                           /\ proposed_actions' = proposed_actions
<1> USE DEF HasRun, Looping, Executing, ExecutionPC, goto, runVars
<1>0. /\ pc \in [Process -> PC] /\ at \in [Process -> Nat \ {0}]
      /\ Trigger \in Process /\ Request \subseteq Process /\ Trigger \notin Request
  BY ProcessAssumption DEF Base, TypeOK, Process
<1>1. Executing(p) => proposed_actions' = proposed_actions
  BY PlanStep DEF PlanOK
<1>2. CASE Orchestrate
  BY <1>0, <1>1, <1>2
     DEF Orchestrate, trigger_workflow, ingest_alerts_node, investigate_nodes,
         analyze_node_raises, plan_actions_node, human_approve_node
<1>3. ASSUME NEW q \in Process, Execute(q)
      PROVE  /\ HasRun(p)'
             /\ Looping(p)' => Looping(p) /\ at[p] <= at'[p]
  <2>1. CASE q = p
    BY <1>0, <1>3, <2>1
       DEF Execute, Run, execute_node, update_case_node, skip_action, clear_action,
           execute_action, execute_action_raises, append_reads, append_writes, contain_case,
           collect_evidence, seal_evidence, close_case
  <2>2. CASE q # p
    BY <1>0, <1>3, <2>2
       DEF Execute, Run, execute_node, update_case_node, skip_action, clear_action,
           execute_action, execute_action_raises, append_reads, append_writes, contain_case,
           collect_evidence, seal_evidence, close_case
  <2> QED BY <2>1, <2>2
<1>4. ASSUME NEW r \in Request, submit_approval(r)
      PROVE  /\ HasRun(p)'
             /\ Looping(p)' => Looping(p) /\ at[p] <= at'[p]
  BY <1>0, <1>4 DEF submit_approval
<1>5. ASSUME NEW r \in Request, Approve(r)
      PROVE  /\ HasRun(p)'
             /\ Looping(p)' => Looping(p) /\ at[p] <= at'[p]
  BY <1>0, <1>5 DEF Approve, approve_action, refuse_duplicate, accept_vote, add_record,
              close_rejected, tally_action, resume_workflow
<1>6. CASE Poll
  BY <1>0, <1>1, <1>6 DEF Poll, poll_shuffle, poll_answers, poll_misses, poll_writes, poll_times_out
<1>7. CASE Crash
  BY <1>0, <1>7 DEF Crash, Active, StoppedPC
<1>8. CASE UNCHANGED vars
  BY <1>0, <1>1, <1>8 DEF vars
<1> QED BY <1>1, <1>2, <1>3, <1>4, <1>5, <1>6, <1>7, <1>8 DEF Next

\* A run gets a step to append by skipping or executing its action
LEMMA PendingStep ==
  ASSUME Base, PlanOK, [Next]_vars, NEW p \in Process, Appending(p)'
  PROVE  \/ Appending(p) /\ Pending(p)' = Pending(p)
         \/ skip_action(p, proposed_actions) /\ Pending(p)' = [action |-> Current(p), status |-> "skipped", by |-> p]
         \/ execute_action(p, proposed_actions) /\ Pending(p)'.action = Current(p) /\ Pending(p)'.by = p
              /\ Pending(p)'.status # "skipped"
<1> USE DEF Appending, goto
<1>0. /\ pc \in [Process -> PC] /\ at \in [Process -> Nat \ {0}]
      /\ outcome \in [Process -> StepStatus \cup {"none"}]
      /\ Trigger \in Process /\ Request \subseteq Process /\ Trigger \notin Request
  BY ProcessAssumption DEF Base, TypeOK, Process
<1>1. ASSUME Appending(p), at'[p] = at[p], outcome'[p] = outcome[p]
      PROVE  Pending(p)' = Pending(p)
  <2>1. Current(p)' = Current(p)
    BY <1>1, CurrentKept DEF Executing, ExecutionPC
  <2> QED BY <1>1, <2>1 DEF Pending
<1>2. CASE Orchestrate
  BY <1>0, <1>1, <1>2
     DEF Orchestrate, trigger_workflow, ingest_alerts_node, investigate_nodes,
         analyze_node_raises, plan_actions_node, human_approve_node, runVars, route_after_plan
<1>3. ASSUME NEW q \in Process, Execute(q)
      PROVE  \/ Appending(p) /\ Pending(p)' = Pending(p)
             \/ skip_action(p, proposed_actions) \/ execute_action(p, proposed_actions)
  <2>1. CASE q = p
    BY <1>0, <1>1, <1>3, <2>1
       DEF Execute, Run, execute_node, update_case_node, clear_action,
           execute_action_raises, append_reads, append_writes, contain_case,
           collect_evidence, seal_evidence, close_case, runVars
  <2>2. CASE q # p
    <3>1. pc'[p] = pc[p] /\ at'[p] = at[p] /\ outcome'[p] = outcome[p]
      BY <1>0, <1>3, <2>2
         DEF Execute, Run, execute_node, update_case_node, skip_action, clear_action,
             execute_action, execute_action_raises, append_reads, append_writes, contain_case,
             collect_evidence, seal_evidence, close_case, runVars
    <3> QED BY <1>1, <3>1
  <2> QED BY <2>1, <2>2
<1>4. ASSUME NEW r \in Request, submit_approval(r)
      PROVE  Appending(p) /\ Pending(p)' = Pending(p)
  BY <1>0, <1>1, <1>4 DEF submit_approval, runVars
<1>5. ASSUME NEW r \in Request, Approve(r)
      PROVE  Appending(p) /\ Pending(p)' = Pending(p)
  BY <1>0, <1>1, <1>5 DEF Approve, approve_action, refuse_duplicate, accept_vote, add_record,
              close_rejected, tally_action, resume_workflow, runVars
<1>6. CASE Poll
  BY <1>1, <1>6 DEF Poll, poll_shuffle, poll_answers, poll_misses, poll_writes,
                    poll_times_out, runVars
<1>7. CASE Crash
  BY <1>0, <1>7 DEF Crash, Active, StoppedPC
<1>8. CASE UNCHANGED vars
  BY <1>1, <1>8 DEF vars, runVars
<1>9. ASSUME skip_action(p, proposed_actions)
      PROVE  Pending(p)' = [action |-> Current(p), status |-> "skipped", by |-> p]
  BY <1>0, <1>9 DEF skip_action, Pending, Current, storeVars
<1>10. ASSUME execute_action(p, proposed_actions)
       PROVE  /\ Pending(p)'.action = Current(p) /\ Pending(p)'.by = p
              /\ Pending(p)'.status # "skipped"
  <2>1. PICK o \in Outcomes : outcome' = [outcome EXCEPT ![p] = o]
    BY <1>10 DEF execute_action
  <2>2. o # "skipped"
    BY ProcessAssumption
  <2>3. Current(p)' = Current(p)
    BY <1>10 DEF execute_action, Current, storeVars
  <2> QED BY <1>0, <2>1, <2>2, <2>3 DEF Pending
<1> QED BY <1>2, <1>3, <1>4, <1>5, <1>6, <1>7, <1>8, <1>9, <1>10 DEF Next

\* Calls are only counted, and pollers only start with a call
LEMMA CallsGrow ==
  ASSUME Base, [Next]_vars
  PROVE  /\ \A a \in Action : dispatched'[a] >= dispatched[a]
         /\ \A k \in pollers' : \/ \E j \in pollers : j.action = k.action
                                \/ \E p \in Process : execute_action(p, proposed_actions) /\ k.action = Current(p)
<1> USE DEF external
<1>0. /\ dispatched \in [Action -> Nat]
      /\ TypeOK /\ LoopsOK
  BY DEF Base, TypeOK
<1>1. \A a \in Action : dispatched'[a] >= dispatched[a]
  <2> SUFFICES ASSUME NEW a \in Action, dispatched'[a] # dispatched[a]
               PROVE  dispatched'[a] >= dispatched[a]
    BY <1>0
  <2>1. PICK p \in Process : Dispatch(p) /\ Current(p) = a
    BY <1>0, DispatchStep
  <2>2. dispatched'[a] = dispatched[a] + 1
    BY <1>0, <2>1 DEF Dispatch, execute_action, execute_action_raises, Current
  <2> QED BY <1>0, <2>2
<1>2. ASSUME NEW k \in pollers', k \notin pollers
      PROVE  \/ \E j \in pollers : j.action = k.action
             \/ \E p \in Process : execute_action(p, proposed_actions) /\ k.action = Current(p)
  <2>1. CASE Orchestrate
    BY <1>2, <2>1 DEF Orchestrate, trigger_workflow, ingest_alerts_node, investigate_nodes,
                analyze_node_raises, plan_actions_node, human_approve_node
  <2>2. ASSUME NEW p \in Process, Execute(p)
        PROVE  execute_action(p, proposed_actions) /\ k.action = Current(p)
    BY <1>2, <2>2 DEF Execute, Run, execute_node, update_case_node, skip_action, clear_action,
                execute_action, execute_action_raises, append_reads, append_writes, contain_case,
                collect_evidence, seal_evidence, close_case, Current
  <2>3. ASSUME NEW r \in Request, submit_approval(r) PROVE FALSE
    BY <1>2, <2>3 DEF submit_approval
  <2>4. ASSUME NEW r \in Request, Approve(r) PROVE FALSE
    BY <1>2, <2>4 DEF Approve, approve_action, refuse_duplicate, accept_vote, add_record,
                close_rejected, tally_action, resume_workflow
  <2>5. ASSUME NEW j \in pollers, poll_shuffle(j) PROVE k.action = j.action
    <3>1. CASE poll_answers(j)
      <4>1. PICK r : k = [j EXCEPT !.result = r, !.seen = execution_log]
        BY <1>2, <3>1 DEF poll_answers
      <4> QED BY <1>0, <4>1 DEF TypeOK, Poller
    <3>2. CASE ~ poll_answers(j)
      BY <1>2, <2>5, <3>2 DEF poll_shuffle, poll_misses, poll_writes, poll_times_out
    <3> QED BY <3>1, <3>2
  <2>6. ~ Crash
    BY <1>2 DEF Crash
  <2>7. ~ UNCHANGED vars
    BY <1>2 DEF vars
  <2> QED BY <2>1, <2>2, <2>3, <2>4, <2>5, <2>6, <2>7 DEF Next, Poll
<1> QED BY <1>1, <1>2

\* The steps of an overwritten copy, but for statuses
LEMMA WithLatestKeeps ==
  ASSUME NEW log \in Seq(Step), NEW a, NEW result \in StepStatus,
         NEW i \in 1..Len(log)
  PROVE  LET s == WithLatest(log, a, result)[i]
         IN  /\ s.action = log[i].action /\ s.by = log[i].by
             /\ s = log[i] \/ (s.action = a /\ s.status = result)
<1>1. log[i] \in Step
  OBVIOUS
<1>2. WithLatest(log, a, result)[i] \in {log[i], [log[i] EXCEPT !.status = result]}
  BY DEF WithLatest
<1>3. WithLatest(log, a, result)[i] = log[i] \/
        (log[i].action = a /\ WithLatest(log, a, result)[i] = [log[i] EXCEPT !.status = result])
  BY DEF WithLatest
<1> QED BY <1>1, <1>2, <1>3 DEF Step

LEMMA AppendingIsTyped ==
  ASSUME Base, NEW p \in Process, append_writes(p, proposed_actions)
  PROVE  /\ seen[p] \in Views /\ seen[p] \in Seq(Step)
         /\ Pending(p) \in Step /\ Pending(p) \in Known
         /\ Current(p) \in Action /\ at[p] \in 1..Len(proposed_actions)
         /\ Looping(p) /\ Executing(p) /\ HasRun(p)
<1>1. Appending(p) /\ pc[p] = "write_log"
  BY DEF append_writes, Appending
<1>2. Current(p) \in Action /\ at[p] \in 1..Len(proposed_actions) /\ outcome[p] \in StepStatus
  BY <1>1, CurrentIsAction DEF Base, LoopsOK, LoopOK
<1>3. seen[p] \in Views /\ seen[p] \in Seq(Step)
  BY DEF Base, TypeOK, Views
<1>4. Pending(p) \in Step
  BY <1>2 DEF Pending, Step
<1>5. Pending(p) \in Known
  BY <1>1 DEF Known
<1> QED BY <1>1, <1>2, <1>3, <1>4, <1>5 DEF Looping, Executing, ExecutionPC, HasRun

\* Where the steps of the copies come from
LEMMA ViewedStep ==
  ASSUME Base, Base', [Next]_vars, NEW s \in Viewed'
  PROVE  \/ \E t \in Viewed : t.action = s.action /\ t.by = s.by /\ t = s
         \/ \E p \in Process : append_writes(p, proposed_actions) /\ s = Pending(p)
         \/ \E k \in pollers : /\ poll_writes(k) /\ s.action = k.action /\ s.status # "skipped"
                               /\ \E t \in Viewed : t.action = s.action /\ t.by = s.by
<1>0. TypeOK
  BY DEF Base
<1>1. PICK log \in Views' : \E i \in 1..Len(log) : s = log[i]
  BY DEF Viewed, StepsOf
<1>2. PICK i \in 1..Len(log) : s = log[i]
  BY <1>1
<1>3. \A view \in Views : \A j \in 1..Len(view) : view[j] \in Viewed
  BY DEF Viewed, StepsOf
<1>4. CASE log \in Views
  BY <1>2, <1>3, <1>4
<1>5. log # <<>>
  BY <1>2
<1>6. ASSUME NEW p \in Process, append_writes(p, proposed_actions), log = Append(seen[p], Pending(p))
      PROVE  s \in Viewed \/ s = Pending(p)
  <2>1. seen[p] \in Views /\ seen[p] \in Seq(Step)
    BY <1>6, AppendingIsTyped
  <2>2. (i \in 1..Len(seen[p]) /\ s = seen[p][i]) \/ s = Pending(p)
    BY <1>2, <1>6, <2>1
  <2> QED BY <1>3, <2>1, <2>2
<1>7. ASSUME NEW k \in pollers, poll_writes(k), log = WithLatest(k.seen, k.action, k.result)
      PROVE  \/ s \in Viewed
             \/ /\ s.action = k.action /\ s.status # "skipped"
                /\ \E t \in Viewed : t.action = s.action /\ t.by = s.by
  <2>1. k.seen \in Views /\ k.seen \in Seq(Step) /\ k.result \in {"success", "failed"}
    BY <1>0, <1>7, ViewsTyped DEF Views, poll_writes
  <2>2. Len(log) = Len(k.seen)
    BY <1>7, <2>1, WithLatestType DEF StepStatus
  <2>3. i \in 1..Len(k.seen) /\ k.seen[i] \in Viewed
    BY <1>2, <1>3, <2>1, <2>2
  <2>4. /\ s.action = k.seen[i].action /\ s.by = k.seen[i].by
        /\ s = k.seen[i] \/ (s.action = k.action /\ s.status = k.result)
    BY <1>2, <1>7, <2>1, <2>3, WithLatestKeeps DEF StepStatus
  <2> QED BY <2>1, <2>3, <2>4
<1>8. \/ log \in Views
      \/ log = <<>>
      \/ \E p \in Process : append_writes(p, proposed_actions) /\ log = Append(seen[p], Pending(p))
      \/ \E k \in pollers : poll_writes(k) /\ log = WithLatest(k.seen, k.action, k.result)
  BY <1>0, ViewsStep
<1> QED BY <1>4, <1>5, <1>6, <1>7, <1>8

\* An action is at one place of the plan
LEMMA PlanIsDistinct ==
  ASSUME TypeOK, NEW i \in 1..Len(proposed_actions), NEW j \in 1..Len(proposed_actions),
         proposed_actions[i] = proposed_actions[j]
  PROVE  i = j
<1>1. CASE proposed_actions = <<>>
  BY <1>1
<1>2. CASE proposed_actions = playbook
  BY <1>2, PlaybookAssumption DEF TypeOK
<1> QED BY <1>1, <1>2 DEF TypeOK

LEMMA OnceOKStep ==
  ASSUME Base, OnceOK, PassedOK, [Next]_vars
  PROVE  OnceOK'
<1>0. TypeOK
  BY DEF Base
<1> SUFFICES ASSUME NEW log \in Views', NEW i \in 1..Len(log), NEW j \in 1..Len(log),
                    log[i].action = log[j].action, log[i].by = log[j].by
             PROVE  i = j
  BY DEF OnceOK
<1>1. CASE log \in Views
  BY <1>1 DEF OnceOK
<1>2. CASE log = <<>>
  BY <1>2
<1>3. ASSUME NEW p \in Process, append_writes(p, proposed_actions), log = Append(seen[p], Pending(p))
      PROVE  i = j
  <2>1. /\ seen[p] \in Views /\ seen[p] \in Seq(Step) /\ Pending(p) \in Step
        /\ at[p] \in 1..Len(proposed_actions) /\ Looping(p)
    BY <1>3, AppendingIsTyped
  <2>2. ASSUME NEW n \in 1..Len(seen[p]), seen[p][n].action = Current(p), seen[p][n].by = p
        PROVE  FALSE
    <3>1. seen[p][n] \in Viewed
      BY <2>1 DEF Viewed, StepsOf
    <3>2. PICK m \in 1..Len(proposed_actions) : m < at[p] /\ Current(p) = proposed_actions[m]
      BY <2>1, <2>2, <3>1 DEF PassedOK
    <3>3. m = at[p]
      BY <1>0, <2>1, <3>2, PlanIsDistinct DEF Current
    <3> QED BY <2>1, <3>2, <3>3
  <2>3. Pending(p).action = Current(p) /\ Pending(p).by = p
    BY DEF Pending
  <2>4. /\ Len(log) = Len(seen[p]) + 1
        /\ \A n \in 1..Len(seen[p]) : log[n] = seen[p][n]
        /\ log[Len(seen[p]) + 1] = Pending(p)
    BY <1>3, <2>1
  <2>5. CASE i \in 1..Len(seen[p]) /\ j \in 1..Len(seen[p])
    BY <2>1, <2>4, <2>5 DEF OnceOK
  <2>6. CASE i \in 1..Len(seen[p]) /\ j = Len(seen[p]) + 1
    BY <2>2, <2>3, <2>4, <2>6
  <2>7. CASE j \in 1..Len(seen[p]) /\ i = Len(seen[p]) + 1
    BY <2>2, <2>3, <2>4, <2>7
  <2>8. i \in 1..Len(seen[p]) \/ i = Len(seen[p]) + 1
    BY <2>1, <2>4
  <2>9. j \in 1..Len(seen[p]) \/ j = Len(seen[p]) + 1
    BY <2>1, <2>4
  <2> QED BY <2>5, <2>6, <2>7, <2>8, <2>9
<1>4. ASSUME NEW k \in pollers, poll_writes(k), log = WithLatest(k.seen, k.action, k.result)
      PROVE  i = j
  <2>1. k.seen \in Views /\ k.seen \in Seq(Step) /\ k.result \in StepStatus
    BY <1>0, <1>4, ViewsTyped DEF Views, poll_writes, StepStatus
  <2>2. Len(log) = Len(k.seen)
    BY <1>4, <2>1, WithLatestType
  <2>3. /\ log[i].action = k.seen[i].action /\ log[i].by = k.seen[i].by
        /\ log[j].action = k.seen[j].action /\ log[j].by = k.seen[j].by
    BY <1>4, <2>1, <2>2, WithLatestKeeps
  <2> QED BY <2>1, <2>2, <2>3 DEF OnceOK
<1> QED BY <1>0, <1>1, <1>2, <1>3, <1>4, ViewsStep

LEMMA PassedOKStep ==
  ASSUME Base, Base', PlanOK, PassedOK, [Next]_vars
  PROVE  PassedOK'
<1> SUFFICES ASSUME NEW s \in Viewed'
             PROVE  /\ HasRun(s.by)'
                    /\ Looping(s.by)' =>
                         \E i \in 1..Len(proposed_actions') :
                            i < at'[s.by] /\ s.action = proposed_actions'[i]
  BY DEF PassedOK
<1>0. at \in [Process -> Nat \ {0}] /\ at' \in [Process -> Nat \ {0}]
  BY DEF Base, TypeOK
<1>1. ASSUME NEW t \in Viewed, t.action = s.action, t.by = s.by
      PROVE  /\ HasRun(s.by)'
             /\ Looping(s.by)' =>
                  \E i \in 1..Len(proposed_actions') :
                     i < at'[s.by] /\ s.action = proposed_actions'[i]
  <2>1. s.by \in Process /\ HasRun(s.by)
    BY <1>1, ViewsTyped DEF PassedOK, Step, Base
  <2>2. /\ HasRun(s.by)'
        /\ Looping(s.by)' => /\ Looping(s.by) /\ at[s.by] <= at'[s.by]
                             /\ proposed_actions' = proposed_actions
    BY <2>1, RunsGoOn
  <2>3. Looping(s.by) => \E i \in 1..Len(proposed_actions) : i < at[s.by] /\ s.action = proposed_actions[i]
    BY <1>1 DEF PassedOK
  <2>4. at[s.by] \in Nat /\ at'[s.by] \in Nat
    BY <1>0, <2>1
  <2> QED BY <2>2, <2>3, <2>4
<1>2. ASSUME NEW p \in Process, append_writes(p, proposed_actions), s = Pending(p)
      PROVE  /\ HasRun(s.by)'
             /\ Looping(s.by)' =>
                  \E i \in 1..Len(proposed_actions') :
                     i < at'[s.by] /\ s.action = proposed_actions'[i]
  <2>1. s.by = p /\ s.action = Current(p)
    BY <1>2 DEF Pending
  <2>2. HasRun(p) /\ at[p] \in 1..Len(proposed_actions)
    BY <1>2, AppendingIsTyped
  <2>3. HasRun(p)'
    BY <2>2, RunsGoOn
  <2>4. at'[p] = at[p] + 1 /\ proposed_actions' = proposed_actions
    BY <1>0, <1>2 DEF append_writes
  <2> QED BY <2>1, <2>2, <2>3, <2>4 DEF Current
<1> QED BY <1>1, <1>2, ViewedStep

LEMMA SkippedOKStep ==
  ASSUME Base, Base', PlanOK, RunOK, SkippedOK, [Next]_vars
  PROVE  SkippedOK'
<1> SUFFICES ASSUME NEW s \in Known', s.status = "skipped" PROVE Rejected(s.action)'
  BY DEF SkippedOK
<1>0. \A a : Rejected(a) => Rejected(a)'
  BY RecordsStep, RecordsOnlyGrow
<1>1. CASE s \in Viewed'
  <2>1. ASSUME NEW p \in Process, append_writes(p, proposed_actions), s = Pending(p) PROVE s \in Known
    BY <2>1, AppendingIsTyped
  <2>2. s \in Known
    BY <1>1, <2>1, ViewedStep DEF Known
  <2> QED BY <1>0, <2>2 DEF SkippedOK
<1>2. ASSUME NEW p \in Process, Appending(p)', s = Pending(p)' PROVE Rejected(s.action)'
  <2>1. CASE Appending(p) /\ Pending(p)' = Pending(p)
    <3>1. s \in Known
      BY <1>2, <2>1 DEF Known
    <3> QED BY <1>0, <3>1 DEF SkippedOK
  <2>2. CASE skip_action(p, proposed_actions) /\ s.action = Current(p)
    <3>1. /\ ApprovalRequired(Current(p)) /\ ~ is_action_approved(Current(p))
          /\ Current(p) \in Action /\ at[p] \in 1..Len(proposed_actions) /\ Executing(p)
      BY <2>2, CurrentIsAction DEF skip_action, MayExecute, Executing, ExecutionPC, Base, Current
    <3>2. Signed(Current(p))
      BY <3>1 DEF RunOK, PlanSigned, GatedActions, Current
    <3>3. Rejected(Current(p))
      BY <3>1, <3>2, VerdictMeansSigned DEF is_action_approved
    <3> QED BY <1>0, <2>2, <3>3
  <2> QED BY <1>2, <2>1, <2>2, PendingStep
<1> QED BY <1>1, <1>2 DEF Known

\* The executor is called by one run at a time
LEMMA OneCaller ==
  ASSUME Base, NEW p \in Process, NEW q \in Process, execute_action(p, proposed_actions), execute_action(q, proposed_actions)
  PROVE  p = q
BY DEF execute_action, goto, Base, TypeOK

\* Who becomes known to have called the executor has just done so, unless the
\* action was rejected
LEMMA CallersStep ==
  ASSUME Base, Base', PlanOK, SkippedOK, [Next]_vars, NEW a \in Action,
         NEW c \in Callers(a)', c \notin Callers(a)
  PROVE  \/ \E p \in Process : execute_action(p, proposed_actions) /\ Current(p) = a /\ c = p
         \/ /\ Rejected(a)
            /\ \E k \in pollers : k.action = a
<1>0. TypeOK
  BY DEF Base
<1>1. PICK s \in Known' : s.action = a /\ s.status # "skipped" /\ s.by = c
  BY DEF Callers
<1>2. s \notin Known
  BY <1>1 DEF Callers
<1>3. CASE s \in Viewed'
  <2>1. ASSUME NEW p \in Process, append_writes(p, proposed_actions), s = Pending(p) PROVE FALSE
    BY <1>2, <2>1, AppendingIsTyped
  <2>2. PICK k \in pollers : s.action = k.action /\ \E t \in Viewed : t.action = s.action /\ t.by = s.by
    BY <1>2, <1>3, <2>1, ViewedStep DEF Known
  <2>3. PICK t \in Viewed : t.action = a /\ t.by = c
    BY <1>1, <2>2
  <2>4. t.status = "skipped"
    BY <2>3 DEF Callers, Known
  <2>5. Rejected(a)
    BY <2>3, <2>4 DEF SkippedOK, Known
  <2> QED BY <1>1, <2>2, <2>5
<1>4. ASSUME NEW p \in Process, Appending(p)', s = Pending(p)'
      PROVE  execute_action(p, proposed_actions) /\ Current(p) = a /\ c = p
  <2>1. ~ (Appending(p) /\ Pending(p)' = Pending(p))
    BY <1>2, <1>4 DEF Known
  <2>2. Pending(p)' # [action |-> Current(p), status |-> "skipped", by |-> p]
    BY <1>1, <1>4
  <2>3. execute_action(p, proposed_actions) /\ Pending(p)'.action = Current(p) /\ Pending(p)'.by = p
    BY <1>4, <2>1, <2>2, PendingStep
  <2> QED BY <1>1, <1>4, <2>3
<1> QED BY <1>1, <1>3, <1>4 DEF Known

LEMMA CalledOKStep ==
  ASSUME Base, Base', PlanOK, SkippedOK, CalledOK, [Next]_vars
  PROVE  CalledOK'
<1> SUFFICES ASSUME NEW a \in Action
             PROVE  /\ Rejected(a)'
                         \/ (IsFiniteSet(Callers(a)') /\ Cardinality(Callers(a)') <= dispatched'[a])
                    /\ Callers(a)' # {} \/ (\E k \in pollers' : k.action = a) => dispatched'[a] > 0
  BY DEF CalledOK
<1> DEFINE C == Callers(a)
           D == Callers(a)'
           Called == \E p \in Process : execute_action(p, proposed_actions) /\ Current(p) = a
<1>1. /\ dispatched[a] \in Nat /\ dispatched'[a] \in Nat /\ dispatched'[a] >= dispatched[a]
      /\ Rejected(a) => Rejected(a)'
  BY CallsGrow, RecordsStep, RecordsOnlyGrow DEF Base, TypeOK
<1>2. /\ Rejected(a) \/ (IsFiniteSet(C) /\ Cardinality(C) <= dispatched[a])
      /\ C # {} \/ (\E k \in pollers : k.action = a) => dispatched[a] > 0
  BY DEF CalledOK
<1>3. Called => dispatched'[a] = dispatched[a] + 1
  BY DEF execute_action, Base, TypeOK, Current
<1>4. ASSUME NEW c \in D, c \notin C
      PROVE  Called \/ (Rejected(a) /\ \E k \in pollers : k.action = a)
  BY <1>4, CallersStep
<1>5. ASSUME NEW k \in pollers', k.action = a
      PROVE  Called \/ \E j \in pollers : j.action = a
  BY <1>5, CallsGrow
<1>6. ASSUME ~ Rejected(a), NEW p \in Process, execute_action(p, proposed_actions), Current(p) = a
      PROVE  D \subseteq C \cup {p}
  BY <1>6, CallersStep, OneCaller
<1> HIDE DEF C, D, Called
<1>7. D # {} \/ (\E k \in pollers' : k.action = a) => dispatched'[a] > 0
  BY <1>1, <1>2, <1>3, <1>4, <1>5
<1>8. ASSUME ~ Rejected(a)
      PROVE  IsFiniteSet(D) /\ Cardinality(D) <= dispatched'[a]
  <2>1. IsFiniteSet(C) /\ Cardinality(C) \in Nat /\ Cardinality(C) <= dispatched[a]
    BY <1>2, <1>8, FS_CardinalityType
  <2>2. CASE Called
    <3>1. PICK p \in Process : execute_action(p, proposed_actions) /\ Current(p) = a
      BY <2>2 DEF Called
    <3>2. D \subseteq C \cup {p}
      BY <1>6, <1>8, <3>1
    <3>3. /\ IsFiniteSet(C \cup {p})
          /\ Cardinality(C \cup {p}) = Cardinality(C) \/ Cardinality(C \cup {p}) = Cardinality(C) + 1
      <4>1. CASE p \in C
        <5>1. C \cup {p} = C
          BY <4>1
        <5> QED BY <2>1, <5>1
      <4>2. CASE p \notin C
        BY <2>1, <4>2, FS_AddElement
      <4> QED BY <4>1, <4>2
    <3>4. IsFiniteSet(D) /\ Cardinality(D) <= Cardinality(C \cup {p})
      BY <3>2, <3>3, FS_Subset
    <3>5. Cardinality(D) \in Nat
      BY <3>4, FS_CardinalityType
    <3> QED BY <1>1, <1>3, <2>1, <2>2, <3>3, <3>4, <3>5
  <2>3. CASE ~ Called
    <3>1. D \subseteq C
      BY <1>4, <1>8, <2>3
    <3>2. IsFiniteSet(D) /\ Cardinality(D) <= Cardinality(C)
      BY <2>1, <3>1, FS_Subset
    <3>3. Cardinality(D) \in Nat
      BY <3>2, FS_CardinalityType
    <3> QED BY <1>1, <2>1, <3>2, <3>3
  <2> QED BY <2>2, <2>3
<1> QED BY <1>1, <1>7, <1>8 DEF D

LEMMA LogInvInit == Init => LogInv
<1> SUFFICES ASSUME Init PROVE LogInv
  OBVIOUS
<1>1. /\ \A log \in Views : log = <<>>
      /\ pollers = {}
      /\ \A p \in Process : pc[p] \in {"ingest", "idle"}
  BY DEF Init, StoreInit, OrchestrationInit, Views
<1>2. Viewed = {}
  BY <1>1 DEF Viewed, StepsOf
<1>3. Known = {}
  BY <1>1, <1>2 DEF Known, Appending
<1>4. \A a \in Action : Callers(a) = {} /\ dispatched[a] = 0
  BY <1>3 DEF Callers, Init, OrchestrationInit
<1>5. ASSUME NEW a \in Action
      PROVE  IsFiniteSet(Callers(a)) /\ Cardinality(Callers(a)) <= dispatched[a]
  <2>1. IsFiniteSet({}) /\ Cardinality({}) = 0 /\ Callers(a) = {}
    BY <1>4, FS_EmptySet
  <2>2. Cardinality(Callers(a)) = 0 /\ IsFiniteSet(Callers(a))
    BY <2>1, Zenon
  <2> QED BY <1>4, <2>2
<1>6. OnceOK
  BY <1>1 DEF OnceOK
<1>7. PassedOK /\ SkippedOK
  BY <1>2, <1>3 DEF PassedOK, SkippedOK
<1>8. CalledOK
  BY <1>1, <1>4, <1>5, Zenon DEF CalledOK
<1> QED BY <1>6, <1>7, <1>8 DEF LogInv

LEMMA LogInvStep == Inv /\ Inv' /\ LogInv /\ [Next]_vars => LogInv'
BY OnceOKStep, PassedOKStep, SkippedOKStep, CalledOKStep DEF Inv, LogInv

LEMMA LogInvariance == Spec => [](Inv /\ LogInv)
BY LogInvInit, LogInvStep, Invariance, PTL DEF Spec

\* The log never invents an execution, however appends and poll results of
\* any number of runs overwrite each other and whatever crashes come in between.
THEOREM LogNeverInvents == Spec => []NoPhantomSteps
<1>1. TypeOK /\ LogInv => NoPhantomSteps
  <2> SUFFICES ASSUME TypeOK, LogInv, NEW i \in 1..Len(execution_log)
      PROVE  LET step == execution_log[i]
                 calls == {j \in 1..Len(execution_log) :
                             /\ execution_log[j].action = step.action
                             /\ execution_log[j].status # "skipped"}
             IN  /\ \A j \in 1..Len(execution_log) :
                      execution_log[j].action = step.action /\ execution_log[j].by = step.by
                        => i = j
                 /\ calls # {} => dispatched[step.action] > 0
                 /\ Cardinality(calls) <= dispatched[step.action] \/ Rejected(step.action)
    BY DEF NoPhantomSteps
  <2> DEFINE a == execution_log[i].action
             calls == {j \in 1..Len(execution_log) :
                         /\ execution_log[j].action = a
                         /\ execution_log[j].status # "skipped"}
             caller == [j \in calls |-> execution_log[j].by]
             C == Callers(a)
  <2>1. execution_log \in Views /\ execution_log \in Seq(Step) /\ a \in Action
    <3>1. execution_log \in Seq(Step)
      BY DEF TypeOK
    <3>2. execution_log[i] \in Step
      BY <3>1
    <3> QED BY <3>1, <3>2 DEF Views, Step
  <2>2. \A j, k \in 1..Len(execution_log) :
          execution_log[j].action = execution_log[k].action
            /\ execution_log[j].by = execution_log[k].by => j = k
    BY <2>1 DEF LogInv, OnceOK
  <2>3. \A j \in calls : execution_log[j].by \in C
    BY <2>1 DEF Callers, Known, Viewed, StepsOf
  <2>4. /\ Rejected(a) \/ (IsFiniteSet(C) /\ Cardinality(C) <= dispatched[a])
        /\ C # {} => dispatched[a] > 0
    BY <2>1 DEF LogInv, CalledOK
  <2>5. caller \in Injection(calls, C)
    BY <2>2, <2>3 DEF Injection, IsInjective
  <2> HIDE DEF caller, C
  <2>6. IsFiniteSet(C) => IsFiniteSet(calls) /\ Cardinality(calls) <= Cardinality(C)
    BY <2>5, FS_Injection
  <2>7. /\ IsFiniteSet(C) => Cardinality(C) \in Nat
        /\ IsFiniteSet(calls) => Cardinality(calls) \in Nat
    BY FS_CardinalityType
  <2>8. dispatched[a] \in Nat
    BY <2>1 DEF TypeOK
  <2>9. calls # {} => dispatched[a] > 0
    BY <2>3, <2>4
  <2> HIDE DEF calls
  <2>10. Cardinality(calls) <= dispatched[a] \/ Rejected(a)
    BY <2>4, <2>6, <2>7, <2>8
  <2> QED BY <2>2, <2>9, <2>10 DEF calls
<1>2. Inv => TypeOK
  BY DEF Inv, Base
<1> QED BY <1>1, <1>2, LogInvariance, PTL
-----------------------------------------------------------------------------
(* A run that is alone, with an executor that answers at once.             *)

\* How often the executor was called for a step
CallsOf(result) == IF result = "skipped" THEN 0 ELSE 1

Alone(p) == \A q \in Process \ {p} : ~ HasRun(q)

\* How many actions a run has behind it
Done(p) == IF Looping(p) THEN at[p] - 1 ELSE Len(proposed_actions)

\* The log lists the actions a lone run has behind it, and the executor was
\* called for what was not skipped and for nothing else
LoneRun(p) ==
  /\ Len(execution_log) = Done(p)
  /\ \A i \in 1..Done(p) :
       /\ execution_log[i].action = proposed_actions[i]
       /\ dispatched[proposed_actions[i]] = CallsOf(execution_log[i].status)
  /\ Appending(p) => dispatched[Current(p)] = CallsOf(outcome[p])
  /\ \A i \in 1..Len(proposed_actions) :
       Looping(p) /\ at[p] <= i /\ (Appending(p) => at[p] < i)
         => dispatched[proposed_actions[i]] = 0
  /\ pc[p] \in {"write_log", "seal"} => seen[p] = execution_log
  /\ pc[p] \in {"resolve", "finished"} => evidence_pack = execution_log

LoneOK ==
  \A p \in Process : Alone(p) /\ (Executing(p) \/ pc[p] = "finished") => LoneRun(p)

UntouchedOK ==
  (\A p \in Process : ~ HasRun(p)) =>
    execution_log = <<>> /\ \A a \in Action : dispatched[a] = 0

\* The trigger run starts its loop at the first action; a run that has ended
\* has had a plan
StartedOK ==
  /\ pc[Trigger] \in PlanningPC => at[Trigger] = 1
  /\ \A p \in Process : pc[p] = "finished" => proposed_actions = playbook

Synchronous == "executing" \notin Outcomes

LoneInv == StartedOK /\ (Synchronous => pollers = {} /\ UntouchedOK /\ LoneOK)

LEMMA StartedOKStep ==
  ASSUME Base, PlanOK, StartedOK, [Next]_vars
  PROVE  StartedOK'
<1> USE DEF StartedOK, goto, runVars
<1>0. /\ pc \in [Process -> PC] /\ at \in [Process -> Nat \ {0}]
      /\ Trigger \in Process /\ Request \subseteq Process /\ Trigger \notin Request
  BY ProcessAssumption DEF Base, TypeOK, Process
<1>1. ASSUME pc'[Trigger] \in PlanningPC PROVE at'[Trigger] = 1
  <2>1. CASE Orchestrate
    BY <1>0, <1>1, <2>1
       DEF Orchestrate, trigger_workflow, ingest_alerts_node, investigate_nodes,
           analyze_node_raises, plan_actions_node, human_approve_node, route_after_plan, PlanningPC
  <2>2. ASSUME NEW p \in Process, Execute(p) PROVE at'[Trigger] = 1
    BY <1>0, <1>1, <2>2
       DEF Execute, Run, execute_node, update_case_node, skip_action, clear_action,
           execute_action, execute_action_raises, append_reads, append_writes, contain_case,
           collect_evidence, seal_evidence, close_case, PlanningPC
  <2>3. ASSUME NEW r \in Request, submit_approval(r) PROVE at'[Trigger] = 1
    BY <1>0, <1>1, <2>3 DEF submit_approval
  <2>4. ASSUME NEW r \in Request, Approve(r) PROVE at'[Trigger] = 1
    BY <1>0, <1>1, <2>4 DEF Approve, approve_action, refuse_duplicate, accept_vote, add_record,
                close_rejected, tally_action, resume_workflow
  <2>5. CASE Poll
    BY <1>1, <2>5 DEF Poll, poll_shuffle, poll_answers, poll_misses, poll_writes, poll_times_out
  <2>6. CASE Crash
    BY <1>0, <2>6 DEF Crash
  <2>7. CASE UNCHANGED vars
    BY <1>1, <2>7 DEF vars
  <2> QED BY <2>1, <2>2, <2>3, <2>4, <2>5, <2>6, <2>7 DEF Next
<1>2. ASSUME NEW p \in Process, pc'[p] = "finished" PROVE proposed_actions' = playbook'
  <2>1. CASE pc[p] = "finished"
    BY <2>1, PlanStep
  <2>2. CASE Executing(p)
    BY <2>2, PlanStep DEF PlanOK
  <2>3. pc[p] = "finished" \/ Executing(p)
    <3>1. CASE Orchestrate
      BY <1>0, <1>2, <3>1
         DEF Orchestrate, trigger_workflow, ingest_alerts_node, investigate_nodes,
             analyze_node_raises, plan_actions_node, human_approve_node, route_after_plan
    <3>2. ASSUME NEW q \in Process, Execute(q) PROVE pc[p] = "finished" \/ Executing(p)
      BY <1>0, <1>2, <3>2
         DEF Execute, Run, execute_node, update_case_node, skip_action, clear_action,
             execute_action, execute_action_raises, append_reads, append_writes, contain_case,
             collect_evidence, seal_evidence, close_case, Executing, ExecutionPC
    <3>3. ASSUME NEW r \in Request, submit_approval(r) PROVE pc[p] = "finished"
      BY <1>0, <1>2, <3>3 DEF submit_approval
    <3>4. ASSUME NEW r \in Request, Approve(r) PROVE pc[p] = "finished"
      BY <1>0, <1>2, <3>4 DEF Approve, approve_action, refuse_duplicate, accept_vote, add_record,
                  close_rejected, tally_action, resume_workflow
    <3>5. CASE Poll
      BY <1>2, <3>5 DEF Poll, poll_shuffle, poll_answers, poll_misses, poll_writes, poll_times_out
    <3>6. CASE Crash
      BY <1>0, <1>2, <3>6 DEF Crash
    <3>7. CASE UNCHANGED vars
      BY <1>2, <3>7 DEF vars
    <3> QED BY <3>1, <3>2, <3>3, <3>4, <3>5, <3>6, <3>7 DEF Next
  <2> QED BY <2>1, <2>2, <2>3
<1> QED BY <1>1, <1>2

\* Only a run or a poller touches the log and calls the executor
LEMMA OnlyRunsWrite ==
  ASSUME [Next]_vars, pollers = {}, \A p \in Process : ~ Execute(p)
  PROVE  UNCHANGED <<execution_log, evidence_pack, dispatched, pollers>>
<1> USE DEF storeVars, external
<1>1. CASE Orchestrate
  BY <1>1 DEF Orchestrate, trigger_workflow, ingest_alerts_node, investigate_nodes,
              analyze_node_raises, plan_actions_node, human_approve_node
<1>2. ASSUME NEW r \in Request, submit_approval(r)
      PROVE  UNCHANGED <<execution_log, evidence_pack, dispatched, pollers>>
  BY <1>2 DEF submit_approval
<1>3. ASSUME NEW r \in Request, Approve(r)
      PROVE  UNCHANGED <<execution_log, evidence_pack, dispatched, pollers>>
  BY <1>3 DEF Approve, approve_action, refuse_duplicate, accept_vote, add_record,
              close_rejected, tally_action, resume_workflow
<1>4. ~ Poll
  BY DEF Poll
<1>5. CASE Crash
  BY <1>5 DEF Crash
<1>6. CASE UNCHANGED vars
  BY <1>6 DEF vars
<1> QED BY <1>1, <1>2, <1>3, <1>4, <1>5, <1>6 DEF Next

LEMMA NoPollers ==
  ASSUME Synchronous, pollers = {}, [Next]_vars
  PROVE  pollers' = {}
<1>1. ASSUME NEW p \in Process, Execute(p) PROVE pollers' = {}
  BY <1>1 DEF Execute, Run, execute_node, update_case_node, skip_action, clear_action,
              execute_action, execute_action_raises, append_reads, append_writes, contain_case,
              collect_evidence, seal_evidence, close_case, external, Synchronous
<1> QED BY <1>1, OnlyRunsWrite

LEMMA ExecuteIsRunning ==
  ASSUME NEW p \in Process, Execute(p)
  PROVE  Executing(p) /\ HasRun(p)
BY DEF Execute, Run, execute_node, update_case_node, skip_action, clear_action,
       execute_action, execute_action_raises, append_reads, append_writes, contain_case, HasRun,
       collect_evidence, seal_evidence, close_case, Executing, ExecutionPC

LEMMA UntouchedStep ==
  ASSUME Base, PlanOK, pollers = {}, UntouchedOK, [Next]_vars
  PROVE  UntouchedOK'
<1> SUFFICES ASSUME \A p \in Process : ~ HasRun(p)'
             PROVE  execution_log' = <<>> /\ \A a \in Action : dispatched'[a] = 0
  BY DEF UntouchedOK
<1>1. \A p \in Process : ~ HasRun(p)
  BY RunsGoOn
<1>2. \A p \in Process : ~ Execute(p)
  BY <1>1, ExecuteIsRunning
<1>3. execution_log' = execution_log /\ dispatched' = dispatched
  BY <1>2, OnlyRunsWrite
<1> QED BY <1>1, <1>3 DEF UntouchedOK

\* One step of a lone run
LEMMA LoneRunExecutes ==
  ASSUME Base, Base', PlanOK, Synchronous, NEW p \in Process, Execute(p), LoneRun(p),
         pc'[p] # "failed"
  PROVE  LoneRun(p)'
<1> USE DEF goto, storeVars, runVars
<1>0. /\ pc \in [Process -> PC] /\ at \in [Process -> Nat \ {0}]
      /\ seen \in [Process -> Seq(Step)] /\ execution_log \in Seq(Step)
      /\ outcome \in [Process -> StepStatus \cup {"none"}] /\ dispatched \in [Action -> Nat]
      /\ Len(proposed_actions) \in Nat
  <2>1. TypeOK
    BY DEF Base
  <2>2. Len(proposed_actions) \in Nat
    BY <2>1, SequencesTyped
  <2> QED BY <2>1, <2>2 DEF TypeOK
<1>1. ASSUME at[p] <= Len(proposed_actions)
      PROVE  at[p] \in 1..Len(proposed_actions) /\ Current(p) = proposed_actions[at[p]] /\ Current(p) \in Action
  BY <1>1, CurrentIsAction DEF Base, Current
<1>2. \A i, j \in 1..Len(proposed_actions) : proposed_actions[i] = proposed_actions[j] => i = j
  BY PlanIsDistinct DEF Base
<1>3. CASE skip_action(p, proposed_actions)
  <2>1. /\ pc[p] = "check" /\ pc'[p] = "read_log" /\ at[p] <= Len(proposed_actions)
        /\ UNCHANGED <<proposed_actions, execution_log, evidence_pack, dispatched, at>>
        /\ outcome'[p] = "skipped"
    BY <1>0, <1>3 DEF skip_action, external
  <2>2. Current(p)' = Current(p) /\ dispatched[Current(p)] = 0
    BY <1>1, <2>1 DEF LoneRun, Looping, Appending, Current
  <2> QED BY <2>1, <2>2 DEF LoneRun, Looping, Appending, Done, CallsOf
<1>4. CASE clear_action(p, proposed_actions)
  <2>1. /\ pc[p] = "check" /\ pc'[p] = "execute"
        /\ UNCHANGED <<proposed_actions, execution_log, evidence_pack, dispatched, at>>
    BY <1>0, <1>4 DEF clear_action, external
  <2> QED BY <2>1 DEF LoneRun, Looping, Appending, Done
<1>5. CASE execute_action(p, proposed_actions)
  <2>1. PICK o \in Outcomes : outcome' = [outcome EXCEPT ![p] = o]
    BY <1>5 DEF execute_action
  <2>2. /\ pc[p] = "execute" /\ pc'[p] = "read_log" /\ at[p] <= Len(proposed_actions)
        /\ UNCHANGED <<proposed_actions, execution_log, evidence_pack, at>>
        /\ dispatched' = [dispatched EXCEPT ![Current(p)] = @ + 1]
        /\ CallsOf(outcome'[p]) = 1
    BY <1>0, <1>5, <2>1, ProcessAssumption DEF execute_action, CallsOf, Base, LoopsOK, LoopOK, Current
  <2>3. Current(p)' = Current(p) /\ dispatched[Current(p)] = 0
    BY <1>1, <2>2 DEF LoneRun, Looping, Appending, Current
  <2>4. dispatched'[Current(p)] = 1
    BY <1>0, <1>1, <2>2, <2>3
  <2>5. \A i \in 1..Len(proposed_actions) :
          i # at[p] => dispatched'[proposed_actions[i]] = dispatched[proposed_actions[i]]
    BY <1>0, <1>1, <1>2, <2>2
  <2>6. Done(p) = at[p] - 1 /\ Done(p)' = at[p] - 1 /\ at[p] \in Nat
    BY <1>0, <2>2 DEF Done, Looping
  <2>7. \A i \in 1..Done(p)' :
          /\ execution_log'[i].action = proposed_actions'[i]
          /\ dispatched'[proposed_actions'[i]] = CallsOf(execution_log'[i].status)
    <3> SUFFICES ASSUME NEW i \in 1..Done(p)
        PROVE  /\ execution_log[i].action = proposed_actions[i]
               /\ dispatched'[proposed_actions[i]] = CallsOf(execution_log[i].status)
      BY <2>2, <2>6
    <3>1. i \in 1..Len(proposed_actions) /\ i # at[p]
      BY <1>0, <2>2, <2>6
    <3> QED BY <2>5, <3>1 DEF LoneRun
  <2>8. \A i \in 1..Len(proposed_actions) : at[p] < i => dispatched'[proposed_actions[i]] = 0
    BY <1>1, <2>2, <2>5, <2>6 DEF LoneRun, Looping, Appending
  <2> QED BY <2>2, <2>3, <2>4, <2>6, <2>7, <2>8 DEF LoneRun, Appending, Looping
<1>6. CASE append_reads(p)
  <2>1. /\ pc[p] = "read_log" /\ pc'[p] = "write_log" /\ seen'[p] = execution_log
        /\ UNCHANGED <<proposed_actions, execution_log, evidence_pack, dispatched, at, outcome>>
    BY <1>0, <1>6 DEF append_reads, external
  <2> QED BY <2>1 DEF LoneRun, Looping, Appending, Done, Current
<1>7. CASE append_writes(p, proposed_actions)
  <2>1. /\ pc[p] = "write_log" /\ pc'[p] = "check" /\ at[p] <= Len(proposed_actions)
        /\ execution_log' = Append(execution_log, Pending(p))
        /\ at'[p] = at[p] + 1
        /\ UNCHANGED <<proposed_actions, evidence_pack, dispatched>>
    BY <1>0, <1>7 DEF append_writes, external, LoneRun, Pending, Current, Base, LoopsOK, LoopOK
  <2>2. Done(p) = at[p] - 1 /\ Done(p)' = at[p] /\ at[p] \in Nat
    BY <1>0, <2>1 DEF Done, Looping
  <2>3. /\ Len(execution_log) = at[p] - 1 /\ Len(execution_log') = at[p]
        /\ \A i \in 1..(at[p] - 1) : execution_log'[i] = execution_log[i]
        /\ execution_log'[at[p]] = Pending(p)
    BY <1>0, <2>1, <2>2 DEF LoneRun
  <2>4. /\ Pending(p).action = proposed_actions[at[p]]
        /\ dispatched[proposed_actions[at[p]]] = CallsOf(Pending(p).status)
    BY <1>1, <2>1 DEF LoneRun, Pending, Appending
  <2>5. \A i \in 1..Done(p)' :
          /\ execution_log'[i].action = proposed_actions'[i]
          /\ dispatched'[proposed_actions'[i]] = CallsOf(execution_log'[i].status)
    <3> SUFFICES ASSUME NEW i \in 1..at[p]
        PROVE  /\ execution_log'[i].action = proposed_actions[i]
               /\ dispatched[proposed_actions[i]] = CallsOf(execution_log'[i].status)
      BY <2>1, <2>2
    <3>1. CASE i = at[p]
      BY <2>3, <2>4, <3>1
    <3>2. CASE i # at[p]
      <4>1. i \in 1..(at[p] - 1)
        BY <2>2, <3>2
      <4> QED BY <2>2, <2>3, <4>1 DEF LoneRun
    <3> QED BY <3>1, <3>2
  <2>6. \A i \in 1..Len(proposed_actions) : at[p] < i => dispatched[proposed_actions[i]] = 0
    BY <2>1, <2>2 DEF LoneRun, Looping, Appending
  <2> QED BY <2>1, <2>2, <2>3, <2>5, <2>6 DEF LoneRun, Looping, Appending
<1>8. CASE contain_case(p, proposed_actions)
  <2>0. at[p] <= Len(proposed_actions) + 1 /\ at[p] > Len(proposed_actions)
    BY <1>8 DEF contain_case, Base, LoopsOK, LoopOK, Active, StoppedPC
  <2>1. /\ pc[p] = "check" /\ pc'[p] = "collect" /\ at[p] = Len(proposed_actions) + 1
        /\ UNCHANGED <<proposed_actions, execution_log, evidence_pack, dispatched>>
    BY <1>0, <1>8, <2>0 DEF contain_case, external
  <2>2. Done(p) = Len(proposed_actions) /\ Done(p)' = Len(proposed_actions)
    BY <1>0, <2>1 DEF Done, Looping
  <2> QED BY <2>1, <2>2 DEF LoneRun, Looping, Appending
<1>9. CASE update_case_node(p)
  <2>1. /\ UNCHANGED <<proposed_actions, execution_log, dispatched>>
        /\ pc[p] \in {"collect", "seal", "resolve"} /\ pc'[p] \in {"seal", "resolve", "finished"}
        /\ pc'[p] = "seal" => seen'[p] = execution_log
        /\ pc'[p] \in {"resolve", "finished"} =>
             evidence_pack' = IF pc[p] = "seal" THEN seen[p] ELSE evidence_pack
        /\ pc[p] = "collect" => pc'[p] = "seal"
    BY <1>0, <1>9 DEF update_case_node, collect_evidence, seal_evidence, close_case, external,
                      set_evidence_pack
  <2>2. Done(p) = Len(proposed_actions) /\ Done(p)' = Len(proposed_actions)
    BY <2>1 DEF Done, Looping
  <2> QED BY <2>1, <2>2 DEF LoneRun, Looping, Appending
<1>10. ~ execute_action_raises(p, proposed_actions)
  BY <1>0 DEF execute_action_raises
<1> QED BY <1>3, <1>4, <1>5, <1>6, <1>7, <1>8, <1>9, <1>10 DEF Execute, Run, execute_node

\* Nothing but its own steps and a crash touches a run
LEMMA RunRests ==
  ASSUME Base, [Next]_vars, NEW p \in Process, HasRun(p), \A q \in Process : ~ Execute(q)
  PROVE  \/ pc'[p] = "lost"
         \/ /\ pc'[p] = pc[p]
            /\ Executing(p) => at'[p] = at[p] /\ seen'[p] = seen[p] /\ outcome'[p] = outcome[p]
<1> USE DEF HasRun, Executing, ExecutionPC, goto, runVars
<1>0. /\ pc \in [Process -> PC] /\ at \in [Process -> Nat \ {0}]
      /\ Trigger \in Process /\ Request \subseteq Process /\ Trigger \notin Request
  BY ProcessAssumption DEF Base, TypeOK, Process
<1> DEFINE Rests == /\ pc'[p] = pc[p]
                    /\ Executing(p) => /\ at'[p] = at[p] /\ seen'[p] = seen[p]
                                       /\ outcome'[p] = outcome[p]
<1>1. CASE Orchestrate
  BY <1>0, <1>1
     DEF Orchestrate, trigger_workflow, ingest_alerts_node, investigate_nodes,
         analyze_node_raises, plan_actions_node, human_approve_node
<1>2. ASSUME NEW r \in Request, submit_approval(r) PROVE Rests
  BY <1>0, <1>2 DEF submit_approval
<1>3. ASSUME NEW r \in Request, Approve(r) PROVE Rests
  BY <1>0, <1>3 DEF Approve, approve_action, refuse_duplicate, accept_vote, add_record,
              close_rejected, tally_action, resume_workflow
<1>4. CASE Poll
  BY <1>4 DEF Poll, poll_shuffle, poll_answers, poll_misses, poll_writes, poll_times_out
<1>5. CASE Crash
  BY <1>0, <1>5 DEF Crash, Active, StoppedPC
<1>6. CASE UNCHANGED vars
  BY <1>6 DEF vars
<1> QED BY <1>1, <1>2, <1>3, <1>4, <1>5, <1>6 DEF Next

\* A run starts in front of the first action
LEMMA RunStarts ==
  ASSUME Base, StartedOK, [Next]_vars, NEW p \in Process, ~ HasRun(p), HasRun(p)',
         \A q \in Process : ~ Execute(q)
  PROVE  pc'[p] \in {"lost", "failed"} \/ (pc'[p] = "check" /\ at'[p] = 1)
<1> USE DEF HasRun, Executing, ExecutionPC, goto, runVars
<1>0. /\ pc \in [Process -> PC] /\ at \in [Process -> Nat \ {0}]
      /\ Trigger \in Process /\ Request \subseteq Process /\ Trigger \notin Request
  BY ProcessAssumption DEF Base, TypeOK, Process
<1> DEFINE Starts == pc'[p] = "check" /\ at'[p] = 1
<1>1. CASE Orchestrate
  BY <1>0, <1>1
     DEF Orchestrate, trigger_workflow, ingest_alerts_node, investigate_nodes, PlanningPC,
         analyze_node_raises, plan_actions_node, human_approve_node, route_after_plan, StartedOK
<1>2. ASSUME NEW r \in Request, submit_approval(r) PROVE Starts
  BY <1>0, <1>2 DEF submit_approval
<1>3. ASSUME NEW r \in Request, Approve(r) PROVE Starts
  BY <1>0, <1>3 DEF Approve, approve_action, refuse_duplicate, accept_vote, add_record,
              close_rejected, tally_action, resume_workflow
<1>4. CASE Poll
  BY <1>4 DEF Poll, poll_shuffle, poll_answers, poll_misses, poll_writes, poll_times_out
<1>5. CASE Crash
  BY <1>0, <1>5 DEF Crash, Active, StoppedPC
<1>6. CASE UNCHANGED vars
  BY <1>6 DEF vars
<1> QED BY <1>1, <1>2, <1>3, <1>4, <1>5, <1>6 DEF Next

LEMMA LoneOKStep ==
  ASSUME Base, Base', PlanOK, StartedOK, Synchronous, pollers = {}, UntouchedOK, LoneOK,
         [Next]_vars
  PROVE  LoneOK'
<1> SUFFICES ASSUME NEW p \in Process, Alone(p)', Executing(p)' \/ pc'[p] = "finished"
             PROVE  LoneRun(p)'
  BY DEF LoneOK
<1>1. HasRun(p)' /\ pc'[p] \notin {"lost", "failed"}
  BY DEF HasRun, Executing, ExecutionPC
<1>2. Alone(p)
  BY RunsGoOn DEF Alone
<1>3. CASE Execute(p)
  BY <1>1, <1>2, <1>3, ExecuteIsRunning, LoneRunExecutes DEF LoneOK
<1>4. CASE ~ Execute(p)
  <2>1. \A q \in Process : ~ Execute(q)
    BY <1>2, <1>4, ExecuteIsRunning DEF Alone
  <2>2. UNCHANGED <<execution_log, evidence_pack, dispatched>>
    BY <2>1, OnlyRunsWrite
  <2>3. CASE HasRun(p)
    <3>1. /\ pc'[p] = pc[p]
          /\ Executing(p) => at'[p] = at[p] /\ seen'[p] = seen[p] /\ outcome'[p] = outcome[p]
      BY <1>1, <2>1, <2>3, RunRests
    <3>2. LoneRun(p)
      BY <1>2, <3>1 DEF LoneOK, Executing
    <3>3. proposed_actions' = proposed_actions
      BY <3>1, PlanStep DEF PlanOK, StartedOK, Executing
    <3>4. /\ Looping(p)' = Looping(p) /\ Appending(p)' = Appending(p)
          /\ Looping(p) \/ Appending(p) \/ pc[p] \in {"write_log", "seal"} => Executing(p)
      BY <3>1 DEF Looping, Appending, Executing, ExecutionPC
    <3>5. Done(p)' = Done(p) /\ (Appending(p) => Current(p)' = Current(p))
      BY <3>1, <3>3, <3>4 DEF Done, Current
    <3> QED BY <2>2, <3>1, <3>2, <3>3, <3>4, <3>5 DEF LoneRun
  <2>4. CASE ~ HasRun(p)
    <3>1. pc'[p] = "check" /\ at'[p] = 1
      BY <1>1, <2>1, <2>4, RunStarts
    <3>2. execution_log' = <<>> /\ \A a \in Action : dispatched'[a] = 0
      BY <1>2, <2>2, <2>4 DEF UntouchedOK, Alone
    <3>3. \A i \in 1..Len(proposed_actions') : proposed_actions'[i] \in Action
      <4>1. TypeOK'
        BY DEF Base
      <4>2. playbook' \in Seq(Action) /\ (proposed_actions' = <<>> \/ proposed_actions' = playbook')
        BY <4>1, PlaybookAssumption DEF TypeOK
      <4>3. CASE proposed_actions' = <<>>
        BY <4>3
      <4>4. CASE proposed_actions' = playbook'
        BY <4>2, <4>4
      <4> QED BY <4>2, <4>3, <4>4
    <3>4. Done(p)' = 0 /\ Len(execution_log') = 0 /\ ~ Appending(p)'
      BY <3>1, <3>2 DEF Done, Looping, Appending
    <3> QED BY <3>1, <3>2, <3>3, <3>4 DEF LoneRun
  <2> QED BY <2>3, <2>4
<1> QED BY <1>3, <1>4

LEMMA LoneInvInit == Init => LoneInv
<1> SUFFICES ASSUME Init PROVE LoneInv
  OBVIOUS
<1> USE DEF Init, StoreInit, OrchestrationInit
<1>1. Trigger \in Process /\ \A p \in Process : pc[p] \in {"ingest", "idle"}
  BY DEF Process
<1>2. \A p \in Process : ~ Executing(p) /\ pc[p] # "finished"
  BY <1>1 DEF Executing, ExecutionPC
<1>3. StartedOK
  BY <1>1, <1>2 DEF StartedOK
<1>4. pollers = {} /\ UntouchedOK /\ LoneOK
  BY <1>2 DEF UntouchedOK, LoneOK
<1> QED BY <1>3, <1>4 DEF LoneInv

LEMMA LoneInvStep == Inv /\ Inv' /\ LoneInv /\ [Next]_vars => LoneInv'
<1> SUFFICES ASSUME Inv, Inv', LoneInv, [Next]_vars PROVE LoneInv'
  OBVIOUS
<1>1. Base /\ Base' /\ PlanOK
  BY DEF Inv
<1>2. StartedOK'
  BY <1>1, StartedOKStep DEF LoneInv
<1>3. ASSUME Synchronous PROVE pollers' = {} /\ UntouchedOK' /\ LoneOK'
  BY <1>1, <1>3, NoPollers, UntouchedStep, LoneOKStep DEF LoneInv
<1>4. Synchronous' = Synchronous
  BY DEF Synchronous
<1> QED BY <1>2, <1>3, <1>4 DEF LoneInv

\* Where the executor answers at once, the log and the sealed pack of a case
\* one run took to its end list every proposed action once, in playbook
\* order, and say "skipped" exactly where the executor was not called.  The
\* hypothesis is needed: with an asynchronous step the poller writes back an
\* old copy of the log, and a step appended meanwhile is gone.
THEOREM LoneRunIsAccounted == Spec => [](Synchronous => SoleRunIsAccounted)
<1>1. ASSUME LoneInv, Synchronous PROVE SoleRunIsAccounted
  <2> SUFFICES ASSUME NEW p \in Process, pc[p] = "finished", Alone(p)
      PROVE  /\ Len(execution_log) = Len(proposed_actions)
             /\ Len(evidence_pack) = Len(proposed_actions)
             /\ \A i \in 1..Len(proposed_actions) :
                  /\ execution_log[i].action = proposed_actions[i]
                  /\ evidence_pack[i].action = proposed_actions[i]
                  /\ dispatched[proposed_actions[i]] =
                       IF execution_log[i].status = "skipped" THEN 0 ELSE 1
    BY DEF SoleRunIsAccounted, Alone
  <2>1. LoneRun(p)
    BY <1>1 DEF LoneInv, LoneOK
  <2>2. Done(p) = Len(proposed_actions) /\ evidence_pack = execution_log
    BY <2>1 DEF LoneRun, Done, Looping
  <2> QED BY <2>1, <2>2 DEF LoneRun, CallsOf
<1>2. LoneInv => (Synchronous => SoleRunIsAccounted)
  BY <1>1
<1> QED BY <1>2, LoneInvInit, LoneInvStep, Invariance, PTL DEF Spec
-----------------------------------------------------------------------------
(* The status a step of the log gets from the executor, for every          *)
(* configuration and every answer of Shuffle.                              *)

(***************************************************************************)
(* What start-up announces of an action that Shuffle will be called for    *)
(* (core/security.py:191-226, execution/mock.py:70-88), for all settings:  *)
(* the announcement is wrong, and says mock, exactly when the id is one of *)
(* blanks in a variable the executor looks up itself, where nothing strips *)
(* it, and the JSON has no other.                                          *)
(***************************************************************************)
THEOREM WronglyAnnouncedAsMock ==
  ASSUME NEW Id, NEW s \in Executor!Settings(Id), NEW t \in Executor!ActionTypes,
         Executor!CallsShuffle(s, t)
  PROVE  t \in Executor!AnnouncedMock(s)
           <=> t \in Executor!LookedUp /\ s.env[t] = Executor!Blank /\ s.json[t] = Executor!NoId
<1> DEFINE own == [u \in Executor!ActionTypes |-> IF u \in Executor!LookedUp THEN s.env[u] ELSE Executor!NoId]
           loaded == Executor!load_workflow_map(s)[t]
<1>1. Executor!get_executor(s) # "mock" /\ Executor!workflow_map(s)[t] # Executor!NoId
  BY DEF Executor!CallsShuffle
<1>2. t \in Executor!AnnouncedMock(s) <=> loaded = Executor!NoId
  BY <1>1 DEF Executor!AnnouncedMock
<1>3. loaded = IF Executor!strip(s.env[t]) # Executor!NoId THEN Executor!strip(s.env[t]) ELSE s.json[t]
  BY DEF Executor!load_workflow_map
<1>4. /\ Executor!strip(s.env[t]) = Executor!NoId
           <=> s.env[t] = Executor!NoId \/ s.env[t] = Executor!Blank
      /\ Executor!Blank # Executor!NoId
  BY DEF Executor!strip, Executor!Blank, Executor!NoId
<1>5. loaded = Executor!NoId
        <=> (s.env[t] = Executor!NoId \/ s.env[t] = Executor!Blank) /\ s.json[t] = Executor!NoId
  BY <1>3, <1>4
<1>6. own[t] = IF t \in Executor!LookedUp THEN s.env[t] ELSE Executor!NoId
  OBVIOUS
\* A variable of the executor is set: it looks nowhere else
<1>7. CASE \E u \in Executor!ActionTypes : own[u] # Executor!NoId
  <2>1. own[t] # Executor!NoId
    BY <1>1, <1>7 DEF Executor!workflow_map
  <2>2. t \in Executor!LookedUp /\ s.env[t] # Executor!NoId
    BY <1>6, <2>1
  <2> QED BY <1>2, <1>5, <2>2
\* ... or none is, and it looks where start-up looked
<1>8. CASE ~ \E u \in Executor!ActionTypes : own[u] # Executor!NoId
  <2>1. loaded # Executor!NoId
    BY <1>1, <1>8 DEF Executor!workflow_map
  <2>2. own[t] = Executor!NoId
    BY <1>8
  <2>3. ~ (t \in Executor!LookedUp /\ s.env[t] = Executor!Blank)
    BY <1>4, <1>6, <2>2
  <2> QED BY <1>2, <2>1, <2>3
<1> QED BY <1>7, <1>8

(***************************************************************************)
(* What becomes of a step, for all settings and every answer of Shuffle    *)
(* (execution/mock.py:70-93, shuffle.py:125-142, nodes.py:533-545).  An    *)
(* answer in JSON that is no object ends the run; a step is left executing *)
(* exactly if Shuffle says so; it fails exactly if Shuffle answers with a  *)
(* status it has no place for, though that be "completed"; everything      *)
(* else, no answer included, is logged as done.  A step left executing is  *)
(* polled exactly if it has an execution id.                               *)
(***************************************************************************)
THEOREM AnswersBecomeOutcomes ==
  ASSUME NEW Id, NEW s \in Executor!Settings(Id), NEW t \in Executor!ActionTypes,
         NEW r \in Executor!Response
  PROVE  /\ Executor!Logged(s, t, r) \in {"success", "failed", "executing", "raises"}
         /\ Executor!Logged(s, t, r) = "raises"
              <=> Executor!CallsShuffle(s, t) /\ r.kind = "no_object"
         /\ Executor!Logged(s, t, r) = "executing"
              <=> /\ Executor!CallsShuffle(s, t) /\ r.kind = "object"
                  /\ r.status \in {"executing", "EXECUTING", "queued"}
         /\ Executor!Logged(s, t, r) = "failed"
              <=> /\ Executor!CallsShuffle(s, t) /\ r.kind = "object"
                  /\ r.status \notin {"", "executing", "EXECUTING", "queued", "success"}
         /\ Executor!Logged(s, t, r) = "executing" =>
              (Executor!Polled(Executor!execute(s, t, r)) <=> r.id)
<1> DEFINE called == Executor!CallsShuffle(s, t)
           logged == Executor!Logged(s, t, r)
<1>1. CASE called /\ r.kind = "no_object"
  <2>1. Executor!Raises(s, t, r)
    BY <1>1 DEF Executor!Raises
  <2>2. logged = "raises"
    BY <2>1 DEF Executor!Logged
  <2> QED BY <1>1, <2>2
<1>2. CASE called /\ r.kind = "object"
  <2> DEFINE result == Executor!ShuffleResult(r)
  <2>1. r.status \in Executor!Status /\ r.id \in BOOLEAN
    BY <1>2 DEF Executor!Response
  <2>2. ~ Executor!Raises(s, t, r) /\ Executor!execute(s, t, r) = result
    BY <1>2 DEF Executor!Raises, Executor!execute
  <2>3. logged = Executor!StepStatus(result)
    BY <2>2 DEF Executor!Logged
  <2>4. /\ result.executor = "shuffle" /\ result.state = r.status /\ result.id = r.id
        /\ result.success <=> r.status \in {"", "executing", "success", "queued"}
    BY DEF Executor!ShuffleResult
  <2> HIDE DEF result
  <2>5. Executor!lower(r.status) \in {"executing", "queued"}
          <=> r.status \in {"executing", "EXECUTING", "queued"}
    BY <2>1 DEF Executor!lower, Executor!Status
  <2>6. /\ Executor!StepStatus(result) = "executing"
             <=> r.status \in {"executing", "EXECUTING", "queued"}
        /\ Executor!StepStatus(result) = "failed"
             <=> r.status \notin {"", "executing", "EXECUTING", "queued", "success"}
        /\ Executor!StepStatus(result) \in {"success", "failed", "executing"}
    BY <2>4, <2>5 DEF Executor!StepStatus
  <2>7. Executor!StepStatus(result) = "executing" => (Executor!Polled(result) <=> r.id)
    BY <2>4 DEF Executor!Polled
  <2> HIDE DEF logged
  <2> QED BY <1>2, <2>2, <2>3, <2>6, <2>7 DEF logged
<1>3. CASE ~ called \/ r.kind = "failed"
  <2>1. ~ Executor!Raises(s, t, r) /\ Executor!execute(s, t, r) = Executor!MockResult
    BY <1>3 DEF Executor!Raises, Executor!execute
  <2>2. Executor!StepStatus(Executor!MockResult) = "success"
    BY DEF Executor!StepStatus, Executor!MockResult
  <2>3. logged = "success"
    BY <2>1, <2>2 DEF Executor!Logged
  <2> QED BY <1>3, <2>3
<1>4. r.kind \in {"object", "failed", "no_object"}
  BY DEF Executor!Response
<1> QED BY <1>1, <1>2, <1>3, <1>4
-----------------------------------------------------------------------------
(* The dashboard that watches the case.                                    *)

LEMMA LiveStepIsCaseStep ==
  ASSUME [LiveNext]_liveVars
  PROVE  [Next]_vars
<1> USE DEF vars, caseVars
<1>1. ASSUME NEW p \in Process, Advance(p) PROVE Next
  BY <1>1 DEF Advance, Next
<1>2. ASSUME NEW p \in Process, Broadcast(p) PROVE UNCHANGED vars
  BY <1>2 DEF Broadcast, publish, send
<1>3. ASSUME NEW r \in Request, Submit(r) PROVE Next
  BY <1>3 DEF Submit, Next
<1>4. ASSUME NEW c \in Client,
             \/ connect(c) \/ break_connection(c) \/ stall(c) \/ ping_timeout(c)
             \/ poll_page(c) \/ Load(c) \/ show(c) \/ load_fails(c)
      PROVE  UNCHANGED vars
  BY <1>4 DEF connect, break_connection, stall, ping_timeout, poll_page, Load,
              list_all_pending, get_case, show, load_fails
<1>5. ASSUME NEW s \in connections, disconnect(s) PROVE UNCHANGED vars
  BY <1>5 DEF disconnect
<1>6. CASE create_newer
  BY <1>6 DEF create_newer
<1>7. CASE UNCHANGED liveVars
  BY <1>7 DEF liveVars
<1> QED BY <1>1, <1>2, <1>3, <1>4, <1>5, <1>6, <1>7 DEF LiveNext

\* Watching a case never changes it: whatever connections and loads do, the
\* case takes the steps it would take unwatched, only later.  So everything
\* proved of the case holds of a watched one.
THEOREM WatchedCaseIsCase == LiveSpec => Spec
<1>1. LiveInit => Init
  BY DEF LiveInit
<1>2. [LiveNext]_liveVars => [Next]_vars
  BY LiveStepIsCaseStep
<1> QED BY <1>1, <1>2, PTL DEF LiveSpec, Spec

Sending == [event : Event \cup {"none"}, left : SUBSET Socket, dead : SUBSET Socket]

\* The connections, and what is being sent over them.  A tab loses a
\* connection by a failure, at once or after it has stalled.
SocketsTyped ==
  /\ due \in [Process -> Seq(Event)]
  /\ sending \in [Process -> Sending]
  /\ connections \subseteq Socket
  /\ socket \in [Client -> {"closed", "open", "stalled"}]
  /\ session \in [Client -> Nat]
  /\ asked \subseteq Client
  /\ newer \in 0..MaxNewer
  /\ failures \in 0..MaxFailures
  /\ \A c \in Client :
       session[c] + (IF socket[c] = "stalled" THEN 1 ELSE 0) <= failures

LEMMA PublishedTyped ==
  ASSUME NEW p \in Process
  PROVE  published(p) \in Seq(Event)
<1>1. \A e \in Event : Answered(p, e) \in Seq(Event)
  BY DEF Answered
<1>2. <<"case_resolved">> \in Seq(Event)
  BY DEF Event
<1>3. <<"case_resolved">> \o Answered(p, "approval_submitted") \in Seq(Event)
  BY <1>1, <1>2, ConcatProperties DEF Event
<1>4. <<"execution_step">> \in Seq(Event) /\ <<>> \in Seq(Event)
  BY DEF Event
<1>5. Answered(p, "approval_submitted") \in Seq(Event) /\ Answered(p, "approval_rejected") \in Seq(Event)
  BY <1>1 DEF Event
<1> QED BY <1>3, <1>4, <1>5 DEF published

LEMMA SocketsInit == LiveInit => SocketsTyped
<1> SUFFICES ASSUME LiveInit PROVE SocketsTyped
  OBVIOUS
<1> USE ConsoleAssumption DEF LiveInit, ConsoleInit
<1>1. <<"case_created">> \in Seq(Event) /\ <<>> \in Seq(Event)
  BY DEF Event
<1>2. NoBroadcast \in Sending
  BY DEF NoBroadcast, Sending
<1>3. due \in [Process -> Seq(Event)] /\ sending \in [Process -> Sending]
  BY <1>1, <1>2
<1>4. connections \subseteq Socket
  BY DEF Socket
<1> QED BY <1>3, <1>4 DEF SocketsTyped

LEMMA SocketsStep ==
  ASSUME SocketsTyped, [LiveNext]_liveVars
  PROVE  SocketsTyped'
<1> USE ConsoleAssumption DEF SocketsTyped, socketVars, consoleVars, loadVars
<1>0. NoBroadcast \in Sending
  BY DEF NoBroadcast, Sending
<1>1. ASSUME NEW p \in Process, Advance(p) PROVE SocketsTyped'
  BY <1>1, PublishedTyped DEF Advance
<1>2. ASSUME NEW p \in Process, publish(p) PROVE SocketsTyped'
  <2>1. Head(due[p]) \in Event /\ Tail(due[p]) \in Seq(Event)
    BY <1>2, HeadTailProperties DEF publish
  <2>2. [event |-> Head(due[p]), left |-> connections, dead |-> {}] \in Sending
    BY <2>1 DEF Sending
  <2>3. due' \in [Process -> Seq(Event)] /\ sending' \in [Process -> Sending]
    BY <1>2, <2>1, <2>2 DEF publish
  <2> QED BY <1>2, <2>3 DEF publish
<1>3. ASSUME NEW p \in Process, send(p) PROVE SocketsTyped'
  <2>1. PICK s \in sending[p].left :
          LET dead == sending[p].dead \cup IF Broken(s) THEN {s} ELSE {}
          IN  /\ asked' = IF ~ Broken(s) /\ Hears(s[1], sending[p].event)
                          THEN asked \cup {s[1]} ELSE asked
              /\ IF sending[p].left = {s}
                 THEN end_publish(p, dead)
                 ELSE /\ sending' = [sending EXCEPT ![p].left = @ \ {s}, ![p].dead = dead]
                      /\ UNCHANGED connections
    BY <1>3 DEF send
  <2> DEFINE dead == sending[p].dead \cup IF Broken(s) THEN {s} ELSE {}
  <2>2. sending[p] \in Sending
    OBVIOUS
  <2>3. s \in Socket /\ sending[p].left \subseteq Socket /\ dead \subseteq Socket
    BY <2>2 DEF Sending
  <2>4. asked' \subseteq Client
    BY <2>1, <2>3 DEF Socket
  <2>5. connections' \subseteq Socket
    BY <2>1 DEF end_publish
  <2>6. sending' \in [Process -> Sending]
    <3>1. CASE sending[p].left = {s}
      BY <1>0, <2>1, <3>1 DEF end_publish
    <3>2. CASE sending[p].left # {s}
      <4>1. sending' = [sending EXCEPT ![p] =
                          [event |-> @.event, left |-> @.left \ {s}, dead |-> dead]]
        BY <2>1, <2>2, <3>2 DEF Sending
      <4>2. [event |-> sending[p].event, left |-> sending[p].left \ {s}, dead |-> dead] \in Sending
        BY <2>2, <2>3 DEF Sending
      <4> QED BY <4>1, <4>2
    <3> QED BY <3>1, <3>2
  <2> QED BY <1>3, <2>4, <2>5, <2>6 DEF send
<1>4. ASSUME NEW r \in Request, Submit(r) PROVE SocketsTyped'
  BY <1>4 DEF Submit
<1>5. ASSUME NEW c \in Client, connect(c) PROVE SocketsTyped'
  BY <1>5 DEF connect, Socket
<1>6. ASSUME NEW c \in Client, break_connection(c) \/ stall(c) \/ ping_timeout(c)
      PROVE  SocketsTyped'
  <2>1. CASE break_connection(c)
    BY <2>1 DEF break_connection, end_session
  <2>2. CASE stall(c)
    BY <2>2 DEF stall
  <2>3. CASE ping_timeout(c)
    BY <2>3 DEF ping_timeout, end_session
  <2> QED BY <1>6, <2>1, <2>2, <2>3
<1>7. ASSUME NEW c \in Client, poll_page(c) \/ Load(c) \/ show(c) \/ load_fails(c)
      PROVE  SocketsTyped'
  <2>1. asked' \subseteq Client
    BY <1>7 DEF poll_page, Load, list_all_pending, get_case, show, load_fails
  <2>2. UNCHANGED <<newer, due, sending, connections, socket, session>>
    BY <1>7 DEF poll_page, Load, list_all_pending, get_case, show, load_fails
  <2>3. failures' \in 0..MaxFailures /\ failures' >= failures
    <3>1. CASE poll_page(c) \/ Load(c)
      BY <3>1 DEF poll_page, Load, list_all_pending, get_case
    <3>2. CASE show(c)
      BY <3>2 DEF show
    <3>3. CASE load_fails(c)
      BY <3>3 DEF load_fails
    <3> QED BY <1>7, <3>1, <3>2, <3>3
  <2> QED BY <2>1, <2>2, <2>3
<1>8. ASSUME NEW s \in connections, disconnect(s) PROVE SocketsTyped'
  BY <1>8 DEF disconnect
<1>9. CASE create_newer
  BY <1>9 DEF create_newer
<1>10. CASE UNCHANGED liveVars
  BY <1>10 DEF liveVars
<1> QED
  BY <1>1, <1>2, <1>3, <1>4, <1>5, <1>6, <1>7, <1>8, <1>9, <1>10 DEF LiveNext, Broadcast

\* What a page can show
View(pg) == IF pg = "case" THEN CaseView \cup {BlankCase} ELSE SUBSET Item

LoadsTyped ==
  /\ page \in [Client -> Page]
  /\ reading \in [Client -> (SUBSET Action) \cup {NotReading}]
  /\ answers \in [Client -> UNION {Seq(View(pg)) : pg \in Page}]
  /\ shown \in [Client -> UNION {View(pg) : pg \in Page}]
  /\ \A c \in Client : answers[c] \in Seq(View(page[c])) /\ shown[c] \in View(page[c])

LEMMA LoadsInit == LiveInit => LoadsTyped /\ page \in Screens
<1> SUFFICES ASSUME LiveInit PROVE LoadsTyped /\ page \in Screens
  OBVIOUS
<1> USE ConsoleAssumption DEF LiveInit, ConsoleInit
<1>1. \A pg \in Page : Blank(pg) \in View(pg)
  BY DEF Blank, View
<1>2. \A pg \in Page : <<>> \in Seq(View(pg))
  OBVIOUS
<1>3. page \in [Client -> Page]
  OBVIOUS
<1>4. shown \in [Client -> UNION {View(pg) : pg \in Page}]
  BY <1>1, <1>3
<1>5. answers \in [Client -> UNION {Seq(View(pg)) : pg \in Page}]
  BY <1>2, <1>3
<1> QED BY <1>1, <1>2, <1>3, <1>4, <1>5 DEF LoadsTyped

\* The lists the server answers with
LEMMA ItemsTyped ==
  ASSUME TypeOK, NEW actions \in SUBSET Action
  PROVE  list_items(actions) \in SUBSET Item
<1>1. ASSUME NEW a \in Action PROVE PendingItem(a) \in Item
  <2>1. ApprovedRoles(list_by_action(a)) \subseteq ApprovalRole
    BY DEF ApprovedRoles, list_by_action, TypeOK, Record
  <2>2. AnyRejected(list_by_action(a)) \in BOOLEAN
    BY DEF AnyRejected
  <2> QED BY <2>1, <2>2 DEF PendingItem, Item
<1> QED BY <1>1 DEF list_items

LEMMA ListOpenTyped ==
  ASSUME TypeOK
  PROVE  list_open \in SUBSET Action
<1>1. proposed_actions \in Seq(Action)
  BY SequencesTyped
<1>2. GatedActions(proposed_actions) \subseteq Action
  BY <1>1 DEF GatedActions
<1> QED BY <1>2 DEF list_open

LEMMA LoadsStep ==
  ASSUME TypeOK, LoadsTyped, [LiveNext]_liveVars
  PROVE  LoadsTyped' /\ page' = page
<1> USE DEF socketVars, consoleVars, loadVars
<1>1. ASSUME UNCHANGED <<page, reading, answers, shown>> PROVE LoadsTyped' /\ page' = page
  BY <1>1 DEF LoadsTyped
<1>2. ASSUME NEW p \in Process, Advance(p) \/ Broadcast(p) PROVE LoadsTyped' /\ page' = page
  BY <1>1, <1>2 DEF Advance, Broadcast, publish, send
<1>3. ASSUME NEW r \in Request, Submit(r) PROVE LoadsTyped' /\ page' = page
  BY <1>1, <1>3 DEF Submit
<1>4. ASSUME NEW c \in Client,
             connect(c) \/ break_connection(c) \/ stall(c) \/ ping_timeout(c) \/ poll_page(c)
      PROVE  LoadsTyped' /\ page' = page
  BY <1>1, <1>4 DEF connect, break_connection, stall, ping_timeout, poll_page
<1>5. ASSUME NEW s \in connections, disconnect(s) PROVE LoadsTyped' /\ page' = page
  BY <1>1, <1>5 DEF disconnect
\* A view of the right kind is put behind the answers of a tab
<1>6. ASSUME NEW c \in Client, NEW view \in View(page[c]), answer(c, view),
             UNCHANGED <<page, shown>>, reading' = reading \/ reading' = [reading EXCEPT ![c] = NotReading]
      PROVE  LoadsTyped'
  <2>1. Append(answers[c], view) \in Seq(View(page[c])) /\ page[c] \in Page
    BY DEF LoadsTyped
  <2>2. answers' = [answers EXCEPT ![c] = Append(answers[c], view)]
    BY <1>6 DEF answer
  <2>3. answers' \in [Client -> UNION {Seq(View(pg)) : pg \in Page}]
    BY <2>1, <2>2 DEF LoadsTyped
  <2>4. \A d \in Client : answers'[d] \in Seq(View(page[d]))
    BY <2>1, <2>2 DEF LoadsTyped
  <2>5. reading' \in [Client -> (SUBSET Action) \cup {NotReading}]
    BY <1>6 DEF LoadsTyped
  <2> QED BY <1>6, <2>3, <2>4, <2>5 DEF LoadsTyped
<1>7. ASSUME NEW c \in Client, list_all_pending(c) PROVE LoadsTyped' /\ page' = page
  <2>0. page[c] = "approvals" /\ page' = page /\ shown' = shown
    BY <1>7 DEF list_all_pending
  <2>1. CASE reading' = [reading EXCEPT ![c] = list_open] /\ UNCHANGED answers
    BY <2>0, <2>1, ListOpenTyped DEF LoadsTyped
  <2>2. CASE /\ reading[c] # NotReading /\ answer(c, list_items(reading[c]))
             /\ reading' = [reading EXCEPT ![c] = NotReading]
    <3>1. reading[c] \in SUBSET Action
      BY <2>2 DEF LoadsTyped
    <3>2. list_items(reading[c]) \in View(page[c])
      BY <2>0, <3>1, ItemsTyped DEF View
    <3> QED BY <1>6, <2>0, <2>2, <3>2
  <2> QED BY <1>7, <2>1, <2>2 DEF list_all_pending
<1>8. ASSUME NEW c \in Client, get_case(c) PROVE LoadsTyped' /\ page' = page
  <2>1. [status |-> status, log |-> execution_log] \in View(page[c])
    BY <1>8 DEF get_case, View, CaseView, TypeOK
  <2>2. /\ answer(c, [status |-> status, log |-> execution_log])
        /\ UNCHANGED <<page, shown, reading>>
    BY <1>8 DEF get_case
  <2> QED BY <1>6, <2>1, <2>2
<1>9. ASSUME NEW c \in Client, show(c) PROVE LoadsTyped' /\ page' = page
  <2>1. PICK i \in 1..Len(answers[c]) :
          /\ shown' = [shown EXCEPT ![c] = answers[c][i]]
          /\ answers' = [answers EXCEPT ![c] = SubSeq(@, 1, i - 1) \o SubSeq(@, i + 1, Len(@))]
    BY <1>9 DEF show
  <2>2. page' = page /\ reading' = reading
    BY <1>9 DEF show
  <2> DEFINE V == View(page[c])
             rest == SubSeq(answers[c], 1, i - 1) \o SubSeq(answers[c], i + 1, Len(answers[c]))
  <2>3. answers[c] \in Seq(V) /\ page[c] \in Page
    BY DEF LoadsTyped
  <2> HIDE DEF V
  <2>4. /\ Len(answers[c]) \in Nat /\ i \in Int
        /\ \A j \in 1..Len(answers[c]) : answers[c][j] \in V
    BY <2>3
  <2>5. SubSeq(answers[c], 1, i - 1) \in Seq(V) /\ SubSeq(answers[c], i + 1, Len(answers[c])) \in Seq(V)
    BY <2>4, SubSeqProperties
  <2>6. rest \in Seq(V) /\ answers[c][i] \in V
    BY <2>4, <2>5, ConcatProperties
  <2>7. answers' = [answers EXCEPT ![c] = rest]
    BY <2>1
  <2> HIDE DEF rest
  <2>8. answers' \in [Client -> UNION {Seq(View(pg)) : pg \in Page}]
    BY <2>3, <2>6, <2>7 DEF LoadsTyped, V
  <2>9. shown' \in [Client -> UNION {View(pg) : pg \in Page}]
    BY <2>1, <2>3, <2>6 DEF LoadsTyped, V
  <2>10. \A d \in Client : answers'[d] \in Seq(View(page[d])) /\ shown'[d] \in View(page[d])
    BY <2>1, <2>6, <2>7 DEF LoadsTyped, V
  <2> QED BY <2>2, <2>8, <2>9, <2>10 DEF LoadsTyped
<1>10. ASSUME NEW c \in Client, load_fails(c) PROVE LoadsTyped' /\ page' = page
  <2>1. /\ UNCHANGED <<page, reading, answers>>
        /\ shown' = shown \/ (page[c] # "case" /\ shown' = [shown EXCEPT ![c] = {}])
    BY <1>10 DEF load_fails
  <2>2. page[c] # "case" => {} \in View(page[c])
    BY DEF View
  <2>3. \A d \in Client : shown'[d] \in View(page[d])
    BY <2>1, <2>2 DEF LoadsTyped
  <2>4. shown' \in [Client -> UNION {View(pg) : pg \in Page}]
    BY <2>1, <2>2 DEF LoadsTyped
  <2> QED BY <2>1, <2>3, <2>4 DEF LoadsTyped
<1>11. CASE create_newer
  BY <1>1, <1>11 DEF create_newer
<1>12. CASE UNCHANGED liveVars
  BY <1>1, <1>12 DEF liveVars
<1> QED
  BY <1>2, <1>3, <1>4, <1>5, <1>7, <1>8, <1>9, <1>10, <1>11, <1>12 DEF LiveNext, Load

LiveInv == Inv /\ SocketsTyped /\ LoadsTyped /\ page \in Screens

LEMMA LiveInvariance == LiveSpec => []LiveInv
<1>1. LiveInit => SocketsTyped /\ LoadsTyped /\ page \in Screens
  BY SocketsInit, LoadsInit
<1>2. /\ Inv /\ SocketsTyped /\ LoadsTyped /\ page \in Screens
      /\ [LiveNext]_liveVars
      => SocketsTyped' /\ LoadsTyped' /\ (page \in Screens)'
  BY SocketsStep, LoadsStep DEF Inv, Base
<1>3. LiveSpec => []Inv
  BY WatchedCaseIsCase, Invariance, PTL
<1> QED BY <1>1, <1>2, <1>3, PTL DEF LiveSpec, LiveInv

\* Pages, connections and answers stay what they are meant to be.  The count
\* of connections a tab has lost needs an argument: each cost a failure, and
\* a stalled one has cost it already.
THEOREM ConsoleTypeCorrect == LiveSpec => []ConsoleTypeOK
<1>1. ASSUME LiveInv PROVE ConsoleTypeOK
  <2> USE <1>1 DEF LiveInv
  <2>1. \A c \in Client : session[c] \in 0..MaxFailures
    BY ConsoleAssumption DEF SocketsTyped
  <2>2. session \in [Client -> 0..MaxFailures]
    BY <2>1 DEF SocketsTyped
  <2>3. ASSUME NEW c \in Client
        PROVE  /\ reading[c] = NotReading \/ reading[c] \subseteq Action
               /\ LET views == {answers[c][i] : i \in 1..Len(answers[c])} \cup {shown[c]}
                  IN  IF page[c] = "case" THEN views \subseteq CaseView \cup {BlankCase}
                      ELSE views \subseteq SUBSET Item
    <3>1. answers[c] \in Seq(View(page[c])) /\ shown[c] \in View(page[c])
      BY DEF LoadsTyped
    <3>2. \A i \in 1..Len(answers[c]) : answers[c][i] \in View(page[c])
      BY <3>1
    <3>3. reading[c] = NotReading \/ reading[c] \subseteq Action
      BY DEF LoadsTyped
    <3> QED BY <3>1, <3>2, <3>3 DEF View
  <2> QED BY <2>2, <2>3 DEF ConsoleTypeOK, SocketsTyped, Sending
<1>2. LiveInv => ConsoleTypeOK
  BY <1>1
<1> QED BY <1>2, LiveInvariance, PTL

\* A button on an up-to-date approvals page is never refused, but for a role
\* that has deferred: an offered action is open to votes, and a vote of the
\* viewer's role on it, by whoever cast it, was neither a signature nor a
\* veto, or the row would have no button.
THEOREM ButtonsAreServed == LiveSpec => []OfferedCanBeSigned
<1>1. ASSUME LiveInv PROVE OfferedCanBeSigned
  <2> SUFFICES ASSUME NEW c \in Client, page[c] = "approvals",
                      shown[c] = list_items(list_open), NEW a \in offered(c)
               PROVE  /\ Votable(a)
                      /\ AlreadyVoted(ViewerOf[c], a) =>
                           \E x \in list_by_action(a) : x.role = MyRole(c) /\ x.decision = "deferred"
    BY DEF OfferedCanBeSigned
  <2>1. TypeOK /\ RecordsOK
    BY <1>1 DEF LiveInv, Inv, Base
  <2>2. PICK i \in shown[c] : i.action = a /\ ~ i.rejected /\ MyRole(c) \notin i.approved
    BY DEF offered, Items
  <2>3. PICK b \in list_open : i = PendingItem(b)
    BY <2>2 DEF list_items
  <2>4. /\ b = a /\ ~ AnyRejected(list_by_action(a))
        /\ MyRole(c) \notin ApprovedRoles(list_by_action(a))
    BY <2>2, <2>3 DEF PendingItem
  <2>5. status \notin TERMINAL_CASE_STATUSES /\ a \in GatedActions(proposed_actions)
    BY <2>3, <2>4 DEF list_open
  <2>6. Votable(a)
    BY <2>5 DEF Votable, GatedActions
  <2>7. ASSUME AlreadyVoted(ViewerOf[c], a)
        PROVE  \E x \in list_by_action(a) : x.role = MyRole(c) /\ x.decision = "deferred"
    <3>1. PICK x \in list_by_action(a) :
            x.role = SigningRole(ViewerOf[c]) \/ x.user = ViewerOf[c]
      BY <2>7 DEF AlreadyVoted
    <3>2. x.role = MyRole(c)
      BY <2>1, <3>1 DEF RecordsOK, list_by_action, MyRole
    <3>3. x.decision \in Decision
      BY <2>1 DEF TypeOK, Record, list_by_action
    <3>4. x.decision # "approved" /\ x.decision # "rejected"
      BY <2>4, <3>2 DEF ApprovedRoles, AnyRejected
    <3> QED BY <3>2, <3>3, <3>4 DEF Decision
  <2> QED BY <2>6, <2>7
<1>2. LiveInv => OfferedCanBeSigned
  BY <1>1
<1> QED BY <1>2, LiveInvariance, PTL
=============================================================================
