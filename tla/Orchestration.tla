---------------------------- MODULE Orchestration ----------------------------
(***************************************************************************)
(* The two-segment workflow of the default (non-checkpointer) mode.        *)
(*                                                                         *)
(* The trigger run is the background task ingestion spawns: it marks the   *)
(* case, investigates it, plans the actions and either parks the case for  *)
(* approval or executes it straight away.  A resume run is the second half *)
(* of an approval request: the request that sees every signature awaits    *)
(* resume_workflow itself.  Both walk the same execute and update_case     *)
(* nodes; several runs can be inside them at once, interleaved at every    *)
(* await that reads or writes the database.                                *)
(***************************************************************************)
EXTENDS CaseStore

CONSTANTS
  Request,        \* approval requests the API may receive
  Trigger,        \* the background orchestration task of the case
  Outcomes,       \* step statuses the configured executor can report
  AnalysisMayFail,  \* the LLM may raise (its fallback is switched off)
  ExecutorMayRaise  \* Shuffle may answer with JSON that is no object

ASSUME ProcessAssumption ==
  /\ Trigger \notin Request
  /\ Outcomes \subseteq {"success", "failed", "executing"}
  /\ AnalysisMayFail \in BOOLEAN
  /\ ExecutorMayRaise \in BOOLEAN

Process == Request \cup {Trigger}

VARIABLES
  pc,          \* where each process is
  at,          \* loop index of the process, from 1
  seen,        \* execution_log as the process last read it
  outcome,     \* status of the execution step the process is about to log
  pollers,     \* background Shuffle pollers
  unpolled,    \* steps nobody will learn the end of: no id, or polled in vain
  dispatched   \* how many times executor.execute was called for each action

runVars == <<at, seen, outcome>>

RequestPC == {"idle", "duplicates", "sign", "close", "tally", "voted"}

PlanningPC == {"ingest", "analyze", "plan"}

ExecutionPC == {"check", "execute", "read_log", "write_log",
                "collect", "seal", "resolve"}

StoppedPC == {"idle", "voted", "paused", "finished", "failed", "lost"}

PC == RequestPC \cup PlanningPC \cup ExecutionPC \cup StoppedPC \cup {"notify"}

Active(p) == pc[p] \notin StoppedPC

Executing(p) == pc[p] \in ExecutionPC

goto(p, label) == pc' = [pc EXCEPT ![p] = label]

Step == [action : Action, status : StepStatus, by : Process]

Poller == [action : Action, by : Process, result : {"pending", "success", "failed"},
           seen : Seq(Step)]

OrchestrationInit ==
  /\ at = [p \in Process |-> 1]
  /\ seen = [p \in Process |-> <<>>]
  /\ outcome = [p \in Process |-> "none"]
  /\ pollers = {}
  /\ unpolled = {}
  /\ dispatched = [a \in Action |-> 0]

external == <<pollers, unpolled, dispatched>>
-----------------------------------------------------------------------------
(* The trigger run, up to its fork.                                        *)

ingest_alerts_node ==
  /\ pc[Trigger] = "ingest"
  /\ update_status("investigating")
  /\ goto(Trigger, "analyze")
  /\ UNCHANGED <<playbook, proposed_actions, approval_records, execution_log,
                 evidence_pack, runVars, external>>

\* retrieve, enrich, analyze, dfir and ir_coordinate: they fill in the
\* context and the judgment, which no later decision of the workflow reads
investigate_nodes ==
  /\ pc[Trigger] = "analyze"
  /\ goto(Trigger, "plan")
  /\ UNCHANGED <<storeVars, runVars, external>>

\* analyze_node raises: the task's exception is logged and the case stays
analyze_node_raises ==
  /\ AnalysisMayFail
  /\ pc[Trigger] = "analyze"
  /\ goto(Trigger, "failed")
  /\ UNCHANGED <<storeVars, runVars, external>>

\* MUTANT: any() written as all(): a mixed playbook is not parked
route_after_plan_all(actions) ==
  IF actions # <<>> /\ \A i \in 1..Len(actions) : ApprovalRequired(actions[i])
  THEN "notify" ELSE "check"

route_after_plan(actions) ==
  IF GatedActions(actions) # {} THEN "notify" ELSE "check"

plan_actions_node ==
  /\ pc[Trigger] = "plan"
  /\ update_actions(playbook)
  /\ goto(Trigger, route_after_plan(playbook))
  /\ UNCHANGED <<status, playbook, approval_records, execution_log,
                 evidence_pack, runVars, external>>

human_approve_node ==
  /\ pc[Trigger] = "notify"
  /\ update_status("pending_approval")
  /\ goto(Trigger, "paused")
  /\ UNCHANGED <<playbook, proposed_actions, approval_records, execution_log,
                 evidence_pack, runVars, external>>
-----------------------------------------------------------------------------
(* execute_node: one action after the other, each checked, dispatched and  *)
(* then appended to the log.  "actions" is the list of the case as the     *)
(* process read it when it entered the node.                               *)

MayExecute(a) == ~ ApprovalRequired(a) \/ is_action_approved(a)

\* MUTANT: a skipped action leaves no execution step
skip_silently(p, actions) ==
  /\ pc[p] = "check"
  /\ at[p] <= Len(actions)
  /\ ~ MayExecute(actions[at[p]])
  /\ at' = [at EXCEPT ![p] = @ + 1]
  /\ UNCHANGED <<storeVars, pc, seen, outcome, external>>

skip_action(p, actions) ==
  /\ pc[p] = "check"
  /\ at[p] <= Len(actions)
  /\ ~ MayExecute(actions[at[p]])
  /\ outcome' = [outcome EXCEPT ![p] = "skipped"]
  /\ goto(p, "read_log")
  /\ UNCHANGED <<storeVars, at, seen, external>>

clear_action(p, actions) ==
  /\ pc[p] = "check"
  /\ at[p] <= Len(actions)
  /\ MayExecute(actions[at[p]])
  /\ goto(p, "execute")
  /\ UNCHANGED <<storeVars, runVars, external>>

\* executor.execute; an asynchronous start gets a poller if it has an id
execute_action(p, actions) ==
  /\ pc[p] = "execute"
  /\ dispatched' = [dispatched EXCEPT ![actions[at[p]]] = @ + 1]
  /\ \E o \in Outcomes :
       /\ outcome' = [outcome EXCEPT ![p] = o]
       /\ IF o = "executing"
          THEN \/ /\ pollers' = pollers \cup
                       {[action |-> actions[at[p]], by |-> p, result |-> "pending",
                         seen |-> <<>>]}
                  /\ UNCHANGED unpolled
               \/ /\ unpolled' = unpolled \cup {<<actions[at[p]], p>>}
                  /\ UNCHANGED pollers
          ELSE UNCHANGED <<pollers, unpolled>>
  /\ goto(p, "read_log")
  /\ UNCHANGED <<storeVars, at, seen>>

\* The executor starts the action and cannot read the answer: AttributeError
\* is no ShuffleError, so it ends the run, before the step is logged
execute_action_raises(p, actions) ==
  /\ ExecutorMayRaise
  /\ pc[p] = "execute"
  /\ dispatched' = [dispatched EXCEPT ![actions[at[p]]] = @ + 1]
  /\ at' = [at EXCEPT ![p] = 1]
  /\ goto(p, "failed")
  /\ UNCHANGED <<storeVars, seen, outcome, pollers, unpolled>>

\* append_execution, its SELECT ...
append_reads(p) ==
  /\ pc[p] = "read_log"
  /\ seen' = [seen EXCEPT ![p] = execution_log]
  /\ goto(p, "write_log")
  /\ UNCHANGED <<storeVars, at, outcome, external>>

\* ... and its UPDATE, after which the loop moves on
append_writes(p, actions) ==
  /\ pc[p] = "write_log"
  /\ execution_log' = Append(seen[p], [action |-> actions[at[p]],
                                       status |-> outcome[p], by |-> p])
  /\ at' = [at EXCEPT ![p] = @ + 1]
  /\ seen' = [seen EXCEPT ![p] = <<>>]
  /\ outcome' = [outcome EXCEPT ![p] = "none"]
  /\ goto(p, "check")
  /\ UNCHANGED <<status, playbook, proposed_actions, approval_records,
                 evidence_pack, external>>

contain_case(p, actions) ==
  /\ pc[p] = "check"
  /\ at[p] > Len(actions)
  /\ update_status("contained")
  /\ at' = [at EXCEPT ![p] = 1]
  /\ goto(p, "collect")
  /\ UNCHANGED <<playbook, proposed_actions, approval_records, execution_log,
                 evidence_pack, seen, outcome, external>>

execute_node(p, actions) ==
  \/ skip_action(p, actions) \/ clear_action(p, actions)
  \/ execute_action(p, actions) \/ execute_action_raises(p, actions)
  \/ append_reads(p) \/ append_writes(p, actions) \/ contain_case(p, actions)
-----------------------------------------------------------------------------
(* update_case_node: read the case, write the evidence pack, close.        *)

collect_evidence(p) ==
  /\ pc[p] = "collect"
  /\ seen' = [seen EXCEPT ![p] = execution_log]
  /\ goto(p, "seal")
  /\ UNCHANGED <<storeVars, at, outcome, external>>

seal_evidence(p) ==
  /\ pc[p] = "seal"
  /\ set_evidence_pack(seen[p])
  /\ seen' = [seen EXCEPT ![p] = <<>>]
  /\ goto(p, "resolve")
  /\ UNCHANGED <<status, playbook, proposed_actions, approval_records,
                 execution_log, at, outcome, external>>

close_case(p) ==
  /\ pc[p] = "resolve"
  /\ update_status("resolved")
  /\ goto(p, "finished")
  /\ UNCHANGED <<playbook, proposed_actions, approval_records, execution_log,
                 evidence_pack, runVars, external>>

update_case_node(p) == collect_evidence(p) \/ seal_evidence(p) \/ close_case(p)

trigger_workflow ==
  ingest_alerts_node \/ investigate_nodes \/ analyze_node_raises
    \/ plan_actions_node \/ human_approve_node
-----------------------------------------------------------------------------
(* _poll_shuffle_to_terminal, one task per asynchronous step.              *)

HasStep(log, a) == \E i \in 1..Len(log) : log[i].action = a

\* a terminal answer arrives and update_execution_status reads the log ...
poll_answers(k) ==
  /\ k.result = "pending"
  /\ HasStep(execution_log, k.action)
  /\ \E r \in {"success", "failed"} :
       pollers' = (pollers \ {k}) \cup {[k EXCEPT !.result = r, !.seen = execution_log]}
  /\ UNCHANGED <<storeVars, runVars, pc, unpolled, dispatched>>

\* ... or finds no step of the action in it and returns: the answer is lost
poll_misses(k) ==
  /\ k.result = "pending"
  /\ ~ HasStep(execution_log, k.action)
  /\ pollers' = pollers \ {k}
  /\ UNCHANGED <<storeVars, runVars, pc, unpolled, dispatched>>

poll_writes(k) ==
  /\ k.result # "pending"
  /\ execution_log' = WithLatest(k.seen, k.action, k.result)
  /\ pollers' = pollers \ {k}
  /\ UNCHANGED <<status, playbook, proposed_actions, approval_records, evidence_pack,
                 runVars, pc, unpolled, dispatched>>

\* ten polls without a terminal answer
poll_times_out(k) ==
  /\ k.result = "pending"
  /\ pollers' = pollers \ {k}
  /\ unpolled' = unpolled \cup {<<k.action, k.by>>}
  /\ UNCHANGED <<storeVars, runVars, pc, dispatched>>

poll_shuffle(k) ==
  poll_answers(k) \/ poll_misses(k) \/ poll_writes(k) \/ poll_times_out(k)
=============================================================================
