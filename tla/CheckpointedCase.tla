--------------------------- MODULE CheckpointedCase ---------------------------
(***************************************************************************)
(* One case in checkpointer mode: a single graph whose state is saved to   *)
(* Postgres under the case id after every node, interrupted before         *)
(* human_approve and continued by the request that completes the           *)
(* signatures.  Unlike in the default mode the state survives a crash, and *)
(* a run may continue a thread another run is still inside.                *)
(*                                                                         *)
(* LangGraph writes a node's checkpoint while the next node is already     *)
(* running, the checkpoints of a run in order, and reads the latest one    *)
(* created.  Everything up to ir_coordinate is one checkpoint here: the    *)
(* nodes it stands for only fill in the context.                           *)
(*                                                                         *)
(* A thread continued from before its plan draws the plan again, under new *)
(* ids, so here the list of actions a coroutine has read may be another    *)
(* than the one stored meanwhile.                                          *)
(***************************************************************************)
EXTENDS ApprovalService

CONSTANTS
  Fresh,        \* the ids a plan drawn a second time gives its actions
  MaxCrashes,   \* bound on process crashes
  MaxResumes    \* bound on requests inside resume_workflow at once

ASSUME CheckpointAssumption ==
  /\ MaxCrashes \in Nat
  /\ MaxResumes \in Nat
  /\ Fresh \in [Action -> Action]
  /\ \A a \in Action : Autonomy[Fresh[a]] = Autonomy[a] /\ ActionType[Fresh[a]] = ActionType[a]

VARIABLES
  checkpoint,   \* the latest checkpoint of the thread in Postgres
  unsaved,      \* checkpoints created and not written yet, oldest first
  thread,       \* the state each run carries in memory
  plan,         \* the list of actions each coroutine has read last
  crashes

threadVars == <<checkpoint, unsaved, thread>>

vars == <<storeVars, pc, runVars, external, vote, threadVars, plan, crashes>>

Node == {"ir_coordinate", "plan_actions", "human_approve", "execute", "escalate", "update_case"}

\* The values of approval_status, which is all that route_approval reads
Verdicts == SUBSET {"pending", "approved", "rejected"}

\* A checkpoint: the node that ended last and the state it left
Thread == [last : Node, approvals : Verdicts]

Start == [last |-> "ir_coordinate", approvals |-> {}]

Init ==
  /\ StoreInit
  /\ pc = [p \in Process |-> IF p = Trigger THEN "ingest" ELSE "idle"]
  /\ OrchestrationInit
  /\ ServiceInit
  /\ checkpoint = Start
  /\ unsaved = <<>>
  /\ thread = [p \in Process |-> Start]
  /\ plan = [p \in Process |-> <<>>]
  /\ crashes = 0

\* A coroutine reads the case, and with it the plan as it is stored now
read_case(p) == plan' = [plan EXCEPT ![p] = proposed_actions]

\* A node of run p ends: its checkpoint is created and p carries it on
end_node(p, node, approvals) ==
  LET state == [last |-> node, approvals |-> approvals]
  IN  /\ unsaved' = Append(unsaved, [by |-> p, state |-> state])
      /\ thread' = [thread EXCEPT ![p] = state]
      /\ UNCHANGED checkpoint

\* The action a process is working on
Held(p) == plan[p][at[p]]

\* The write of one checkpoint commits.  Reads take the newest, so writes of
\* older checkpoints that are still to come change nothing any more.
save_checkpoint ==
  \E i \in 1..Len(unsaved) :
    /\ \A j \in 1..(i - 1) : unsaved[j].by # unsaved[i].by
    /\ checkpoint' = unsaved[i].state
    /\ unsaved' = SubSeq(unsaved, i + 1, Len(unsaved))
    /\ UNCHANGED <<storeVars, pc, runVars, external, vote, thread, plan, crashes>>
-----------------------------------------------------------------------------
(* The nodes.                                                              *)

\* The trigger run up to plan_actions
trigger_workflow_checkpointer ==
  /\ ingest_alerts_node \/ investigate_nodes \/ analyze_node_raises
  /\ UNCHANGED <<vote, threadVars, plan, crashes>>

\* A request that continues a thread saved before the plan
investigate_again(r) ==
  /\ pc[r] = "analyze"
  /\ goto(r, "plan") \/ (AnalysisMayFail /\ goto(r, "failed"))
  /\ UNCHANGED <<storeVars, runVars, external, vote, threadVars, plan, crashes>>

\* Every execution of plan_actions_node draws new action ids.  Bound: a plan
\* is drawn again at most once.
Redrawn == [i \in 1..Len(playbook) |-> Fresh[playbook[i]]]

NextPlan == IF proposed_actions = <<>> THEN playbook ELSE Redrawn

plan_actions(p) ==
  /\ pc[p] = "plan"
  /\ proposed_actions \in {<<>>, playbook}
  /\ update_actions(NextPlan)
  /\ end_node(p, "plan_actions", IF GatedActions(NextPlan) # {} THEN {"pending"} ELSE {})
  \* interrupt_before: the run ends here, and the case is not marked
  /\ goto(p, IF route_after_plan(NextPlan) = "notify" THEN "paused" ELSE "check")
  /\ plan' = [plan EXCEPT ![p] = NextPlan]
  /\ UNCHANGED <<status, playbook, approval_records, execution_log, evidence_pack,
                 runVars, external, vote, crashes>>

route_approval(values) ==
  IF values \subseteq {"approved"} THEN "check" ELSE "escalate"

\* human_approve_node, which only a resume reaches, and the edge after it;
\* execute_node begins by reading the case
human_approve(p) ==
  /\ pc[p] = "notify"
  /\ update_status("pending_approval")
  /\ end_node(p, "human_approve", thread[p].approvals)
  /\ goto(p, route_approval(thread[p].approvals))
  /\ read_case(p)
  /\ UNCHANGED <<playbook, proposed_actions, approval_records, execution_log,
                 evidence_pack, runVars, external, vote, crashes>>

execute(p) ==
  /\ \/ /\ \/ skip_action(p, plan[p]) \/ clear_action(p, plan[p])
           \/ execute_action(p, plan[p]) \/ execute_action_raises(p, plan[p])
           \/ append_reads(p) \/ append_writes(p, plan[p])
        /\ UNCHANGED threadVars
     \/ contain_case(p, plan[p]) /\ end_node(p, "execute", thread[p].approvals)
  /\ UNCHANGED <<vote, plan, crashes>>

escalate_node(p) ==
  /\ pc[p] = "escalate"
  /\ end_node(p, "escalate", thread[p].approvals)
  /\ goto(p, "collect")
  /\ UNCHANGED <<storeVars, runVars, external, vote, plan, crashes>>

update_case(p) ==
  /\ \/ (collect_evidence(p) \/ seal_evidence(p)) /\ UNCHANGED threadVars
     \/ close_case(p) /\ end_node(p, "update_case", thread[p].approvals)
  /\ UNCHANGED <<vote, plan, crashes>>
-----------------------------------------------------------------------------
(* resume_workflow_checkpointer, in the request whose tally is complete.   *)

Resuming(r) ==
  Executing(r) \/ pc[r] \in {"read_verdicts", "update_thread", "invoke", "analyze", "plan",
                             "notify", "escalate"}

reopen_case(r) ==
  /\ pc[r] = "tally"
  /\ at[r] > Len(plan[r])
  /\ Cardinality({q \in Request : Resuming(q)}) < MaxResumes
  /\ update_status("investigating")
  /\ at' = [at EXCEPT ![r] = 1]
  /\ thread' = [thread EXCEPT ![r] = Start]
  /\ read_case(r)
  /\ goto(r, "read_verdicts")
  /\ UNCHANGED <<playbook, proposed_actions, approval_records, execution_log, evidence_pack,
                 seen, outcome, external, vote, checkpoint, unsaved, crashes>>

\* "pending", the third value, needs no case of its own: a rejection stored
\* between the two SELECTs gives it, and route_approval treats both alike
VerdictOf(a) == IF is_action_approved(a) THEN "approved" ELSE "rejected"

read_verdict(r) ==
  /\ pc[r] = "read_verdicts"
  /\ at[r] <= Len(plan[r])
  /\ at' = [at EXCEPT ![r] = @ + 1]
  /\ thread' = IF ApprovalRequired(Held(r))
               THEN [thread EXCEPT ![r].approvals = @ \cup {VerdictOf(Held(r))}]
               ELSE thread
  /\ UNCHANGED <<storeVars, pc, seen, outcome, external, vote, checkpoint, unsaved, plan, crashes>>

\* aupdate_state: read the latest checkpoint ...
read_thread(r) ==
  /\ pc[r] = "read_verdicts"
  /\ at[r] > Len(plan[r])
  /\ at' = [at EXCEPT ![r] = 1]
  /\ thread' = [thread EXCEPT ![r].last = checkpoint.last]
  /\ goto(r, "update_thread")
  /\ UNCHANGED <<storeVars, seen, outcome, external, vote, checkpoint, unsaved, plan, crashes>>

\* MUTANT: the verdicts are not written to the thread, which still says pending
update_thread_without_verdicts(r) ==
  /\ pc[r] = "update_thread"
  /\ checkpoint' = [checkpoint EXCEPT !.last = thread[r].last]
  /\ unsaved' = <<>>
  /\ goto(r, "invoke")
  /\ UNCHANGED <<storeVars, runVars, external, vote, thread, plan, crashes>>

\* ... and write a new one with the verdicts, the newest from now on
update_thread(r) ==
  /\ pc[r] = "update_thread"
  /\ checkpoint' = thread[r]
  /\ unsaved' = <<>>
  /\ goto(r, "invoke")
  /\ UNCHANGED <<storeVars, runVars, external, vote, thread, plan, crashes>>

\* ainvoke(None): load the latest checkpoint and enter the node after it
NextNodes(state) ==
  CASE state.last = "ir_coordinate" -> {"analyze", "plan"}
    [] state.last = "plan_actions"  -> {"notify"}
    [] state.last = "human_approve" -> {route_approval(state.approvals)}
    [] state.last \in {"execute", "escalate"} -> {"collect"}
    [] state.last = "update_case"   -> {"finished"}

\* MUTANT: the graph is entered at execute, whatever node ended last
invoke_from_execute(r) ==
  /\ pc[r] = "invoke"
  /\ thread' = [thread EXCEPT ![r] = checkpoint]
  /\ read_case(r)
  /\ goto(r, "check")
  /\ UNCHANGED <<storeVars, runVars, external, vote, checkpoint, unsaved, crashes>>

invoke(r) ==
  /\ pc[r] = "invoke"
  /\ thread' = [thread EXCEPT ![r] = checkpoint]
  /\ read_case(r)
  /\ \E label \in NextNodes(checkpoint) : goto(r, label)
  /\ UNCHANGED <<storeVars, runVars, external, vote, checkpoint, unsaved, crashes>>

resume_workflow_checkpointer(r) ==
  reopen_case(r) \/ read_verdict(r) \/ read_thread(r) \/ update_thread(r) \/ invoke(r)
-----------------------------------------------------------------------------
submit(r) == submit_approval(r) /\ read_case(r) /\ UNCHANGED <<threadVars, crashes>>

approve(r) ==
  /\ \/ refuse_duplicate(r) /\ plan' = [plan EXCEPT ![r] = <<>>]
     \/ /\ \/ accept_vote(r) \/ add_record(r) \/ close_rejected(r)
           \/ tally_action(r, plan[r])
        /\ UNCHANGED plan
  /\ UNCHANGED <<threadVars, crashes>>

\* A background task of an asynchronous step; the thread does not know of it
poll == (\E k \in pollers : poll_shuffle(k)) /\ UNCHANGED <<vote, threadVars, plan, crashes>>

\* The process stops; the pollers and the checkpoints that were not written
\* are lost with it
crash ==
  /\ crashes < MaxCrashes
  /\ unsaved # <<>> \/ pollers # {} \/ \E p \in Process : Active(p)
  /\ crashes' = crashes + 1
  /\ pc' = [p \in Process |-> IF Active(p) THEN "lost" ELSE pc[p]]
  /\ at' = [p \in Process |-> 1]
  /\ seen' = [p \in Process |-> <<>>]
  /\ outcome' = [p \in Process |-> "none"]
  /\ unsaved' = <<>>
  /\ thread' = [p \in Process |-> Start]
  /\ plan' = [p \in Process |-> <<>>]
  /\ unpolled' = unpolled \cup {<<k.action, k.by>> : k \in pollers}
  /\ pollers' = {}
  /\ UNCHANGED <<storeVars, dispatched, vote, checkpoint>>

Run(p) ==
  \/ p = Trigger /\ trigger_workflow_checkpointer
  \/ p \in Request /\ (investigate_again(p) \/ approve(p) \/ resume_workflow_checkpointer(p))
  \/ plan_actions(p) \/ human_approve(p) \/ execute(p) \/ escalate_node(p) \/ update_case(p)

Next ==
  \/ \E p \in Process : Run(p)
  \/ \E r \in Request : submit(r)
  \/ save_checkpoint
  \/ poll
  \/ crash

Spec == Init /\ [][Next]_vars

\* Coroutines, pollers and the writes LangGraph has scheduled are served
FairSpec ==
  /\ Spec
  /\ \A p \in Process : WF_vars(Run(p))
  /\ WF_vars(save_checkpoint)
  /\ WF_vars(poll)
-----------------------------------------------------------------------------
(* What requests and runs implement between them.                          *)

Licences ==
  {<<p, Held(p)>> : p \in {q \in Process : pc[q] = "execute" /\ at[q] \in 1..Len(plan[q])}}

DC == INSTANCE DualControl WITH
        User     <- Voter,
        RoleOf   <- [u \in Voter |-> SigningRole(u)],
        Required <- [a \in Action |-> IF ApprovalRequired(a) THEN RequiredRoles(a) ELSE {}],
        Verdict  <- Decision,
        Runner   <- Process,
        votes    <- Ballots,
        licences <- Licences,
        executed <- dispatched

\* A case in this mode implements DualControl too: a run that works on a plan
\* nobody knows any more, or was let in by a stale verdict, still needs a
\* licence for each action (nodes.py:498, repositories.py:689-711).
DualControlled == DC!Spec
-----------------------------------------------------------------------------
(* Properties                                                              *)

ResumePC == {"read_verdicts", "update_thread", "invoke", "escalate"}

TypeOK ==
  /\ status \in CaseStatus
  /\ playbook \in Playbooks
  /\ proposed_actions \in {<<>>, playbook, Redrawn}
  /\ approval_records \subseteq Record
  /\ execution_log \in Seq(Step)
  /\ evidence_pack \in Seq(Step) \cup {NoPack}
  /\ pc \in [Process -> PC \cup ResumePC]
  /\ at \in [Process -> Nat \ {0}]
  /\ seen \in [Process -> Seq(Step)]
  /\ outcome \in [Process -> StepStatus \cup {"none"}]
  /\ pollers \subseteq Poller
  /\ unpolled \subseteq Action \X Process
  /\ dispatched \in [Action -> Nat]
  /\ vote \in [Request -> Vote \cup {NoVote}]
  /\ checkpoint \in Thread
  /\ unsaved \in Seq([by : Process, state : Thread])
  /\ thread \in [Process -> Thread]
  /\ plan \in [Process -> {<<>>, playbook, Redrawn}]
  /\ crashes \in 0..MaxCrashes

InGraph(p) ==
  Executing(p) \/ pc[p] \in {"ingest", "analyze", "plan", "notify", "escalate"}

\* The thread has ended, and no run is inside the graph or about to put an
\* earlier state back
Ended ==
  /\ checkpoint.last = "update_case"
  /\ unsaved = <<>>
  /\ \A p \in Process :
       ~ InGraph(p) /\ (pc[p] = "update_thread" => thread[p].last = "update_case")

\* A thread that has ended is over: a late vote that still completes a tally
\* reopens the row and invokes the graph, and nothing is planned, executed
\* or sealed again (the second resume of test_checkpointer_pg.py:131).
EndedStaysEnded ==
  [][Ended => Ended' /\ UNCHANGED <<proposed_actions, dispatched, evidence_pack>>]_vars

\* A case is contained, and its evidence pack sealed, only after the plan
\* first drawn for it got all the signatures of its L2 actions: no graph
\* entered at a stale checkpoint goes round the gate.  A plan drawn again,
\* under ids nobody has signed, stops the request that draws it
\* (interrupt_before); the case is closed around it only by another request
\* that resumed as well, on the verdicts it had read of the first plan or on
\* the missing ones of the second.
SealedWasSigned ==
  status = "contained" \/ evidence_pack # NoPack =>
    /\ \A a \in GatedActions(playbook) : Signed(a)
    /\ \/ \A a \in GatedActions(proposed_actions) : Signed(a)
       \/ \E r \in Request : pc[r] = "paused"
            /\ \E q \in Request : Executing(q) \/ pc[q] \in {"finished", "lost"}

\* A fully signed case is executed and sealed by the request that completes
\* it, however the checkpoint writes of other runs fall, unless a rejection
\* or a crash comes in between, a node of the resume raises (the executor, on
\* an answer of Shuffle that is no object, shuffle.py:128), or the plan is
\* drawn again: signatures on the new ids may come when another request has
\* already ended the thread around them.
SignedThreadEnds ==
  AllSigned ~> \/ /\ evidence_pack # NoPack
                  /\ \A a \in GatedActions(proposed_actions) : dispatched[a] > 0
               \/ \E a \in Action : Rejected(a)
               \/ crashes > 0
               \/ \E r \in Request : pc[r] = "failed"
               \/ proposed_actions # playbook
=============================================================================
