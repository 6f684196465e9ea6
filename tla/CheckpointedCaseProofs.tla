------------------------ MODULE CheckpointedCaseProofs ------------------------
(***************************************************************************)
(* Theorems about a case in checkpointer mode, for every set of requests,  *)
(* actions and playbooks, any number of crashes and any order in which     *)
(* checkpoints are written.                                                *)
(***************************************************************************)
EXTENDS CheckpointedCase, SequenceTheorems, TLAPS

-----------------------------------------------------------------------------
(* Facts about the rules and the plans.                                    *)

LEMMA SigningRoleType ==
  ASSUME NEW u \in Signer, MaySign(u)
  PROVE  SigningRole(u) \in ApprovalRole
<1>1. CASE u \in IMSource
  BY <1>1 DEF SigningRole, ApprovalRole
<1>2. CASE u \notin IMSource
  <2>1. LoginRole[u] \in {"admin", "analyst", "approver"}
    BY <1>2, SignerAssumption DEF MaySign, Signer, Role
  <2> QED BY <1>2, <2>1 DEF SigningRole, ApprovalRole, APPROVAL_ROLE_MAP
<1> QED BY <1>1, <1>2

\* The verdict of the tally and of the executor: signed, and nobody refused
LEMMA VerdictMeansSigned ==
  ASSUME NEW a \in Action, FullyApproved(a, list_by_action(a))
  PROVE  Signed(a) /\ ~ Rejected(a)
BY DEF FullyApproved, Signed, Approvals, list_by_action, ApprovedRoles, AnyRejected, Rejected

\* A plan drawn again is as long as the first
LEMMA PlansTyped ==
  ASSUME playbook \in Playbooks, NEW list \in {<<>>, playbook, Redrawn}
  PROVE  /\ playbook \in Seq(Action) /\ Redrawn \in Seq(Action)
         /\ Len(Redrawn) = Len(playbook) /\ Len(playbook) \in Nat
         /\ list \in Seq(Action) /\ Len(list) \in Nat
         /\ NextPlan \in {playbook, Redrawn}
<1>1. playbook \in Seq(Action) /\ Len(playbook) \in Nat
  BY PlaybookAssumption
<1>2. \A i \in 1..Len(playbook) : Fresh[playbook[i]] \in Action
  BY <1>1, CheckpointAssumption
<1>3. Redrawn \in Seq(Action) /\ Len(Redrawn) = Len(playbook)
  BY <1>1, <1>2 DEF Redrawn
<1>4. NextPlan \in {playbook, Redrawn}
  BY DEF NextPlan
<1>5. <<>> \in Seq(Action) /\ Len(<<>>) \in Nat
  OBVIOUS
<1>6. list \in Seq(Action) /\ Len(list) \in Nat
  <2>1. CASE list = <<>>
    BY <1>5, <2>1
  <2>2. CASE list = playbook
    BY <1>1, <2>2
  <2>3. CASE list = Redrawn
    <3> HIDE DEF Redrawn
    <3> QED BY <1>1, <1>3, <2>3
  <2> QED BY <2>1, <2>2, <2>3
<1> QED BY <1>1, <1>3, <1>4, <1>6

\* The labels at which a coroutine is inside a loop over the list it has read
LoopPC == {"tally", "read_verdicts", "check", "execute", "read_log", "write_log"}

\* A process inside a loop is at one of the actions, or one past the last,
\* and carries a step status exactly while it has a step to append
LoopOK(p) ==
  /\ pc[p] \notin LoopPC => at[p] = 1
  /\ at[p] <= Len(plan[p]) + 1
  /\ pc[p] \in {"execute", "read_log", "write_log"} => at[p] <= Len(plan[p])
  /\ pc[p] \in {"read_log", "write_log"} => outcome[p] \in StepStatus

LoopsOK == \A p \in Process : LoopOK(p)

VotesOK == \A r \in Request : pc[r] \in {"duplicates", "sign"} => vote[r] \in Vote

Base == TypeOK /\ LoopsOK /\ VotesOK

LEMMA HeldIsAction ==
  ASSUME TypeOK, NEW p \in Process, at[p] <= Len(plan[p])
  PROVE  /\ at[p] \in 1..Len(plan[p])
         /\ Held(p) \in Action
<1>1. plan[p] \in Seq(Action) /\ at[p] \in Nat \ {0}
  BY PlansTyped DEF TypeOK
<1> QED BY <1>1 DEF Held

\* The executor is called, whether it returns or raises
Dispatch(p) == execute_action(p, plan[p]) \/ execute_action_raises(p, plan[p])
-----------------------------------------------------------------------------
(* What one step of a process leaves alone.                                *)

\* A run or a request moves nobody but itself
LEMMA OthersStay ==
  ASSUME TypeOK, NEW p \in Process, Run(p) \/ (p \in Request /\ submit(p)),
         NEW q \in Process \ {p}
  PROVE  /\ pc'[q] = pc[q] /\ at'[q] = at[q] /\ outcome'[q] = outcome[q]
         /\ thread'[q] = thread[q] /\ plan'[q] = plan[q]
<1> USE DEF TypeOK, goto, runVars, threadVars, read_case
<1>1. CASE p = Trigger /\ trigger_workflow_checkpointer
  BY <1>1 DEF trigger_workflow_checkpointer, ingest_alerts_node, investigate_nodes,
              analyze_node_raises
<1>2. CASE p \in Request /\ (investigate_again(p) \/ approve(p))
  BY <1>2 DEF investigate_again, approve, refuse_duplicate, accept_vote, add_record,
              close_rejected, tally_action
<1>3. CASE p \in Request /\ resume_workflow_checkpointer(p)
  BY <1>3 DEF resume_workflow_checkpointer, reopen_case, read_verdict, read_thread,
              update_thread, invoke
<1>4. CASE plan_actions(p) \/ human_approve(p) \/ escalate_node(p)
  BY <1>4 DEF plan_actions, human_approve, escalate_node, end_node
<1>5. CASE execute(p)
  BY <1>5 DEF execute, skip_action, clear_action, execute_action, execute_action_raises,
              append_reads, append_writes,
              contain_case, end_node
<1>6. CASE update_case(p)
  BY <1>6 DEF update_case, collect_evidence, seal_evidence, close_case, end_node
<1>7. CASE p \in Request /\ submit(p)
  BY <1>7 DEF submit, submit_approval
<1> QED BY <1>1, <1>2, <1>3, <1>4, <1>5, <1>6, <1>7 DEF Run

\* A poller touches the log and the pollers, and nothing else
LEMMA PollStays ==
  ASSUME poll
  PROVE  UNCHANGED <<status, playbook, proposed_actions, approval_records, evidence_pack,
                     pc, at, seen, outcome, dispatched, vote, checkpoint, unsaved, thread,
                     plan, crashes>>
<1> PICK k \in pollers : poll_shuffle(k)
  BY DEF poll
<1> QED BY DEF poll, poll_shuffle, poll_answers, poll_misses, poll_writes, poll_times_out,
               storeVars, runVars, threadVars

\* Only plan_actions writes the plan of the case
LEMMA PlanStep ==
  ASSUME [Next]_vars
  PROVE  /\ playbook' = playbook
         /\ \/ proposed_actions' = proposed_actions
            \/ \E p \in Process : plan_actions(p) /\ proposed_actions' = NextPlan
<1> USE DEF storeVars
<1>1. ASSUME NEW p \in Process, Run(p), ~ plan_actions(p)
      PROVE  UNCHANGED <<playbook, proposed_actions>>
  <2>1. CASE p = Trigger /\ trigger_workflow_checkpointer
    BY <2>1 DEF trigger_workflow_checkpointer, ingest_alerts_node, investigate_nodes,
                analyze_node_raises
  <2>2. CASE p \in Request /\ (investigate_again(p) \/ approve(p))
    BY <2>2 DEF investigate_again, approve, refuse_duplicate, accept_vote, add_record,
                close_rejected, tally_action
  <2>3. CASE p \in Request /\ resume_workflow_checkpointer(p)
    BY <2>3 DEF resume_workflow_checkpointer, reopen_case, read_verdict, read_thread,
                update_thread, invoke
  <2>4. CASE human_approve(p) \/ escalate_node(p)
    BY <2>4 DEF human_approve, escalate_node
  <2>5. CASE execute(p)
    BY <2>5 DEF execute, skip_action, clear_action, execute_action, execute_action_raises,
                append_reads, append_writes,
                contain_case
  <2>6. CASE update_case(p)
    BY <2>6 DEF update_case, collect_evidence, seal_evidence, close_case
  <2> QED BY <1>1, <2>1, <2>2, <2>3, <2>4, <2>5, <2>6 DEF Run
<1>2. ASSUME NEW p \in Process, plan_actions(p)
      PROVE  playbook' = playbook /\ proposed_actions' = NextPlan
  BY <1>2 DEF plan_actions, update_actions
<1>3. ASSUME NEW r \in Request, submit(r) PROVE UNCHANGED <<playbook, proposed_actions>>
  BY <1>3 DEF submit, submit_approval
<1>4. CASE save_checkpoint \/ poll \/ crash
  BY <1>4, PollStays DEF save_checkpoint, crash
<1>5. CASE UNCHANGED vars
  BY <1>5 DEF vars
<1> QED BY <1>1, <1>2, <1>3, <1>4, <1>5 DEF Next
-----------------------------------------------------------------------------
(* Type correctness.                                                       *)

LEMMA InitBase == Init => Base
<1> SUFFICES ASSUME Init PROVE Base
  OBVIOUS
<1> USE DEF Init, StoreInit, OrchestrationInit, ServiceInit, Process
<1>1. /\ status \in CaseStatus
      /\ approval_records \subseteq Record
      /\ execution_log \in Seq(Step)
      /\ evidence_pack \in Seq(Step) \cup {NoPack}
  BY DEF CaseStatus
<1>2. /\ pc \in [Process -> PC \cup ResumePC]
      /\ at \in [Process -> Nat \ {0}]
      /\ seen \in [Process -> Seq(Step)]
      /\ outcome \in [Process -> StepStatus \cup {"none"}]
  BY DEF PC, RequestPC, PlanningPC
<1>3. Start \in Thread
  BY DEF Start, Thread, Node, Verdicts
<1>4. /\ checkpoint \in Thread
      /\ unsaved \in Seq([by : Process, state : Thread])
      /\ thread \in [Process -> Thread]
      /\ plan \in [Process -> {<<>>, playbook, Redrawn}]
      /\ crashes \in 0..MaxCrashes
  BY <1>3, CheckpointAssumption
<1>5. TypeOK
  BY <1>1, <1>2, <1>4 DEF TypeOK
<1>6. LoopsOK
  <2>1. ASSUME NEW p \in Process
        PROVE  at[p] = 1 /\ plan[p] = <<>> /\ pc[p] \in {"ingest", "idle"}
    OBVIOUS
  <2> QED BY <2>1 DEF LoopsOK, LoopOK
<1>7. VotesOK
  BY ProcessAssumption DEF VotesOK
<1> QED BY <1>5, <1>6, <1>7 DEF Base

\* The types of what a thread is saved as
ThreadsTyped ==
  /\ checkpoint \in Thread
  /\ unsaved \in Seq([by : Process, state : Thread])
  /\ thread \in [Process -> Thread]

LEMMA EndNodeType ==
  ASSUME ThreadsTyped, NEW p \in Process, NEW node \in Node, NEW approvals \in Verdicts,
         end_node(p, node, approvals)
  PROVE  ThreadsTyped'
<1> DEFINE state == [last |-> node, approvals |-> approvals]
<1>1. state \in Thread
  BY DEF Thread
<1>2. [by |-> p, state |-> state] \in [by : Process, state : Thread]
  BY <1>1
<1>3. /\ unsaved' = Append(unsaved, [by |-> p, state |-> state])
      /\ thread' = [thread EXCEPT ![p] = state] /\ checkpoint' = checkpoint
  BY DEF end_node
<1> HIDE DEF state
<1> QED BY <1>1, <1>2, <1>3 DEF ThreadsTyped

\* The types of everything else
CaseTyped ==
  /\ status \in CaseStatus
  /\ playbook \in Playbooks
  /\ proposed_actions \in {<<>>, playbook, Redrawn}
  /\ approval_records \subseteq Record
  /\ execution_log \in Seq(Step)
  /\ evidence_pack \in Seq(Step) \cup {NoPack}
  /\ pc \in [Process -> PC \cup ResumePC]
  /\ at \in [Process -> Nat \ {0}]
  /\ seen \in [Process -> Seq(Step)]
  /\ outcome \in [Process -> StepStatus \cup {"none"}]
  /\ pollers \subseteq Poller
  /\ unpolled \subseteq Action \X Process
  /\ dispatched \in [Action -> Nat]
  /\ vote \in [Request -> Vote \cup {NoVote}]
  /\ plan \in [Process -> {<<>>, playbook, Redrawn}]

LEMMA TypeOKSplits == TypeOK <=> CaseTyped /\ ThreadsTyped /\ crashes \in 0..MaxCrashes
BY DEF TypeOK, CaseTyped, ThreadsTyped

LEMMA ExecuteTyped ==
  ASSUME CaseTyped, LoopsOK, NEW p \in Process,
         execute(p)
  PROVE  CaseTyped'
<1> USE DEF CaseTyped, CaseStatus, PC, RequestPC, PlanningPC, ExecutionPC, StoppedPC, ResumePC,
      goto, update_status, runVars, external, storeVars
<1>0. UNCHANGED <<vote, playbook, proposed_actions, plan>> /\ Redrawn' = Redrawn
  BY DEF execute, skip_action, clear_action, execute_action, execute_action_raises,
         append_reads, append_writes,
         contain_case, Redrawn
<1>00. at[p] <= Len(plan[p]) => Held(p) \in Action
  <2>1. plan[p] \in Seq(Action) /\ at[p] \in Nat \ {0}
    BY PlansTyped
  <2> QED BY <2>1 DEF Held
<1>1. CASE skip_action(p, plan[p])
  BY <1>0, <1>1 DEF skip_action, StepStatus
<1>2. CASE clear_action(p, plan[p])
  BY <1>0, <1>2 DEF clear_action
<1>3. CASE execute_action(p, plan[p])
  <2>1. Held(p) \in Action
    BY <1>00, <1>3 DEF execute_action, LoopsOK, LoopOK
  <2>2. PICK o \in Outcomes :
          /\ outcome' = [outcome EXCEPT ![p] = o]
          /\ IF o = "executing"
             THEN \/ /\ pollers' = pollers \cup
                          {[action |-> Held(p), by |-> p, result |-> "pending",
                            seen |-> <<>>]}
                     /\ UNCHANGED unpolled
                  \/ /\ unpolled' = unpolled \cup {<<Held(p), p>>}
                     /\ UNCHANGED pollers
             ELSE UNCHANGED <<pollers, unpolled>>
    BY <1>3 DEF execute_action, Held
  <2>3. pollers' \subseteq Poller /\ unpolled' \subseteq Action \X Process
    <3>1. [action |-> Held(p), by |-> p, result |-> "pending", seen |-> <<>>] \in Poller
      BY <2>1 DEF Poller
    <3>2. <<Held(p), p>> \in Action \X Process
      BY <2>1
    <3> QED BY <2>2, <3>1, <3>2
  <2>4. dispatched' \in [Action -> Nat]
    <3>1. dispatched' = [dispatched EXCEPT ![Held(p)] = @ + 1]
      BY <1>3 DEF execute_action, Held
    <3> QED BY <2>1, <3>1
  <2>5. outcome' \in [Process -> StepStatus \cup {"none"}]
    BY <2>2, ProcessAssumption DEF StepStatus
  <2>6. UNCHANGED <<storeVars, at, seen>> /\ pc' \in [Process -> PC \cup ResumePC]
    BY <1>3 DEF execute_action
  <2> QED BY <1>0, <2>3, <2>4, <2>5, <2>6
<1>4. CASE append_reads(p)
  BY <1>0, <1>4 DEF append_reads
<1>5. CASE append_writes(p, plan[p])
  <2>1. outcome[p] \in StepStatus /\ Held(p) \in Action
    BY <1>00, <1>5 DEF append_writes, LoopsOK, LoopOK
  <2>2. [action |-> Held(p), status |-> outcome[p], by |-> p] \in Step
    BY <2>1 DEF Step
  <2>3. execution_log' \in Seq(Step)
    <3>1. execution_log' = Append(seen[p], [action |-> Held(p), status |-> outcome[p], by |-> p])
      BY <1>5 DEF append_writes, Held
    <3> QED BY <2>2, <3>1
  <2>4. at' \in [Process -> Nat \ {0}]
    BY <1>5 DEF append_writes
  <2>5. seen' \in [Process -> Seq(Step)] /\ outcome' \in [Process -> StepStatus \cup {"none"}]
    BY <1>5 DEF append_writes
  <2>6. /\ UNCHANGED <<status, approval_records, evidence_pack, external>>
        /\ pc' \in [Process -> PC \cup ResumePC]
    BY <1>5 DEF append_writes
  <2> QED BY <1>0, <2>3, <2>4, <2>5, <2>6
<1>6. CASE contain_case(p, plan[p])
  BY <1>0, <1>6 DEF contain_case
<1>7. CASE execute_action_raises(p, plan[p])
  <2>1. Held(p) \in Action
    BY <1>00, <1>7 DEF execute_action_raises, LoopsOK, LoopOK
  <2>2. dispatched' = [dispatched EXCEPT ![Held(p)] = @ + 1]
    BY <1>7 DEF execute_action_raises, Held
  <2>3. dispatched' \in [Action -> Nat]
    BY <2>1, <2>2
  <2> QED BY <1>0, <1>7, <2>3 DEF execute_action_raises
<1> QED BY <1>1, <1>2, <1>3, <1>4, <1>5, <1>6, <1>7 DEF execute

LEMMA RequestTyped ==
  ASSUME CaseTyped, VotesOK, NEW r \in Request, approve(r) \/ submit(r)
  PROVE  CaseTyped'
<1> USE DEF CaseTyped, CaseStatus, PC, RequestPC, PlanningPC, ExecutionPC, StoppedPC, ResumePC,
      goto, update_status, runVars, external, storeVars, Process
<1>0. UNCHANGED <<playbook, proposed_actions>> /\ Redrawn' = Redrawn
  BY DEF approve, refuse_duplicate, accept_vote, add_record, close_rejected, tally_action,
         submit, submit_approval, Redrawn
<1>00. plan' \in [Process -> {<<>>, playbook, Redrawn}]
  BY DEF approve, submit, read_case
<1>1. CASE refuse_duplicate(r)
  BY <1>0, <1>00, <1>1 DEF refuse_duplicate
<1>2. CASE accept_vote(r)
  BY <1>0, <1>00, <1>2 DEF accept_vote
<1>3. CASE add_record(r)
  <2>1. vote[r] \in Vote
    BY <1>3 DEF add_record, VotesOK
  <2>2. /\ vote[r].user \in Signer /\ MaySign(vote[r].user)
        /\ vote[r].action \in Action /\ vote[r].decision \in Decision
    BY <2>1 DEF Vote
  <2>3. [id |-> r, user |-> vote[r].user, role |-> SigningRole(vote[r].user),
         action |-> vote[r].action, decision |-> vote[r].decision] \in Record
    BY <2>2, SigningRoleType DEF Record
  <2>4. approval_records' \subseteq Record
    BY <1>3, <2>3 DEF add_record
  <2>5. pc' \in [Process -> PC \cup ResumePC]
    BY <1>3 DEF add_record
  <2> QED BY <1>0, <1>00, <1>3, <2>4, <2>5 DEF add_record
<1>4. CASE close_rejected(r)
  BY <1>0, <1>00, <1>4 DEF close_rejected
<1>5. CASE tally_action(r, plan[r])
  <2>1. at' = [at EXCEPT ![r] = at[r] + 1] \/ at' = [at EXCEPT ![r] = 1]
    BY <1>5 DEF tally_action
  <2>2. pc' \in [Process -> PC \cup ResumePC]
    BY <1>5 DEF tally_action
  <2>3. at' \in [Process -> Nat \ {0}]
    <3>1. CASE at' = [at EXCEPT ![r] = at[r] + 1]
      BY <3>1
    <3>2. CASE at' = [at EXCEPT ![r] = 1]
      BY <3>2
    <3> QED BY <2>1, <3>1, <3>2
  <2> QED BY <1>0, <1>00, <1>5, <2>2, <2>3 DEF tally_action
<1>6. CASE submit(r)
  <2>1. PICK v \in Votes[r] : vote' = [vote EXCEPT ![r] = v]
    BY <1>6 DEF submit, submit_approval
  <2>2. v \in Vote
    BY VoteAssumption
  <2>3. vote' \in [Request -> Vote \cup {NoVote}]
    BY <2>1, <2>2
  <2>4. pc' \in [Process -> PC \cup ResumePC]
    BY <1>6 DEF submit, submit_approval
  <2> QED BY <1>0, <1>00, <1>6, <2>3, <2>4 DEF submit, submit_approval
<1> QED BY <1>1, <1>2, <1>3, <1>4, <1>5, <1>6 DEF approve

LEMMA ResumeTyped ==
  ASSUME CaseTyped, ThreadsTyped, NEW r \in Request, resume_workflow_checkpointer(r)
  PROVE  CaseTyped' /\ ThreadsTyped'
<1> USE DEF CaseTyped, ThreadsTyped, CaseStatus, PC, RequestPC, PlanningPC, ExecutionPC,
      StoppedPC, ResumePC, goto, update_status, runVars, external, storeVars, Process
<1>0. UNCHANGED <<playbook, proposed_actions>> /\ Redrawn' = Redrawn
  BY DEF resume_workflow_checkpointer, reopen_case, read_verdict, read_thread, update_thread,
         invoke, Redrawn
<1>00. plan' \in [Process -> {<<>>, playbook, Redrawn}]
  BY DEF resume_workflow_checkpointer, reopen_case, read_verdict, read_thread, update_thread,
         invoke, read_case
<1>1. CASE reopen_case(r)
  <2>1. Start \in Thread
    BY DEF Start, Thread, Node, Verdicts
  <2> QED BY <1>0, <1>00, <1>1, <2>1 DEF reopen_case
<1>2. CASE read_verdict(r)
  <2>1. thread' = thread \/ thread' = [thread EXCEPT ![r] =
          [thread[r] EXCEPT !.approvals = @ \cup {VerdictOf(Held(r))}]]
    BY <1>2 DEF read_verdict
  <2>2. VerdictOf(Held(r)) \in {"approved", "rejected"}
    BY DEF VerdictOf
  <2>3. [thread[r] EXCEPT !.approvals = @ \cup {VerdictOf(Held(r))}] \in Thread
    BY <2>2 DEF Thread, Verdicts
  <2>4. thread' \in [Process -> Thread]
    BY <2>1, <2>3
  <2>5. at' \in [Process -> Nat \ {0}]
    BY <1>2 DEF read_verdict
  <2> QED BY <1>0, <1>00, <1>2, <2>4, <2>5 DEF read_verdict
<1>3. CASE read_thread(r)
  <2>1. thread' = [thread EXCEPT ![r] = [thread[r] EXCEPT !.last = checkpoint.last]]
    BY <1>3 DEF read_thread
  <2>2. [thread[r] EXCEPT !.last = checkpoint.last] \in Thread
    BY DEF Thread
  <2>3. thread' \in [Process -> Thread]
    BY <2>1, <2>2
  <2> QED BY <1>0, <1>00, <1>3, <2>3 DEF read_thread
<1>4. CASE update_thread(r)
  BY <1>0, <1>00, <1>4 DEF update_thread
<1>5. CASE invoke(r)
  <2>1. \A label \in NextNodes(checkpoint) : label \in PC \cup ResumePC
    BY DEF NextNodes, Thread, Node, route_approval
  <2>2. pc' \in [Process -> PC \cup ResumePC]
    <3>1. PICK label \in NextNodes(checkpoint) : pc' = [pc EXCEPT ![r] = label]
      BY <1>5 DEF invoke
    <3>2. label \in PC \cup ResumePC
      BY <2>1
    <3> QED BY <3>1, <3>2
  <2> QED BY <1>0, <1>00, <1>5, <2>2 DEF invoke
<1> QED BY <1>1, <1>2, <1>3, <1>4, <1>5 DEF resume_workflow_checkpointer

LEMMA TypeOKJoins ==
  ASSUME CaseTyped', ThreadsTyped', crashes' \in 0..MaxCrashes
  PROVE  TypeOK'
BY DEF TypeOK, CaseTyped, ThreadsTyped

\* The state a run carries in memory
LEMMA ApprovalsTyped ==
  ASSUME ThreadsTyped, NEW p \in Process
  PROVE  thread[p] \in Thread /\ thread[p].approvals \in Verdicts
BY DEF ThreadsTyped, Thread

LEMMA TriggerTyped ==
  ASSUME CaseTyped, ThreadsTyped, trigger_workflow_checkpointer
  PROVE  CaseTyped' /\ ThreadsTyped'
<1>1. ThreadsTyped' /\ UNCHANGED <<vote, plan>>
  BY DEF trigger_workflow_checkpointer, threadVars, ThreadsTyped
<1>2. CASE ingest_alerts_node
  BY <1>1, <1>2 DEF ingest_alerts_node, goto, update_status, Redrawn, runVars, external,
     CaseTyped, CaseStatus, PC, PlanningPC
<1>3. CASE investigate_nodes
  BY <1>1, <1>3 DEF investigate_nodes, goto, Redrawn, storeVars, runVars, external,
     CaseTyped, PC, PlanningPC
<1>4. CASE analyze_node_raises
  BY <1>1, <1>4 DEF analyze_node_raises, goto, Redrawn, storeVars, runVars, external,
     CaseTyped, PC, StoppedPC
<1> QED BY <1>2, <1>3, <1>4 DEF trigger_workflow_checkpointer

LEMMA PlanTyped ==
  ASSUME CaseTyped, ThreadsTyped, NEW p \in Process, plan_actions(p)
  PROVE  CaseTyped' /\ ThreadsTyped'
<1>1. ThreadsTyped'
  BY EndNodeType DEF plan_actions, Node, Verdicts
<1>2. proposed_actions' \in {playbook, Redrawn} /\ playbook' = playbook /\ Redrawn' = Redrawn
  BY PlansTyped DEF plan_actions, update_actions, Redrawn, CaseTyped
<1>3. pc' \in [Process -> PC \cup ResumePC]
  <2>1. pc' = [pc EXCEPT ![p] = "paused"] \/ pc' = [pc EXCEPT ![p] = "check"]
    BY DEF plan_actions, goto
  <2> QED BY <2>1 DEF CaseTyped, PC, StoppedPC, ExecutionPC
<1>4. UNCHANGED <<status, approval_records, execution_log, evidence_pack, runVars, external, vote>>
  BY DEF plan_actions
<1>5. plan' \in [Process -> {<<>>, playbook, Redrawn}]
  BY PlansTyped DEF plan_actions, CaseTyped
<1> QED BY <1>1, <1>2, <1>3, <1>4, <1>5 DEF CaseTyped, runVars, external

LEMMA NodesTyped ==
  ASSUME CaseTyped, ThreadsTyped, NEW p \in Process,
         human_approve(p) \/ escalate_node(p) \/ update_case(p)
  PROVE  CaseTyped' /\ ThreadsTyped'
<1>1. ThreadsTyped'
  <2>1. CASE \E node \in Node : end_node(p, node, thread[p].approvals)
    BY <2>1, EndNodeType, ApprovalsTyped
  <2>2. CASE UNCHANGED threadVars
    BY <2>2 DEF threadVars, ThreadsTyped
  <2> QED BY <2>1, <2>2 DEF human_approve, escalate_node, update_case, Node
<1>2. CASE human_approve(p)
  <2>1. pc' \in [Process -> PC \cup ResumePC]
    BY <1>2 DEF human_approve, goto, route_approval, CaseTyped, PC, ExecutionPC, ResumePC
  <2> QED BY <1>1, <1>2, <2>1
          DEF human_approve, CaseTyped, CaseStatus, update_status, runVars, external, Redrawn,
              read_case
<1>3. CASE escalate_node(p)
  BY <1>1, <1>3 DEF escalate_node, goto, CaseTyped, storeVars, runVars, external,
     PC, ExecutionPC, Redrawn
<1>4. CASE update_case(p)
  <2> USE DEF CaseTyped, CaseStatus, PC, ExecutionPC, StoppedPC, goto, update_status,
            set_evidence_pack, storeVars, runVars, external, Redrawn
  <2>1. CASE collect_evidence(p)
    BY <1>1, <1>4, <2>1 DEF update_case, collect_evidence
  <2>2. CASE seal_evidence(p)
    BY <1>1, <1>4, <2>2 DEF update_case, seal_evidence
  <2>3. CASE close_case(p)
    BY <1>1, <1>4, <2>3 DEF update_case, close_case
  <2> QED BY <1>4, <2>1, <2>2, <2>3 DEF update_case
<1> QED BY <1>2, <1>3, <1>4

LEMMA TypeOKRun ==
  ASSUME Base, NEW p \in Process, Run(p)
  PROVE  TypeOK'
<1>0. CaseTyped /\ ThreadsTyped /\ LoopsOK /\ VotesOK /\ crashes \in 0..MaxCrashes
  BY TypeOKSplits DEF Base
<1>1. crashes' = crashes
  BY DEF Run, trigger_workflow_checkpointer, investigate_again, approve,
     resume_workflow_checkpointer, reopen_case, read_verdict, read_thread, update_thread,
     invoke, plan_actions, human_approve, execute, escalate_node, update_case
<1>2. CaseTyped' /\ ThreadsTyped'
  <2>1. CASE p = Trigger /\ trigger_workflow_checkpointer
    BY <1>0, <2>1, TriggerTyped
  <2>2. CASE p \in Request /\ investigate_again(p)
    BY <1>0, <2>2
       DEF investigate_again, goto, storeVars, runVars, external, threadVars, Redrawn,
           CaseTyped, ThreadsTyped, PC, PlanningPC, StoppedPC
  <2>3. CASE p \in Request /\ approve(p)
    <3>1. ThreadsTyped'
      BY <1>0, <2>3 DEF approve, threadVars, ThreadsTyped
    <3> QED BY <1>0, <2>3, <3>1, RequestTyped
  <2>4. CASE p \in Request /\ resume_workflow_checkpointer(p)
    BY <1>0, <2>4, ResumeTyped
  <2>5. CASE plan_actions(p)
    BY <1>0, <2>5, PlanTyped
  <2>6. CASE human_approve(p) \/ escalate_node(p) \/ update_case(p)
    BY <1>0, <2>6, NodesTyped
  <2>7. CASE execute(p)
    <3>1. CASE end_node(p, "execute", thread[p].approvals)
      BY <1>0, <2>7, <3>1, EndNodeType, ApprovalsTyped, ExecuteTyped DEF Node
    <3>2. CASE UNCHANGED threadVars
      <4>1. ThreadsTyped'
        BY <1>0, <3>2 DEF threadVars, ThreadsTyped
      <4> QED BY <1>0, <2>7, <4>1, ExecuteTyped
    <3> QED BY <2>7, <3>1, <3>2 DEF execute
  <2> QED BY <2>1, <2>2, <2>3, <2>4, <2>5, <2>6, <2>7 DEF Run
<1> QED BY <1>0, <1>1, <1>2, TypeOKJoins

LEMMA TypeOKSave ==
  ASSUME TypeOK, save_checkpoint
  PROVE  TypeOK'
<1>1. PICK i \in 1..Len(unsaved) :
        checkpoint' = unsaved[i].state /\ unsaved' = SubSeq(unsaved, i + 1, Len(unsaved))
  BY DEF save_checkpoint
<1>2. PICK Saved : Saved = [by : Process, state : Thread]
  OBVIOUS
<1>3. unsaved \in Seq(Saved) /\ Len(unsaved) \in Nat
  BY <1>2 DEF TypeOK
<1>4. \A j \in 1..Len(unsaved) : unsaved[j] \in Saved
  BY <1>3
<1>5. checkpoint' \in Thread
  BY <1>1, <1>2, <1>4
<1>6. unsaved' \in Seq(Saved)
  BY <1>1, <1>3, <1>4, SubSeqProperties
<1>7. /\ UNCHANGED <<storeVars, pc, runVars, external, vote, thread, plan, crashes>>
      /\ Redrawn' = Redrawn
  BY DEF save_checkpoint, Redrawn, storeVars
<1> QED BY <1>2, <1>5, <1>6, <1>7 DEF TypeOK, storeVars, runVars, external

LEMMA TypeOKCrash ==
  ASSUME TypeOK, crash
  PROVE  TypeOK'
<1>1. Start \in Thread
  BY DEF Start, Thread, Node, Verdicts
<1>2. /\ pc' \in [Process -> PC \cup ResumePC] /\ at' \in [Process -> Nat \ {0}]
      /\ seen' \in [Process -> Seq(Step)] /\ outcome' \in [Process -> StepStatus \cup {"none"}]
  BY DEF crash, TypeOK, PC, StoppedPC
<1>3. /\ unsaved' \in Seq([by : Process, state : Thread]) /\ thread' \in [Process -> Thread]
      /\ checkpoint' = checkpoint
  BY <1>1 DEF crash
<1>4. crashes' \in 0..MaxCrashes
  BY CheckpointAssumption DEF crash, TypeOK
<1>5. /\ UNCHANGED <<storeVars, dispatched, vote>> /\ Redrawn' = Redrawn
      /\ plan' \in [Process -> {<<>>, playbook, Redrawn}]
  BY DEF crash, Redrawn, storeVars
<1>6. pollers' \subseteq Poller /\ unpolled' \subseteq Action \X Process
  <2>1. \A k \in pollers : <<k.action, k.by>> \in Action \X Process
    BY DEF TypeOK, Poller
  <2> QED BY <2>1 DEF crash, TypeOK
<1> QED BY <1>2, <1>3, <1>4, <1>5, <1>6 DEF TypeOK, storeVars

\* Writing a poll result keeps the log a sequence of steps
LEMMA WithLatestType ==
  ASSUME NEW log \in Seq(Step), NEW a, NEW result \in StepStatus
  PROVE  WithLatest(log, a, result) \in Seq(Step)
<1>1. log \in [1..Len(log) -> Step] /\ Len(log) \in Nat
  OBVIOUS
<1>2. \A s \in Step : [s EXCEPT !.status = result] \in Step
  BY DEF Step
<1>3. WithLatest(log, a, result) \in [1..Len(log) -> Step]
  BY <1>1, <1>2 DEF WithLatest
<1> QED BY <1>1, <1>3

LEMMA TypeOKPoll ==
  ASSUME TypeOK, poll
  PROVE  TypeOK'
<1>1. PICK k \in pollers : poll_shuffle(k)
  BY DEF poll
<1>2. k \in Poller /\ execution_log \in Seq(Step)
  BY <1>1 DEF TypeOK
<1>3. /\ execution_log' \in Seq(Step) /\ pollers' \subseteq Poller
      /\ unpolled' \subseteq Action \X Process
  <2> USE <1>2 DEF TypeOK, storeVars
  <2>1. CASE poll_answers(k)
    <3>1. \A result \in {"success", "failed"} :
            [k EXCEPT !.result = result, !.seen = execution_log] \in Poller
      BY DEF Poller
    <3> QED BY <2>1, <3>1 DEF poll_answers
  <2>2. CASE poll_writes(k)
    <3>1. k.seen \in Seq(Step) /\ k.result \in StepStatus
      BY <2>2 DEF poll_writes, Poller, StepStatus
    <3>2. execution_log' \in Seq(Step)
      BY <2>2, <3>1, WithLatestType DEF poll_writes
    <3> QED BY <2>2, <3>2 DEF poll_writes
  <2>3. CASE poll_times_out(k)
    <3>1. <<k.action, k.by>> \in Action \X Process
      BY DEF Poller
    <3> QED BY <2>3, <3>1 DEF poll_times_out
  <2>4. CASE poll_misses(k)
    BY <2>4 DEF poll_misses
  <2> QED BY <1>1, <2>1, <2>2, <2>3, <2>4 DEF poll_shuffle
<1>4. Redrawn' = Redrawn
  BY PollStays DEF Redrawn
<1> QED BY <1>3, <1>4, PollStays DEF TypeOK

LEMMA TypeOKStep ==
  ASSUME Base, [Next]_vars
  PROVE  TypeOK'
<1>0. CaseTyped /\ ThreadsTyped /\ VotesOK /\ crashes \in 0..MaxCrashes
  BY TypeOKSplits DEF Base
<1>1. ASSUME NEW r \in Request, submit(r) PROVE TypeOK'
  <2>1. CaseTyped'
    BY <1>0, <1>1, RequestTyped
  <2>2. ThreadsTyped' /\ crashes' = crashes
    BY <1>0, <1>1 DEF submit, threadVars, ThreadsTyped
  <2> QED BY <1>0, <2>1, <2>2, TypeOKJoins
<1>2. CASE UNCHANGED vars
  <2>1. CaseTyped'
    BY <1>0, <1>2 DEF vars, storeVars, runVars, external, CaseTyped, Redrawn
  <2>2. ThreadsTyped' /\ crashes' = crashes
    BY <1>0, <1>2 DEF vars, threadVars, ThreadsTyped
  <2> QED BY <1>0, <2>1, <2>2, TypeOKJoins
<1> QED BY <1>1, <1>2, TypeOKRun, TypeOKSave, TypeOKPoll, TypeOKCrash DEF Next, Base
-----------------------------------------------------------------------------
(* The loops and the votes of the requests.                                *)

LEMMA LoopsRun ==
  ASSUME Base, TypeOK', NEW p \in Process, Run(p)
  PROVE  LoopOK(p)'
<1>0. TypeOK /\ LoopOK(p) /\ at[p] \in Nat \ {0}
      /\ Len(plan[p]) \in Nat /\ Len(plan'[p]) \in Nat
      /\ pc \in [Process -> PC \cup ResumePC] /\ at \in [Process -> Nat \ {0}]
      /\ outcome \in [Process -> StepStatus \cup {"none"}]
  <2>1. Len(plan[p]) \in Nat
    BY PlansTyped DEF Base, TypeOK
  <2>2. Len(plan'[p]) \in Nat
    <3>1. playbook' \in Playbooks /\ plan'[p] \in {<<>>, playbook', Redrawn'}
      BY DEF TypeOK
    <3>2. playbook' = playbook /\ Redrawn' = Redrawn
      BY PlanStep DEF Next, Redrawn
    <3> QED BY <3>1, <3>2, PlansTyped
  <2> QED BY <2>1, <2>2 DEF Base, TypeOK, LoopsOK
<1> USE <1>0 DEF LoopOK, LoopPC, goto, runVars
<1>1. CASE p = Trigger /\ trigger_workflow_checkpointer
  BY <1>1 DEF trigger_workflow_checkpointer, ingest_alerts_node, investigate_nodes,
              analyze_node_raises
<1>2. CASE p \in Request /\ (investigate_again(p) \/ approve(p))
  <2>1. CASE tally_action(p, plan[p])
    <3>1. pc[p] = "tally" /\ at[p] <= Len(plan[p]) /\ plan' = plan
      BY <1>2, <2>1 DEF tally_action, investigate_again, approve, refuse_duplicate
    <3>2. \/ pc' = pc /\ at'[p] = at[p] + 1
          \/ pc' = [pc EXCEPT ![p] = "voted"] /\ at'[p] = 1
      BY <2>1 DEF tally_action
    <3> QED BY <3>1, <3>2
  <2> QED BY <1>2, <2>1
          DEF investigate_again, approve, refuse_duplicate, accept_vote, add_record,
              close_rejected
<1>3. CASE p \in Request /\ resume_workflow_checkpointer(p)
  <2>1. CASE invoke(p)
    <3>1. pc[p] = "invoke" /\ at' = at /\ outcome' = outcome
      BY <2>1 DEF invoke
    <3>2. checkpoint \in Thread
      BY DEF TypeOK
    <3>3. \A label \in NextNodes(checkpoint) :
            label \in {"analyze", "plan", "notify", "check", "escalate", "collect", "finished"}
      BY <3>2 DEF NextNodes, Thread, Node, route_approval
    <3>4. pc'[p] \in {"analyze", "plan", "notify", "check", "escalate", "collect", "finished"}
      BY <2>1, <3>3 DEF invoke
    <3> QED BY <3>1, <3>4
  <2>2. CASE read_verdict(p)
    BY <2>2 DEF read_verdict
  <2>3. CASE reopen_case(p) \/ read_thread(p) \/ update_thread(p)
    BY <2>3 DEF reopen_case, read_thread, update_thread
  <2> QED BY <1>3, <2>1, <2>2, <2>3 DEF resume_workflow_checkpointer
<1>4. CASE plan_actions(p)
  <2>1. pc[p] = "plan" /\ pc'[p] \in {"paused", "check"} /\ at' = at /\ outcome' = outcome
    BY <1>4 DEF plan_actions
  <2> QED BY <2>1
<1>5. CASE human_approve(p) \/ escalate_node(p)
  <2>1. /\ pc[p] \in {"notify", "escalate"} /\ pc'[p] \in {"check", "escalate", "collect"}
        /\ at' = at /\ outcome' = outcome
    BY <1>5 DEF human_approve, escalate_node, route_approval
  <2> QED BY <2>1
<1>6. CASE execute(p)
  <2>0. plan' = plan
    BY <1>6 DEF execute
  <2>1. CASE skip_action(p, plan[p]) \/ clear_action(p, plan[p]) \/ append_reads(p) \/ contain_case(p, plan[p])
    BY <2>0, <2>1 DEF skip_action, clear_action, append_reads, contain_case, StepStatus
  <2>2. CASE execute_action(p, plan[p])
    <3>1. pc[p] = "execute" /\ pc'[p] = "read_log" /\ at' = at
      BY <2>2 DEF execute_action
    <3>2. outcome'[p] \in StepStatus
      BY <2>2, ProcessAssumption DEF execute_action, StepStatus
    <3> QED BY <2>0, <3>1, <3>2
  <2>3. CASE append_writes(p, plan[p])
    <3>1. pc[p] = "write_log" /\ pc'[p] = "check" /\ at'[p] = at[p] + 1
      BY <2>3 DEF append_writes
    <3> QED BY <2>0, <3>1
  <2>4. CASE execute_action_raises(p, plan[p])
    <3>1. pc'[p] = "failed" /\ at'[p] = 1
      BY <2>4 DEF execute_action_raises
    <3> QED BY <3>1
  <2> QED BY <1>6, <2>1, <2>2, <2>3, <2>4 DEF execute
<1>7. CASE update_case(p)
  BY <1>7 DEF update_case, collect_evidence, seal_evidence, close_case
<1> QED BY <1>1, <1>2, <1>3, <1>4, <1>5, <1>6, <1>7 DEF Run

LEMMA LoopsStep ==
  ASSUME Base, TypeOK', [Next]_vars
  PROVE  LoopsOK'
<1>1. TypeOK /\ LoopsOK
  BY DEF Base
<1>2. ASSUME NEW q \in Process, UNCHANGED <<pc[q], at[q], outcome[q], plan[q]>>
      PROVE  LoopOK(q)'
  BY <1>1, <1>2 DEF LoopsOK, LoopOK
<1>3. ASSUME NEW p \in Process, Run(p) PROVE LoopsOK'
  <2>1. LoopOK(p)'
    BY <1>3, LoopsRun
  <2>2. \A q \in Process \ {p} : LoopOK(q)'
    BY <1>1, <1>2, <1>3, OthersStay
  <2> QED BY <2>1, <2>2 DEF LoopsOK
<1>4. ASSUME NEW r \in Request, submit(r) PROVE LoopsOK'
  <2>1. r \in Process
    BY DEF Process
  <2>2. LoopOK(r)'
    <3>1. pc[r] = "idle" /\ pc'[r] = "duplicates" /\ at'[r] = at[r]
      BY <1>1, <1>4, <2>1 DEF submit, submit_approval, goto, runVars, TypeOK
    <3>2. at[r] = 1
      BY <1>1, <2>1, <3>1 DEF LoopsOK, LoopOK, LoopPC
    <3>3. plan'[r] = proposed_actions
      BY <1>1, <1>4, <2>1 DEF submit, read_case, TypeOK
    <3>4. Len(proposed_actions) \in Nat
      BY <1>1, PlansTyped DEF TypeOK
    <3> QED BY <3>1, <3>2, <3>3, <3>4 DEF LoopOK, LoopPC
  <2>3. \A q \in Process \ {r} : LoopOK(q)'
    BY <1>1, <1>2, <1>4, <2>1, OthersStay
  <2> QED BY <2>2, <2>3 DEF LoopsOK
<1>5. CASE save_checkpoint \/ poll \/ UNCHANGED vars
  <2>1. UNCHANGED <<pc, at, outcome, plan>>
    BY <1>5, PollStays DEF save_checkpoint, vars, runVars
  <2> QED BY <1>2, <2>1 DEF LoopsOK
<1>6. CASE crash
  <2>1. ASSUME NEW q \in Process
        PROVE  at'[q] = 1 /\ plan'[q] = <<>> /\ pc'[q] \in StoppedPC
    BY <1>1, <1>6, <2>1 DEF crash, Active, StoppedPC, TypeOK
  <2> QED BY <2>1 DEF LoopsOK, LoopOK, LoopPC, StoppedPC
<1> QED BY <1>3, <1>4, <1>5, <1>6 DEF Next

LEMMA VotesStep ==
  ASSUME Base, [Next]_vars
  PROVE  VotesOK'
<1>0. TypeOK /\ VotesOK /\ Request \subseteq Process
  BY DEF Base, Process
<1>1. ASSUME NEW r \in Request, submit(r) PROVE VotesOK'
  <2>1. PICK v \in Votes[r] : vote' = [vote EXCEPT ![r] = v]
    BY <1>1 DEF submit, submit_approval
  <2>2. v \in Vote
    BY VoteAssumption
  <2>3. vote'[r] = v /\ \A q \in Request \ {r} : vote'[q] = vote[q] /\ pc'[q] = pc[q]
    BY <1>0, <1>1, <2>1 DEF TypeOK, submit, submit_approval, goto
  <2> QED BY <1>0, <2>2, <2>3 DEF VotesOK
<1>2. ASSUME NEW p \in Process, Run(p) PROVE VotesOK'
  <2>1. ASSUME NEW r \in Request, p = r, refuse_duplicate(r) PROVE VotesOK'
    BY <1>0, <2>1 DEF refuse_duplicate, goto, VotesOK, TypeOK
  <2>2. ASSUME vote' = vote, \A r \in Request : pc'[r] \in {"duplicates", "sign"} =>
                 pc[r] \in {"duplicates", "sign"}
        PROVE  VotesOK'
    BY <1>0, <2>2 DEF VotesOK
  <2>3. ASSUME vote' = vote, pc'[p] \notin {"duplicates", "sign"} PROVE VotesOK'
    BY <1>0, <1>2, <2>3, OthersStay DEF VotesOK
  <2>4. CASE p = Trigger /\ trigger_workflow_checkpointer
    BY <1>0, <2>3, <2>4 DEF trigger_workflow_checkpointer, ingest_alerts_node,
       investigate_nodes, analyze_node_raises, goto, TypeOK
  <2>5. CASE p \in Request /\ (investigate_again(p) \/ approve(p))
    BY <1>0, <2>1, <2>2, <2>5 DEF investigate_again, approve, accept_vote, add_record,
       close_rejected, tally_action, goto, TypeOK
  <2>6. CASE p \in Request /\ resume_workflow_checkpointer(p)
    <3>1. CASE invoke(p)
      <4>1. checkpoint \in Thread
        BY <1>0 DEF TypeOK
      <4>2. NextNodes(checkpoint) \cap {"duplicates", "sign"} = {}
        BY <4>1 DEF NextNodes, Thread, Node, route_approval
      <4>3. pc'[p] \notin {"duplicates", "sign"} /\ vote' = vote
        BY <1>0, <3>1, <4>2 DEF invoke, goto, TypeOK
      <4> QED BY <2>3, <4>3
    <3> QED BY <1>0, <2>2, <2>3, <2>6, <3>1 DEF resume_workflow_checkpointer, reopen_case,
            read_verdict, read_thread, update_thread, goto, TypeOK
  <2>7. CASE plan_actions(p) \/ human_approve(p) \/ escalate_node(p)
    <3>1. pc'[p] \in {"paused", "check", "escalate", "collect"} /\ vote' = vote
      BY <1>0, <2>7 DEF plan_actions, human_approve, escalate_node, route_approval, goto, TypeOK
    <3> QED BY <2>3, <3>1
  <2>8. CASE execute(p) \/ update_case(p)
    BY <1>0, <2>3, <2>8 DEF execute, skip_action, clear_action, execute_action,
                            execute_action_raises, append_reads,
       append_writes, contain_case, update_case, collect_evidence, seal_evidence, close_case,
       goto, TypeOK
  <2> QED BY <1>2, <2>4, <2>5, <2>6, <2>7, <2>8 DEF Run
<1>3. CASE save_checkpoint \/ poll \/ UNCHANGED vars
  <2>1. UNCHANGED <<pc, vote>>
    BY <1>3, PollStays DEF save_checkpoint, vars
  <2> QED BY <1>0, <2>1 DEF VotesOK
<1>4. CASE crash
  BY <1>0, <1>4 DEF crash, VotesOK, Active
<1> QED BY <1>1, <1>2, <1>3, <1>4 DEF Next

LEMMA BaseStep == Base /\ [Next]_vars => Base'
BY TypeOKStep, LoopsStep, VotesStep DEF Base

\* Every value keeps its type through crashes, late checkpoint writes and
\* plans drawn again: in particular a thread read back from Postgres is
\* always one of the six nodes, so invoke has a node to enter
\* (workflow.py:372).
THEOREM ThreadTypeCorrect == Spec => []TypeOK
<1>1. Spec => []Base
  BY InitBase, BaseStep, PTL DEF Spec
<1>2. Base => TypeOK
  BY DEF Base
<1> QED BY <1>1, <1>2, PTL
-----------------------------------------------------------------------------
(* A thread that has ended.                                                *)

\* One step of a run or a request of a thread that has ended: it is outside
\* the graph before and after, and carries the end of the thread back
LEMMA EndedRun ==
  ASSUME TypeOK, Ended, NEW p \in Process, Run(p) \/ (p \in Request /\ submit(p))
  PROVE  /\ UNCHANGED <<proposed_actions, dispatched, evidence_pack>>
         /\ checkpoint'.last = "update_case" /\ unsaved' = <<>>
         /\ ~ InGraph(p)' /\ (pc'[p] = "update_thread" => thread'[p].last = "update_case")
<1>0. /\ pc \in [Process -> PC \cup ResumePC] /\ thread \in [Process -> Thread]
      /\ checkpoint.last = "update_case" /\ unsaved = <<>>
      /\ ~ InGraph(p) /\ (pc[p] = "update_thread" => thread[p].last = "update_case")
  BY DEF TypeOK, Ended
<1>1. pc[p] \notin ExecutionPC \cup {"ingest", "analyze", "plan", "notify", "escalate"}
  BY <1>0 DEF InGraph, Executing
<1>2. p \in Request /\ (approve(p) \/ resume_workflow_checkpointer(p) \/ submit(p))
  BY <1>0, <1>1, ProcessAssumption
     DEF Run, trigger_workflow_checkpointer, ingest_alerts_node, investigate_nodes,
         analyze_node_raises, investigate_again, plan_actions, human_approve, execute,
         skip_action, clear_action, execute_action, execute_action_raises, append_reads, append_writes, contain_case,
         escalate_node, update_case, collect_evidence, seal_evidence, close_case, ExecutionPC
<1> USE <1>0 DEF goto, storeVars, external, runVars, threadVars
<1>3. ASSUME pc'[p] \in RequestPC \cup {"read_verdicts", "invoke", "finished"}
      PROVE  ~ InGraph(p)' /\ pc'[p] # "update_thread"
  BY <1>3 DEF InGraph, Executing, ExecutionPC, RequestPC
<1>4. CASE approve(p) \/ submit(p)
  <2>1. pc'[p] \in RequestPC
    BY <1>2, <1>4 DEF approve, refuse_duplicate, accept_vote, add_record, close_rejected,
       tally_action, submit, submit_approval, RequestPC
  <2>2. UNCHANGED <<proposed_actions, dispatched, evidence_pack, checkpoint, unsaved>>
    BY <1>2, <1>4 DEF approve, refuse_duplicate, accept_vote, add_record, close_rejected,
       tally_action, submit, submit_approval
  <2> QED BY <1>3, <2>1, <2>2
<1>5. CASE reopen_case(p) \/ read_verdict(p)
  BY <1>3, <1>5 DEF reopen_case, read_verdict
<1>6. CASE read_thread(p)
  <2>1. thread' = [thread EXCEPT ![p] = [thread[p] EXCEPT !.last = checkpoint.last]]
    BY <1>6 DEF read_thread
  <2>2. thread[p] \in Thread /\ p \in Process
    OBVIOUS
  <2>3. thread'[p].last = "update_case"
    BY <2>1, <2>2 DEF Thread
  <2>4. pc'[p] = "update_thread"
    BY <1>6 DEF read_thread
  <2> QED BY <1>6, <2>3, <2>4 DEF read_thread, InGraph, Executing, ExecutionPC
<1>7. CASE update_thread(p)
  BY <1>3, <1>7 DEF update_thread
<1>8. CASE invoke(p)
  <2>1. NextNodes(checkpoint) = {"finished"}
    BY DEF NextNodes
  <2> QED BY <1>3, <1>8, <2>1 DEF invoke
<1> QED BY <1>2, <1>4, <1>5, <1>6, <1>7, <1>8 DEF resume_workflow_checkpointer

LEMMA EndedStep ==
  ASSUME TypeOK, Ended, [Next]_vars
  PROVE  Ended' /\ UNCHANGED <<proposed_actions, dispatched, evidence_pack>>
<1>1. ASSUME NEW p \in Process, Run(p) \/ (p \in Request /\ submit(p))
      PROVE  Ended' /\ UNCHANGED <<proposed_actions, dispatched, evidence_pack>>
  <2>1. \A q \in Process \ {p} : pc'[q] = pc[q] /\ thread'[q] = thread[q]
    BY <1>1, OthersStay
  <2>2. \A q \in Process \ {p} :
          ~ InGraph(q)' /\ (pc'[q] = "update_thread" => thread'[q].last = "update_case")
    BY <2>1 DEF Ended, InGraph, Executing
  <2> QED BY <1>1, <2>2, EndedRun DEF Ended
<1>2. ~ save_checkpoint
  BY DEF save_checkpoint, Ended
<1>3. CASE crash
  BY <1>3 DEF crash, Ended, InGraph, Executing, ExecutionPC, Active, StoppedPC, storeVars, external
<1>4. CASE poll \/ UNCHANGED vars
  BY <1>4, PollStays DEF vars, storeVars, external, threadVars, Ended, InGraph, Executing
<1>5. Request \subseteq Process
  BY DEF Process
<1> QED BY <1>1, <1>2, <1>3, <1>4, <1>5 DEF Next

\* Once the thread has ended and no run is left inside the graph, no vote, no
\* resume and no crash plans, executes or seals anything again: aupdate_state
\* writes the end back, and ainvoke finds no node after it (workflow.py:371).
THEOREM ThreadEndsOnce == Spec => EndedStaysEnded
<1>1. TypeOK /\ [Next]_vars =>
        [Ended => Ended' /\ UNCHANGED <<proposed_actions, dispatched, evidence_pack>>]_vars
  BY EndedStep
<1> QED BY <1>1, ThreadTypeCorrect, PTL DEF Spec, EndedStaysEnded
-----------------------------------------------------------------------------
(* Why a sealed case was signed.  Signatures are never withdrawn and the   *)
(* plan first drawn is fixed, so that it was signed is never undone; what  *)
(* has to be shown is that nobody enters the second half of the graph      *)
(* before, and who is left when the plan has been drawn again.             *)

FirstSigned == \A a \in GatedActions(playbook) : Signed(a)

\* A request is under way only about a plan that exists and that it has read
PlannedOK ==
  \A r \in Request : Active(r) => proposed_actions # <<>> /\ plan[r] # <<>>

\* The trigger run draws the first plan, and goes on only if that is open
TriggerOK ==
  /\ pc[Trigger] \in PlanningPC => proposed_actions = <<>>
  /\ Active(Trigger) => pc[Trigger] \in PlanningPC \/ GatedActions(playbook) = {}

\* Who draws the plan again, and whoever reads it then, comes after the
\* signatures of the first
FirstOK ==
  /\ proposed_actions \notin {<<>>, playbook} => FirstSigned
  /\ \A p \in Process : plan[p] \notin {<<>>, playbook} => FirstSigned

\* The tally of a request has counted every signature up to where it is
Counted(r) ==
  \A i \in 1..Len(plan[r]) :
    i < at[r] /\ ApprovalRequired(plan[r][i]) => Signed(plan[r][i])

TallyOK == \A r \in Request : pc[r] = "tally" => Counted(r)

\* p has been let past the signatures, or is a request that continues the
\* thread from before its plan
Past(p) ==
  \/ Executing(p)
  \/ pc[p] \in {"read_verdicts", "update_thread", "invoke", "notify", "escalate"}
  \/ p \in Request /\ pc[p] \in {"analyze", "plan"}

PastOK == \A p \in Process : Past(p) => FirstSigned

Closing == status = "contained" \/ evidence_pack # NoPack

ClosingOK == Closing => FirstSigned

\* The request that drew the plan again stopped before its gate ...
PausedOK ==
  proposed_actions \notin {<<>>, playbook} /\ GatedActions(proposed_actions) # {} =>
    \E r \in Request : pc[r] = "paused"

\* ... and a request is what closes a case that needs signatures
EnderPC == {"collect", "seal", "resolve", "finished", "lost"}

EnderOK ==
  Closing /\ GatedActions(playbook) # {} => \E q \in Request : pc[q] \in EnderPC

SealInv ==
  /\ Base
  /\ PlannedOK /\ TriggerOK /\ FirstOK /\ TallyOK /\ PastOK /\ ClosingOK
  /\ PausedOK /\ EnderOK

\* A plan drawn again needs signatures only if the first one did
LEMMA RedrawnGated ==
  ASSUME TypeOK, GatedActions(Redrawn) # {}
  PROVE  GatedActions(playbook) # {}
<1>1. playbook \in Seq(Action) /\ Len(playbook) \in Nat
  BY PlansTyped DEF TypeOK
<1>2. PICK i \in 1..Len(playbook) : ApprovalRequired(Fresh[playbook[i]])
  BY <1>1 DEF GatedActions, Redrawn
<1>3. playbook[i] \in Action
  BY <1>1
<1>4. ApprovalRequired(playbook[i])
  BY <1>2, <1>3, CheckpointAssumption DEF ApprovalRequired
<1> QED BY <1>4 DEF GatedActions

LEMMA InvariantImplies == SealInv => SealedWasSigned
<1> SUFFICES ASSUME SealInv, Closing
             PROVE  /\ FirstSigned
                    /\ \/ \A a \in GatedActions(proposed_actions) : Signed(a)
                       \/ \E r \in Request : pc[r] = "paused"
                            /\ \E q \in Request : Executing(q) \/ pc[q] \in {"finished", "lost"}
  BY DEF SealedWasSigned, Closing, FirstSigned
<1>1. FirstSigned
  BY DEF SealInv, ClosingOK
<1>2. CASE GatedActions(proposed_actions) = {}
  BY <1>1, <1>2
<1>3. CASE proposed_actions \in {<<>>, playbook}
  <2>1. GatedActions(<<>>) = {}
    BY DEF GatedActions
  <2> QED BY <1>1, <1>3, <2>1 DEF FirstSigned
<1>4. CASE proposed_actions \notin {<<>>, playbook} /\ GatedActions(proposed_actions) # {}
  <2>1. GatedActions(playbook) # {}
    BY <1>4, RedrawnGated DEF SealInv, Base, TypeOK
  <2>2. \E r \in Request : pc[r] = "paused"
    BY <1>4 DEF SealInv, PausedOK
  <2>3. \E q \in Request : pc[q] \in EnderPC
    BY <2>1 DEF SealInv, EnderOK
  <2> QED BY <1>1, <2>2, <2>3 DEF EnderPC, Executing, ExecutionPC
<1> QED BY <1>2, <1>3, <1>4

\* Nobody moves but a coroutine that is under way
LEMMA RunIsActive ==
  ASSUME NEW p \in Process, Run(p)
  PROVE  Active(p)
<1> USE DEF Active, StoppedPC
<1>1. CASE p = Trigger /\ trigger_workflow_checkpointer
  BY <1>1 DEF trigger_workflow_checkpointer, ingest_alerts_node, investigate_nodes,
              analyze_node_raises
<1>2. CASE p \in Request /\ (investigate_again(p) \/ approve(p))
  BY <1>2 DEF investigate_again, approve, refuse_duplicate, accept_vote, add_record,
              close_rejected, tally_action
<1>3. CASE p \in Request /\ resume_workflow_checkpointer(p)
  BY <1>3 DEF resume_workflow_checkpointer, reopen_case, read_verdict, read_thread,
              update_thread, invoke
<1>4. CASE plan_actions(p) \/ human_approve(p) \/ escalate_node(p)
  BY <1>4 DEF plan_actions, human_approve, escalate_node
<1>5. CASE execute(p)
  BY <1>5 DEF execute, skip_action, clear_action, execute_action, execute_action_raises,
              append_reads, append_writes, contain_case
<1>6. CASE update_case(p)
  BY <1>6 DEF update_case, collect_evidence, seal_evidence, close_case
<1> QED BY <1>1, <1>2, <1>3, <1>4, <1>5, <1>6 DEF Run

\* A coroutine that has stopped is moved by nobody, but an unused request
LEMMA StoppedStays ==
  ASSUME TypeOK, [Next]_vars, NEW p \in Process, ~ Active(p), pc[p] # "idle"
  PROVE  pc'[p] = pc[p]
<1>1. ASSUME NEW q \in Process, Run(q) PROVE pc'[p] = pc[p]
  BY <1>1, RunIsActive, OthersStay
<1>2. ASSUME NEW r \in Request, submit(r) PROVE pc'[p] = pc[p]
  <2>1. r # p /\ r \in Process
    BY <1>2 DEF submit, submit_approval, Process
  <2> QED BY <1>2, <2>1, OthersStay
<1>3. CASE save_checkpoint \/ poll \/ crash \/ UNCHANGED vars
  BY <1>3, PollStays DEF save_checkpoint, vars, crash
<1> QED BY <1>1, <1>2, <1>3 DEF Next

\* Only the trigger run draws the first plan
LEMMA WhoPlans ==
  ASSUME SealInv, NEW p \in Process, plan_actions(p)
  PROVE  \/ p = Trigger /\ proposed_actions = <<>> /\ NextPlan = playbook
         \/ p \in Request /\ Past(p) /\ proposed_actions # <<>>
<1>1. CASE p = Trigger
  BY <1>1 DEF plan_actions, NextPlan, SealInv, TriggerOK, PlanningPC
<1>2. CASE p \in Request
  BY <1>2 DEF plan_actions, Past, SealInv, PlannedOK, Active, StoppedPC
<1> QED BY <1>1, <1>2 DEF Process

LEMMA RecordsGrow ==
  ASSUME [Next]_vars
  PROVE  approval_records \subseteq approval_records'
<1> USE DEF storeVars
<1>1. ASSUME NEW p \in Process, Run(p) PROVE approval_records \subseteq approval_records'
  <2>1. CASE p = Trigger /\ trigger_workflow_checkpointer
    BY <2>1 DEF trigger_workflow_checkpointer, ingest_alerts_node, investigate_nodes,
                analyze_node_raises
  <2>2. CASE p \in Request /\ (investigate_again(p) \/ approve(p))
    BY <2>2 DEF investigate_again, approve, refuse_duplicate, accept_vote, add_record,
                close_rejected, tally_action
  <2>3. CASE p \in Request /\ resume_workflow_checkpointer(p)
    BY <2>3 DEF resume_workflow_checkpointer, reopen_case, read_verdict, read_thread,
                update_thread, invoke
  <2>4. CASE plan_actions(p) \/ human_approve(p) \/ escalate_node(p)
    BY <2>4 DEF plan_actions, human_approve, escalate_node
  <2>5. CASE execute(p)
    BY <2>5 DEF execute, skip_action, clear_action, execute_action, execute_action_raises,
                append_reads, append_writes, contain_case
  <2>6. CASE update_case(p)
    BY <2>6 DEF update_case, collect_evidence, seal_evidence, close_case
  <2> QED BY <1>1, <2>1, <2>2, <2>3, <2>4, <2>5, <2>6 DEF Run
<1>2. ASSUME NEW r \in Request, submit(r) PROVE approval_records \subseteq approval_records'
  BY <1>2 DEF submit, submit_approval
<1>3. CASE save_checkpoint \/ poll \/ crash \/ UNCHANGED vars
  BY <1>3, PollStays DEF save_checkpoint, crash, vars
<1> QED BY <1>1, <1>2, <1>3 DEF Next

LEMMA SignaturesStay ==
  ASSUME [Next]_vars
  PROVE  /\ \A a : Signed(a) => Signed(a)'
         /\ FirstSigned => FirstSigned'
         /\ playbook' = playbook /\ Redrawn' = Redrawn
         /\ GatedActions(playbook)' = GatedActions(playbook)
<1>1. \A a : Signed(a) => Signed(a)'
  BY RecordsGrow DEF Signed, Approvals
<1>2. playbook' = playbook /\ Redrawn' = Redrawn
  BY PlanStep DEF Redrawn
<1> QED BY <1>1, <1>2 DEF FirstSigned, GatedActions

\* A tally that has reached the end has seen every signature of the plan it
\* has read, and with it, or before it, those of the first plan
LEMMA TallyMeansSigned ==
  ASSUME SealInv, NEW r \in Request, pc[r] = "tally", at[r] > Len(plan[r])
  PROVE  FirstSigned
<1>1. plan[r] # <<>>
  BY DEF SealInv, PlannedOK, Active, StoppedPC
<1>2. CASE plan[r] = playbook
  <2>1. Len(plan[r]) \in Nat /\ at[r] \in Nat
    BY PlansTyped DEF SealInv, Base, TypeOK, Process
  <2>2. \A i \in 1..Len(plan[r]) : ApprovalRequired(plan[r][i]) => Signed(plan[r][i])
    BY <2>1 DEF SealInv, TallyOK, Counted
  <2> QED BY <1>2, <2>2 DEF FirstSigned, GatedActions
<1>3. CASE plan[r] # playbook
  BY <1>1, <1>3 DEF SealInv, FirstOK, Process
<1> QED BY <1>2, <1>3

LEMMA PlannedStep ==
  ASSUME SealInv, [Next]_vars
  PROVE  PlannedOK'
<1>0. TypeOK /\ PlannedOK /\ Request \subseteq Process
  BY DEF SealInv, Base, Process
\* neither a plan nor a plan drawn again is empty once there was one
<1>1. proposed_actions # <<>> => NextPlan # <<>> /\ proposed_actions' # <<>>
  <2>1. ASSUME proposed_actions # <<>>, \E p \in Process : plan_actions(p) PROVE NextPlan # <<>>
    <3>1. proposed_actions = playbook /\ NextPlan = Redrawn
      BY <2>1 DEF plan_actions, NextPlan
    <3>2. Len(Redrawn) = Len(playbook) /\ playbook \in Seq(Action) /\ Redrawn \in Seq(Action)
      BY <1>0, PlansTyped DEF TypeOK
    <3> QED BY <2>1, <3>1, <3>2
  <2>2. CASE proposed_actions' = proposed_actions
    <3>1. proposed_actions # <<>> => NextPlan # <<>>
      <4>1. Len(Redrawn) = Len(playbook) /\ playbook \in Seq(Action) /\ Redrawn \in Seq(Action)
        BY <1>0, PlansTyped DEF TypeOK
      <4>2. proposed_actions # <<>> => playbook # <<>>
        <5>1. Redrawn # <<>> => playbook # <<>>
          BY <4>1
        <5> QED BY <1>0, <5>1 DEF TypeOK
      <4> QED BY <4>1, <4>2 DEF NextPlan
    <3> QED BY <2>2, <3>1
  <2> QED BY <2>1, <2>2, PlanStep
<1>2. ASSUME NEW r \in Request, ~ Active(r)' PROVE Active(r)' => FALSE
  BY <1>2
<1>3. ASSUME NEW r \in Request, Active(r), plan'[r] = plan[r]
      PROVE  proposed_actions' # <<>> /\ plan'[r] # <<>>
  BY <1>0, <1>1, <1>3 DEF PlannedOK
<1>4. ASSUME NEW r \in Request, Active(r), plan'[r] \in {proposed_actions, NextPlan}
      PROVE  proposed_actions' # <<>> /\ plan'[r] # <<>>
  BY <1>0, <1>1, <1>4 DEF PlannedOK
<1>5. ASSUME NEW p \in Process, Run(p), NEW r \in Request, Active(r)'
      PROVE  proposed_actions' # <<>> /\ plan'[r] # <<>>
  <2>1. CASE p # r
    <3>1. Active(r) /\ plan'[r] = plan[r]
      BY <1>0, <1>5, <2>1, OthersStay DEF Active
    <3> QED BY <1>3, <3>1
  <2>2. CASE p = r
    <3>1. Active(r)
      BY <1>5, <2>2, RunIsActive
    <3>2. plan'[r] = plan[r] \/ plan'[r] \in {proposed_actions, NextPlan}
      <4>0. r # Trigger
        BY ProcessAssumption
      <4> USE <1>0, <2>2 DEF TypeOK
      <4>1. CASE approve(r)
        <5>1. ~ refuse_duplicate(r)
          BY <1>5 DEF refuse_duplicate, goto, Active, StoppedPC
        <5> QED BY <4>1, <5>1 DEF approve
      <4>2. CASE investigate_again(r) \/ resume_workflow_checkpointer(r)
        BY <4>2 DEF investigate_again, resume_workflow_checkpointer, reopen_case, read_verdict,
           read_thread, update_thread, invoke, read_case
      <4>3. CASE plan_actions(r) \/ human_approve(r) \/ escalate_node(r)
        BY <4>3 DEF plan_actions, human_approve, escalate_node, read_case
      <4>4. CASE execute(r) \/ update_case(r)
        BY <4>4 DEF execute, update_case
      <4> QED BY <1>5, <4>0, <4>1, <4>2, <4>3, <4>4 DEF Run
    <3> QED BY <1>3, <1>4, <3>1, <3>2
  <2> QED BY <2>1, <2>2
<1>6. ASSUME NEW q \in Request, submit(q), NEW r \in Request, Active(r)'
      PROVE  proposed_actions' # <<>> /\ plan'[r] # <<>>
  <2>1. proposed_actions # <<>>
    <3>1. PICK v \in Votes[q] : Votable(v.action)
      BY <1>6 DEF submit, submit_approval
    <3> QED BY <3>1 DEF Votable
  <2>2. CASE q = r
    <3>1. plan'[r] = proposed_actions
      BY <1>0, <1>6, <2>2 DEF submit, read_case, TypeOK
    <3> QED BY <1>1, <2>1, <3>1
  <2>3. CASE q # r
    <3>1. Active(r) /\ plan'[r] = plan[r]
      BY <1>0, <1>6, <2>3, OthersStay DEF Active
    <3> QED BY <1>3, <3>1
  <2> QED BY <2>2, <2>3
<1>7. CASE save_checkpoint \/ poll \/ UNCHANGED vars
  <2>1. UNCHANGED <<pc, plan>>
    BY <1>7, PollStays DEF save_checkpoint, vars
  <2> QED BY <1>3, <2>1 DEF PlannedOK, Active
<1>8. CASE crash
  <2>1. \A r \in Request : ~ Active(r)'
    BY <1>0, <1>8 DEF crash, Active, StoppedPC
  <2> QED BY <2>1 DEF PlannedOK
<1> QED BY <1>5, <1>6, <1>7, <1>8 DEF Next, PlannedOK

LEMMA TriggerStep ==
  ASSUME SealInv, [Next]_vars
  PROVE  TriggerOK'
<1>0. TypeOK /\ TriggerOK /\ Trigger \in Process
  BY DEF SealInv, Base, Process
<1>1. GatedActions(playbook)' = GatedActions(playbook)
  BY SignaturesStay
<1>2. ASSUME pc'[Trigger] = pc[Trigger] PROVE TriggerOK'
  <2>1. ASSUME NEW p \in Process, plan_actions(p), pc[Trigger] \in PlanningPC PROVE FALSE
    <3>1. pc'[p] # pc[p]
      BY <1>0, <2>1 DEF plan_actions, goto, TypeOK
    <3> QED BY <1>0, <1>2, <2>1, <3>1, WhoPlans DEF TriggerOK
  <2>2. pc[Trigger] \in PlanningPC => proposed_actions' = proposed_actions
    BY <2>1, PlanStep
  <2> QED BY <1>0, <1>1, <1>2, <2>2 DEF TriggerOK, Active
<1>3. ASSUME ~ Active(Trigger)', pc'[Trigger] \notin PlanningPC PROVE TriggerOK'
  BY <1>3 DEF TriggerOK
<1>4. ASSUME Run(Trigger) PROVE TriggerOK'
  <2> USE <1>0 DEF goto, TypeOK, PlanningPC, TriggerOK, Active, StoppedPC
  <2>1. CASE trigger_workflow_checkpointer
    <3>1. proposed_actions' = proposed_actions /\ playbook' = playbook
      BY <2>1 DEF trigger_workflow_checkpointer, ingest_alerts_node, investigate_nodes,
                  analyze_node_raises, storeVars
    <3>2. pc[Trigger] \in PlanningPC /\ pc'[Trigger] \in PlanningPC \cup {"failed"}
      BY <2>1 DEF trigger_workflow_checkpointer, ingest_alerts_node, investigate_nodes,
                  analyze_node_raises
    <3> QED BY <3>1, <3>2
  <2>2. CASE plan_actions(Trigger)
    <3>1. NextPlan = playbook
      BY <2>2, WhoPlans, ProcessAssumption
    <3>2. pc'[Trigger] \in {"paused", "check"}
          /\ (pc'[Trigger] = "check" => GatedActions(NextPlan) = {})
      BY <2>2 DEF plan_actions, route_after_plan
    <3> QED BY <1>1, <3>1, <3>2
  <2>3. CASE human_approve(Trigger) \/ escalate_node(Trigger) \/ execute(Trigger)
             \/ update_case(Trigger)
    <3>1. pc[Trigger] \in ExecutionPC \cup {"notify", "escalate"}
      BY <2>3 DEF human_approve, escalate_node, execute, skip_action, clear_action,
         execute_action, execute_action_raises, append_reads, append_writes, contain_case,
         update_case, collect_evidence, seal_evidence, close_case, ExecutionPC
    <3>2. GatedActions(playbook) = {}
      BY <3>1 DEF ExecutionPC
    <3>3. pc'[Trigger] \notin PlanningPC
      BY <2>3 DEF human_approve, escalate_node, execute, skip_action, clear_action,
         execute_action, execute_action_raises, append_reads, append_writes, contain_case,
         update_case, collect_evidence, seal_evidence, close_case, route_approval
    <3> QED BY <1>1, <3>2, <3>3
  <2> QED BY <1>4, <2>1, <2>2, <2>3, ProcessAssumption DEF Run
<1>5. ASSUME NEW p \in Process, Run(p) PROVE TriggerOK'
  BY <1>0, <1>2, <1>4, <1>5, OthersStay
<1>6. ASSUME NEW r \in Request, submit(r) PROVE TriggerOK'
  <2>1. r # Trigger /\ r \in Process
    BY ProcessAssumption DEF Process
  <2> QED BY <1>0, <1>2, <1>6, <2>1, OthersStay
<1>7. CASE save_checkpoint \/ poll \/ UNCHANGED vars
  BY <1>2, <1>7, PollStays DEF save_checkpoint, vars
<1>8. CASE crash
  <2>1. pc'[Trigger] = pc[Trigger] \/ pc'[Trigger] = "lost"
    BY <1>0, <1>8 DEF crash
  <2> QED BY <1>2, <1>3, <2>1 DEF Active, StoppedPC, PlanningPC
<1> QED BY <1>5, <1>6, <1>7, <1>8 DEF Next

LEMMA FirstStep ==
  ASSUME SealInv, [Next]_vars
  PROVE  FirstOK'
<1>0. TypeOK /\ FirstOK /\ PastOK
  BY DEF SealInv, Base
<1>1. CASE FirstSigned
  BY <1>1, SignaturesStay DEF FirstOK
<1>2. CASE ~ FirstSigned
  <2>1. proposed_actions \in {<<>>, playbook} /\ \A p \in Process : plan[p] \in {<<>>, playbook}
    BY <1>0, <1>2 DEF FirstOK
  <2>2. ASSUME NEW p \in Process, plan_actions(p) PROVE NextPlan = playbook
    BY <1>0, <1>2, <2>2, WhoPlans DEF PastOK
  <2>3. proposed_actions' \in {<<>>, playbook} /\ playbook' = playbook
    BY <2>1, <2>2, PlanStep
  <2>4. ASSUME NEW p \in Process, Run(p) PROVE plan'[p] \in {<<>>, playbook}
    <3> USE <1>0, <2>1 DEF TypeOK
    <3>1. CASE p = Trigger /\ trigger_workflow_checkpointer
      BY <3>1 DEF trigger_workflow_checkpointer
    <3>2. CASE investigate_again(p) \/ approve(p)
      BY <3>2 DEF investigate_again, approve
    <3>3. CASE resume_workflow_checkpointer(p)
      BY <3>3 DEF resume_workflow_checkpointer, reopen_case, read_verdict, read_thread,
                  update_thread, invoke, read_case
    <3>4. CASE plan_actions(p)
      BY <2>2, <3>4 DEF plan_actions
    <3>5. CASE human_approve(p) \/ escalate_node(p) \/ execute(p) \/ update_case(p)
      BY <3>5 DEF human_approve, escalate_node, execute, update_case, read_case
    <3> QED BY <2>4, <3>1, <3>2, <3>3, <3>4, <3>5 DEF Run
  <2>5. ASSUME NEW p \in Process, Run(p), NEW q \in Process PROVE plan'[q] \in {<<>>, playbook}
    BY <1>0, <2>1, <2>4, <2>5, OthersStay
  <2>6. ASSUME NEW r \in Request, submit(r), NEW q \in Process PROVE plan'[q] \in {<<>>, playbook}
    BY <1>0, <2>1, <2>6 DEF submit, read_case, TypeOK
  <2>7. ASSUME save_checkpoint \/ poll \/ UNCHANGED vars \/ crash, NEW q \in Process
        PROVE plan'[q] \in {<<>>, playbook}
    BY <2>1, <2>7, PollStays DEF save_checkpoint, vars, crash
  <2>8. \A q \in Process : plan'[q] \in {<<>>, playbook}
    BY <2>5, <2>6, <2>7 DEF Next
  <2> QED BY <2>3, <2>8 DEF FirstOK
<1> QED BY <1>1, <1>2

LEMMA TallyStep ==
  ASSUME SealInv, [Next]_vars
  PROVE  TallyOK'
<1>0. TypeOK /\ TallyOK /\ LoopsOK
  BY DEF SealInv, Base
\* What a request has counted stays counted
<1>1. ASSUME NEW r \in Request, pc[r] = "tally", UNCHANGED <<at[r], plan[r]>>
      PROVE  Counted(r)'
  BY <1>0, <1>1, SignaturesStay DEF TallyOK, Counted
<1>2. ASSUME NEW r \in Request, at'[r] = 1
      PROVE  Counted(r)'
  BY <1>2 DEF Counted
<1>3. ASSUME NEW r \in Request, tally_action(r, plan[r]), pc'[r] = "tally",
             plan'[r] = plan[r]
      PROVE  Counted(r)'
  <2>1. at[r] \in Nat /\ pc[r] = "tally" /\ Len(plan[r]) \in Nat
    BY <1>0, <1>3, PlansTyped DEF tally_action, TypeOK, Process
  <2>2. /\ at'[r] = at[r] + 1
        /\ ApprovalRequired(Held(r)) => check_action_fully_approved(Held(r))
    <3>1. pc'[r] # "voted"
      BY <1>3
    <3> QED BY <1>0, <1>3, <3>1 DEF tally_action, goto, TypeOK, Process, Held
  <2>3. at[r] <= Len(plan[r])
    BY <1>3 DEF tally_action
  <2>4. Held(r) \in Action
    BY <1>0, <2>3, HeldIsAction DEF Process
  <2>5. ApprovalRequired(plan[r][at[r]]) => Signed(plan[r][at[r]])
    BY <2>2, <2>4, VerdictMeansSigned DEF check_action_fully_approved, Held
  <2>6. Counted(r)
    BY <1>0, <2>1 DEF TallyOK
  <2>7. \A i \in 1..Len(plan[r]) :
          i <= at[r] /\ ApprovalRequired(plan[r][i]) => Signed(plan[r][i])
    BY <2>1, <2>5, <2>6 DEF Counted
  <2> QED BY <1>3, <2>1, <2>2, <2>7, SignaturesStay DEF Counted
<1>4. ASSUME NEW r \in Request, pc'[r] = "tally", pc[r] # "tally" PROVE at'[r] = 1
  <2>1. ASSUME NEW p \in Process, Run(p) \/ (p \in Request /\ submit(p)) PROVE at'[r] = 1
    <3>1. p = r
      BY <1>0, <1>4, <2>1, OthersStay DEF Process
    <3>2. add_record(r)
      <4> USE <1>0, <1>4, <2>1, <3>1 DEF goto, TypeOK, Process
      <4>1. CASE p = Trigger /\ trigger_workflow_checkpointer
        BY <4>1, ProcessAssumption
      <4>2. CASE investigate_again(r) \/ approve(r) \/ submit(r)
        BY <4>2 DEF investigate_again, approve, refuse_duplicate, accept_vote, close_rejected,
                    tally_action, submit, submit_approval
      <4>3. CASE invoke(r)
        <5>1. "tally" \notin NextNodes(checkpoint)
          BY DEF NextNodes, Thread, Node, route_approval
        <5> QED BY <4>3, <5>1 DEF invoke
      <4>4. CASE resume_workflow_checkpointer(r) /\ ~ invoke(r)
        BY <4>4 DEF resume_workflow_checkpointer, reopen_case, read_verdict, read_thread,
                    update_thread
      <4>5. CASE plan_actions(r) \/ human_approve(r) \/ escalate_node(r)
        BY <4>5 DEF plan_actions, human_approve, escalate_node, route_approval
      <4>6. CASE execute(r) \/ update_case(r)
        BY <4>6 DEF execute, skip_action, clear_action, execute_action, execute_action_raises,
                    append_reads,
           append_writes, contain_case, update_case, collect_evidence, seal_evidence, close_case
      <4> QED BY <4>1, <4>2, <4>3, <4>4, <4>5, <4>6 DEF Run
    <3>3. pc[r] = "sign" /\ at' = at
      BY <3>2 DEF add_record, runVars
    <3> QED BY <1>0, <3>3 DEF LoopsOK, LoopOK, LoopPC, Process
  <2>2. pc' # pc /\ ~ crash /\ ~ poll
    BY <1>4, PollStays DEF crash, Active, Process
  <2>3. Request \subseteq Process
    BY DEF Process
  <2> QED BY <2>1, <2>2, <2>3 DEF Next, save_checkpoint, vars
<1>5. ASSUME NEW r \in Request, pc[r] = "tally", pc'[r] = "tally"
      PROVE  \/ UNCHANGED <<at[r], plan[r]>>
             \/ tally_action(r, plan[r]) /\ plan'[r] = plan[r]
  <2>1. r \in Process
    BY DEF Process
  <2>2. ASSUME Run(r) PROVE tally_action(r, plan[r]) /\ plan'[r] = plan[r]
    BY <1>0, <1>5, <2>1, <2>2, ProcessAssumption
       DEF Run, trigger_workflow_checkpointer, investigate_again, approve,
           refuse_duplicate, accept_vote, add_record, close_rejected,
           resume_workflow_checkpointer, reopen_case, read_verdict, read_thread, update_thread,
           invoke, plan_actions, human_approve, escalate_node, execute, skip_action,
           clear_action, execute_action, execute_action_raises, append_reads, append_writes,
           contain_case, update_case, collect_evidence, seal_evidence, close_case, goto, TypeOK
  <2>3. ASSUME NEW p \in Process, Run(p), p # r PROVE UNCHANGED <<at[r], plan[r]>>
    BY <1>0, <2>1, <2>3, OthersStay
  <2>4. ASSUME NEW q \in Request, submit(q) PROVE UNCHANGED <<at[r], plan[r]>>
    <3>1. q # r /\ q \in Process
      BY <1>5, <2>4 DEF submit, submit_approval, Process
    <3> QED BY <1>0, <2>1, <2>4, <3>1, OthersStay
  <2>5. CASE save_checkpoint \/ poll \/ UNCHANGED vars
    BY <2>5, PollStays DEF save_checkpoint, vars, runVars
  <2>6. ~ crash
    BY <1>5, <2>1 DEF crash, Active, StoppedPC
  <2> QED BY <2>2, <2>3, <2>4, <2>5, <2>6 DEF Next
<1>6. ASSUME NEW r \in Request, pc'[r] = "tally"
      PROVE  Counted(r)'
  BY <1>1, <1>2, <1>3, <1>4, <1>5, <1>6
<1> QED BY <1>6 DEF TallyOK

LEMMA PastStep ==
  ASSUME SealInv, [Next]_vars
  PROVE  PastOK'
<1>0. TypeOK /\ PastOK
  BY DEF SealInv, Base
<1>1. ASSUME NEW q \in Process, pc'[q] = pc[q] PROVE Past(q)' => FirstSigned'
  BY <1>0, <1>1, SignaturesStay DEF PastOK, Past, Executing
<1>2. ASSUME FirstSigned PROVE PastOK'
  BY <1>2, SignaturesStay DEF PastOK
<1>3. ASSUME NEW p \in Process, Run(p), ~ FirstSigned PROVE Past(p)' => FirstSigned'
  <2>1. ~ Past(p)
    BY <1>0, <1>3 DEF PastOK
  <2> USE <1>0, <1>3, <2>1 DEF Past, Executing, ExecutionPC, goto, TypeOK
  <2>2. CASE p = Trigger /\ trigger_workflow_checkpointer
    BY <2>2, ProcessAssumption DEF trigger_workflow_checkpointer, ingest_alerts_node,
       investigate_nodes, analyze_node_raises
  <2>3. CASE p \in Request /\ (investigate_again(p) \/ approve(p))
    BY <2>3 DEF investigate_again, approve, refuse_duplicate, accept_vote, add_record,
       close_rejected, tally_action
  <2>4. CASE p \in Request /\ resume_workflow_checkpointer(p)
    <3>1. reopen_case(p)
      BY <2>4 DEF resume_workflow_checkpointer, read_verdict, read_thread, update_thread, invoke
    <3> QED BY <2>4, <3>1, TallyMeansSigned DEF reopen_case
  <2>5. CASE plan_actions(p)
    <3>1. p = Trigger /\ NextPlan = playbook
      BY <2>5, WhoPlans
    <3>2. GatedActions(playbook) # {}
      BY <1>3 DEF FirstSigned
    <3> QED BY <2>5, <3>1, <3>2 DEF plan_actions, route_after_plan
  <2>6. CASE human_approve(p) \/ escalate_node(p) \/ execute(p) \/ update_case(p)
    BY <2>6 DEF human_approve, escalate_node, execute, skip_action, clear_action,
       execute_action, execute_action_raises, append_reads, append_writes, contain_case,
       update_case, collect_evidence, seal_evidence, close_case
  <2> QED BY <1>3, <2>2, <2>3, <2>4, <2>5, <2>6 DEF Run
<1>4. ASSUME NEW p \in Process, Run(p), ~ FirstSigned PROVE PastOK'
  BY <1>0, <1>1, <1>3, <1>4, OthersStay DEF PastOK
<1>5. ASSUME NEW r \in Request, submit(r), ~ FirstSigned PROVE PastOK'
  <2>1. ~ Past(r)'
    BY <1>0, <1>5 DEF submit, submit_approval, goto, TypeOK, Past, Executing, ExecutionPC, Process
  <2>2. \A q \in Process \ {r} : pc'[q] = pc[q]
    BY <1>0, <1>5, OthersStay DEF Process
  <2> QED BY <1>1, <2>1, <2>2 DEF PastOK
<1>6. CASE save_checkpoint \/ poll \/ UNCHANGED vars
  BY <1>1, <1>6, PollStays DEF save_checkpoint, vars, PastOK
<1>7. CASE crash
  <2>1. \A q \in Process : Past(q)' => pc'[q] = pc[q]
    BY <1>7 DEF crash, Past, Executing, ExecutionPC
  <2> QED BY <1>1, <2>1 DEF PastOK
<1> QED BY <1>2, <1>4, <1>5, <1>6, <1>7 DEF Next

\* Only a run inside the second half of the graph contains or seals a case
LEMMA WhoCloses ==
  ASSUME TypeOK, [Next]_vars, Closing', ~ Closing
  PROVE  \E p \in Process : Executing(p) /\ pc'[p] \in {"collect", "resolve"}
<1>1. status # "contained" /\ evidence_pack = NoPack
  BY DEF Closing
<1>2. ASSUME NEW p \in Process, Run(p), ~ (Executing(p) /\ pc'[p] \in {"collect", "resolve"})
      PROVE  FALSE
  <2> USE <1>1 DEF Closing, goto, TypeOK, Executing, ExecutionPC, storeVars, update_status
  <2>1. CASE p = Trigger /\ trigger_workflow_checkpointer
    BY <2>1 DEF trigger_workflow_checkpointer, ingest_alerts_node, investigate_nodes,
                analyze_node_raises
  <2>2. CASE p \in Request /\ (investigate_again(p) \/ approve(p))
    BY <2>2 DEF investigate_again, approve, refuse_duplicate, accept_vote, add_record,
                close_rejected, tally_action
  <2>3. CASE p \in Request /\ resume_workflow_checkpointer(p)
    BY <2>3 DEF resume_workflow_checkpointer, reopen_case, read_verdict, read_thread,
                update_thread, invoke
  <2>4. CASE plan_actions(p) \/ human_approve(p) \/ escalate_node(p)
    BY <2>4 DEF plan_actions, human_approve, escalate_node
  <2>5. CASE execute(p)
    BY <1>2, <2>5 DEF execute, skip_action, clear_action, execute_action,
       execute_action_raises, append_reads, append_writes, contain_case
  <2>6. CASE update_case(p)
    BY <1>2, <2>6 DEF update_case, collect_evidence, seal_evidence, close_case
  <2> QED BY <1>2, <2>1, <2>2, <2>3, <2>4, <2>5, <2>6 DEF Run
<1>3. ASSUME NEW r \in Request, submit(r) PROVE FALSE
  BY <1>1, <1>3 DEF submit, submit_approval, storeVars, Closing
<1>4. ~ (save_checkpoint \/ poll \/ crash \/ UNCHANGED vars)
  BY <1>1, PollStays DEF save_checkpoint, crash, vars, storeVars, Closing
<1> QED BY <1>2, <1>3, <1>4 DEF Next

LEMMA ClosingStep ==
  ASSUME SealInv, [Next]_vars
  PROVE  ClosingOK'
<1>1. CASE FirstSigned
  BY <1>1, SignaturesStay DEF ClosingOK
<1>2. CASE ~ FirstSigned
  <2>1. ~ Closing /\ \A p \in Process : ~ Executing(p)
    BY <1>2 DEF SealInv, ClosingOK, PastOK, Past
  <2> QED BY <2>1, WhoCloses DEF SealInv, Base, ClosingOK
<1> QED BY <1>1, <1>2

LEMMA PausedStep ==
  ASSUME SealInv, [Next]_vars
  PROVE  PausedOK'
<1>0. TypeOK /\ PausedOK /\ Request \subseteq Process
  BY DEF SealInv, Base, Process
<1>1. playbook' = playbook /\ \A list : GatedActions(list)' = GatedActions(list)'
  BY SignaturesStay
<1>2. CASE \E p \in Process : plan_actions(p) /\ proposed_actions' = NextPlan
  <2>1. PICK p \in Process : plan_actions(p) /\ proposed_actions' = NextPlan
    BY <1>2
  <2>2. SUFFICES ASSUME NextPlan # playbook, GatedActions(NextPlan) # {}
                 PROVE  \E r \in Request : pc'[r] = "paused"
    BY <1>1, <2>1 DEF PausedOK, GatedActions
  <2>3. p \in Request
    BY <2>1, <2>2, WhoPlans
  <2>4. pc'[p] = "paused"
    BY <1>0, <2>1, <2>2 DEF plan_actions, route_after_plan, goto, TypeOK
  <2> QED BY <2>3, <2>4
<1>3. CASE proposed_actions' = proposed_actions
  <2>1. \A r \in Request : pc[r] = "paused" => pc'[r] = "paused"
    BY <1>0, StoppedStays DEF Active, StoppedPC
  <2> QED BY <1>0, <1>1, <1>3, <2>1 DEF PausedOK, GatedActions
<1> QED BY <1>2, <1>3, PlanStep

LEMMA EnderStep ==
  ASSUME SealInv, [Next]_vars
  PROVE  EnderOK'
<1>0. TypeOK /\ EnderOK /\ TriggerOK /\ Request \subseteq Process
  BY DEF SealInv, Base, Process
<1>1. GatedActions(playbook)' = GatedActions(playbook)
  BY SignaturesStay
<1>2. ASSUME NEW q \in Request, pc[q] \in EnderPC PROVE pc'[q] \in EnderPC
  <2>1. CASE ~ Active(q)
    BY <1>0, <1>2, <2>1, StoppedStays DEF EnderPC
  <2>2. CASE Active(q)
    <3>1. pc[q] \in {"collect", "seal", "resolve"}
      BY <1>2, <2>2 DEF EnderPC, Active, StoppedPC
    <3>2. ASSUME NEW p \in Process, Run(p), p # q PROVE pc'[q] \in EnderPC
      BY <1>0, <1>2, <3>2, OthersStay
    <3>3. ASSUME Run(q) PROVE pc'[q] \in EnderPC
      <4>1. update_case(q)
        BY <3>1, <3>3, ProcessAssumption
           DEF Run, trigger_workflow_checkpointer, investigate_again, approve,
               refuse_duplicate, accept_vote, add_record, close_rejected, tally_action,
               resume_workflow_checkpointer, reopen_case, read_verdict, read_thread,
               update_thread, invoke, plan_actions, human_approve, escalate_node, execute,
               skip_action, clear_action, execute_action, execute_action_raises,
               append_reads, append_writes, contain_case
      <4> QED BY <1>0, <4>1
              DEF update_case, collect_evidence, seal_evidence, close_case, goto, TypeOK, EnderPC
    <3>4. ASSUME NEW r \in Request, submit(r) PROVE pc'[q] \in EnderPC
      <4>1. r # q
        BY <3>1, <3>4 DEF submit, submit_approval
      <4> QED BY <1>0, <1>2, <3>4, <4>1, OthersStay
    <3>5. CASE save_checkpoint \/ poll \/ UNCHANGED vars
      BY <1>2, <3>5, PollStays DEF save_checkpoint, vars
    <3>6. CASE crash
      BY <1>0, <2>2, <3>6 DEF crash, EnderPC
    <3> QED BY <1>0, <3>2, <3>3, <3>4, <3>5, <3>6 DEF Next
  <2> QED BY <2>1, <2>2
<1>3. CASE Closing
  BY <1>0, <1>1, <1>2, <1>3 DEF EnderOK
<1>4. CASE ~ Closing
  <2> SUFFICES ASSUME Closing', GatedActions(playbook) # {}
               PROVE  \E q \in Request : pc'[q] \in EnderPC
    BY <1>1 DEF EnderOK
  <2>1. PICK p \in Process : Executing(p) /\ pc'[p] \in {"collect", "resolve"}
    BY <1>0, <1>4, WhoCloses
  <2>2. p # Trigger
    BY <1>0, <2>1 DEF TriggerOK, Executing, ExecutionPC, Active, StoppedPC, PlanningPC
  <2>3. p \in Request
    BY <2>2 DEF Process
  <2> QED BY <2>1, <2>3 DEF EnderPC
<1> QED BY <1>3, <1>4

\* However checkpoints are lost or written late and whatever the thread is
\* continued from, a case is contained and its evidence sealed only after
\* the plan first drawn for it had every signature it needs; and if the plan
\* stored meanwhile is another one that lacks a signature, the request that
\* drew it has stopped before its gate, and it is another request that
\* closed the case around it (workflow.py:346-372, nodes.py:498).
THEOREM SealingWasSigned == Spec => []SealedWasSigned
<1>1. Init => SealInv
  <2>1. ASSUME Init PROVE SealInv
    <3>1. Base
      BY <2>1, InitBase
    <3>2. \A r \in Request : ~ Active(r) /\ pc[r] = "idle"
      BY <2>1, ProcessAssumption DEF Init, Active, StoppedPC, Process
    <3>3. PlannedOK /\ TallyOK
      BY <3>2 DEF PlannedOK, TallyOK
    <3>4. \A p \in Process : ~ Past(p)
      BY <2>1, <3>2, ProcessAssumption DEF Init, Past, Executing, ExecutionPC, Process
    <3>5. proposed_actions = <<>> /\ pc[Trigger] = "ingest" /\ ~ Closing
          /\ \A p \in Process : plan[p] = <<>>
      BY <2>1 DEF Init, StoreInit, Closing, Process
    <3>6. TriggerOK /\ FirstOK /\ ClosingOK /\ PausedOK /\ EnderOK
      BY <3>5 DEF TriggerOK, FirstOK, ClosingOK, PausedOK, EnderOK, PlanningPC
    <3> QED BY <3>1, <3>3, <3>4, <3>6 DEF SealInv, PastOK
  <2> QED BY <2>1
<1>2. SealInv /\ [Next]_vars => SealInv'
  BY BaseStep, PlannedStep, TriggerStep, FirstStep, TallyStep, PastStep, ClosingStep,
     PausedStep, EnderStep
     DEF SealInv
<1>3. SealInv => SealedWasSigned
  BY InvariantImplies
<1> QED BY <1>1, <1>2, <1>3, PTL DEF Spec
-----------------------------------------------------------------------------
(* CheckpointedCase implements DualControl.                                *)

\* Only people who may sign have signed, each in the role that is theirs
SignersOK ==
  \A x \in approval_records : x.user \in Voter /\ x.role = SigningRole(x.user)

\* What a step of a run does to licences, executions and votes
LEMMA RunExecutes ==
  ASSUME TypeOK, NEW p \in Process, Run(p)
  PROVE  /\ pc[p] = "execute" => Dispatch(p)
         /\ pc'[p] = "execute" => clear_action(p, plan[p]) /\ plan'[p] = plan[p]
         /\ ~ Dispatch(p) => dispatched' = dispatched
         /\ approval_records' = approval_records \/ (p \in Request /\ add_record(p))
<1> pc \in [Process -> PC \cup ResumePC] /\ checkpoint \in Thread
  BY DEF TypeOK
<1> USE DEF goto, storeVars, external, Dispatch
<1>1. CASE p = Trigger /\ trigger_workflow_checkpointer
  BY <1>1 DEF trigger_workflow_checkpointer, ingest_alerts_node, investigate_nodes,
              analyze_node_raises
<1>2. CASE p \in Request /\ (investigate_again(p) \/ approve(p))
  BY <1>2 DEF investigate_again, approve, refuse_duplicate, accept_vote, add_record,
              close_rejected, tally_action
<1>3. CASE p \in Request /\ resume_workflow_checkpointer(p)
  <2>1. CASE invoke(p)
    <3>1. "execute" \notin NextNodes(checkpoint)
      BY DEF NextNodes, Thread, Node, route_approval
    <3> QED BY <2>1, <3>1 DEF invoke
  <2>2. CASE ~ invoke(p)
    BY <1>3, <2>2 DEF resume_workflow_checkpointer, reopen_case, read_verdict, read_thread,
                      update_thread
  <2> QED BY <2>1, <2>2
<1>4. CASE plan_actions(p) \/ human_approve(p) \/ escalate_node(p)
  BY <1>4 DEF plan_actions, human_approve, escalate_node, route_approval
<1>5. CASE execute(p)
  BY <1>5 DEF execute, skip_action, clear_action, execute_action, execute_action_raises,
              append_reads, append_writes,
              contain_case
<1>6. CASE update_case(p)
  BY <1>6 DEF update_case, collect_evidence, seal_evidence, close_case
<1> QED BY <1>1, <1>2, <1>3, <1>4, <1>5, <1>6 DEF Run

\* A step that neither dispatches nor crashes leaves whoever is in the execute
\* step there, and a step that clears nothing puts nobody there
LEMMA ExecuteSteps ==
  ASSUME TypeOK, [Next]_vars, ~ crash, NEW q \in Process
  PROVE  /\ pc[q] = "execute" =>
              \/ Dispatch(q)
              \/ pc'[q] = "execute" /\ at'[q] = at[q] /\ plan'[q] = plan[q]
         /\ pc'[q] = "execute" => clear_action(q, plan[q]) \/ pc[q] = "execute"
<1>1. ASSUME NEW p \in Process, Run(p), p # q PROVE UNCHANGED <<pc[q], at[q], plan[q]>>
  BY <1>1, OthersStay
<1>2. ASSUME NEW r \in Request, submit(r)
      PROVE  /\ pc[q] = "execute" => UNCHANGED <<pc[q], at[q], plan[q]>>
             /\ pc'[q] = "execute" => pc[q] = "execute"
  BY <1>2 DEF submit, submit_approval, goto, runVars, read_case, TypeOK
<1>3. CASE save_checkpoint \/ poll \/ UNCHANGED vars
  BY <1>3, PollStays DEF save_checkpoint, vars, runVars
<1> QED BY <1>1, <1>2, <1>3, RunExecutes DEF Next

LEMMA RecordsStep ==
  ASSUME TypeOK, [Next]_vars
  PROVE  approval_records' = approval_records \/ \E r \in Request : add_record(r)
<1>1. ASSUME NEW r \in Request, submit(r) PROVE approval_records' = approval_records
  BY <1>1 DEF submit, submit_approval, storeVars
<1>2. CASE save_checkpoint \/ poll \/ crash \/ UNCHANGED vars
  BY <1>2, PollStays DEF save_checkpoint, crash, vars, storeVars
<1> QED BY <1>1, <1>2, RunExecutes DEF Next

LEMMA DispatchStep ==
  ASSUME TypeOK, [Next]_vars, \A p \in Process : ~ Dispatch(p)
  PROVE  dispatched' = dispatched
<1>1. ASSUME NEW r \in Request, submit(r) PROVE dispatched' = dispatched
  BY <1>1 DEF submit, submit_approval, external
<1>2. CASE save_checkpoint \/ poll \/ crash \/ UNCHANGED vars
  BY <1>2, PollStays DEF save_checkpoint, crash, vars, external
<1> QED BY <1>1, <1>2, RunExecutes DEF Next

\* A vote that is stored is a vote cast
LEMMA SigningIsCasting ==
  ASSUME Base, NEW r \in Request, add_record(r)
  PROVE  /\ Ballots' = Ballots \cup {<<vote[r].user, vote[r].action, vote[r].decision>>}
         /\ vote[r].user \in Voter /\ vote[r].action \in Action /\ vote[r].decision \in Decision
         /\ SignersOK => SignersOK'
<1> DEFINE x == [id |-> r, user |-> vote[r].user, role |-> SigningRole(vote[r].user),
                 action |-> vote[r].action, decision |-> vote[r].decision]
<1>1. vote[r] \in Vote
  BY DEF add_record, Base, VotesOK
<1>2. approval_records' = approval_records \cup {x}
  BY DEF add_record
<1>3. /\ x.user = vote[r].user /\ x.action = vote[r].action /\ x.decision = vote[r].decision
      /\ x.role = SigningRole(x.user)
  OBVIOUS
<1>4. Ballots' = Ballots \cup {<<x.user, x.action, x.decision>>}
  <2> HIDE DEF x
  <2> QED BY <1>2 DEF Ballots
<1>5. Ballots' = Ballots \cup {<<vote[r].user, vote[r].action, vote[r].decision>>}
  BY <1>3, <1>4
<1>6. vote[r].user \in Voter /\ vote[r].action \in Action /\ vote[r].decision \in Decision
  BY <1>1 DEF Vote, Voter
<1>7. SignersOK => SignersOK'
  <2> HIDE DEF x
  <2> QED BY <1>2, <1>3, <1>6 DEF SignersOK
<1> QED BY <1>5, <1>6, <1>7

LEMMA SignersStep ==
  ASSUME Base, SignersOK, [Next]_vars
  PROVE  SignersOK'
<1>1. CASE approval_records' = approval_records
  BY <1>1 DEF SignersOK
<1> QED BY <1>1, RecordsStep, SigningIsCasting DEF Base

\* A licence is a process in the execute step, and its current action
LEMMA LicenceMeans ==
  ASSUME Base, NEW p \in Process, NEW a \in Action
  PROVE  <<p, a>> \in Licences <=> pc[p] = "execute" /\ Held(p) = a
<1>1. pc[p] = "execute" => at[p] \in 1..Len(plan[p])
  BY HeldIsAction DEF Base, LoopsOK, LoopOK
<1> QED BY <1>1 DEF Licences

LEMMA LicencesTyped == Base => Licences \subseteq Process \X Action
<1> SUFFICES ASSUME Base PROVE Licences \subseteq Process \X Action
  OBVIOUS
<1>1. \A p \in Process : plan[p] \in Seq(Action)
  BY PlansTyped DEF Base, TypeOK
<1>2. \A p \in Process : \A i \in 1..Len(plan[p]) : plan[p][i] \in Action
  BY <1>1
<1> QED BY <1>2 DEF Licences, Held

LEMMA LicencesTypedNext == (Base => Licences \subseteq Process \X Action)'
BY LicencesTyped, PTL

\* A process that stays in the execute step keeps its licence
LEMMA LicenceKept ==
  ASSUME Base, NEW p \in Process, NEW a,
         pc[p] = "execute", pc'[p] = "execute", at'[p] = at[p], plan'[p] = plan[p]
  PROVE  <<p, a>> \in Licences <=> <<p, a>> \in Licences'
BY DEF Licences, Held

\* Everybody but a process that clears or executes keeps the licence it has
LEMMA LicencesOfOthers ==
  ASSUME Base, [Next]_vars, ~ crash, NEW q \in Process, NEW a,
         ~ clear_action(q, plan[q]), ~ Dispatch(q)
  PROVE  <<q, a>> \in Licences <=> <<q, a>> \in Licences'
<1>1. CASE pc[q] = "execute"
  BY <1>1, ExecuteSteps, LicenceKept DEF Base
<1>2. CASE pc[q] # "execute"
  <2>1. pc'[q] # "execute"
    BY <1>2, ExecuteSteps DEF Base
  <2> QED BY <1>2, <2>1 DEF Licences
<1> QED BY <1>1, <1>2

LEMMA OneMoves ==
  ASSUME TypeOK, NEW p \in Process, NEW q \in Process, p # q,
         clear_action(p, plan[p]) \/ Dispatch(p)
  PROVE  /\ ~ crash
         /\ (clear_action(q, plan[q]) \/ Dispatch(q)) =>
              pc'[q] = pc[q] /\ pc[q] \in {"check", "execute"}
         /\ pc'[p] # pc[p]
<1> USE DEF Dispatch
<1>1. \E label \in {"execute", "read_log", "failed"} : pc' = [pc EXCEPT ![p] = label]
  BY DEF clear_action, execute_action, execute_action_raises, goto
<1> QED BY <1>1 DEF clear_action, execute_action, execute_action_raises, crash, TypeOK, Active, StoppedPC, goto

LEMMA ClearingIsLicensing ==
  ASSUME Base, SignersOK, [Next]_vars, NEW p \in Process, clear_action(p, plan[p])
  PROVE  DC!License(p, Held(p))
<1> DEFINE a == Held(p)
<1>0. TypeOK /\ Base'
  BY BaseStep DEF Base
<1>1. /\ a \in Action /\ pc[p] = "check" /\ pc'[p] = "execute" /\ Held(p)' = a
      /\ at'[p] \in 1..Len(plan'[p])
  <2>1. a \in Action /\ at[p] \in 1..Len(plan[p]) /\ pc[p] = "check" /\ at' = at
        /\ pc' = [pc EXCEPT ![p] = "execute"]
    BY <1>0, HeldIsAction DEF clear_action, goto, runVars
  <2>2. ~ poll /\ ~ crash /\ ~ save_checkpoint /\ ~ UNCHANGED vars
    BY <1>0, <2>1, PollStays DEF crash, save_checkpoint, vars, TypeOK, Active, StoppedPC
  <2>3. plan'[p] = plan[p]
    <3>1. ASSUME NEW q \in Process, Run(q) PROVE plan'[p] = plan[p]
      BY <1>0, <2>1, <3>1, OthersStay, RunExecutes DEF TypeOK
    <3>2. ASSUME NEW r \in Request, submit(r) PROVE plan'[p] = plan[p]
      <4>1. pc'[r] = "duplicates" /\ pc[r] = "idle"
        BY <1>0, <3>2 DEF submit, submit_approval, goto, TypeOK, Process
      <4>2. r # p
        BY <2>1, <4>1
      <4> QED BY <1>0, <3>2, <4>2, OthersStay DEF Process
    <3> QED BY <2>2, <3>1, <3>2 DEF Next
  <2> QED BY <1>0, <2>1, <2>3 DEF TypeOK, Held
<1>2. DC!Entitled(a)
  <2>1. CASE ~ ApprovalRequired(a)
    BY <1>1, <2>1 DEF DC!Entitled
  <2>2. CASE ApprovalRequired(a)
    <3>1. Signed(a) /\ ~ Rejected(a)
      BY <1>1, <2>2, VerdictMeansSigned DEF clear_action, MayExecute, is_action_approved, Held
    <3>2. DC!Backed(a)
      BY <1>1, <2>2, <3>1 DEF DC!Backed, Signed, Approvals, Ballots, SignersOK
    <3>3. ~ DC!Refused(a)
      BY <3>1 DEF DC!Refused, Rejected, Ballots
    <3> QED BY <3>2, <3>3 DEF DC!Entitled
  <2> QED BY <2>1, <2>2
<1>3. Licences' = Licences \cup {<<p, a>>}
  <2>1. Licences \subseteq Process \X Action /\ Licences' \subseteq Process \X Action
    BY <1>0, LicencesTyped, LicencesTypedNext
  <2>2. <<p, a>> \in Licences'
    BY <1>1 DEF Licences
  <2>3. ASSUME NEW b \in Action, b # a PROVE <<p, b>> \notin Licences' /\ <<p, b>> \notin Licences
    BY <1>1, <2>3 DEF Licences
  <2>4. ASSUME NEW q \in Process, NEW b \in Action, q # p
        PROVE  <<q, b>> \in Licences <=> <<q, b>> \in Licences'
    <3>1. ~ crash
      BY <1>0, <2>4, OneMoves
    <3>2. ~ clear_action(q, plan[q]) /\ ~ Dispatch(q)
      BY <1>0, <1>1, <2>4, OneMoves DEF clear_action, execute_action, execute_action_raises, Dispatch, goto, TypeOK
    <3> QED BY <3>1, <3>2, LicencesOfOthers
  <2> HIDE DEF a
  <2>5. ASSUME NEW q \in Process, NEW b \in Action
        PROVE  <<q, b>> \in Licences' <=> <<q, b>> \in Licences \/ (q = p /\ b = a)
    BY <2>2, <2>3, <2>4
  <2> QED BY <1>1, <2>1, <2>5
<1>4. Ballots' = Ballots /\ dispatched' = dispatched
  BY DEF clear_action, Ballots, storeVars, external
<1> QED BY <1>2, <1>3, <1>4 DEF DC!License

LEMMA DispatchingIsExecuting ==
  ASSUME Base, [Next]_vars, NEW p \in Process, Dispatch(p)
  PROVE  DC!Execute(p, Held(p))
<1> DEFINE a == Held(p)
<1>0. TypeOK /\ Base'
  BY BaseStep DEF Base
<1>1. a \in Action /\ pc[p] = "execute" /\ pc'[p] \in {"read_log", "failed"}
  BY HeldIsAction
     DEF Dispatch, execute_action, execute_action_raises, goto, Base, TypeOK, LoopsOK, LoopOK
<1>2. <<p, a>> \in Licences
  BY <1>1, LicenceMeans
<1>3. Licences' = Licences \ {<<p, a>>}
  <2>1. Licences \subseteq Process \X Action /\ Licences' \subseteq Process \X Action
    BY <1>0, LicencesTyped, LicencesTypedNext
  <2>2. ASSUME NEW b \in Action PROVE <<p, b>> \notin Licences'
    BY <1>1 DEF Licences
  <2>3. ASSUME NEW b \in Action, b # a PROVE <<p, b>> \notin Licences
    BY <1>1, <2>3 DEF Licences
  <2>4. ASSUME NEW q \in Process, NEW b \in Action, q # p
        PROVE  <<q, b>> \in Licences <=> <<q, b>> \in Licences'
    <3>1. ~ crash
      BY <1>0, <2>4, OneMoves
    <3>2. ~ clear_action(q, plan[q]) /\ ~ Dispatch(q)
      BY <1>0, <1>1, <2>4, OneMoves DEF clear_action, execute_action, execute_action_raises, Dispatch, goto, TypeOK
    <3> QED BY <3>1, <3>2, LicencesOfOthers
  <2> HIDE DEF a
  <2>5. ASSUME NEW q \in Process, NEW b \in Action
        PROVE  <<q, b>> \in Licences' <=> <<q, b>> \in Licences /\ ~ (q = p /\ b = a)
    BY <2>2, <2>3, <2>4
  <2> QED BY <1>1, <2>1, <2>5
<1>4. dispatched' = [dispatched EXCEPT ![a] = @ + 1] /\ Ballots' = Ballots
  BY DEF Dispatch, execute_action, execute_action_raises, Ballots, storeVars, Held
<1> QED BY <1>2, <1>3, <1>4 DEF DC!Execute

LEMMA CrashIsRestart ==
  ASSUME TypeOK, crash
  PROVE  DC!Restart
<1>1. \A p \in Process : pc'[p] # "execute"
  BY DEF crash, Active, StoppedPC
<1>2. Licences' = {}
  BY <1>1 DEF Licences
<1> QED BY <1>2 DEF DC!Restart, crash, Ballots, storeVars, external

LEMMA StepImplements ==
  ASSUME Base, SignersOK, [Next]_vars
  PROVE  [DC!Next]_(DC!dcVars)
<1> USE DEF DC!Next
<1>0. TypeOK /\ Base'
  BY BaseStep DEF Base
<1>1. ASSUME NEW p \in Process, clear_action(p, plan[p]) PROVE DC!Next
  <2>1. Held(p) \in Action
    BY <1>0, <1>1, HeldIsAction DEF clear_action
  <2> QED BY <1>1, <2>1, ClearingIsLicensing
<1>2. ASSUME NEW p \in Process, Dispatch(p) PROVE DC!Next
  <2>1. Held(p) \in Action
    BY <1>2, HeldIsAction DEF Dispatch, execute_action, execute_action_raises, Base, LoopsOK, LoopOK
  <2> QED BY <1>2, <2>1, DispatchingIsExecuting
<1>3. CASE crash
  BY <1>0, <1>3, CrashIsRestart
<1>4. ASSUME ~ crash, \A p \in Process : ~ clear_action(p, plan[p]) /\ ~ Dispatch(p)
      PROVE  DC!Next \/ UNCHANGED DC!dcVars
  <2>1. Licences' = Licences
    <3>1. Licences \subseteq Process \X Action /\ Licences' \subseteq Process \X Action
      BY <1>0, LicencesTyped, LicencesTypedNext
    <3>2. \A q \in Process, a \in Action : <<q, a>> \in Licences <=> <<q, a>> \in Licences'
      BY <1>4, LicencesOfOthers
    <3> QED BY <3>1, <3>2
  <2>2. dispatched' = dispatched
    BY <1>0, <1>4, DispatchStep
  <2>3. CASE approval_records' = approval_records
    BY <2>1, <2>2, <2>3 DEF DC!dcVars, Ballots
  <2>4. ASSUME NEW r \in Request, add_record(r) PROVE DC!Next
    <3>1. DC!Cast(vote[r].user, vote[r].action, vote[r].decision)
      BY <2>1, <2>2, <2>4, SigningIsCasting DEF DC!Cast
    <3> QED BY <2>4, <3>1, SigningIsCasting
  <2> QED BY <1>0, <2>3, <2>4, RecordsStep
<1> QED BY <1>1, <1>2, <1>3, <1>4

\* A case in checkpointer mode implements dual control as well: a checkpoint
\* read back, a graph continued by another run and a plan drawn again never
\* give a licence of their own, because the executor asks for the signatures
\* whatever the thread says (nodes.py:498).
THEOREM ThreadImplementsDualControl == Spec => DualControlled
<1>1. Init => DC!Init /\ SignersOK
  <2> SUFFICES ASSUME Init PROVE DC!Init /\ SignersOK
    OBVIOUS
  <2>1. approval_records = {} /\ dispatched = [a \in Action |-> 0]
    BY DEF Init, StoreInit, OrchestrationInit
  <2>2. Licences = {}
    BY DEF Licences, Init
  <2> QED BY <2>1, <2>2 DEF DC!Init, Ballots, SignersOK
<1>2. Base /\ SignersOK /\ [Next]_vars => SignersOK'
  BY SignersStep
<1>3. Base /\ SignersOK /\ [Next]_vars => [DC!Next]_(DC!dcVars)
  BY StepImplements
<1> QED BY <1>1, <1>2, <1>3, InitBase, BaseStep, PTL DEF Spec, DualControlled, DC!Spec

\* What dual control promises, for the code in this mode: an L2 action is
\* executed only after each of its roles approved it, and once it is
\* rejected and nobody is about to execute it, it is not executed again.
THEOREM ThreadKeepsItsPromises == Spec => []DC!OnlyBacked /\ DC!RefusalHolds
<1>1. DC!Spec => []DC!OnlyBacked
  BY DC!BackedBeforeExecution
<1>2. DC!Spec => DC!RefusalHolds
  BY DC!RefusalStops
<1> QED BY <1>1, <1>2, ThreadImplementsDualControl, PTL DEF DualControlled
=============================================================================
