---------------------------- MODULE CaseCoreProofs ----------------------------
(***************************************************************************)
(* Theorems about CaseCore, for every set of accounts, requests, actions   *)
(* and playbooks and any number of crashes.                                *)
(***************************************************************************)
EXTENDS CaseCore, FiniteSetTheorems, TLAPS

-----------------------------------------------------------------------------
(* Facts about the rules.                                                  *)

\* The verdict is that every needed role approved and none rejected
LEMMA VerdictMeansSigned ==
  ASSUME NEW a \in Action
  PROVE  FullyApproved(a, list_by_action(a)) <=> Signed(a) /\ ~ Rejected(a)
<1>1. FullyApproved(a, list_by_action(a)) => Signed(a)
  BY DEF FullyApproved, Signed, Approvals, list_by_action, ApprovedRoles
<1>2. FullyApproved(a, list_by_action(a)) => ~ Rejected(a)
  BY DEF FullyApproved, AnyRejected, Rejected, list_by_action
<1>3. ASSUME Signed(a), ~ Rejected(a)
      PROVE  FullyApproved(a, list_by_action(a))
  <2>1. ~ AnyRejected(list_by_action(a))
    BY <1>3 DEF AnyRejected, Rejected, list_by_action
  <2>2. RequiredRoles(a) \subseteq ApprovedRoles(list_by_action(a))
    BY <1>3 DEF Signed, Approvals, list_by_action, ApprovedRoles
  <2>3. "approver" \in RequiredRoles(a)
    BY DEF RequiredRoles, CRITICAL_TRIPLE_ROLES, DOUBLE_SIGN_ROLES
  <2>4. list_by_action(a) # {}
    BY <1>3, <2>3 DEF Signed, Approvals, list_by_action
  <2> QED BY <2>1, <2>2, <2>4 DEF FullyApproved
<1> QED BY <1>1, <1>2, <1>3

\* Signatures and rejections are never taken back
LEMMA RecordsOnlyGrow ==
  ASSUME approval_records \subseteq approval_records', NEW a
  PROVE  /\ Signed(a) => Signed(a)'
         /\ Rejected(a) => Rejected(a)'
BY DEF Signed, Rejected, Approvals

LEMMA SigningRoleType ==
  ASSUME NEW u \in Signer, MaySign(u)
  PROVE  SigningRole(u) \in ApprovalRole
<1>1. CASE u \in IMSource
  BY <1>1 DEF SigningRole, ApprovalRole
<1>2. CASE u \notin IMSource
  <2>1. LoginRole[u] \in {"admin", "analyst", "approver"}
    BY <1>2, SignerAssumption DEF MaySign, Signer, Role
  <2> QED BY <1>2, <2>1 DEF SigningRole, ApprovalRole, APPROVAL_ROLE_MAP
<1> QED BY <1>1, <1>2

LEMMA SequencesTyped ==
  ASSUME TypeOK
  PROVE  /\ playbook \in Seq(Action)
         /\ proposed_actions \in Seq(Action)
         /\ Len(proposed_actions) <= Len(playbook)
<1>1. playbook \in Seq(Action)
  BY PlaybookAssumption DEF TypeOK
<1>2. CASE proposed_actions = <<>>
  BY <1>1, <1>2
<1>3. CASE proposed_actions = playbook
  BY <1>1, <1>3
<1> QED BY <1>1, <1>2, <1>3 DEF TypeOK

\* A process inside a loop is at one of the actions, or one past the last,
\* and carries a step status exactly while it has a step to append
LoopOK(p) ==
  /\ pc[p] \in {"idle", "duplicates", "sign"} => at[p] = 1
  /\ Active(p) => at[p] <= Len(proposed_actions) + 1
  /\ pc[p] \in {"execute", "read_log", "write_log"} => at[p] <= Len(proposed_actions)
  /\ pc[p] \in {"read_log", "write_log"} => outcome[p] \in StepStatus

LoopsOK == \A p \in Process : LoopOK(p)

\* A request under way has a vote to store, and one that may be stored
VotesOK == \A r \in Request : pc[r] \in {"duplicates", "sign"} => vote[r] \in Vote

LEMMA CurrentIsAction ==
  ASSUME TypeOK, NEW p \in Process, at[p] <= Len(proposed_actions)
  PROVE  /\ at[p] \in 1..Len(proposed_actions)
         /\ Current(p) \in Action
<1>1. proposed_actions \in Seq(Action) /\ at[p] \in Nat \ {0}
  BY SequencesTyped DEF TypeOK
<1> QED BY <1>1 DEF Current

\* The executor is called, whether it returns or raises
Dispatch(p) == execute_action(p, proposed_actions) \/ execute_action_raises(p, proposed_actions)

-----------------------------------------------------------------------------
(* Type correctness.                                                       *)

LEMMA InitTypeOK == Init => TypeOK /\ LoopsOK /\ VotesOK
<1> SUFFICES ASSUME Init PROVE TypeOK /\ LoopsOK /\ VotesOK
  OBVIOUS
<1> USE DEF Init, StoreInit, OrchestrationInit, ServiceInit, Process
<1>1. /\ status \in CaseStatus
      /\ playbook \in Playbooks
      /\ proposed_actions \in {<<>>, playbook}
      /\ approval_records \subseteq Record
      /\ execution_log \in Seq(Step)
      /\ evidence_pack \in Seq(Step) \cup {NoPack}
  BY DEF CaseStatus
<1>2. /\ pc \in [Process -> PC]
      /\ at \in [Process -> Nat \ {0}]
      /\ seen \in [Process -> Seq(Step)]
      /\ outcome \in [Process -> StepStatus \cup {"none"}]
  BY DEF PC, RequestPC, PlanningPC
<1>3. /\ pollers \subseteq Poller
      /\ unpolled \subseteq Action \X Process
      /\ dispatched \in [Action -> Nat]
      /\ vote \in [Request -> Vote \cup {NoVote}]
      /\ crashes \in 0..MaxCrashes
  BY BoundAssumption
<1>4. LoopsOK
  BY DEF LoopsOK, LoopOK
<1>5. VotesOK
  BY ProcessAssumption DEF VotesOK
<1> QED BY <1>1, <1>2, <1>3, <1>4, <1>5 DEF TypeOK

LEMMA TypeOKTrigger ==
  ASSUME TypeOK, Orchestrate
  PROVE  TypeOK'
<1> USE SequencesTyped DEF TypeOK, CaseStatus, PC, RequestPC, PlanningPC, ExecutionPC, StoppedPC,
      Active, goto, update_status, runVars, external, storeVars, Process
<1>1. CASE ingest_alerts_node /\ UNCHANGED <<vote, crashes>>
  BY <1>1 DEF ingest_alerts_node
<1>2. CASE investigate_nodes /\ UNCHANGED <<vote, crashes>>
  BY <1>2 DEF investigate_nodes
<1>3. CASE analyze_node_raises /\ UNCHANGED <<vote, crashes>>
  BY <1>3 DEF analyze_node_raises
<1>4. CASE plan_actions_node /\ UNCHANGED <<vote, crashes>>
  BY <1>4 DEF plan_actions_node, update_actions, route_after_plan
<1>5. CASE human_approve_node /\ UNCHANGED <<vote, crashes>>
  BY <1>5 DEF human_approve_node
<1> QED BY <1>1, <1>2, <1>3, <1>4, <1>5 DEF Orchestrate, trigger_workflow

LEMMA TypeOKExecute ==
  ASSUME TypeOK, LoopsOK, NEW p \in Process, Execute(p)
  PROVE  TypeOK'
<1> USE SequencesTyped DEF TypeOK, CaseStatus, PC, RequestPC, PlanningPC, ExecutionPC, StoppedPC,
      Active, goto, update_status, runVars, external, storeVars
<1> UNCHANGED <<vote, crashes>>
  BY DEF Execute
<1>1. CASE skip_action(p, proposed_actions)
  BY <1>1 DEF skip_action, StepStatus
<1>2. CASE clear_action(p, proposed_actions)
  BY <1>2 DEF clear_action
<1>3. CASE execute_action(p, proposed_actions)
  <2>1. Current(p) \in Action
    BY <1>3, CurrentIsAction DEF execute_action, LoopsOK, LoopOK
  <2>2. PICK o \in Outcomes :
          /\ outcome' = [outcome EXCEPT ![p] = o]
          /\ IF o = "executing"
             THEN \/ /\ pollers' = pollers \cup
                          {[action |-> Current(p), by |-> p, result |-> "pending",
                            seen |-> <<>>]}
                     /\ UNCHANGED unpolled
                  \/ /\ unpolled' = unpolled \cup {<<Current(p), p>>}
                     /\ UNCHANGED pollers
             ELSE UNCHANGED <<pollers, unpolled>>
    BY <1>3 DEF execute_action, Current
  <2>3. pollers' \subseteq Poller /\ unpolled' \subseteq Action \X Process
    <3>1. [action |-> Current(p), by |-> p, result |-> "pending", seen |-> <<>>] \in Poller
      BY <2>1 DEF Poller
    <3>2. <<Current(p), p>> \in Action \X Process
      BY <2>1
    <3> QED BY <2>2, <3>1, <3>2
  <2>4. outcome' \in [Process -> StepStatus \cup {"none"}]
    BY <2>2, ProcessAssumption DEF StepStatus
  <2>5. dispatched' \in [Action -> Nat]
    <3>1. dispatched' = [dispatched EXCEPT ![Current(p)] = @ + 1]
      BY <1>3 DEF execute_action, Current
    <3>2. dispatched \in [Action -> Nat]
      OBVIOUS
    <3> HIDE DEF TypeOK
    <3> QED BY <2>1, <3>1, <3>2
  <2> QED BY <1>3, <2>3, <2>4, <2>5 DEF execute_action
<1>4. CASE append_reads(p)
  BY <1>4 DEF append_reads
<1>5. CASE append_writes(p, proposed_actions)
  <2>1. outcome[p] \in StepStatus
    BY <1>5 DEF append_writes, LoopsOK, LoopOK
  <2>2. Current(p) \in Action
    BY <1>5, CurrentIsAction DEF append_writes, LoopsOK, LoopOK
  <2>3. [action |-> Current(p), status |-> outcome[p], by |-> p] \in Step
    BY <2>1, <2>2 DEF Step
  <2>4. execution_log' \in Seq(Step)
    BY <1>5, <2>3 DEF append_writes, Current
  <2>5. at' \in [Process -> Nat \ {0}]
    <3>1. at \in [Process -> Nat \ {0}] /\ at' = [at EXCEPT ![p] = @ + 1]
      BY <1>5 DEF append_writes
    <3> HIDE DEF TypeOK, PC, storeVars, external
    <3> QED BY <3>1
  <2>6. seen' \in [Process -> Seq(Step)]
    BY <1>5 DEF append_writes
  <2>7. outcome' \in [Process -> StepStatus \cup {"none"}]
    BY <1>5 DEF append_writes
  <2>8. pc' \in [Process -> PC]
    BY <1>5 DEF append_writes
  <2> QED BY <1>5, <2>4, <2>5, <2>6, <2>7, <2>8 DEF append_writes
<1>6. CASE contain_case(p, proposed_actions)
  <2>1. at' \in [Process -> Nat \ {0}] /\ pc' \in [Process -> PC]
    BY <1>6 DEF contain_case
  <2>2. status' \in CaseStatus
    BY <1>6 DEF contain_case
  <2> QED BY <1>6, <2>1, <2>2 DEF contain_case
<1>7. CASE collect_evidence(p)
  BY <1>7 DEF collect_evidence
<1>8. CASE seal_evidence(p)
  BY <1>8 DEF seal_evidence, set_evidence_pack
<1>9. CASE close_case(p)
  BY <1>9 DEF close_case
<1>10. CASE execute_action_raises(p, proposed_actions)
  <2>1. Current(p) \in Action
    BY <1>10, CurrentIsAction DEF execute_action_raises, LoopsOK, LoopOK
  <2>2. dispatched' \in [Action -> Nat]
    <3>1. dispatched' = [dispatched EXCEPT ![Current(p)] = @ + 1]
      BY <1>10 DEF execute_action_raises, Current
    <3>2. dispatched \in [Action -> Nat]
      OBVIOUS
    <3> HIDE DEF TypeOK
    <3> QED BY <2>1, <3>1, <3>2
  <2>3. at' \in [Process -> Nat \ {0}] /\ pc' \in [Process -> PC]
    BY <1>10 DEF execute_action_raises
  <2> QED BY <1>10, <2>2, <2>3 DEF execute_action_raises
<1> QED BY <1>1, <1>2, <1>3, <1>4, <1>5, <1>6, <1>7, <1>8, <1>9, <1>10
        DEF Execute, Run, execute_node, update_case_node

LEMMA TypeOKSubmit ==
  ASSUME TypeOK, NEW r \in Request, submit_approval(r), UNCHANGED crashes
  PROVE  TypeOK'
<1> USE DEF TypeOK, PC, RequestPC, PlanningPC, ExecutionPC, StoppedPC,
      Active, goto, runVars, external, storeVars, Process
<1>1. PICK v \in Votes[r] : vote' = [vote EXCEPT ![r] = v]
  BY DEF submit_approval
<1>2. v \in Vote
  BY VoteAssumption
<1>3. vote' \in [Request -> Vote \cup {NoVote}]
  BY <1>1, <1>2
<1>4. pc' \in [Process -> PC]
  BY DEF submit_approval
<1>5. pc'[r] = "duplicates" /\ \A p \in Process \ {r} : pc'[p] = pc[p]
  BY DEF submit_approval
<1> QED BY <1>3, <1>4, <1>5, SequencesTyped DEF submit_approval

LEMMA TypeOKApprove ==
  ASSUME TypeOK, VotesOK, NEW r \in Request, Approve(r)
  PROVE  TypeOK'
<1> USE SequencesTyped
    DEF TypeOK, CaseStatus, PC, RequestPC, PlanningPC, ExecutionPC, StoppedPC,
      Active, goto, update_status, runVars, external, storeVars, Process
<1> UNCHANGED crashes
  BY DEF Approve
<1>1. CASE refuse_duplicate(r)
  BY <1>1 DEF refuse_duplicate
<1>2. CASE accept_vote(r)
  BY <1>2 DEF accept_vote
<1>3. CASE add_record(r)
  <2>1. vote[r] \in Vote
    BY <1>3 DEF add_record, VotesOK
  <2>2. /\ vote[r].user \in Signer /\ MaySign(vote[r].user)
        /\ vote[r].action \in Action /\ vote[r].decision \in Decision
    BY <2>1 DEF Vote
  <2>3. [id |-> r, user |-> vote[r].user, role |-> SigningRole(vote[r].user),
         action |-> vote[r].action, decision |-> vote[r].decision] \in Record
    BY <2>2, SigningRoleType DEF Record
  <2>4. approval_records' \subseteq Record
    BY <1>3, <2>3 DEF add_record
  <2>5. pc' \in [Process -> PC]
    BY <1>3 DEF add_record
  <2> QED BY <1>3, <2>4, <2>5 DEF add_record
<1>4. CASE close_rejected(r)
  BY <1>4 DEF close_rejected
<1>5. CASE tally_action(r, proposed_actions)
  <2>1. at' = [at EXCEPT ![r] = at[r] + 1] \/ at' = [at EXCEPT ![r] = 1]
    BY <1>5 DEF tally_action
  <2>2. pc' \in [Process -> PC]
    BY <1>5 DEF tally_action
  <2>3. at' \in [Process -> Nat \ {0}]
    <3>1. CASE at' = [at EXCEPT ![r] = at[r] + 1]
      BY <3>1
    <3>2. CASE at' = [at EXCEPT ![r] = 1]
      BY <3>2
    <3> QED BY <2>1, <3>1, <3>2
  <2> QED BY <1>5, <2>2, <2>3 DEF tally_action
<1>6. CASE resume_workflow(r)
  BY <1>6 DEF resume_workflow
<1> QED BY <1>1, <1>2, <1>3, <1>4, <1>5, <1>6 DEF Approve, approve_action

\* Writing a poll result keeps the log a sequence of steps, as long as it was
LEMMA WithLatestType ==
  ASSUME NEW log \in Seq(Step), NEW a, NEW result \in StepStatus
  PROVE  /\ WithLatest(log, a, result) \in Seq(Step)
         /\ Len(WithLatest(log, a, result)) = Len(log)
<1>1. log \in [1..Len(log) -> Step] /\ Len(log) \in Nat
  OBVIOUS
<1>2. \A s \in Step : [s EXCEPT !.status = result] \in Step
  BY DEF Step
<1>3. WithLatest(log, a, result) \in [1..Len(log) -> Step]
  BY <1>1, <1>2 DEF WithLatest
<1> QED BY <1>1, <1>3

LEMMA TypeOKPoll ==
  ASSUME TypeOK, Poll
  PROVE  TypeOK'
<1> USE SequencesTyped DEF TypeOK, Active, runVars, storeVars
<1> UNCHANGED <<vote, crashes>>
  BY DEF Poll
<1> PICK k \in pollers : poll_shuffle(k)
  BY DEF Poll
<1> k \in Poller
  OBVIOUS
<1>1. CASE poll_answers(k)
  <2>1. \A result \in {"success", "failed"} :
          [k EXCEPT !.result = result, !.seen = execution_log] \in Poller
    BY DEF Poller
  <2>2. pollers' \subseteq Poller
    BY <1>1, <2>1 DEF poll_answers
  <2> QED BY <1>1, <2>2 DEF poll_answers
<1>2. CASE poll_writes(k)
  <2>1. k.seen \in Seq(Step) /\ k.result \in StepStatus
    BY <1>2 DEF poll_writes, Poller, StepStatus
  <2>2. execution_log' \in Seq(Step)
    BY <1>2, <2>1, WithLatestType DEF poll_writes
  <2> QED BY <1>2, <2>2 DEF poll_writes
<1>3. CASE poll_times_out(k)
  <2>1. <<k.action, k.by>> \in Action \X Process
    BY DEF Poller
  <2> QED BY <1>3, <2>1 DEF poll_times_out
<1>4. CASE poll_misses(k)
  BY <1>4 DEF poll_misses
<1> QED BY <1>1, <1>2, <1>3, <1>4 DEF poll_shuffle

LEMMA TypeOKCrash ==
  ASSUME TypeOK, Crash
  PROVE  TypeOK'
<1> USE DEF TypeOK, storeVars
<1>1. pc' \in [Process -> PC]
  BY DEF Crash, PC, StoppedPC
<1>2. unpolled' \subseteq Action \X Process
  <2>1. \A k \in pollers : <<k.action, k.by>> \in Action \X Process
    BY DEF Poller
  <2> QED BY <2>1 DEF Crash
<1>3. crashes' \in 0..MaxCrashes
  BY BoundAssumption DEF Crash
<1> QED BY <1>1, <1>2, <1>3 DEF Crash

LEMMA OneProcessLoops ==
  ASSUME LoopsOK, NEW p \in Process, UNCHANGED proposed_actions,
         \A q \in Process \ {p} :
           pc'[q] = pc[q] /\ at'[q] = at[q] /\ outcome'[q] = outcome[q],
         LoopOK(p)'
  PROVE  LoopsOK'
<1> SUFFICES ASSUME NEW q \in Process \ {p} PROVE LoopOK(q)'
  BY DEF LoopsOK
<1> QED BY DEF LoopsOK, LoopOK, Active

LEMMA LoopsStep ==
  ASSUME TypeOK, LoopsOK, [Next]_vars
  PROVE  LoopsOK'
<1> USE DEF goto, runVars, storeVars, external
<1> pc \in [Process -> PC] /\ at \in [Process -> Nat \ {0}]
      /\ outcome \in [Process -> StepStatus \cup {"none"}]
  BY DEF TypeOK
<1> /\ Len(proposed_actions) \in Nat
    /\ Len(playbook) \in Nat
    /\ Len(proposed_actions) <= Len(playbook)
  BY SequencesTyped
<1> Trigger \in Process /\ Request \subseteq Process
  BY DEF Process
<1>1. CASE Orchestrate
  <2>1. CASE plan_actions_node
    <3> SUFFICES ASSUME NEW q \in Process PROVE LoopOK(q)'
      BY DEF LoopsOK
    <3>1. LoopOK(q)
      BY DEF LoopsOK
    <3>2. at'[q] = at[q] /\ outcome'[q] = outcome[q] /\ proposed_actions' = playbook
      BY <2>1 DEF plan_actions_node, update_actions
    <3>3. pc'[q] = pc[q] \/ (pc'[q] \in {"notify", "check"} /\ pc[q] = "plan")
      BY <2>1 DEF plan_actions_node, route_after_plan
    <3> QED BY <3>1, <3>2, <3>3 DEF LoopOK, Active, StoppedPC
  <2>2. CASE ingest_alerts_node \/ investigate_nodes \/ analyze_node_raises \/ human_approve_node
    <3>1. /\ UNCHANGED <<proposed_actions, at, outcome>>
          /\ \E label \in {"analyze", "plan", "failed", "paused"} : pc' = [pc EXCEPT ![Trigger] = label]
          /\ Active(Trigger)
      BY <2>2 DEF ingest_alerts_node, investigate_nodes, analyze_node_raises,
                  human_approve_node, Active, StoppedPC
    <3>2. LoopOK(Trigger)'
      BY <3>1 DEF LoopsOK, LoopOK
    <3> QED BY <3>1, <3>2, OneProcessLoops
  <2> QED BY <1>1, <2>1, <2>2 DEF Orchestrate, trigger_workflow
<1>2. ASSUME NEW p \in Process, Execute(p) PROVE LoopsOK'
  <2>1. LoopOK(p) /\ at[p] \in Nat
    BY DEF LoopsOK
  <2>2. LoopOK(p)'
    <3> USE <2>1 DEF LoopOK, Active, StoppedPC
    <3>1. CASE skip_action(p, proposed_actions)
      BY <3>1 DEF skip_action, StepStatus
    <3>2. CASE clear_action(p, proposed_actions)
      BY <3>2 DEF clear_action
    <3>3. CASE execute_action(p, proposed_actions)
      <4>1. PICK o \in Outcomes : outcome' = [outcome EXCEPT ![p] = o]
        BY <3>3 DEF execute_action
      <4>2. o \in StepStatus
        BY ProcessAssumption DEF StepStatus
      <4> QED BY <3>3, <4>1, <4>2 DEF execute_action
    <3>4. CASE append_reads(p)
      BY <3>4 DEF append_reads
    <3>5. CASE append_writes(p, proposed_actions)
      BY <3>5 DEF append_writes
    <3>6. CASE contain_case(p, proposed_actions)
      BY <3>6 DEF contain_case
    <3>7. CASE update_case_node(p)
      BY <3>7 DEF update_case_node, collect_evidence, seal_evidence, close_case
    <3>8. CASE execute_action_raises(p, proposed_actions)
      BY <3>8 DEF execute_action_raises
    <3> QED BY <1>2, <3>1, <3>2, <3>3, <3>4, <3>5, <3>6, <3>7, <3>8 DEF Execute, Run, execute_node
  <2>3. \A q \in Process \ {p} :
          pc'[q] = pc[q] /\ at'[q] = at[q] /\ outcome'[q] = outcome[q]
    BY <1>2 DEF Execute, Run, execute_node, update_case_node, skip_action, clear_action,
                execute_action, execute_action_raises, append_reads, append_writes, contain_case,
                collect_evidence, seal_evidence, close_case
  <2>4. UNCHANGED proposed_actions
    BY <1>2 DEF Execute, Run, execute_node, update_case_node, skip_action, clear_action,
                execute_action, execute_action_raises, append_reads, append_writes, contain_case,
                collect_evidence, seal_evidence, close_case
  <2> QED BY <2>2, <2>3, <2>4, OneProcessLoops
<1>3. ASSUME NEW r \in Request, submit_approval(r) PROVE LoopsOK'
  <2>1. LoopOK(r)'
    BY <1>3 DEF submit_approval, LoopsOK, LoopOK
  <2> QED BY <1>3, <2>1, OneProcessLoops DEF submit_approval
<1>4. ASSUME NEW r \in Request, Approve(r) PROVE LoopsOK'
  <2>1. LoopOK(r) /\ at[r] \in Nat /\ r \in Process
    BY DEF LoopsOK
  <2>2. LoopOK(r)'
    <3> USE <2>1 DEF LoopOK, Active, StoppedPC
    <3>1. CASE refuse_duplicate(r) \/ accept_vote(r)
      BY <3>1 DEF refuse_duplicate, accept_vote
    <3>2. CASE add_record(r)
      BY <3>2 DEF add_record
    <3>3. CASE close_rejected(r)
      BY <3>3 DEF close_rejected
    <3>4. CASE tally_action(r, proposed_actions)
      BY <3>4 DEF tally_action
    <3>5. CASE resume_workflow(r)
      BY <3>5 DEF resume_workflow
    <3> QED BY <1>4, <3>1, <3>2, <3>3, <3>4, <3>5 DEF Approve, approve_action
  <2>3. \A q \in Process \ {r} :
          pc'[q] = pc[q] /\ at'[q] = at[q] /\ outcome'[q] = outcome[q]
    BY <1>4 DEF Approve, approve_action, refuse_duplicate, accept_vote, add_record,
                close_rejected, tally_action, resume_workflow
  <2>4. UNCHANGED proposed_actions
    BY <1>4 DEF Approve, approve_action, refuse_duplicate, accept_vote, add_record,
                close_rejected, tally_action, resume_workflow
  <2> QED BY <2>1, <2>2, <2>3, <2>4, OneProcessLoops
<1>5. CASE Poll
  BY <1>5 DEF Poll, poll_shuffle, poll_answers, poll_misses, poll_writes, poll_times_out,
              LoopsOK, LoopOK, Active
<1>6. CASE Crash
  BY <1>6 DEF Crash, LoopsOK, LoopOK, Active, StoppedPC
<1>7. CASE UNCHANGED vars
  BY <1>7 DEF vars, LoopsOK, LoopOK, Active
<1> QED BY <1>1, <1>2, <1>3, <1>4, <1>5, <1>6, <1>7 DEF Next

LEMMA VotesStep ==
  ASSUME TypeOK, VotesOK, [Next]_vars
  PROVE  VotesOK'
<1> USE DEF goto, VotesOK
<1> pc \in [Process -> PC] /\ vote \in [Request -> Vote \cup {NoVote}]
  BY DEF TypeOK
<1> Trigger \in Process /\ Request \subseteq Process /\ Trigger \notin Request
  BY ProcessAssumption DEF Process
<1>1. CASE Orchestrate
  BY <1>1 DEF Orchestrate, trigger_workflow, ingest_alerts_node, investigate_nodes,
              analyze_node_raises, plan_actions_node, human_approve_node
<1>2. ASSUME NEW p \in Process, Execute(p) PROVE VotesOK'
  BY <1>2 DEF Execute, Run, execute_node, update_case_node, skip_action, clear_action,
              execute_action, execute_action_raises, append_reads, append_writes, contain_case,
              collect_evidence, seal_evidence, close_case
<1>3. ASSUME NEW r \in Request, submit_approval(r) PROVE VotesOK'
  <2>1. PICK v \in Votes[r] : vote' = [vote EXCEPT ![r] = v]
    BY <1>3 DEF submit_approval
  <2>2. v \in Vote
    BY VoteAssumption
  <2> QED BY <1>3, <2>1, <2>2 DEF submit_approval
<1>4. ASSUME NEW r \in Request, Approve(r) PROVE VotesOK'
  BY <1>4 DEF Approve, approve_action, refuse_duplicate, accept_vote, add_record,
              close_rejected, tally_action, resume_workflow
<1>5. CASE Poll
  BY <1>5 DEF Poll, poll_shuffle, poll_answers, poll_misses, poll_writes, poll_times_out
<1>6. CASE Crash
  BY <1>6 DEF Crash
<1>7. CASE UNCHANGED vars
  BY <1>7 DEF vars
<1> QED BY <1>1, <1>2, <1>3, <1>4, <1>5, <1>6, <1>7 DEF Next

Base == TypeOK /\ LoopsOK /\ VotesOK

LEMMA BaseStep ==
  ASSUME Base, [Next]_vars
  PROVE  Base'
<1> USE DEF Base
<1>1. TypeOK'
  <2>1. CASE UNCHANGED vars
    BY <2>1 DEF vars, storeVars, runVars, external, TypeOK
  <2> QED BY <2>1, TypeOKTrigger, TypeOKExecute, TypeOKSubmit, TypeOKApprove,
             TypeOKPoll, TypeOKCrash DEF Next
<1> QED BY <1>1, LoopsStep, VotesStep

\* Every variable keeps its type, for any number of requests and crashes:
\* in particular no loop of a run or of a tally leaves the proposed actions.
THEOREM TypeCorrect == Spec => []TypeOK
<1>1. Init => Base
  BY InitTypeOK DEF Base
<1>2. Base /\ [Next]_vars => Base'
  BY BaseStep
<1>3. Base => TypeOK
  BY DEF Base
<1> QED BY <1>1, <1>2, <1>3, PTL DEF Spec
-----------------------------------------------------------------------------
(***************************************************************************)
(* The safety of dual control.                                             *)
(*                                                                         *)
(* The argument: a request or a run that is under way knows the plan, and  *)
(* the plan is written once, so what one step checked of an action the     *)
(* next step still means (PlanOK).  A request has, at every point of its   *)
(* tally, seen all the signatures of the actions it has passed (TallyOK);  *)
(* so a run, which starts at the end of a tally or of a plan without gated *)
(* actions, works on a fully signed case (RunOK), and signatures are never *)
(* taken back.                                                             *)
(***************************************************************************)

\* Every gated action of the plan has its signatures
PlanSigned == \A a \in GatedActions(proposed_actions) : Signed(a)

\* Whoever works on the case, and whatever was done to it, came after the plan
PlanOK ==
  \/ \E p \in Process : Executing(p)
  \/ \E r \in Request : Active(r)
  \/ status = "contained"
  \/ evidence_pack # NoPack
  \/ approval_records # {}
  => proposed_actions = playbook

\* A request carries a vote on a gated action of the plan
BallotOK ==
  \A r \in Request :
    pc[r] \in {"duplicates", "sign"} => vote[r].action \in GatedActions(proposed_actions)

\* A tally has found the signatures of the actions before its index
TallyOK ==
  \A r \in Request :
    pc[r] = "tally" =>
      \A i \in 1..Len(proposed_actions) :
        i < at[r] /\ ApprovalRequired(proposed_actions[i]) => Signed(proposed_actions[i])

\* A run works on a signed plan
RunOK == \A p \in Process : Executing(p) => PlanSigned

\* A run past its check of a gated action has found it signed
ClearedOK ==
  \A p \in Process :
    pc[p] = "execute" /\ ApprovalRequired(Current(p)) => Signed(Current(p))

\* A record carries the one role its user signs under
RecordsOK == \A x \in approval_records : x.role = SigningRole(x.user)

-----------------------------------------------------------------------------
(* What a step does to the plan and to the records.                        *)

\* Records are only added, and only by add_record
LEMMA RecordsStep ==
  ASSUME [Next]_vars
  PROVE  /\ approval_records \subseteq approval_records'
         /\ approval_records' # approval_records => \E r \in Request : add_record(r)
<1> USE DEF storeVars
<1>1. CASE Orchestrate
  BY <1>1 DEF Orchestrate, trigger_workflow, ingest_alerts_node, investigate_nodes,
              analyze_node_raises, plan_actions_node, human_approve_node
<1>2. ASSUME NEW p \in Process, Execute(p) PROVE approval_records' = approval_records
  BY <1>2 DEF Execute, Run, execute_node, update_case_node, skip_action, clear_action,
              execute_action, execute_action_raises, append_reads, append_writes, contain_case,
              collect_evidence, seal_evidence, close_case
<1>3. ASSUME NEW r \in Request, submit_approval(r) PROVE approval_records' = approval_records
  BY <1>3 DEF submit_approval
<1>4. ASSUME NEW r \in Request, Approve(r)
      PROVE  /\ approval_records \subseteq approval_records'
             /\ approval_records' # approval_records => add_record(r)
  BY <1>4 DEF Approve, approve_action, refuse_duplicate, accept_vote, add_record,
              close_rejected, tally_action, resume_workflow
<1>5. CASE Poll
  BY <1>5 DEF Poll, poll_shuffle, poll_answers, poll_misses, poll_writes, poll_times_out
<1>6. CASE Crash
  BY <1>6 DEF Crash
<1>7. CASE UNCHANGED vars
  BY <1>7 DEF vars
<1> QED BY <1>1, <1>2, <1>3, <1>4, <1>5, <1>6, <1>7 DEF Next

\* The plan is only written by plan_actions_node
LEMMA PlanStep ==
  ASSUME [Next]_vars
  PROVE  /\ playbook' = playbook
         /\ proposed_actions' = proposed_actions
              \/ (plan_actions_node /\ proposed_actions' = playbook)
<1> USE DEF storeVars
<1>1. CASE Orchestrate
  BY <1>1 DEF Orchestrate, trigger_workflow, ingest_alerts_node, investigate_nodes,
              analyze_node_raises, plan_actions_node, human_approve_node, update_actions
<1>2. ASSUME NEW p \in Process, Execute(p) PROVE UNCHANGED <<playbook, proposed_actions>>
  BY <1>2 DEF Execute, Run, execute_node, update_case_node, skip_action, clear_action,
              execute_action, execute_action_raises, append_reads, append_writes, contain_case,
              collect_evidence, seal_evidence, close_case
<1>3. ASSUME NEW r \in Request, submit_approval(r) PROVE UNCHANGED <<playbook, proposed_actions>>
  BY <1>3 DEF submit_approval
<1>4. ASSUME NEW r \in Request, Approve(r) PROVE UNCHANGED <<playbook, proposed_actions>>
  BY <1>4 DEF Approve, approve_action, refuse_duplicate, accept_vote, add_record,
              close_rejected, tally_action, resume_workflow
<1>5. CASE Poll
  BY <1>5 DEF Poll, poll_shuffle, poll_answers, poll_misses, poll_writes, poll_times_out
<1>6. CASE Crash
  BY <1>6 DEF Crash
<1>7. CASE UNCHANGED vars
  BY <1>7 DEF vars
<1> QED BY <1>1, <1>2, <1>3, <1>4, <1>5, <1>6, <1>7 DEF Next

\* A signed plan stays signed while it stays the plan
LEMMA PlanStaysSigned ==
  ASSUME [Next]_vars, PlanSigned, proposed_actions = playbook
  PROVE  PlanSigned' /\ proposed_actions' = proposed_actions
<1>1. proposed_actions' = proposed_actions
  BY PlanStep
<1>2. \A a : Signed(a) => Signed(a)'
  BY RecordsStep, RecordsOnlyGrow
<1> QED BY <1>1, <1>2 DEF PlanSigned, GatedActions

-----------------------------------------------------------------------------
(* Each part of the invariant is kept by every step.                       *)

LEMMA PlanOKStep ==
  ASSUME Base, PlanOK, [Next]_vars
  PROVE  PlanOK'
<1> USE DEF PlanOK
<1> pc \in [Process -> PC] /\ proposed_actions \in {<<>>, playbook}
  BY DEF Base, TypeOK
<1> Trigger \in Process /\ Request \subseteq Process /\ Trigger \notin Request
  BY ProcessAssumption DEF Process
<1>1. CASE proposed_actions = playbook
  BY <1>1, PlanStep
<1>2. CASE proposed_actions # playbook
  <2>1. /\ \A p \in Process : ~ Executing(p)
        /\ \A r \in Request : ~ Active(r)
        /\ status # "contained" /\ evidence_pack = NoPack /\ approval_records = {}
    BY <1>2
  <2>2. CASE Orchestrate
    <3>1. CASE plan_actions_node
      BY <3>1, PlanStep DEF plan_actions_node, update_actions
    <3>2. CASE ingest_alerts_node \/ investigate_nodes \/ analyze_node_raises \/ human_approve_node
      <4>1. /\ \A p \in Process : ~ Executing(p)'
            /\ \A r \in Request : ~ Active(r)'
            /\ status' # "contained" /\ evidence_pack' = NoPack /\ approval_records' = {}
        BY <2>1, <3>2
           DEF ingest_alerts_node, investigate_nodes, analyze_node_raises, human_approve_node,
               goto, update_status, storeVars, Executing, ExecutionPC, Active
      <4> QED BY <4>1
    <3> QED BY <2>2, <3>1, <3>2 DEF Orchestrate, trigger_workflow
  <2>3. ASSUME NEW p \in Process, Execute(p) PROVE FALSE
    BY <2>1, <2>3 DEF Execute, Run, execute_node, update_case_node, skip_action, clear_action,
              execute_action, execute_action_raises, append_reads, append_writes, contain_case,
              collect_evidence, seal_evidence, close_case, Executing, ExecutionPC
  <2>4. ASSUME NEW r \in Request, submit_approval(r) PROVE FALSE
    <3>1. \E i \in 1..Len(proposed_actions) : TRUE
      BY <2>4 DEF submit_approval, Votable
    <3>2. proposed_actions = <<>>
      BY <1>2
    <3> QED BY <3>1, <3>2
  <2>5. ASSUME NEW r \in Request, Approve(r) PROVE FALSE
    BY <2>1, <2>5 DEF Approve, approve_action, refuse_duplicate, accept_vote, add_record,
              close_rejected, tally_action, resume_workflow, Active, StoppedPC
  <2>6. CASE Poll
    BY <2>1, <2>6 DEF Poll, poll_shuffle, poll_answers, poll_misses, poll_writes,
              poll_times_out, storeVars, Executing, Active
  <2>7. CASE Crash
    BY <2>1, <2>7 DEF Crash, storeVars, Executing, ExecutionPC, Active, StoppedPC
  <2>8. CASE UNCHANGED vars
    BY <2>1, <2>8 DEF vars, storeVars, Executing, Active
  <2> QED BY <2>2, <2>3, <2>4, <2>5, <2>6, <2>7, <2>8 DEF Next
<1> QED BY <1>1, <1>2

LEMMA BallotOKStep ==
  ASSUME Base, PlanOK, BallotOK, [Next]_vars
  PROVE  BallotOK'
<1> USE DEF BallotOK, goto
<1> pc \in [Process -> PC] /\ vote \in [Request -> Vote \cup {NoVote}]
  BY DEF Base, TypeOK
<1> Trigger \in Process /\ Request \subseteq Process /\ Trigger \notin Request
  BY ProcessAssumption DEF Process
<1> SUFFICES ASSUME NEW q \in Request, pc'[q] \in {"duplicates", "sign"}
             PROVE  vote'[q].action \in GatedActions(proposed_actions')
  BY DEF GatedActions
<1>1. ASSUME pc'[q] = pc[q], vote'[q] = vote[q]
      PROVE  vote'[q].action \in GatedActions(proposed_actions')
  <2>1. proposed_actions = playbook
    BY <1>1 DEF PlanOK, Active, StoppedPC
  <2>2. proposed_actions' = proposed_actions
    BY <2>1, PlanStep
  <2> QED BY <1>1, <2>2
<1>2. CASE Orchestrate
  <2>1. pc'[q] = pc[q] /\ vote'[q] = vote[q]
    BY <1>2 DEF Orchestrate, trigger_workflow, ingest_alerts_node, investigate_nodes,
                analyze_node_raises, plan_actions_node, human_approve_node
  <2> QED BY <1>1, <2>1
<1>3. ASSUME NEW p \in Process, Execute(p)
      PROVE  vote'[q].action \in GatedActions(proposed_actions')
  <2>1. p # q
    BY <1>3 DEF Execute, Run, execute_node, update_case_node, skip_action, clear_action,
              execute_action, execute_action_raises, append_reads, append_writes, contain_case,
              collect_evidence, seal_evidence, close_case
  <2>2. pc'[q] = pc[q] /\ vote'[q] = vote[q]
    BY <1>3, <2>1 DEF Execute, Run, execute_node, update_case_node, skip_action, clear_action,
              execute_action, execute_action_raises, append_reads, append_writes, contain_case,
              collect_evidence, seal_evidence, close_case
  <2> QED BY <1>1, <2>2
<1>4. ASSUME NEW r \in Request, submit_approval(r)
      PROVE  vote'[q].action \in GatedActions(proposed_actions')
  <2>1. PICK v \in Votes[r] : Votable(v.action) /\ vote' = [vote EXCEPT ![r] = v]
    BY <1>4 DEF submit_approval
  <2>2. proposed_actions' = proposed_actions
    BY <1>4 DEF submit_approval, storeVars
  <2>3. CASE q = r
    BY <2>1, <2>2, <2>3 DEF Votable, GatedActions
  <2>4. CASE q # r
    BY <1>1, <1>4, <2>1, <2>4 DEF submit_approval
  <2> QED BY <2>3, <2>4
<1>5. ASSUME NEW r \in Request, Approve(r)
      PROVE  vote'[q].action \in GatedActions(proposed_actions')
  <2>1. CASE q # r
    <3>1. pc'[q] = pc[q] /\ vote'[q] = vote[q]
      BY <1>5, <2>1 DEF Approve, approve_action, refuse_duplicate, accept_vote, add_record,
              close_rejected, tally_action, resume_workflow
    <3> QED BY <1>1, <3>1
  <2>2. CASE q = r
    <3>1. accept_vote(r)
      BY <1>5, <2>2 DEF Approve, approve_action, refuse_duplicate, accept_vote, add_record,
              close_rejected, tally_action, resume_workflow
    <3>2. pc[q] = "duplicates" /\ vote' = vote /\ proposed_actions' = proposed_actions
      BY <2>2, <3>1 DEF accept_vote, storeVars
    <3> QED BY <3>2
  <2> QED BY <2>1, <2>2
<1>6. CASE Poll
  BY <1>1, <1>6 DEF Poll, poll_shuffle, poll_answers, poll_misses, poll_writes, poll_times_out
<1>7. CASE Crash
  BY <1>1, <1>7 DEF Crash, Active, StoppedPC
<1>8. CASE UNCHANGED vars
  BY <1>1, <1>8 DEF vars
<1> QED BY <1>2, <1>3, <1>4, <1>5, <1>6, <1>7, <1>8 DEF Next

LEMMA TallyOKStep ==
  ASSUME Base, PlanOK, TallyOK, [Next]_vars
  PROVE  TallyOK'
<1> USE DEF TallyOK, goto
<1> pc \in [Process -> PC] /\ at \in [Process -> Nat \ {0}]
  BY DEF Base, TypeOK
<1> Trigger \in Process /\ Request \subseteq Process /\ Trigger \notin Request
  BY ProcessAssumption DEF Process
<1> \A a : Signed(a) => Signed(a)'
  BY RecordsStep, RecordsOnlyGrow
<1> SUFFICES ASSUME NEW q \in Request, pc'[q] = "tally",
                    NEW i \in 1..Len(proposed_actions'), i < at'[q],
                    ApprovalRequired(proposed_actions'[i])
             PROVE  Signed(proposed_actions[i])'
  OBVIOUS
<1>1. ASSUME pc'[q] = pc[q], at'[q] = at[q]
      PROVE  Signed(proposed_actions[i])'
  <2>1. proposed_actions = playbook
    BY <1>1 DEF PlanOK, Active, StoppedPC
  <2>2. proposed_actions' = proposed_actions
    BY <2>1, PlanStep
  <2>3. Signed(proposed_actions[i])
    BY <1>1, <2>2
  <2> QED BY <2>2, <2>3
<1>2. CASE Orchestrate
  <2>1. pc'[q] = pc[q] /\ at'[q] = at[q]
    BY <1>2 DEF Orchestrate, trigger_workflow, ingest_alerts_node, investigate_nodes,
                analyze_node_raises, plan_actions_node, human_approve_node, runVars
  <2> QED BY <1>1, <2>1
<1>3. ASSUME NEW p \in Process, Execute(p) PROVE Signed(proposed_actions[i])'
  <2>1. p # q
    BY <1>3 DEF Execute, Run, execute_node, update_case_node, skip_action, clear_action,
              execute_action, execute_action_raises, append_reads, append_writes, contain_case,
              collect_evidence, seal_evidence, close_case
  <2>2. pc'[q] = pc[q] /\ at'[q] = at[q]
    BY <1>3, <2>1 DEF Execute, Run, execute_node, update_case_node, skip_action, clear_action,
              execute_action, execute_action_raises, append_reads, append_writes, contain_case,
              collect_evidence, seal_evidence, close_case, runVars
  <2> QED BY <1>1, <2>2
<1>4. ASSUME NEW r \in Request, submit_approval(r) PROVE Signed(proposed_actions[i])'
  BY <1>1, <1>4 DEF submit_approval, runVars
<1>5. ASSUME NEW r \in Request, Approve(r) PROVE Signed(proposed_actions[i])'
  <2>1. CASE q # r
    <3>1. pc'[q] = pc[q] /\ at'[q] = at[q]
      BY <1>5, <2>1 DEF Approve, approve_action, refuse_duplicate, accept_vote, add_record,
              close_rejected, tally_action, resume_workflow, runVars
    <3> QED BY <1>1, <3>1
  <2>2. CASE q = r /\ add_record(r)
    <3>1. at[r] = 1 /\ at' = at
      BY <2>2 DEF add_record, runVars, Base, LoopsOK, LoopOK
    <3> QED BY <2>2, <3>1
  <2>3. CASE q = r /\ tally_action(r, proposed_actions)
    <3>1. proposed_actions' = proposed_actions
      BY <2>3 DEF tally_action, storeVars
    <3>2. /\ pc[q] = "tally" /\ at'[q] = at[q] + 1
          /\ ApprovalRequired(Current(q)) => check_action_fully_approved(Current(q))
          /\ at[q] <= Len(proposed_actions)
      BY <2>3 DEF tally_action, Current
    <3>3. CASE i < at[q]
      BY <3>1, <3>2, <3>3
    <3>4. CASE i = at[q]
      <4>1. proposed_actions[i] = Current(q) /\ Current(q) \in Action
        BY <3>2, <3>4, CurrentIsAction DEF Current, Base
      <4>2. Signed(proposed_actions[i])
        BY <3>1, <3>2, <4>1, VerdictMeansSigned DEF check_action_fully_approved
      <4> QED BY <3>1, <4>2
    <3> QED BY <3>2, <3>3, <3>4
  <2>4. CASE q = r /\ ~ add_record(r) /\ ~ tally_action(r, proposed_actions)
    BY <1>5, <2>4 DEF Approve, approve_action, refuse_duplicate, accept_vote,
              close_rejected, resume_workflow
  <2> QED BY <2>1, <2>2, <2>3, <2>4
<1>6. CASE Poll
  BY <1>1, <1>6 DEF Poll, poll_shuffle, poll_answers, poll_misses, poll_writes,
                    poll_times_out, runVars
<1>7. CASE Crash
  BY <1>7 DEF Crash, Active, StoppedPC
<1>8. CASE UNCHANGED vars
  BY <1>1, <1>8 DEF vars, runVars
<1> QED BY <1>2, <1>3, <1>4, <1>5, <1>6, <1>7, <1>8 DEF Next

LEMMA RunOKStep ==
  ASSUME Base, PlanOK, TallyOK, RunOK, [Next]_vars
  PROVE  RunOK'
<1> USE DEF RunOK, goto
<1> pc \in [Process -> PC]
  BY DEF Base, TypeOK
<1> Trigger \in Process /\ Request \subseteq Process /\ Trigger \notin Request
  BY ProcessAssumption DEF Process
<1> SUFFICES ASSUME NEW q \in Process, Executing(q)' PROVE PlanSigned'
  OBVIOUS
<1>1. ASSUME Executing(q) PROVE PlanSigned'
  BY <1>1, PlanStaysSigned DEF PlanOK
<1>2. CASE Orchestrate
  <2>1. CASE plan_actions_node /\ q = Trigger
    <3>1. pc'[Trigger] = route_after_plan(playbook) /\ proposed_actions' = playbook
      BY <2>1 DEF plan_actions_node, update_actions
    <3>2. GatedActions(playbook) = {}
      BY <2>1, <3>1 DEF route_after_plan, Executing, ExecutionPC
    <3> QED BY <3>1, <3>2 DEF PlanSigned
  <2>2. CASE ~ (plan_actions_node /\ q = Trigger)
    <3>1. Executing(q)
      BY <1>2, <2>2 DEF Orchestrate, trigger_workflow, ingest_alerts_node, investigate_nodes,
              analyze_node_raises, plan_actions_node, human_approve_node, Executing, ExecutionPC
    <3> QED BY <1>1, <3>1
  <2> QED BY <2>1, <2>2
<1>3. ASSUME NEW p \in Process, Execute(p) PROVE PlanSigned'
  <2>1. Executing(p)
    BY <1>3 DEF Execute, Run, execute_node, update_case_node, skip_action, clear_action,
              execute_action, execute_action_raises, append_reads, append_writes, contain_case,
              collect_evidence, seal_evidence, close_case, Executing, ExecutionPC
  <2> QED BY <2>1, PlanStaysSigned DEF PlanOK
<1>4. ASSUME NEW r \in Request, submit_approval(r) PROVE PlanSigned'
  <2>1. Executing(q)
    BY <1>4 DEF submit_approval, Executing, ExecutionPC
  <2> QED BY <1>1, <2>1
<1>5. ASSUME NEW r \in Request, Approve(r) PROVE PlanSigned'
  <2>1. CASE resume_workflow(r)
    <3>1. proposed_actions = playbook
      BY <2>1 DEF resume_workflow, PlanOK, Active, StoppedPC
    <3>2. PlanSigned
      <4>1. \A i \in 1..Len(proposed_actions) : i < at[r]
        BY <2>1, SequencesTyped DEF resume_workflow, Base, TypeOK
      <4>2. pc[r] = "tally"
        BY <2>1 DEF resume_workflow
      <4>3. \A i \in 1..Len(proposed_actions) :
              ApprovalRequired(proposed_actions[i]) => Signed(proposed_actions[i])
        BY <4>1, <4>2 DEF TallyOK
      <4> QED BY <4>3 DEF PlanSigned, GatedActions
    <3> QED BY <3>1, <3>2, PlanStaysSigned
  <2>2. CASE ~ resume_workflow(r)
    <3>1. Executing(q)
      BY <1>5, <2>2 DEF Approve, approve_action, refuse_duplicate, accept_vote, add_record,
              close_rejected, tally_action, Executing, ExecutionPC
    <3> QED BY <1>1, <3>1
  <2> QED BY <2>1, <2>2
<1>6. CASE Poll
  BY <1>1, <1>6 DEF Poll, poll_shuffle, poll_answers, poll_misses, poll_writes,
                    poll_times_out, Executing
<1>7. CASE Crash
  BY <1>7 DEF Crash, Active, StoppedPC, Executing, ExecutionPC
<1>8. CASE UNCHANGED vars
  BY <1>1, <1>8 DEF vars, Executing
<1> QED BY <1>2, <1>3, <1>4, <1>5, <1>6, <1>7, <1>8 DEF Next

LEMMA ContainedStep ==
  ASSUME Base, PlanOK, RunOK, ContainedWasSigned, [Next]_vars
  PROVE  ContainedWasSigned'
<1> SUFFICES ASSUME status' = "contained" \/ evidence_pack' # NoPack PROVE PlanSigned'
  BY DEF ContainedWasSigned, PlanSigned
<1>1. ASSUME status = "contained" \/ evidence_pack # NoPack PROVE PlanSigned'
  BY <1>1, PlanStaysSigned DEF ContainedWasSigned, PlanSigned, PlanOK
<1>2. ASSUME NEW p \in Process, Execute(p) PROVE PlanSigned'
  <2>1. Executing(p)
    BY <1>2 DEF Execute, Run, execute_node, update_case_node, skip_action, clear_action,
              execute_action, execute_action_raises, append_reads, append_writes, contain_case,
              collect_evidence, seal_evidence, close_case, Executing, ExecutionPC
  <2> QED BY <2>1, PlanStaysSigned DEF PlanOK, RunOK
<1> USE DEF storeVars, update_status
<1>3. CASE Orchestrate
  BY <1>1, <1>3 DEF Orchestrate, trigger_workflow, ingest_alerts_node, investigate_nodes,
                analyze_node_raises, plan_actions_node, human_approve_node
<1>4. ASSUME NEW r \in Request, submit_approval(r) PROVE PlanSigned'
  BY <1>1, <1>4 DEF submit_approval
<1>5. ASSUME NEW r \in Request, Approve(r) PROVE PlanSigned'
  BY <1>1, <1>5 DEF Approve, approve_action, refuse_duplicate, accept_vote, add_record,
              close_rejected, tally_action, resume_workflow
<1>6. CASE Poll
  BY <1>1, <1>6 DEF Poll, poll_shuffle, poll_answers, poll_misses, poll_writes, poll_times_out
<1>7. CASE Crash
  BY <1>1, <1>7 DEF Crash
<1>8. CASE UNCHANGED vars
  BY <1>1, <1>8 DEF vars
<1> QED BY <1>2, <1>3, <1>4, <1>5, <1>6, <1>7, <1>8 DEF Next

\* What a process in the execute step works on does not change under it
LEMMA CurrentKept ==
  ASSUME Base, PlanOK, [Next]_vars, NEW p \in Process, Executing(p), at'[p] = at[p]
  PROVE  Current(p)' = Current(p)
<1>1. proposed_actions = playbook
  BY DEF PlanOK
<1>2. proposed_actions' = proposed_actions
  BY <1>1, PlanStep
<1> QED BY <1>2 DEF Current

\* A process enters the execute step by its check and stays there till it dispatches
LEMMA ExecuteStep ==
  ASSUME Base, [Next]_vars, NEW p \in Process, pc'[p] = "execute"
  PROVE  clear_action(p, proposed_actions) \/ (pc[p] = "execute" /\ at'[p] = at[p])
<1> USE DEF goto, runVars
<1> pc \in [Process -> PC] /\ at \in [Process -> Nat \ {0}]
  BY DEF Base, TypeOK
<1> Trigger \in Process /\ Request \subseteq Process
  BY DEF Process
<1>1. CASE Orchestrate
  BY <1>1 DEF Orchestrate, trigger_workflow, ingest_alerts_node, investigate_nodes,
              analyze_node_raises, plan_actions_node, human_approve_node, route_after_plan
<1>2. ASSUME NEW q \in Process, Execute(q)
      PROVE  clear_action(p, proposed_actions) \/ (pc[p] = "execute" /\ at'[p] = at[p])
  <2>1. CASE p = q
    BY <1>2, <2>1 DEF Execute, Run, execute_node, update_case_node, skip_action, clear_action,
              execute_action, execute_action_raises, append_reads, append_writes, contain_case,
              collect_evidence, seal_evidence, close_case
  <2>2. CASE p # q
    BY <1>2, <2>2 DEF Execute, Run, execute_node, update_case_node, skip_action, clear_action,
              execute_action, execute_action_raises, append_reads, append_writes, contain_case,
              collect_evidence, seal_evidence, close_case
  <2> QED BY <2>1, <2>2
<1>3. ASSUME NEW r \in Request, submit_approval(r)
      PROVE  pc[p] = "execute" /\ at'[p] = at[p]
  BY <1>3 DEF submit_approval
<1>4. ASSUME NEW r \in Request, Approve(r)
      PROVE  pc[p] = "execute" /\ at'[p] = at[p]
  BY <1>4 DEF Approve, approve_action, refuse_duplicate, accept_vote, add_record,
              close_rejected, tally_action, resume_workflow
<1>5. CASE Poll
  BY <1>5 DEF Poll, poll_shuffle, poll_answers, poll_misses, poll_writes, poll_times_out
<1>6. CASE Crash
  BY <1>6 DEF Crash, Active, StoppedPC
<1>7. CASE UNCHANGED vars
  BY <1>7 DEF vars
<1> QED BY <1>1, <1>2, <1>3, <1>4, <1>5, <1>6, <1>7 DEF Next

LEMMA ClearedOKStep ==
  ASSUME Base, PlanOK, ClearedOK, [Next]_vars
  PROVE  ClearedOK'
<1> USE DEF ClearedOK
<1> SUFFICES ASSUME NEW p \in Process, pc'[p] = "execute", ApprovalRequired(Current(p)')
             PROVE  Signed(Current(p))'
  OBVIOUS
<1> \A a : Signed(a) => Signed(a)'
  BY RecordsStep, RecordsOnlyGrow
<1>1. CASE clear_action(p, proposed_actions)
  <2>1. Current(p)' = Current(p) /\ at[p] <= Len(proposed_actions)
    BY <1>1 DEF clear_action, Current, storeVars, runVars
  <2>2. is_action_approved(Current(p)) /\ Current(p) \in Action
    BY <1>1, <2>1, CurrentIsAction DEF clear_action, MayExecute, Base, Current
  <2>3. Signed(Current(p))
    BY <2>2, VerdictMeansSigned DEF is_action_approved
  <2> QED BY <2>1, <2>3
<1>2. CASE pc[p] = "execute" /\ at'[p] = at[p]
  <2>1. Current(p)' = Current(p)
    BY <1>2, CurrentKept DEF Executing, ExecutionPC
  <2> QED BY <1>2, <2>1
<1> QED BY <1>1, <1>2, ExecuteStep

\* The executor is called by a process in the execute step, for its action
LEMMA DispatchStep ==
  ASSUME TypeOK, LoopsOK, [Next]_vars, NEW a \in Action, dispatched'[a] # dispatched[a]
  PROVE  \E p \in Process : Dispatch(p) /\ Current(p) = a
<1> USE DEF external
<1>1. CASE Orchestrate
  BY <1>1 DEF Orchestrate, trigger_workflow, ingest_alerts_node, investigate_nodes,
              analyze_node_raises, plan_actions_node, human_approve_node
<1>2. ASSUME NEW p \in Process, Execute(p)
      PROVE  Dispatch(p) /\ Current(p) = a
  <2>1. Dispatch(p)
    BY <1>2 DEF Execute, Run, execute_node, update_case_node, skip_action, clear_action,
              append_reads, append_writes, contain_case,
              collect_evidence, seal_evidence, close_case, Dispatch
  <2>2. dispatched' = [dispatched EXCEPT ![Current(p)] = @ + 1]
    BY <2>1 DEF Dispatch, execute_action, execute_action_raises, Current
  <2>3. Current(p) = a
    BY <2>2 DEF TypeOK
  <2> QED BY <2>1, <2>3
<1>3. ASSUME NEW r \in Request, submit_approval(r) PROVE FALSE
  BY <1>3 DEF submit_approval
<1>4. ASSUME NEW r \in Request, Approve(r) PROVE FALSE
  BY <1>4 DEF Approve, approve_action, refuse_duplicate, accept_vote, add_record,
              close_rejected, tally_action, resume_workflow
<1>5. CASE Poll
  BY <1>5 DEF Poll, poll_shuffle, poll_answers, poll_misses, poll_writes, poll_times_out
<1>6. CASE Crash
  BY <1>6 DEF Crash
<1>7. CASE UNCHANGED vars
  BY <1>7 DEF vars
<1> QED BY <1>1, <1>2, <1>3, <1>4, <1>5, <1>6, <1>7 DEF Next

LEMMA ExecutedStep ==
  ASSUME Base, ClearedOK, ExecutedWasSigned, [Next]_vars
  PROVE  ExecutedWasSigned'
<1> SUFFICES ASSUME NEW a \in Action, ApprovalRequired(a), dispatched'[a] > 0
             PROVE  Signed(a)'
  BY DEF ExecutedWasSigned
<1> \A b : Signed(b) => Signed(b)'
  BY RecordsStep, RecordsOnlyGrow
<1>1. CASE dispatched'[a] = dispatched[a]
  BY <1>1 DEF ExecutedWasSigned
<1>2. CASE dispatched'[a] # dispatched[a]
  <2>1. PICK p \in Process : Dispatch(p) /\ Current(p) = a
    BY <1>2, DispatchStep DEF Base
  <2> QED BY <2>1 DEF Dispatch, execute_action, execute_action_raises, ClearedOK
<1> QED BY <1>1, <1>2

LEMMA RecordsOKStep ==
  ASSUME RecordsOK, [Next]_vars
  PROVE  RecordsOK'
<1>1. CASE approval_records' = approval_records
  BY <1>1 DEF RecordsOK
<1>2. CASE \E r \in Request : add_record(r)
  BY <1>2 DEF RecordsOK, add_record
<1> QED BY <1>1, <1>2, RecordsStep

\* A request that is counting, executing, done or ended by an exception
Serves(r) == pc[r] = "tally" \/ Executing(r) \/ pc[r] \in {"finished", "failed"}

\* A request that serves a fully signed case goes on serving it
LEMMA ServesStep ==
  ASSUME Base, AllSigned, [Next]_vars, crashes' = 0, NEW r \in Request, Serves(r)
  PROVE  Serves(r)'
<1> USE DEF Serves, goto
<1> pc \in [Process -> PC] /\ crashes \in Nat
  BY BoundAssumption DEF Base, TypeOK
<1> Trigger \in Process /\ Request \subseteq Process /\ Trigger \notin Request
  BY ProcessAssumption DEF Process
<1>1. ASSUME pc'[r] = pc[r] PROVE Serves(r)'
  BY <1>1 DEF Executing
<1>2. CASE Orchestrate
  BY <1>1, <1>2 DEF Orchestrate, trigger_workflow, ingest_alerts_node, investigate_nodes,
              analyze_node_raises, plan_actions_node, human_approve_node
<1>3. ASSUME NEW p \in Process, Execute(p) PROVE Serves(r)'
  <2>1. CASE p = r
    BY <1>3, <2>1 DEF Execute, Run, execute_node, update_case_node, skip_action, clear_action,
              execute_action, execute_action_raises, append_reads, append_writes, contain_case,
              collect_evidence, seal_evidence, close_case, Executing, ExecutionPC
  <2>2. CASE p # r
    <3>1. pc'[r] = pc[r]
      BY <1>3, <2>2 DEF Execute, Run, execute_node, update_case_node, skip_action, clear_action,
              execute_action, execute_action_raises, append_reads, append_writes, contain_case,
              collect_evidence, seal_evidence, close_case
    <3> QED BY <1>1, <3>1
  <2> QED BY <2>1, <2>2
<1>4. ASSUME NEW q \in Request, submit_approval(q) PROVE Serves(r)'
  <2>1. q # r
    BY <1>4 DEF submit_approval, Executing, ExecutionPC
  <2> QED BY <1>1, <1>4, <2>1 DEF submit_approval
<1>5. ASSUME NEW q \in Request, Approve(q) PROVE Serves(r)'
  <2>1. CASE q # r
    <3>1. pc'[r] = pc[r]
      BY <1>5, <2>1 DEF Approve, approve_action, refuse_duplicate, accept_vote, add_record,
              close_rejected, tally_action, resume_workflow
    <3> QED BY <1>1, <3>1
  <2>2. CASE q = r /\ tally_action(r, proposed_actions)
    <3>1. at[r] <= Len(proposed_actions)
      BY <2>2 DEF tally_action
    <3>2. at[r] \in 1..Len(proposed_actions) /\ Current(r) \in Action
      BY <3>1, CurrentIsAction DEF Base
    <3>3. ApprovalRequired(Current(r)) => Signed(Current(r)) /\ ~ Rejected(Current(r))
      BY <3>2 DEF AllSigned, GatedActions, Current
    <3>4. ApprovalRequired(Current(r)) => check_action_fully_approved(Current(r))
      BY <3>2, <3>3, VerdictMeansSigned DEF check_action_fully_approved
    <3> QED BY <1>1, <2>2, <3>4 DEF tally_action, Current
  <2>3. CASE q = r /\ resume_workflow(r)
    BY <2>3 DEF resume_workflow, Executing, ExecutionPC
  <2>4. CASE q = r /\ ~ tally_action(r, proposed_actions) /\ ~ resume_workflow(r)
    BY <1>5, <2>4 DEF Approve, approve_action, refuse_duplicate, accept_vote, add_record,
              close_rejected, Executing, ExecutionPC
  <2> QED BY <2>1, <2>2, <2>3, <2>4
<1>6. CASE Poll
  BY <1>1, <1>6 DEF Poll, poll_shuffle, poll_answers, poll_misses, poll_writes, poll_times_out
<1>7. CASE Crash
  BY <1>7 DEF Crash
<1>8. CASE UNCHANGED vars
  BY <1>1, <1>8 DEF vars
<1> QED BY <1>2, <1>3, <1>4, <1>5, <1>6, <1>7, <1>8 DEF Next

LEMMA CrashesCount ==
  ASSUME TypeOK, [Next]_vars, crashes' = 0
  PROVE  crashes = 0
<1> crashes \in Nat
  BY BoundAssumption DEF TypeOK
<1> QED BY DEF Next, Orchestrate, Execute, Approve, Poll, Crash, vars

\* Only the vote that completes the signatures makes a case fully signed,
\* and its request goes on to the tally
LEMMA NoLostStep ==
  ASSUME Base, PlanOK, BallotOK, NoLostApproval, [Next]_vars
  PROVE  NoLostApproval'
<1> SUFFICES ASSUME AllSigned', crashes' = 0 PROVE \E r \in Request : Serves(r)'
  BY DEF NoLostApproval, Serves
<1>1. crashes = 0
  BY CrashesCount DEF Base
<1>2. CASE \E r \in Request : add_record(r)
  <2>1. PICK r \in Request : add_record(r)
    BY <1>2
  <2>2. pc \in [Process -> PC] /\ r \in Process /\ proposed_actions' = proposed_actions
    BY <2>1 DEF Base, TypeOK, Process, add_record
  <2>3. vote[r].action \in GatedActions(proposed_actions')
    BY <2>1, <2>2 DEF BallotOK, add_record
  <2>4. vote[r].decision # "rejected"
    <3> SUFFICES ASSUME vote[r].decision = "rejected" PROVE FALSE
      OBVIOUS
    <3> DEFINE new == [id |-> r, user |-> vote[r].user, role |-> SigningRole(vote[r].user),
                       action |-> vote[r].action, decision |-> vote[r].decision]
    <3>1. \E x \in approval_records' : x.action = vote[r].action /\ x.decision = "rejected"
      <4>1. new \in approval_records'
        BY <2>1 DEF add_record
      <4>2. new.action = vote[r].action /\ new.decision = "rejected"
        OBVIOUS
      <4> QED BY <4>1, <4>2
    <3>2. \A a \in GatedActions(proposed_actions') :
            ~ \E x \in approval_records' : x.action = a /\ x.decision = "rejected"
      BY DEF AllSigned, GatedActions, Rejected
    <3> QED BY <2>3, <3>1, <3>2
  <2>5. pc'[r] = "tally"
    BY <2>1, <2>2, <2>4 DEF add_record, goto
  <2> QED BY <2>5 DEF Serves
<1>3. CASE approval_records' = approval_records
  <2>1. approval_records # {}
    <3>1. PICK a \in GatedActions(proposed_actions)' : Signed(a)'
      BY DEF AllSigned
    <3>2. "approver" \in RequiredRoles(a)
      BY DEF RequiredRoles, CRITICAL_TRIPLE_ROLES, DOUBLE_SIGN_ROLES
    <3> QED BY <1>3, <3>1, <3>2 DEF Signed, Approvals
  <2>2. proposed_actions' = proposed_actions
    BY <2>1, PlanStep DEF PlanOK
  <2>3. AllSigned
    BY <1>3, <2>2 DEF AllSigned, GatedActions, Signed, Rejected, Approvals
  <2>4. PICK r \in Request : Serves(r)
    BY <1>1, <2>3 DEF NoLostApproval, Serves
  <2> QED BY <2>3, <2>4, ServesStep
<1> QED BY <1>2, <1>3, RecordsStep

-----------------------------------------------------------------------------
(* The theorems.                                                           *)

Inv ==
  /\ Base
  /\ PlanOK
  /\ BallotOK
  /\ TallyOK
  /\ RunOK
  /\ ClearedOK
  /\ RecordsOK
  /\ ExecutedWasSigned
  /\ ContainedWasSigned
  /\ NoLostApproval

LEMMA InitInv == Init => Inv
<1> SUFFICES ASSUME Init PROVE Inv
  OBVIOUS
<1>1. Base
  BY InitTypeOK DEF Base
<1>2. /\ \A p \in Process : ~ Executing(p) /\ pc[p] # "execute"
      /\ \A r \in Request : pc[r] = "idle"
      /\ status # "contained" /\ evidence_pack = NoPack /\ approval_records = {}
      /\ \A a \in Action : dispatched[a] = 0
  BY ProcessAssumption
     DEF Init, StoreInit, OrchestrationInit, Process, Executing, ExecutionPC
<1>3. PlanOK
  BY <1>2 DEF PlanOK, Active, StoppedPC
<1>4. BallotOK /\ TallyOK
  BY <1>2 DEF BallotOK, TallyOK
<1>5. RunOK /\ ClearedOK /\ RecordsOK
  BY <1>2 DEF RunOK, ClearedOK, RecordsOK
<1>6. ExecutedWasSigned /\ ContainedWasSigned
  BY <1>2 DEF ExecutedWasSigned, ContainedWasSigned
<1>7. GatedActions(proposed_actions) = {}
  BY DEF Init, StoreInit, GatedActions
<1>8. NoLostApproval
  BY <1>7 DEF NoLostApproval, AllSigned
<1> QED BY <1>1, <1>3, <1>4, <1>5, <1>6, <1>8 DEF Inv

LEMMA InvStep == Inv /\ [Next]_vars => Inv'
BY BaseStep, PlanOKStep, BallotOKStep, TallyOKStep, RunOKStep, ClearedOKStep,
   RecordsOKStep, ExecutedStep, ContainedStep, NoLostStep DEF Inv

LEMMA Invariance == Spec => []Inv
<1> QED BY InitInv, InvStep, PTL DEF Spec

\* Dual control: no interleaving of requests, runs and crashes brings an L2
\* action to the executor without the approval of every role it needs.
THEOREM ExecutionNeedsSignatures == Spec => []ExecutedWasSigned
<1>1. Inv => ExecutedWasSigned
  BY DEF Inv
<1> QED BY <1>1, Invariance, PTL

\* A case is contained and its evidence sealed only around a plan whose L2
\* actions were all signed, whichever run gets there.
THEOREM ContainmentNeedsSignatures == Spec => []ContainedWasSigned
<1>1. Inv => ContainedWasSigned
  BY DEF Inv
<1> QED BY <1>1, Invariance, PTL

\* The last signature is never lost: while the process stays up, a fully
\* signed case always has a request that resumes it, or has done so.
THEOREM ApprovalIsServed == Spec => []NoLostApproval
<1>1. Inv => NoLostApproval
  BY DEF Inv
<1> QED BY <1>1, Invariance, PTL

\* Two approvals under different roles come from different users
LEMMA DistinctUsers ==
  ASSUME TypeOK, RecordsOK, NEW a \in Action, NEW x \in Approvals(a), NEW y \in Approvals(a),
         x.role # y.role
  PROVE  x.user # y.user
BY DEF RecordsOK, Approvals

LEMMA ManyEyesHolds ==
  ASSUME TypeOK, RecordsOK, ExecutedWasSigned
  PROVE  ManyEyes
<1> SUFFICES ASSUME NEW a \in Action, ApprovalRequired(a), dispatched[a] > 0
             PROVE  Cardinality({x.user : x \in Approvals(a)}) >=
                      IF ActionType[a] \in CRITICAL_ACTIONS THEN 3 ELSE 2
  BY DEF ManyEyes
<1> DEFINE U == {x.user : x \in Approvals(a)}
<1>1. IsFiniteSet(U)
  <2>1. U \subseteq Signer
    BY DEF TypeOK, Approvals, Record
  <2>2. IsFiniteSet(Signer)
    BY SignerAssumption, FS_Union DEF Signer
  <2> QED BY <2>1, <2>2, FS_Subset
<1>2. Signed(a)
  BY DEF ExecutedWasSigned
<1>3. PICK x \in Approvals(a) : x.role = "incident_commander"
  BY <1>2 DEF Signed, RequiredRoles, CRITICAL_TRIPLE_ROLES, DOUBLE_SIGN_ROLES
<1>4. PICK y \in Approvals(a) : y.role = "approver"
  BY <1>2 DEF Signed, RequiredRoles, CRITICAL_TRIPLE_ROLES, DOUBLE_SIGN_ROLES
<1>5. x.user # y.user
  BY <1>3, <1>4, DistinctUsers
<1>6. IsFiniteSet({x.user, y.user}) /\ Cardinality({x.user, y.user}) = 2
  <2>1. IsFiniteSet({x.user}) /\ Cardinality({x.user}) = 1 /\ y.user \notin {x.user}
    BY <1>5, FS_Singleton
  <2>2. IsFiniteSet({x.user} \cup {y.user}) /\ Cardinality({x.user} \cup {y.user}) = 2
    BY <2>1, FS_AddElement
  <2>3. {x.user} \cup {y.user} = {x.user, y.user}
    OBVIOUS
  <2> QED BY <2>2, <2>3
<1>7. CASE ActionType[a] \notin CRITICAL_ACTIONS
  <2>1. {x.user, y.user} \subseteq U
    OBVIOUS
  <2>2. Cardinality({x.user, y.user}) <= Cardinality(U)
    BY <1>1, <2>1, FS_Subset
  <2>3. Cardinality(U) \in Nat
    BY <1>1, FS_CardinalityType
  <2> QED BY <1>6, <1>7, <2>2, <2>3
<1>8. CASE ActionType[a] \in CRITICAL_ACTIONS
  <2>1. PICK z \in Approvals(a) : z.role = "ciso_or_delegate"
    BY <1>2, <1>8 DEF Signed, RequiredRoles, CRITICAL_TRIPLE_ROLES
  <2>2. z.user \notin {x.user, y.user}
    BY <1>3, <1>4, <2>1, DistinctUsers
  <2>3. Cardinality({x.user, y.user} \cup {z.user}) = 3
    <3>1. Cardinality({x.user, y.user} \cup {z.user}) = Cardinality({x.user, y.user}) + 1
      BY <1>6, <2>2, FS_AddElement, Zenon
    <3> QED BY <1>6, <3>1
  <2>4. {x.user, y.user} \cup {z.user} \subseteq U
    OBVIOUS
  <2>5. Cardinality({x.user, y.user} \cup {z.user}) <= Cardinality(U)
    BY <1>1, <2>4, FS_Subset
  <2>6. Cardinality(U) \in Nat
    BY <1>1, FS_CardinalityType
  <2> QED BY <1>8, <2>3, <2>5, <2>6
<1> QED BY <1>7, <1>8

\* Dual control binds people, not role names: two accounts stand behind every
\* executed L2 action and three behind a critical one.
THEOREM EnoughEyes == Spec => []ManyEyes
<1>1. Inv => ManyEyes
  BY ManyEyesHolds DEF Inv, Base
<1> QED BY <1>1, Invariance, PTL

\* A vetoed action stays vetoed through one step, and is not executed in it
LEMMA VetoStep ==
  ASSUME Inv, [Next]_vars, NEW a \in Action, Vetoed(a)
  PROVE  Vetoed(a)' /\ dispatched'[a] = dispatched[a]
<1> USE DEF Inv, Base
<1>1. Rejected(a) /\ Rejected(a)'
  BY RecordsStep, RecordsOnlyGrow DEF Vetoed
<1>2. ASSUME NEW p \in Cleared(a)' PROVE FALSE
  <2>1. p \in Process /\ pc'[p] = "execute" /\ Current(p)' = a
    BY <1>2 DEF Cleared
  <2>2. CASE clear_action(p, proposed_actions)
    <3>1. Current(p)' = Current(p)
      BY <2>2 DEF clear_action, Current, storeVars, runVars
    <3>2. is_action_approved(a)
      BY <2>1, <2>2, <3>1 DEF clear_action, MayExecute, Vetoed, Current
    <3> QED BY <1>1, <3>2, VerdictMeansSigned DEF is_action_approved
  <2>3. CASE pc[p] = "execute" /\ at'[p] = at[p]
    <3>1. Current(p) = a
      BY <2>1, <2>3, CurrentKept DEF Executing, ExecutionPC
    <3>2. at[p] \in 1..Len(proposed_actions)
      BY <2>1, <2>3, CurrentIsAction DEF LoopsOK, LoopOK
    <3>3. p \in Cleared(a)
      BY <2>1, <2>3, <3>1, <3>2 DEF Cleared
    <3> QED BY <3>3 DEF Vetoed
  <2> QED BY <2>1, <2>2, <2>3, ExecuteStep
<1>3. dispatched'[a] = dispatched[a]
  <2> SUFFICES ASSUME dispatched'[a] # dispatched[a] PROVE FALSE
    OBVIOUS
  <2>1. PICK p \in Process : Dispatch(p) /\ Current(p) = a
    BY DispatchStep
  <2>2. pc[p] = "execute" /\ at[p] \in 1..Len(proposed_actions)
    BY <2>1, CurrentIsAction DEF Dispatch, execute_action, execute_action_raises, LoopsOK, LoopOK
  <2>3. p \in Cleared(a)
    BY <2>1, <2>2 DEF Cleared
  <2> QED BY <2>3 DEF Vetoed
<1> QED BY <1>1, <1>2, <1>3 DEF Vetoed

\* A rejection is final: once no run is past its check of the action, no
\* later signature, resume run or crash brings it to the executor.
THEOREM RejectionHolds == Spec => RejectionIsFinal
<1>1. Inv /\ [Next]_vars =>
        [\A a \in Action : Vetoed(a) => Vetoed(a)' /\ dispatched'[a] = dispatched[a]]_vars
  BY VetoStep
<1> QED BY <1>1, Invariance, PTL DEF Spec, RejectionIsFinal

-----------------------------------------------------------------------------
(* CaseCore implements DualControl.                                        *)

\* Only people who may sign have signed
VotersOK == \A x \in approval_records : x.user \in Voter

LEMMA VotersOKStep ==
  ASSUME Base, VotersOK, [Next]_vars
  PROVE  VotersOK'
<1> USE DEF VotersOK
<1>1. CASE approval_records' = approval_records
  BY <1>1
<1>2. ASSUME NEW r \in Request, add_record(r) PROVE VotersOK'
  <2>1. vote[r] \in Vote
    BY <1>2 DEF add_record, Base, VotesOK
  <2>2. vote[r].user \in Voter
    BY <2>1 DEF Vote, Voter
  <2> QED BY <1>2, <2>2 DEF add_record
<1> QED BY <1>1, <1>2, RecordsStep

\* A process leaves the execute step by dispatching, or with the whole API process
LEMMA ExecuteLeaves ==
  ASSUME Base, [Next]_vars, NEW p \in Process, pc[p] = "execute"
  PROVE  \/ pc'[p] = "execute" /\ at'[p] = at[p]
         \/ Dispatch(p)
         \/ Crash
<1> USE DEF goto, runVars
<1> pc \in [Process -> PC] /\ at \in [Process -> Nat \ {0}]
  BY DEF Base, TypeOK
<1> Trigger \in Process /\ Request \subseteq Process
  BY DEF Process
<1>1. CASE Orchestrate
  BY <1>1 DEF Orchestrate, trigger_workflow, ingest_alerts_node, investigate_nodes,
              analyze_node_raises, plan_actions_node, human_approve_node
<1>2. ASSUME NEW q \in Process, Execute(q), p # q PROVE pc'[p] = "execute" /\ at'[p] = at[p]
  BY <1>2 DEF Execute, Run, execute_node, update_case_node, skip_action, clear_action,
              execute_action, execute_action_raises, append_reads, append_writes, contain_case,
              collect_evidence, seal_evidence, close_case
<1>3. ASSUME Execute(p) PROVE Dispatch(p)
  BY <1>3 DEF Execute, Run, execute_node, update_case_node, skip_action, clear_action,
              append_reads, append_writes, contain_case,
              collect_evidence, seal_evidence, close_case, Dispatch
<1>4. ASSUME NEW r \in Request, submit_approval(r)
      PROVE  pc'[p] = "execute" /\ at'[p] = at[p]
  BY <1>4 DEF submit_approval
<1>5. ASSUME NEW r \in Request, Approve(r)
      PROVE  pc'[p] = "execute" /\ at'[p] = at[p]
  BY <1>5 DEF Approve, approve_action, refuse_duplicate, accept_vote, add_record,
              close_rejected, tally_action, resume_workflow
<1>6. CASE Poll
  BY <1>6 DEF Poll, poll_shuffle, poll_answers, poll_misses, poll_writes, poll_times_out
<1>7. CASE UNCHANGED vars
  BY <1>7 DEF vars
<1> QED BY <1>1, <1>2, <1>3, <1>4, <1>5, <1>6, <1>7 DEF Next

LEMMA LicencesTyped ==
  ASSUME Base, Base'
  PROVE  Licences \subseteq Process \X Action /\ Licences' \subseteq Process \X Action
<1>1. proposed_actions \in Seq(Action)
  BY SequencesTyped DEF Base
<1>2. proposed_actions' \in Seq(Action)
  <2>1. playbook' \in Seq(Action)
    BY PlaybookAssumption DEF Base, TypeOK
  <2>2. CASE proposed_actions' = <<>>
    BY <2>2
  <2>3. CASE proposed_actions' = playbook'
    BY <2>1, <2>3
  <2> QED BY <2>2, <2>3 DEF Base, TypeOK
<1>3. \A i \in 1..Len(proposed_actions) : proposed_actions[i] \in Action
  BY <1>1
<1>4. \A i \in 1..Len(proposed_actions') : proposed_actions'[i] \in Action
  BY <1>2
<1> QED BY <1>3, <1>4 DEF Licences, Current

\* A licence is a process in the execute step, and its current action
LEMMA LicenceMeans ==
  ASSUME Base, NEW p \in Process, NEW a \in Action
  PROVE  <<p, a>> \in Licences <=> pc[p] = "execute" /\ Current(p) = a
<1>1. pc[p] = "execute" => at[p] \in 1..Len(proposed_actions)
  BY CurrentIsAction DEF Base, LoopsOK, LoopOK
<1> QED BY <1>1 DEF Licences

\* A process that stays in the execute step keeps its licence
LEMMA LicenceKept ==
  ASSUME Base, Base', PlanOK, [Next]_vars, NEW p \in Process, NEW a \in Action,
         pc[p] = "execute", pc'[p] = "execute", at'[p] = at[p]
  PROVE  <<p, a>> \in Licences <=> <<p, a>> \in Licences'
<1>1. Current(p)' = Current(p)
  BY CurrentKept DEF Executing, ExecutionPC
<1>2. proposed_actions' = proposed_actions
  BY PlanStep DEF PlanOK, Executing, ExecutionPC
<1>3. at[p] \in 1..Len(proposed_actions)
  BY CurrentIsAction DEF Base, LoopsOK, LoopOK
<1> QED BY <1>1, <1>2, <1>3 DEF Licences

\* The licences an execution or a check leaves: those of the others, and its own
LEMMA OthersKeepLicences ==
  ASSUME Base, Base', PlanOK, [Next]_vars, ~ Crash, NEW p \in Process,
         NEW q \in Process, NEW a \in Action,
         clear_action(p, proposed_actions) \/ Dispatch(p), q # p
  PROVE  <<q, a>> \in Licences <=> <<q, a>> \in Licences'
<1>1. pc'[q] = pc[q]
  BY DEF clear_action, Dispatch, execute_action, execute_action_raises, goto, Base, TypeOK
<1>2. CASE pc[q] = "execute"
  <2>1. ~ Dispatch(q)
    BY <1>1 DEF clear_action, Dispatch, execute_action, execute_action_raises, goto, Base, TypeOK
  <2> QED BY <1>1, <1>2, <2>1, ExecuteLeaves, LicenceKept
<1>3. CASE pc[q] # "execute"
  BY <1>1, <1>3 DEF Licences
<1> QED BY <1>2, <1>3

LEMMA ClearingIsLicensing ==
  ASSUME Inv, VotersOK, Base', [Next]_vars, NEW p \in Process, clear_action(p, proposed_actions)
  PROVE  DC!License(p, Current(p))
<1> DEFINE a == Current(p)
<1> USE DEF Inv
<1>1. a \in Action /\ pc'[p] = "execute" /\ Current(p)' = a /\ at'[p] \in 1..Len(proposed_actions')
  BY CurrentIsAction DEF clear_action, goto, Base, TypeOK, Current, storeVars, runVars
<1>2. DC!Entitled(a)
  <2>1. CASE ~ ApprovalRequired(a)
    BY <1>1, <2>1 DEF DC!Entitled
  <2>2. CASE ApprovalRequired(a)
    <3>1. Signed(a) /\ ~ Rejected(a)
      BY <1>1, <2>2, VerdictMeansSigned DEF clear_action, MayExecute, is_action_approved, Current
    <3>2. DC!Backed(a)
      BY <1>1, <2>2, <3>1 DEF DC!Backed, Signed, Approvals, Ballots, VotersOK, RecordsOK
    <3>3. ~ DC!Refused(a)
      BY <3>1 DEF DC!Refused, Rejected, Ballots
    <3> QED BY <3>2, <3>3 DEF DC!Entitled
  <2> QED BY <2>1, <2>2
<1>3. Licences' = Licences \cup {<<p, a>>}
  <2>1. ~ Crash
    BY DEF clear_action, goto, Crash, Base, TypeOK, Active, StoppedPC
  <2>2. Licences \subseteq Process \X Action /\ Licences' \subseteq Process \X Action
    BY LicencesTyped
  <2>3. <<p, a>> \in Licences'
    BY <1>1 DEF Licences
  <2>4. ASSUME NEW b \in Action, b # a PROVE <<p, b>> \notin Licences' /\ <<p, b>> \notin Licences
    BY <1>1, <2>4 DEF Licences
  <2>5. ASSUME NEW q \in Process, NEW b \in Action, q # p
        PROVE  <<q, b>> \in Licences <=> <<q, b>> \in Licences'
    BY <2>1, <2>5, OthersKeepLicences
  <2> HIDE DEF a
  <2>6. ASSUME NEW q \in Process, NEW b \in Action
        PROVE  <<q, b>> \in Licences' <=> <<q, b>> \in Licences \/ (q = p /\ b = a)
    BY <2>3, <2>4, <2>5
  <2> QED BY <1>1, <2>2, <2>6
<1>4. Ballots' = Ballots /\ dispatched' = dispatched
  BY DEF clear_action, Ballots, storeVars, external
<1> QED BY <1>2, <1>3, <1>4 DEF DC!License

LEMMA DispatchingIsExecuting ==
  ASSUME Inv, Base', [Next]_vars, NEW p \in Process, Dispatch(p)
  PROVE  DC!Execute(p, Current(p))
<1> DEFINE a == Current(p)
<1> USE DEF Inv
<1>1. a \in Action /\ pc[p] = "execute" /\ pc'[p] \in {"read_log", "failed"}
  BY CurrentIsAction DEF Dispatch, execute_action, execute_action_raises, goto, Base, TypeOK, LoopsOK, LoopOK
<1>2. <<p, a>> \in Licences
  BY <1>1, LicenceMeans
<1>3. Licences' = Licences \ {<<p, a>>}
  <2>1. ~ Crash
    BY DEF Dispatch, execute_action, execute_action_raises, goto, Crash, Base, TypeOK, Active, StoppedPC
  <2>2. Licences \subseteq Process \X Action /\ Licences' \subseteq Process \X Action
    BY LicencesTyped
  <2>3. ASSUME NEW b \in Action PROVE <<p, b>> \notin Licences'
    BY <1>1 DEF Licences
  <2>4. ASSUME NEW b \in Action, b # a PROVE <<p, b>> \notin Licences
    BY <1>1, <2>4 DEF Licences
  <2>5. ASSUME NEW q \in Process, NEW b \in Action, q # p
        PROVE  <<q, b>> \in Licences <=> <<q, b>> \in Licences'
    BY <2>1, <2>5, OthersKeepLicences
  <2> HIDE DEF a
  <2>6. ASSUME NEW q \in Process, NEW b \in Action
        PROVE  <<q, b>> \in Licences' <=> <<q, b>> \in Licences /\ ~ (q = p /\ b = a)
    BY <2>3, <2>4, <2>5
  <2> QED BY <1>1, <2>2, <2>6
<1>4. dispatched' = [dispatched EXCEPT ![a] = @ + 1] /\ Ballots' = Ballots
  BY DEF Dispatch, execute_action, execute_action_raises, Ballots, storeVars, Current
<1> QED BY <1>2, <1>3, <1>4 DEF DC!Execute

LEMMA CrashIsRestart ==
  ASSUME Inv, Crash
  PROVE  DC!Restart
<1>1. \A p \in Process : pc'[p] # "execute"
  BY DEF Crash, Active, StoppedPC, Inv, Base, TypeOK
<1>2. Licences' = {}
  BY <1>1 DEF Licences
<1> QED BY <1>2 DEF DC!Restart, Crash, Ballots, storeVars

\* A vote that is stored is a vote cast; it moves no licence
LEMMA SigningIsCasting ==
  ASSUME Inv, NEW r \in Request, add_record(r)
  PROVE  /\ Ballots' = Ballots \cup {<<vote[r].user, vote[r].action, vote[r].decision>>}
         /\ vote[r].user \in Voter /\ vote[r].action \in Action /\ vote[r].decision \in Decision
         /\ dispatched' = dispatched
<1> DEFINE x == [id |-> r, user |-> vote[r].user, role |-> SigningRole(vote[r].user),
                 action |-> vote[r].action, decision |-> vote[r].decision]
<1>1. vote[r] \in Vote
  BY DEF add_record, Inv, Base, VotesOK
<1>2. approval_records' = approval_records \cup {x} /\ dispatched' = dispatched
  BY DEF add_record, external
<1>3. x.user = vote[r].user /\ x.action = vote[r].action /\ x.decision = vote[r].decision
  OBVIOUS
<1>4. Ballots' = Ballots \cup {<<x.user, x.action, x.decision>>}
  <2> HIDE DEF x
  <2> QED BY <1>2 DEF Ballots
<1>5. Ballots' = Ballots \cup {<<vote[r].user, vote[r].action, vote[r].decision>>}
  BY <1>3, <1>4
<1> QED BY <1>1, <1>2, <1>5 DEF Vote, Voter

\* In every other step each licence stays where it is
LEMMA LicencesStay ==
  ASSUME Inv, Base', [Next]_vars, ~ Crash,
         \A p \in Process : ~ clear_action(p, proposed_actions) /\ ~ Dispatch(p)
  PROVE  Licences' = Licences
<1> USE DEF Inv
<1>1. ASSUME NEW p \in Process, NEW a \in Action
      PROVE  <<p, a>> \in Licences <=> <<p, a>> \in Licences'
  <2>1. CASE pc[p] = "execute"
    BY <2>1, ExecuteLeaves, LicenceKept
  <2>2. CASE pc[p] # "execute"
    <3>1. pc'[p] # "execute"
      BY <2>2, ExecuteStep
    <3> QED BY <2>2, <3>1 DEF Licences
  <2> QED BY <2>1, <2>2
<1>2. Licences \subseteq Process \X Action /\ Licences' \subseteq Process \X Action
  BY LicencesTyped
<1> QED BY <1>1, <1>2

LEMMA StepImplements ==
  ASSUME Inv, Base', VotersOK, VotersOK', [Next]_vars
  PROVE  [DC!Next]_(DC!dcVars)
<1> USE DEF DC!Next
<1>1. ASSUME NEW p \in Process, clear_action(p, proposed_actions) PROVE DC!Next
  <2>1. Current(p) \in Action
    BY <1>1, CurrentIsAction DEF clear_action, Inv, Base
  <2> QED BY <1>1, <2>1, ClearingIsLicensing
<1>2. ASSUME NEW p \in Process, Dispatch(p) PROVE DC!Next
  <2>1. Current(p) \in Action
    BY <1>2, CurrentIsAction DEF Dispatch, execute_action, execute_action_raises, Inv, Base, LoopsOK, LoopOK
  <2> QED BY <1>2, <2>1, DispatchingIsExecuting
<1>3. CASE Crash
  BY <1>3, CrashIsRestart
<1>4. ASSUME ~ Crash, \A p \in Process : ~ clear_action(p, proposed_actions) /\ ~ Dispatch(p)
      PROVE  DC!Next \/ UNCHANGED DC!dcVars
  <2>1. Licences' = Licences
    BY <1>4, LicencesStay
  <2>2. dispatched' = dispatched
    <3>1. \A a \in Action : dispatched'[a] = dispatched[a]
      BY <1>4, DispatchStep DEF Inv, Base
    <3> QED BY <3>1 DEF Inv, Base, TypeOK
  <2>3. CASE approval_records' = approval_records
    BY <2>1, <2>2, <2>3 DEF DC!dcVars, Ballots
  <2>4. ASSUME NEW r \in Request, add_record(r) PROVE DC!Next
    <3>1. DC!Cast(vote[r].user, vote[r].action, vote[r].decision)
      BY <2>1, <2>4, SigningIsCasting DEF DC!Cast
    <3> QED BY <2>4, <3>1, SigningIsCasting
  <2> QED BY <2>3, <2>4, RecordsStep
<1> QED BY <1>1, <1>2, <1>3, <1>4

\* The whole of one case - requests, runs, pollers and crashes - implements
\* dual control: every step is a vote, a licence, an execution, a restart or
\* nothing at all.
THEOREM CaseImplementsDualControl == Spec => DualControlled
<1>1. Init => DC!Init /\ VotersOK
  <2> SUFFICES ASSUME Init PROVE DC!Init /\ VotersOK
    OBVIOUS
  <2>1. approval_records = {} /\ dispatched = [a \in Action |-> 0]
    BY DEF Init, StoreInit, OrchestrationInit
  <2>2. Licences = {}
    BY DEF Licences, Init
  <2> QED BY <2>1, <2>2 DEF DC!Init, Ballots, VotersOK
<1>2. Inv /\ VotersOK /\ [Next]_vars => VotersOK'
  BY VotersOKStep DEF Inv
<1>3. Inv /\ Inv' /\ VotersOK /\ VotersOK' /\ [Next]_vars => [DC!Next]_(DC!dcVars)
  BY StepImplements DEF Inv
<1> QED BY <1>1, <1>2, <1>3, Invariance, PTL DEF Spec, DualControlled, DC!Spec
=============================================================================
