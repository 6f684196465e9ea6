------------------------------ MODULE CaseStore ------------------------------
(***************************************************************************)
(* One row of the cases table, its approval_records and its evidence pack, *)
(* with the repository operations on them.  Every operation is one         *)
(* committed statement: update_status, update_actions, set_evidence_pack   *)
(* and close write their column whatever its value has become meanwhile,   *)
(* so they are atomic writes.  append_execution and                        *)
(* update_execution_status rebuild the whole JSON list from a SELECT made  *)
(* before, so their callers read in one step and write in a later one.     *)
(***************************************************************************)
EXTENDS ApprovalRules, Sequences

CONSTANTS
  Playbooks,    \* action sequences a matched playbook can produce; <<>>: none
  NoPack        \* evidence_pack_id is NULL

VARIABLES
  status,            \* cases.status
  playbook,          \* the actions of the playbook matched at ingestion
  proposed_actions,  \* cases.proposed_actions
  approval_records,  \* rows of approval_records for this case
  execution_log,     \* cases.execution_log
  evidence_pack      \* timeline of the pack evidence_pack_id points to

storeVars == <<status, playbook, proposed_actions, approval_records,
               execution_log, evidence_pack>>

\* Every playbook lists each of its actions once: action ids are fresh uuids
ASSUME PlaybookAssumption ==
  \A b \in Playbooks :
    /\ b \in Seq(Action)
    /\ \A i, j \in 1..Len(b) : b[i] = b[j] => i = j

CaseStatus == {"open", "investigating", "pending_approval", "contained", "resolved", "closed"}

TERMINAL_CASE_STATUSES == {"resolved", "closed"}

StepStatus == {"skipped", "executing", "success", "failed"}

update_status(s) == status' = s

update_actions(actions) == proposed_actions' = actions

set_evidence_pack(timeline) == evidence_pack' = timeline

list_by_action(a) == {r \in approval_records : r.action = a}

\* MUTANT: the executor trusts the tally and does not look for a rejection
is_action_approved_no_veto(a) ==
  RequiredRoles(a) \subseteq ApprovedRoles(list_by_action(a))

\* ApprovalRecordRepository.is_action_approved: what the executor reads
is_action_approved(a) == FullyApproved(a, list_by_action(a))

\* MUTANT: the result is appended as a step of its own
WithResultAppended(log, a, result) ==
  LET places == {i \in 1..Len(log) : log[i].action = a}
  IN  IF places = {} THEN log
      ELSE Append(log, [log[CHOOSE i \in places : TRUE] EXCEPT !.status = result])

\* update_execution_status: the latest entry of the action takes the status
WithLatest(log, a, result) ==
  [i \in 1..Len(log) |->
     IF log[i].action = a /\ \A j \in (i + 1)..Len(log) : log[j].action # a
     THEN [log[i] EXCEPT !.status = result] ELSE log[i]]

\* The actions of a sequence that wait for signatures
GatedActions(actions) ==
  {a \in {actions[i] : i \in 1..Len(actions)} : ApprovalRequired(a)}

\* The row as _ingest_and_dispatch leaves it for the workflow
StoreInit ==
  /\ playbook \in Playbooks
  /\ status = IF playbook = <<>> THEN "open" ELSE "investigating"
  /\ proposed_actions = <<>>
  /\ approval_records = {}
  /\ execution_log = <<>>
  /\ evidence_pack = NoPack
=============================================================================
