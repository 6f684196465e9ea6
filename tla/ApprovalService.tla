--------------------------- MODULE ApprovalService ---------------------------
(***************************************************************************)
(* Approval requests: POST .../approve and the IM callbacks, both through  *)
(* ApprovalService.submit_approval.  A request is a coroutine that awaits  *)
(* the database at every read and every commit, so requests interleave     *)
(* between the duplicate check and the insert, between the insert and the  *)
(* tally, and between two actions of the tally.  The request whose tally   *)
(* finds every gated action signed reopens the case and awaits the resume  *)
(* run in the same coroutine: from then on pc walks the execution nodes.   *)
(***************************************************************************)
EXTENDS Orchestration

CONSTANTS
  Votes,    \* what each request may ask: sets of [user, action, decision]
  NoVote    \* a request not received yet

Vote == [user : {u \in Signer : MaySign(u)}, action : Action, decision : Decision]

ASSUME VoteAssumption ==
  /\ Votes \in [Request -> SUBSET Vote]
  /\ NoVote \notin Vote

VARIABLE vote    \* what each request asks for

Record == [id : Request, user : Signer, role : ApprovalRole, action : Action,
           decision : Decision]

ServiceInit == vote = [r \in Request |-> NoVote]

\* the case is open, the action is one of its proposals and needs signatures
Votable(a) ==
  /\ status \notin TERMINAL_CASE_STATUSES
  /\ \E i \in 1..Len(proposed_actions) : proposed_actions[i] = a
  /\ ApprovalRequired(a)

\* approve_action or _submit_from_im is called and reads the case; a request
\* it refuses here has changed nothing and its slot stays free
submit_approval(r) ==
  /\ pc[r] = "idle"
  /\ \E v \in Votes[r] : Votable(v.action) /\ vote' = [vote EXCEPT ![r] = v]
  /\ goto(r, "duplicates")
  /\ UNCHANGED <<storeVars, runVars, external>>

\* the role has voted on this action, or the user has under any role
AlreadyVoted(u, a) ==
  \E x \in list_by_action(a) : x.role = SigningRole(u) \/ x.user = u

\* list_by_action, then either refusal (400, nothing stored) ...
refuse_duplicate(r) ==
  /\ pc[r] = "duplicates"
  /\ AlreadyVoted(vote[r].user, vote[r].action)
  /\ vote' = [vote EXCEPT ![r] = NoVote]
  /\ goto(r, "idle")
  /\ UNCHANGED <<storeVars, runVars, external>>

\* ... or the vote goes on to be stored
accept_vote(r) ==
  /\ pc[r] = "duplicates"
  /\ ~ AlreadyVoted(vote[r].user, vote[r].action)
  /\ goto(r, "sign")
  /\ UNCHANGED <<storeVars, runVars, external, vote>>

\* MUTANT: the tally reads the records before the vote is stored, and a
\* request that finds a signature missing never looks again
add_record_after_tally(r) ==
  /\ pc[r] = "sign"
  /\ approval_records' = approval_records \cup
       {[id |-> r, user |-> vote[r].user, role |-> SigningRole(vote[r].user),
         action |-> vote[r].action, decision |-> vote[r].decision]}
  /\ goto(r, IF vote[r].decision = "rejected" THEN "close"
             ELSE IF \A a \in GatedActions(proposed_actions) :
                       FullyApproved(a, list_by_action(a))
             THEN "tally" ELSE "voted")
  /\ UNCHANGED <<status, playbook, proposed_actions, execution_log, evidence_pack,
                 runVars, external, vote>>

\* record_repo.add commits the vote
add_record(r) ==
  /\ pc[r] = "sign"
  /\ approval_records' = approval_records \cup
       {[id |-> r, user |-> vote[r].user, role |-> SigningRole(vote[r].user),
         action |-> vote[r].action, decision |-> vote[r].decision]}
  /\ goto(r, IF vote[r].decision = "rejected" THEN "close" ELSE "tally")
  /\ UNCHANGED <<status, playbook, proposed_actions, execution_log, evidence_pack,
                 runVars, external, vote>>

\* MUTANT: the decision is written where the case status belongs
close_with_decision(r) ==
  /\ pc[r] = "close"
  /\ update_status("rejected")
  /\ goto(r, "voted")
  /\ UNCHANGED <<playbook, proposed_actions, approval_records, execution_log,
                 evidence_pack, runVars, external, vote>>

\* a rejection closes the case
close_rejected(r) ==
  /\ pc[r] = "close"
  /\ update_status("resolved")
  /\ goto(r, "voted")
  /\ UNCHANGED <<playbook, proposed_actions, approval_records, execution_log,
                 evidence_pack, runVars, external, vote>>
-----------------------------------------------------------------------------
(* _check_all_approved: one SELECT per gated action, first failure ends it *)

\* MUTANT: all(...) became any(...): having one vote is enough
check_action_has_vote(a) == list_by_action(a) # {}

check_action_fully_approved(a) == FullyApproved(a, list_by_action(a))

\* "actions" is the list of the case as the request read it
tally_action(r, actions) ==
  /\ pc[r] = "tally"
  /\ at[r] <= Len(actions)
  /\ IF ApprovalRequired(actions[at[r]]) => check_action_fully_approved(actions[at[r]])
     THEN /\ at' = [at EXCEPT ![r] = @ + 1]
          /\ UNCHANGED pc
     ELSE /\ at' = [at EXCEPT ![r] = 1]
          /\ goto(r, "voted")
  /\ UNCHANGED <<storeVars, seen, outcome, external, vote>>

\* MUTANT: only a case still marked pending_approval is resumed
resume_if_pending(r) ==
  /\ pc[r] = "tally"
  /\ at[r] > Len(proposed_actions)
  /\ status' = IF status = "pending_approval" THEN "investigating" ELSE status
  /\ at' = [at EXCEPT ![r] = 1]
  /\ goto(r, IF status = "pending_approval" THEN "check" ELSE "voted")
  /\ UNCHANGED <<playbook, proposed_actions, approval_records, execution_log,
                 evidence_pack, seen, outcome, external, vote>>

\* every gated action is signed: reopen the case and await resume_workflow,
\* which loads the case's actions and enters execute_node
resume_workflow(r) ==
  /\ pc[r] = "tally"
  /\ at[r] > Len(proposed_actions)
  /\ update_status("investigating")
  /\ at' = [at EXCEPT ![r] = 1]
  /\ goto(r, "check")
  /\ UNCHANGED <<playbook, proposed_actions, approval_records, execution_log,
                 evidence_pack, seen, outcome, external, vote>>

approve_action(r) ==
  refuse_duplicate(r) \/ accept_vote(r) \/ add_record(r) \/ close_rejected(r)
    \/ tally_action(r, proposed_actions) \/ resume_workflow(r)
-----------------------------------------------------------------------------
(* What the service and the executor implement between them, whichever     *)
(* workflow mode walks the nodes.                                          *)

\* The stored signatures on an action that say "approved"
Approvals(a) == {x \in approval_records : x.action = a /\ x.decision = "approved"}

\* Every role the action needs has approved it
Signed(a) == \A role \in RequiredRoles(a) : \E x \in Approvals(a) : x.role = role

Rejected(a) == \E x \in approval_records : x.action = a /\ x.decision = "rejected"

AllSigned ==
  /\ GatedActions(proposed_actions) # {}
  /\ \A a \in GatedActions(proposed_actions) : Signed(a) /\ ~ Rejected(a)

Voter == {u \in Signer : MaySign(u)}

Ballots == {<<x.user, x.action, x.decision>> : x \in approval_records}
=============================================================================
