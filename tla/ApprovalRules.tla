---------------------------- MODULE ApprovalRules ----------------------------
(***************************************************************************)
(* Who may sign what: the pure rules of dual control.                      *)
(*                                                                         *)
(* A signer is either a dashboard account, whose approval role is mapped   *)
(* from the login role in its JWT, or an IM application ("feishu-user",    *)
(* "dingtalk-user"), whose callbacks always sign as incident_commander.    *)
(* An action needs signatures when its autonomy level is L2, and needs     *)
(* three roles instead of two when its type is critical.                   *)
(***************************************************************************)
EXTENDS Naturals, FiniteSets

CONSTANTS
  Account,      \* dashboard accounts (usernames)
  IMSource,     \* IM applications whose callbacks submit approvals
  LoginRole,    \* [Account -> Role], fixed when the account is created
  Action,       \* action ids a playbook can produce
  ActionType,   \* [Action -> STRING]
  Autonomy      \* [Action -> autonomy level]

Role == {"admin", "analyst", "approver", "viewer"}

AutonomyLevel == {"L1", "L2", "L3", "L4", "L5"}

ASSUME SignerAssumption ==
  /\ IsFiniteSet(Account)
  /\ IsFiniteSet(IMSource)
  /\ Account \cap IMSource = {}
  /\ LoginRole \in [Account -> Role]

ASSUME ActionAssumption ==
  /\ ActionType \in [Action -> STRING]
  /\ Autonomy \in [Action -> AutonomyLevel]

Decision == {"approved", "rejected", "deferred"}

ApprovalRole == {"incident_commander", "approver", "ciso_or_delegate"}

\* viewer maps to None in the code: it has no entry here
APPROVAL_ROLE_MAP ==
  [admin    |-> "ciso_or_delegate",
   analyst  |-> "incident_commander",
   approver |-> "approver"]

Signer == Account \cup IMSource

\* require_permission("approval:submit") and the 403 for unmapped roles
MaySign(u) == u \in IMSource \/ (u \in Account /\ LoginRole[u] # "viewer")

SigningRole(u) ==
  IF u \in IMSource THEN "incident_commander" ELSE APPROVAL_ROLE_MAP[LoginRole[u]]

CRITICAL_ACTIONS == {"isolate_host", "block_ip", "block_domain", "freeze_account"}

DOUBLE_SIGN_ROLES == {"incident_commander", "approver"}

CRITICAL_TRIPLE_ROLES == {"incident_commander", "approver", "ciso_or_delegate"}

\* build_action_from_config: approval_required is exactly "autonomy is L2"
ApprovalRequired(a) == Autonomy[a] = "L2"

\* MUTANT: the triple-sign branch forgotten
RequiredRolesNoTriple(a) == DOUBLE_SIGN_ROLES

RequiredRoles(a) ==
  IF ActionType[a] \in CRITICAL_ACTIONS THEN CRITICAL_TRIPLE_ROLES ELSE DOUBLE_SIGN_ROLES

\* MUTANT: every vote counts, whatever its decision
RolesThatVoted(recs) == {r.role : r \in recs}

\* approved_roles: the roles whose vote on the action is "approved"
ApprovedRoles(recs) == {r.role : r \in {x \in recs : x.decision = "approved"}}

AnyRejected(recs) == \E r \in recs : r.decision = "rejected"

\* The verdict both the approval service and the executor compute
FullyApproved(a, recs) ==
  /\ recs # {}
  /\ ~ AnyRejected(recs)
  /\ RequiredRoles(a) \subseteq ApprovedRoles(recs)
=============================================================================
