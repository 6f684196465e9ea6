------------------------------- MODULE CaseCore -------------------------------
(***************************************************************************)
(* One case from ingestion to closure: the trigger run, the approval       *)
(* requests with their resume runs and the Shuffle pollers, interleaved,   *)
(* with process crashes in between.  Nothing of a run survives a crash:    *)
(* the default mode keeps no checkpoint and no job looks for half-done     *)
(* cases at start-up.                                                      *)
(***************************************************************************)
EXTENDS ApprovalService

CONSTANT MaxCrashes    \* bound on process crashes

ASSUME BoundAssumption == MaxCrashes \in Nat

VARIABLE crashes

vars == <<storeVars, pc, runVars, external, vote, crashes>>

Init ==
  /\ StoreInit
  /\ pc = [p \in Process |-> IF p = Trigger THEN "ingest" ELSE "idle"]
  /\ OrchestrationInit
  /\ ServiceInit
  /\ crashes = 0

\* The API process stops: coroutines, background tasks and pollers are gone
Crash ==
  /\ crashes < MaxCrashes
  /\ pollers # {} \/ \E p \in Process : Active(p)
  /\ crashes' = crashes + 1
  /\ pc' = [p \in Process |-> IF Active(p) THEN "lost" ELSE pc[p]]
  /\ at' = [p \in Process |-> 1]
  /\ seen' = [p \in Process |-> <<>>]
  /\ outcome' = [p \in Process |-> "none"]
  /\ unpolled' = unpolled \cup {<<k.action, k.by>> : k \in pollers}
  /\ pollers' = {}
  /\ UNCHANGED <<storeVars, dispatched, vote>>

\* One step of a process that is under way.  The trigger run writes the plan
\* once, so the list a process has read is the one that is stored.
Run(p) == execute_node(p, proposed_actions) \/ update_case_node(p)

Orchestrate == trigger_workflow /\ UNCHANGED <<vote, crashes>>

Execute(p) == Run(p) /\ UNCHANGED <<vote, crashes>>

Approve(r) == approve_action(r) /\ UNCHANGED crashes

Poll == (\E k \in pollers : poll_shuffle(k)) /\ UNCHANGED <<vote, crashes>>

Next ==
  \/ Orchestrate
  \/ \E p \in Process : Execute(p)
  \/ \E r \in Request : submit_approval(r) /\ UNCHANGED crashes
  \/ \E r \in Request : Approve(r)
  \/ Poll
  \/ Crash

Spec == Init /\ [][Next]_vars

\* Coroutines the event loop has started get scheduled until they end; no
\* fairness for requests that were never sent, and none for crashes
FairSpec ==
  /\ Spec
  /\ WF_vars(Orchestrate)
  /\ WF_vars(Poll)
  /\ \A p \in Process : WF_vars(Execute(p))
  /\ \A r \in Request : WF_vars(Approve(r))
-----------------------------------------------------------------------------
(* What requests and runs implement between them.                          *)

\* The action a process is working on
Current(p) == proposed_actions[at[p]]

\* Runs that have passed their signature check on a and not dispatched it
Cleared(a) ==
  {p \in Process : /\ pc[p] = "execute"
                   /\ at[p] \in 1..Len(proposed_actions)
                   /\ Current(p) = a}

Licences ==
  {<<p, Current(p)>> : p \in {q \in Process : pc[q] = "execute" /\ at[q] \in 1..Len(proposed_actions)}}

DC == INSTANCE DualControl WITH
        User     <- Voter,
        RoleOf   <- [u \in Voter |-> SigningRole(u)],
        Required <- [a \in Action |-> IF ApprovalRequired(a) THEN RequiredRoles(a) ELSE {}],
        Verdict  <- Decision,
        Runner   <- Process,
        votes    <- Ballots,
        licences <- Licences,
        executed <- dispatched

\* Case, requests, runs and crashes together implement DualControl: nothing
\* is executed without a licence, and no licence is given but to an action
\* whose roles have all approved and nobody refused, at that very moment
\* (nodes.py:498, repositories.py:689-711).
DualControlled == DC!Spec
-----------------------------------------------------------------------------
(* Properties                                                              *)

TypeOK ==
  /\ status \in CaseStatus
  /\ playbook \in Playbooks
  /\ proposed_actions \in {<<>>, playbook}
  /\ approval_records \subseteq Record
  /\ execution_log \in Seq(Step)
  /\ evidence_pack \in Seq(Step) \cup {NoPack}
  /\ pc \in [Process -> PC]
  /\ at \in [Process -> Nat \ {0}]
  /\ seen \in [Process -> Seq(Step)]
  /\ outcome \in [Process -> StepStatus \cup {"none"}]
  /\ pollers \subseteq Poller
  /\ unpolled \subseteq Action \X Process
  /\ dispatched \in [Action -> Nat]
  /\ vote \in [Request -> Vote \cup {NoVote}]
  /\ crashes \in 0..MaxCrashes

\* An L2 action reaches the executor only after every role it needs has
\* approved it, whatever requests, runs and crashes do in between
\* (execute_node asks is_action_approved, nodes.py:498).
ExecutedWasSigned ==
  \A a \in Action : ApprovalRequired(a) /\ dispatched[a] > 0 => Signed(a)

\* Two different people stand behind every executed L2 action, three behind
\* a critical one: no account signs under two roles (service.py:7-8, the
\* account-bound roles of auth/service.py:64-74).
ManyEyes ==
  \A a \in Action :
    ApprovalRequired(a) /\ dispatched[a] > 0 =>
      Cardinality({x.user : x \in Approvals(a)}) >=
        IF ActionType[a] \in CRITICAL_ACTIONS THEN 3 ELSE 2

\* A case is contained, and its evidence pack sealed, only when each of its
\* L2 actions had all its signatures: no run closes a case around an action
\* that was merely skipped for want of one.
ContainedWasSigned ==
  status = "contained" \/ evidence_pack # NoPack =>
    \A a \in GatedActions(proposed_actions) : Signed(a)

Vetoed(a) == ApprovalRequired(a) /\ Rejected(a) /\ Cleared(a) = {}

\* Once an action is rejected and no run is already past its check, nothing
\* ever executes it again, not even a run another request starts later.
RejectionIsFinal ==
  [][\A a \in Action : Vetoed(a) => Vetoed(a)' /\ dispatched'[a] = dispatched[a]]_vars

Settled ==
  /\ status \in TERMINAL_CASE_STATUSES
  /\ \A p \in Process : ~ Active(p)
  /\ pollers = {}

\* A closed case with nothing under way stays exactly as it is: no later
\* request can sign it, reopen it or execute it again (README.md:212).
SettledIsFinal ==
  [][Settled => Settled' /\ UNCHANGED <<storeVars, dispatched>>]_vars

\* The last signature is never lost: however the final requests interleave,
\* a fully signed case has a request that is counting, executing, done or
\* ended by the executor's exception.
NoLostApproval ==
  AllSigned /\ crashes = 0 =>
    \E r \in Request : pc[r] = "tally" \/ Executing(r) \/ pc[r] \in {"finished", "failed"}

HasRun(p) == Executing(p) \/ pc[p] \in {"finished", "failed", "lost"}

\* When one run alone took the case to its end, the log and the sealed pack
\* list every proposed action once, in playbook order, and a step says
\* "skipped" exactly when the executor was not called.
SoleRunIsAccounted ==
  \A p \in Process :
    pc[p] = "finished" /\ (\A q \in Process \ {p} : ~ HasRun(q)) =>
      /\ Len(execution_log) = Len(proposed_actions)
      /\ Len(evidence_pack) = Len(proposed_actions)
      /\ \A i \in 1..Len(proposed_actions) :
           /\ execution_log[i].action = proposed_actions[i]
           /\ evidence_pack[i].action = proposed_actions[i]
           /\ dispatched[proposed_actions[i]] =
                IF execution_log[i].status = "skipped" THEN 0 ELSE 1

\* The log never invents an execution: however appends and poll results
\* overwrite each other, a run has at most one step per action in it, a step
\* that was not skipped belongs to an action the executor was called for and,
\* unless the action was rejected meanwhile, to a call of its own (a poll
\* result goes to the latest step of its action, even if that one is another
\* run's and says "skipped", repositories.py:148-156).
NoPhantomSteps ==
  \A i \in 1..Len(execution_log) :
    LET step == execution_log[i]
        calls == {j \in 1..Len(execution_log) :
                    /\ execution_log[j].action = step.action
                    /\ execution_log[j].status # "skipped"}
    IN  /\ \A j \in 1..Len(execution_log) :
             execution_log[j].action = step.action /\ execution_log[j].by = step.by => i = j
        /\ calls # {} => dispatched[step.action] > 0
        /\ Cardinality(calls) <= dispatched[step.action] \/ Rejected(step.action)

\* A fully signed case is executed to the end and its evidence sealed,
\* unless a rejection overtakes it, the process dies or the executor raises
\* on an answer of Shuffle that is no object (shuffle.py:128): then the
\* resume ends, every role has voted, and the case stays as it is.
SignedLeadsToSealed ==
  AllSigned ~> \/ evidence_pack # NoPack
               \/ \E a \in Action : Rejected(a)
               \/ crashes > 0
               \/ \E r \in Request : pc[r] = "failed"
-----------------------------------------------------------------------------
(* Claims of the documentation that the code does not keep; each is        *)
(* refuted by a run of its own.                                            *)

\* No action is executed twice (service.py:27, repositories.py:234).
ExecutedAtMostOnce == \A a \in Action : dispatched[a] <= 1

\* A closed case is never reopened, not even counting from the moment the
\* trigger run has parked it (service.py:9, README.md:212).
ClosedStaysClosed ==
  [][(status \in TERMINAL_CASE_STATUSES /\ pc[Trigger] = "paused")
       => (status' = status)]_vars
=============================================================================
