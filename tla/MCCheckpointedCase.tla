-------------------------- MODULE MCCheckpointedCase --------------------------
(* Small instances of CheckpointedCase: three seeded accounts, one action of *)
(* each kind and the ids a second plan gives them.                           *)
EXTENDS CheckpointedCase, TLC

CONSTANTS r1, r2, r3, r4

MCAccount == {"admin", "analyst", "approver"}
MCLoginRole == [u \in MCAccount |-> u]

First == {"kill", "isolate", "quarantine", "notify"}
MCFresh ==
  [a \in First |-> CASE a = "kill" -> "kill2" [] a = "isolate" -> "isolate2"
                    [] a = "quarantine" -> "quarantine2" [] a = "notify" -> "notify2"]
    @@ [a \in {"kill2", "isolate2", "quarantine2", "notify2"} |-> a]

MCAction == DOMAIN MCFresh
TypeOf ==
  [kill |-> "kill_process", isolate |-> "isolate_host", quarantine |-> "quarantine_file",
   notify |-> "notify"]
\* what an action of either plan is an instance of
Config(a) == CHOOSE f \in First : a \in {f, MCFresh[f]}
MCActionType == [a \in MCAction |-> TypeOf[Config(a)]]
MCAutonomy == [a \in MCAction |-> IF Config(a) = "notify" THEN "L4" ELSE "L2"]

Ask(users, actions, decisions) ==
  {[user |-> u, action |-> a, decision |-> d] :
     u \in users, a \in actions, d \in decisions}

MCRequest == {r1, r2, r3, r4}

\* A double-sign action, a critical one, a gated action after an automatic
\* one, an automatic one
MCPlaybooks == {<<"kill">>, <<"isolate">>, <<"notify", "quarantine">>, <<"notify">>}

\* Two signatures, a third voter who may also veto, and signatures of the
\* plan drawn again
MCVotes ==
  (r1 :> Ask({"analyst"}, {"kill", "isolate", "quarantine"}, {"approved"})
     @@ r2 :> Ask({"approver"}, {"kill", "isolate", "quarantine"}, {"approved"})
     @@ r3 :> Ask({"admin"}, {"kill"}, {"approved", "rejected"})
                \cup Ask({"admin"}, {"isolate"}, {"approved"})
                \cup Ask({"analyst"}, {"kill2"}, {"approved"})
     @@ r4 :> Ask({"approver"}, {"kill2"}, {"approved"}))

\* A step was asynchronous, and it shows
Polled ==
  \/ pollers # {} \/ unpolled # {}
  \/ \E i \in 1..Len(execution_log) : execution_log[i].status \in {"executing", "failed"}

\* Asynchronous steps are explored for an automatic playbook, and for one that
\* two people sign while nobody else votes, nothing crashes and one request
\* resumes at a time
PolledAlone ==
  Polled =>
    \/ playbook = <<"notify">>
    \/ /\ playbook = <<"kill">> /\ pc[r3] = "idle" /\ crashes = 0
       /\ Cardinality({r \in Request : Resuming(r)}) <= 1

\* Bound of what follows a plan drawn again: double-sign actions only, one
\* request under way after a crash and two otherwise, which are resuming the
\* case then: a vote is taken while it is the only one
RedrawnBound ==
  proposed_actions \notin {<<>>, playbook} =>
    LET busy == {r \in Request : Active(r)}
    IN  /\ playbook # <<"isolate">>
        /\ Cardinality(busy) + crashes <= 2
        /\ \A r \in busy : busy = {r} \/ pc[r] = "tally" \/ Resuming(r)
=============================================================================
