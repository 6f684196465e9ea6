---------------------------- MODULE Investigation ----------------------------
(***************************************************************************)
(* The trigger run of one case from ingest to its fork, node by node: the  *)
(* step the core takes as one.  The nodes hand the run's state to each     *)
(* other through LangGraph's channels and each stores its result in the    *)
(* case row.  Enrichment asks every source about every indicator of an     *)
(* alert at the same time; answers and failures come in any order.         *)
(***************************************************************************)
EXTENDS IntelRules, JudgmentRules, Sequences

CONSTANTS
  Alerts,           \* the case's alerts, each the set of its indicators
  Criticality,      \* of the first alert's asset: a set to choose from
  Playbooks,        \* the playbooks it may have matched: sequences of actions
  Outputs,          \* what the call of the LLM may end in
  LLMFallback,      \* LLM_FALLBACK_TO_MOCK
  EmbeddingMayFail  \* the embedding service is remote (EMBEDDING_PROVIDER=api)

CRITICAL_ACTIONS == {"isolate_host", "block_ip", "block_domain", "freeze_account"}

ASSUME InvestigationAssumption ==
  /\ Alerts \in Seq(SUBSET Ioc)
  /\ Criticality \subseteq Severity
  /\ \A playbook \in Playbooks :
       playbook \in Seq([type : STRING, autonomy : {"L1", "L2", "L3", "L4", "L5"}])
  /\ \A output \in Outputs : output.kind \in
       {"call_failed", "no_json", "empty_list", "no_object", "object"}
  /\ \A output \in Outputs :
       output.kind = "object" => output.confidence \in WrittenConfidence
  /\ LLMFallback \in BOOLEAN
  /\ EmbeddingMayFail \in BOOLEAN

VARIABLES
  pc,           \* the node the run is at
  criticality,  \* of the first alert's asset
  playbook,     \* the actions of the matched playbook; <<>> if there is none
  state,        \* the channels of the run
  at,           \* the alert being enriched
  asked,        \* questions still open, as <<indicator, provider>>
  answers,      \* answers of this alert, as <<indicator, result>>
  ioc_summary,  \* results so far, as <<alert, indicator, result>>
  row           \* what is stored: status, context, judgment, actions

vars == <<pc, criticality, playbook, state, at, asked, answers, ioc_summary, row>>

enriching == <<at, asked, answers, ioc_summary>>

\* MUTANT: the channel the context travels in is not declared
SecSightState_no_context == {"judgment", "proposed_actions"}

\* The channels of SecSightState that the nodes below write
SecSightState == {"enriched_context", "judgment", "proposed_actions"}

With(f, key, value) ==
  [k \in DOMAIN f \cup {key} |-> IF k = key THEN value ELSE f[k]]

\* What the next node finds of the dictionary a node returns: LangGraph
\* ignores the keys that are no channel of the state type
returned(dictionary) == [k \in DOMAIN dictionary \cap SecSightState |-> dictionary[k]]

\* state.get(key)
get(key, default) == IF key \in DOMAIN state THEN state[key] ELSE default

NoContext == [k \in {} |-> k]

Init ==
  /\ pc = "ingest"
  /\ criticality \in Criticality
  /\ playbook \in Playbooks
  /\ state = returned([enriched_context |-> NoContext, judgment |-> <<>>,
                       proposed_actions |-> <<>>])
  /\ at = 1
  /\ asked = {}
  /\ answers = {}
  /\ ioc_summary = {}
  /\ row = [status |-> IF playbook = <<>> THEN "open" ELSE "investigating",
            context |-> NoContext, judgment |-> <<>>, actions |-> <<>>]

ingest_alerts_node ==
  /\ pc = "ingest"
  /\ row' = [row EXCEPT !.status = "investigating"]
  /\ pc' = "retrieve"
  /\ UNCHANGED <<criticality, playbook, state, enriching>>

\* The query is embedded before the try that guards the search
retrieve_knowledge_node ==
  /\ pc = "retrieve"
  /\ \/ pc' = "enrich"
     \/ EmbeddingMayFail /\ pc' = "failed"
  /\ UNCHANGED <<criticality, playbook, state, enriching, row>>
-----------------------------------------------------------------------------
(* enrich_ioc_node: the first three alerts, one after the other.           *)

EnrichedAlerts == AtMost(Len(Alerts), 3)

Questions(n) ==
  {q \in Alerts[n] \X Provider : IocType[q[1]] \in supports(q[2])}

\* gather: all questions about an alert's indicators go out together
enrich_alert ==
  /\ pc = "enrich"
  /\ at <= EnrichedAlerts
  /\ asked' = Questions(at)
  /\ answers' = {}
  /\ pc' = "gather"
  /\ UNCHANGED <<criticality, playbook, state, at, ioc_summary, row>>

provider_answers(i, p) ==
  /\ pc = "gather"
  /\ <<i, p>> \in asked
  /\ \E r \in Answers(p) : answers' = answers \cup {<<i, r>>}
  /\ asked' = asked \ {<<i, p>>}
  /\ UNCHANGED <<pc, criticality, playbook, state, at, ioc_summary, row>>

\* _safe_query: an error or time-out of one source is caught on the spot
provider_fails(i, p) ==
  /\ pc = "gather"
  /\ <<i, p>> \in asked
  /\ asked' = asked \ {<<i, p>>}
  /\ UNCHANGED <<pc, criticality, playbook, state, at, answers, ioc_summary, row>>

Results(i) == {a[2] : a \in {x \in answers : x[1] = i}}

\* MUTANT: an indicator without any answer is left out
summarize_answered ==
  /\ pc = "gather"
  /\ asked = {}
  /\ ioc_summary' =
       ioc_summary \cup {<<at, a[1], query(a[1], Results(a[1]))>> : a \in answers}
  /\ at' = at + 1
  /\ answers' = {}
  /\ pc' = "enrich"
  /\ UNCHANGED <<criticality, playbook, state, asked, row>>

\* Every question of this alert has ended: one result per indicator
summarize ==
  /\ pc = "gather"
  /\ asked = {}
  /\ ioc_summary' = ioc_summary \cup {<<at, i, query(i, Results(i))>> : i \in Alerts[at]}
  /\ at' = at + 1
  /\ answers' = {}
  /\ pc' = "enrich"
  /\ UNCHANGED <<criticality, playbook, state, asked, row>>

\* enriched = dict(state["enriched_context"]) with one entry more, stored in
\* the case and handed on in the dictionary
StoreContext(key, value, dictionary) ==
  LET enriched == With(get("enriched_context", NoContext), key, value)
  IN  /\ row' = [row EXCEPT !.context = enriched]
      /\ state' = returned(With(dictionary, "enriched_context", enriched))

enrich_ioc_node ==
  /\ pc = "enrich"
  /\ at > EnrichedAlerts
  /\ StoreContext("iocs", ioc_summary, state)
  /\ pc' = "analyze"
  /\ UNCHANGED <<criticality, playbook, enriching>>
-----------------------------------------------------------------------------
(* analyze_node, with the gateway's fallback.                              *)

\* Severity and confidence of some of the mock gateway's twelve reports, of
\* which it picks one by the words of the prompt
PresetReports ==
  {[severity |-> "medium", confidence |-> 60], [severity |-> "medium", confidence |-> 82],
   [severity |-> "high", confidence |-> 88], [severity |-> "critical", confidence |-> 92]}

StoreJudgment(report) ==
  /\ row' = [row EXCEPT !.judgment = <<report>>]
  /\ state' = returned(With(state, "judgment", <<report>>))
  /\ pc' = "dfir"

analyze_node(output) ==
  /\ pc = "analyze"
  /\ ~ ProviderError(output) /\ ~ NormalizeRaises(output)
  /\ StoreJudgment(normalize(output))
  /\ UNCHANGED <<criticality, playbook, enriching>>

\* ResilientLLMGateway catches LLMProviderError and nothing else
analyze_node_falls_back(output) ==
  /\ pc = "analyze"
  /\ ProviderError(output)
  /\ LLMFallback
  /\ \E report \in PresetReports : StoreJudgment(report)
  /\ UNCHANGED <<criticality, playbook, enriching>>

analyze_node_raises(output) ==
  /\ pc = "analyze"
  /\ NormalizeRaises(output) \/ (ProviderError(output) /\ ~ LLMFallback)
  /\ pc' = "failed"
  /\ UNCHANGED <<criticality, playbook, state, enriching, row>>
-----------------------------------------------------------------------------
(* dfir_capture, ir_coordinate, plan_actions and the fork.                 *)

\* The evidence is copied from the context; the default mode puts none there
dfir_capture_node ==
  /\ pc = "dfir"
  /\ StoreContext("forensics", "captured", state)
  /\ pc' = "ir"
  /\ UNCHANGED <<criticality, playbook, enriching>>

\* The report comes from the case, read again
ir_coordinate_node ==
  /\ pc = "ir"
  /\ LET priority == decide_priority(row.judgment[1], criticality)
     IN  StoreContext("ir_decision", priority, With(state, "ir_priority", priority))
  /\ pc' = "plan"
  /\ UNCHANGED <<criticality, playbook, enriching>>

Escalate(action) ==
  IF action.type \in CRITICAL_ACTIONS THEN [action EXCEPT !.autonomy = "L2"] ELSE action

Planned ==
  IF get("ir_priority", "none") = "P0"
  THEN [n \in DOMAIN playbook |-> Escalate(playbook[n])]
  ELSE playbook

HasL2(actions) == \E n \in DOMAIN actions : actions[n].autonomy = "L2"

plan_actions_node ==
  /\ pc = "plan"
  /\ row' = [row EXCEPT !.actions = Planned]
  /\ state' = returned(With(state, "proposed_actions", Planned))
  /\ pc' = "route"
  /\ UNCHANGED <<criticality, playbook, enriching>>

route_after_plan ==
  /\ pc = "route"
  /\ IF HasL2(get("proposed_actions", <<>>))
     THEN pc' = "parked" /\ row' = [row EXCEPT !.status = "pending_approval"]
     ELSE pc' = "execute" /\ UNCHANGED row
  /\ UNCHANGED <<criticality, playbook, state, enriching>>

Next ==
  \/ ingest_alerts_node \/ retrieve_knowledge_node
  \/ enrich_alert \/ summarize \/ enrich_ioc_node
  \/ \E i \in Ioc, p \in Provider : provider_answers(i, p) \/ provider_fails(i, p)
  \/ \E output \in Outputs :
       analyze_node(output) \/ analyze_node_falls_back(output) \/ analyze_node_raises(output)
  \/ dfir_capture_node \/ ir_coordinate_node \/ plan_actions_node \/ route_after_plan

Spec == Init /\ [][Next]_vars
-----------------------------------------------------------------------------
(* Properties                                                              *)

Place == {"ingest", "retrieve", "enrich", "gather", "analyze", "dfir", "ir", "plan",
          "route", "parked", "execute", "failed"}

Part == {"iocs", "forensics", "ir_decision"}

ActionPlan == Seq([type : STRING, autonomy : {"L1", "L2", "L3", "L4", "L5"}])

TypeOK ==
  /\ pc \in Place
  /\ criticality \in Severity
  /\ playbook \in ActionPlan
  /\ DOMAIN state = SecSightState
  /\ at \in 1..Len(Alerts) + 1
  /\ asked \subseteq Ioc \X Provider
  /\ answers \subseteq Ioc \X IntelResult
  /\ ioc_summary \subseteq Nat \X Ioc \X IntelResult
  /\ row.status \in {"open", "investigating", "pending_approval"}
  /\ DOMAIN row.context \subseteq Part
  /\ row.judgment \in {<<>>} \cup {<<report>> : report \in Report}
  /\ row.actions \in ActionPlan

\* An indicator is recorded as malicious exactly when a source that answered
\* says so or, if none answered, the fallback's tables do, in whatever order
\* answers and failures came (service.py:101-124).
VerdictsAreBacked ==
  [][\A entry \in ioc_summary' \ ioc_summary :
       LET i == entry[2]
       IN  entry[3].malicious =
             IF Results(i) = {}
             THEN FallbackToMock /\ i \in KnownBad
             ELSE \E r \in Results(i) : r.malicious]_vars

\* However many sources fail, the analyst finds every indicator of the first
\* three alerts in the context, and no other (service.py:8, nodes.py:255).
FailuresHideNothing ==
  "iocs" \in DOMAIN row.context =>
    {<<entry[1], entry[2]>> : entry \in row.context["iocs"]} =
      UNION {{n} \X Alerts[n] : n \in 1..EnrichedAlerts}

\* Evidence first, containment second (nodes.py:304): a run reaches its fork
\* only with indicators, forensics, report and decision in the case, none of
\* them overwritten by a later node, and with the decision that follows from
\* the stored report.
EvidencePrecedesContainment ==
  pc \in {"route", "parked", "execute"} =>
    /\ DOMAIN row.context = Part
    /\ row.judgment # <<>>
    /\ row.context["ir_decision"] = decide_priority(row.judgment[1], criticality)

\* The run parks exactly the cases whose stored plan has an L2 action,
\* although it reads the plan from its own state and not from the case.
ForkFollowsPlan ==
  /\ pc = "parked" => HasL2(row.actions) /\ row.status = "pending_approval"
  /\ pc = "execute" => ~ HasL2(row.actions)
-----------------------------------------------------------------------------
(* Claims of the documentation that the code does not keep.                *)

\* A P0 incident's critical actions need signatures, whatever the playbook
\* says (nodes.py:382, workflow.py:74).
P0NeedsSignatures ==
  pc \in {"parked", "execute"} /\ row.context["ir_decision"] = "P0" =>
    \A n \in DOMAIN row.actions :
      row.actions[n].type \in CRITICAL_ACTIONS => row.actions[n].autonomy = "L2"
=============================================================================
