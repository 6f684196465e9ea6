-------------------------- MODULE InvestigationProofs --------------------------
(***************************************************************************)
(* Theorems about Investigation for every case, set of sources, playbook   *)
(* and behaviour of the LLM.                                               *)
(***************************************************************************)
EXTENDS Investigation, FiniteSetTheorems, TLAPS

\* What the context holds at each node
Held ==
  CASE pc \in {"ingest", "retrieve", "enrich", "gather"} -> {}
    [] pc \in {"analyze", "dfir"} -> {"iocs"}
    [] pc = "ir" -> {"iocs", "forensics"}
    [] pc \in {"plan", "route", "parked", "execute"} -> Part
    [] OTHER -> DOMAIN row.context

\* The run's dictionary carries the stored context, and nothing undeclared
CarriedOK ==
  /\ pc \in Place
  /\ "enriched_context" \in DOMAIN state
  /\ state["enriched_context"] = row.context
  /\ DOMAIN row = {"status", "context", "judgment", "actions"}
  /\ pc # "failed" => DOMAIN row.context = Held

\* Report and decision are in the case once their nodes are behind
DecidedOK ==
  /\ pc \in {"dfir", "ir", "plan", "route", "parked", "execute"} => row.judgment # <<>>
  /\ pc \in {"plan", "route", "parked", "execute"} =>
       row.context["ir_decision"] = decide_priority(row.judgment[1], criticality)

\* At the fork the run's plan is the stored one
PlannedOK ==
  pc = "route" =>
    /\ "proposed_actions" \in DOMAIN state
    /\ state["proposed_actions"] = row.actions

Inv == CarriedOK /\ DecidedOK /\ PlannedOK /\ ForkFollowsPlan
-----------------------------------------------------------------------------
\* What storing an entry of the context does to the run and to the case
LEMMA Stores ==
  ASSUME CarriedOK, NEW key, NEW value, NEW dictionary,
         dictionary = state \/ (\E x : dictionary = With(state, "ir_priority", x)),
         StoreContext(key, value, dictionary)
  PROVE  /\ "enriched_context" \in DOMAIN state'
         /\ state'["enriched_context"] = row'.context
         /\ DOMAIN row' = DOMAIN row
         /\ DOMAIN row'.context = DOMAIN row.context \cup {key}
         /\ row'.context[key] = value
         /\ \A k \in DOMAIN row.context : k # key => row'.context[k] = row.context[k]
         /\ row'.judgment = row.judgment
<1> DEFINE enriched == With(row.context, key, value)
<1>1. get("enriched_context", NoContext) = row.context
  BY DEF get, CarriedOK
<1>2. /\ row' = [row EXCEPT !.context = enriched]
      /\ state' = returned(With(dictionary, "enriched_context", enriched))
  BY <1>1 DEF StoreContext
<1>3. /\ "enriched_context" \in DOMAIN state'
      /\ state'["enriched_context"] = enriched
  <2>1. "enriched_context" \in SecSightState
    BY DEF SecSightState
  <2>2. "enriched_context" \in DOMAIN With(dictionary, "enriched_context", enriched)
    BY DEF With
  <2>3. With(dictionary, "enriched_context", enriched)["enriched_context"] = enriched
    BY DEF With
  <2> QED BY <1>2, <2>1, <2>2, <2>3 DEF returned
<1>4. /\ DOMAIN enriched = DOMAIN row.context \cup {key}
      /\ enriched[key] = value
      /\ \A k \in DOMAIN row.context : k # key => enriched[k] = row.context[k]
  BY DEF With
<1>5. /\ DOMAIN row' = DOMAIN row
      /\ row'.context = enriched
      /\ row'.judgment = row.judgment
  BY <1>2 DEF CarriedOK
<1> QED BY <1>3, <1>4, <1>5

\* A channel that is declared survives the way to the next node
LEMMA Returns ==
  ASSUME "enriched_context" \in DOMAIN state,
         NEW key \in SecSightState, key # "enriched_context", NEW value,
         state' = returned(With(state, key, value))
  PROVE  /\ "enriched_context" \in DOMAIN state'
         /\ state'["enriched_context"] = state["enriched_context"]
         /\ key \in DOMAIN state'
         /\ state'[key] = value
<1> DEFINE d == With(state, key, value)
<1>1. /\ DOMAIN d = DOMAIN state \cup {key}
      /\ d[key] = value
      /\ d["enriched_context"] = state["enriched_context"]
  BY DEF With
<1>2. "enriched_context" \in SecSightState
  BY DEF SecSightState
<1> QED BY <1>1, <1>2 DEF returned

LEMMA InitInv == Init => Inv
<1> SUFFICES ASSUME Init PROVE Inv
  OBVIOUS
<1>1. /\ pc = "ingest"
      /\ "enriched_context" \in DOMAIN state
      /\ state["enriched_context"] = NoContext
      /\ DOMAIN row = {"status", "context", "judgment", "actions"}
      /\ row.context = NoContext
  BY DEF Init, returned, SecSightState
<1>2. DOMAIN NoContext = {}
  BY DEF NoContext
<1>3. CarriedOK
  BY <1>1, <1>2 DEF CarriedOK, Place, Held
<1> QED BY <1>1, <1>3 DEF Inv, DecidedOK, PlannedOK, ForkFollowsPlan
-----------------------------------------------------------------------------
\* Nodes that leave state and case alone, before the context is written
LEMMA Gathers ==
  ASSUME Inv,
         \/ retrieve_knowledge_node \/ enrich_alert \/ summarize
         \/ \E i \in Ioc, p \in Provider : provider_answers(i, p) \/ provider_fails(i, p)
  PROVE  Inv'
<1>1. /\ UNCHANGED <<criticality, state, row>>
      /\ pc \in {"retrieve", "enrich", "gather"}
      /\ pc' \in {"enrich", "gather", "failed"}
  BY DEF retrieve_knowledge_node, enrich_alert, summarize, provider_answers, provider_fails
<1>2. CarriedOK'
  BY <1>1 DEF Inv, CarriedOK, Held, Place
<1> QED BY <1>1, <1>2 DEF Inv, DecidedOK, PlannedOK, ForkFollowsPlan

LEMMA Ingests ==
  ASSUME Inv, ingest_alerts_node
  PROVE  Inv'
<1>1. /\ pc = "ingest" /\ pc' = "retrieve"
      /\ UNCHANGED <<criticality, state>>
      /\ DOMAIN row' = DOMAIN row
      /\ row'.context = row.context
  BY DEF ingest_alerts_node, Inv, CarriedOK
<1>2. CarriedOK'
  BY <1>1 DEF Inv, CarriedOK, Held, Place
<1> QED BY <1>1, <1>2 DEF Inv, DecidedOK, PlannedOK, ForkFollowsPlan

LEMMA StoresIocs ==
  ASSUME Inv, enrich_ioc_node
  PROVE  Inv'
<1>1. /\ pc = "enrich" /\ pc' = "analyze"
      /\ StoreContext("iocs", ioc_summary, state)
  BY DEF enrich_ioc_node
<1>2. /\ "enriched_context" \in DOMAIN state'
      /\ state'["enriched_context"] = row'.context
      /\ DOMAIN row' = DOMAIN row
      /\ DOMAIN row'.context = DOMAIN row.context \cup {"iocs"}
  BY <1>1, Stores DEF Inv
<1>3. CarriedOK'
  BY <1>1, <1>2 DEF Inv, CarriedOK, Held, Place
<1> QED BY <1>1, <1>3 DEF Inv, DecidedOK, PlannedOK, ForkFollowsPlan

LEMMA StoresReport ==
  ASSUME Inv, pc = "analyze", NEW report, StoreJudgment(report)
  PROVE  Inv'
<1>1. /\ pc' = "dfir"
      /\ row' = [row EXCEPT !.judgment = <<report>>]
      /\ state' = returned(With(state, "judgment", <<report>>))
  BY DEF StoreJudgment
<1>2. /\ DOMAIN row' = DOMAIN row
      /\ row'.context = row.context
      /\ row'.judgment = <<report>>
  BY <1>1 DEF Inv, CarriedOK
<1>3. /\ "enriched_context" \in DOMAIN state'
      /\ state'["enriched_context"] = state["enriched_context"]
  BY <1>1, Returns DEF SecSightState, Inv, CarriedOK
<1>4. CarriedOK'
  BY <1>1, <1>2, <1>3 DEF Inv, CarriedOK, Held, Place
<1>5. row'.judgment # <<>>
  BY <1>2
<1> QED BY <1>1, <1>4, <1>5 DEF Inv, DecidedOK, PlannedOK, ForkFollowsPlan

LEMMA Analyzes ==
  ASSUME Inv, NEW output \in Outputs,
         \/ analyze_node(output) \/ analyze_node_falls_back(output)
         \/ analyze_node_raises(output)
  PROVE  Inv'
<1>1. CASE analyze_node(output)
  BY <1>1, StoresReport DEF analyze_node
<1>2. CASE analyze_node_falls_back(output)
  BY <1>2, StoresReport DEF analyze_node_falls_back
<1>3. CASE analyze_node_raises(output)
  <2>1. /\ pc' = "failed"
        /\ UNCHANGED <<criticality, state, row>>
    BY <1>3 DEF analyze_node_raises
  <2>2. CarriedOK'
    BY <2>1 DEF Inv, CarriedOK, Held, Place
  <2> QED BY <2>1, <2>2 DEF Inv, DecidedOK, PlannedOK, ForkFollowsPlan
<1> QED BY <1>1, <1>2, <1>3

LEMMA Captures ==
  ASSUME Inv, dfir_capture_node
  PROVE  Inv'
<1>1. /\ pc = "dfir" /\ pc' = "ir"
      /\ StoreContext("forensics", "captured", state)
  BY DEF dfir_capture_node
<1>2. /\ "enriched_context" \in DOMAIN state'
      /\ state'["enriched_context"] = row'.context
      /\ DOMAIN row' = DOMAIN row
      /\ DOMAIN row'.context = DOMAIN row.context \cup {"forensics"}
      /\ row'.judgment = row.judgment
  BY <1>1, Stores DEF Inv
<1>3. CarriedOK'
  BY <1>1, <1>2 DEF Inv, CarriedOK, Held, Place
<1> QED BY <1>1, <1>2, <1>3 DEF Inv, DecidedOK, PlannedOK, ForkFollowsPlan

LEMMA Coordinates ==
  ASSUME Inv, ir_coordinate_node
  PROVE  Inv'
<1> DEFINE priority == decide_priority(row.judgment[1], criticality)
<1>1. /\ pc = "ir" /\ pc' = "plan"
      /\ StoreContext("ir_decision", priority, With(state, "ir_priority", priority))
      /\ UNCHANGED criticality
  BY DEF ir_coordinate_node
<1>2. /\ "enriched_context" \in DOMAIN state'
      /\ state'["enriched_context"] = row'.context
      /\ DOMAIN row' = DOMAIN row
      /\ DOMAIN row'.context = DOMAIN row.context \cup {"ir_decision"}
      /\ row'.context["ir_decision"] = priority
      /\ row'.judgment = row.judgment
  <2> HIDE DEF priority
  <2> QED BY <1>1, Stores DEF Inv
<1>3. CarriedOK'
  <2> HIDE DEF priority
  <2> QED BY <1>1, <1>2 DEF Inv, CarriedOK, Held, Place, Part
<1>4. DecidedOK'
  BY <1>1, <1>2 DEF Inv, DecidedOK
<1> QED BY <1>1, <1>3, <1>4 DEF Inv, PlannedOK, ForkFollowsPlan

LEMMA Plans ==
  ASSUME Inv, plan_actions_node
  PROVE  Inv'
<1> DEFINE actions == Planned
<1>1. /\ pc = "plan" /\ pc' = "route"
      /\ row' = [row EXCEPT !.actions = actions]
      /\ state' = returned(With(state, "proposed_actions", actions))
      /\ UNCHANGED criticality
  BY DEF plan_actions_node
<1> HIDE DEF actions
<1>2. /\ DOMAIN row' = DOMAIN row
      /\ row'.context = row.context
      /\ row'.judgment = row.judgment
      /\ row'.actions = actions
  BY <1>1 DEF Inv, CarriedOK
<1>3. /\ "enriched_context" \in DOMAIN state'
      /\ state'["enriched_context"] = state["enriched_context"]
      /\ "proposed_actions" \in DOMAIN state'
      /\ state'["proposed_actions"] = actions
  BY <1>1, Returns DEF SecSightState, Inv, CarriedOK
<1>4. CarriedOK'
  BY <1>1, <1>2, <1>3 DEF Inv, CarriedOK, Held, Place
<1>5. DecidedOK'
  BY <1>1, <1>2 DEF Inv, DecidedOK
<1> QED BY <1>1, <1>2, <1>3, <1>4, <1>5 DEF Inv, PlannedOK, ForkFollowsPlan

LEMMA Forks ==
  ASSUME Inv, route_after_plan
  PROVE  Inv'
<1>1. /\ pc = "route"
      /\ UNCHANGED <<criticality, state>>
      /\ \/ pc' = "parked" /\ row' = [row EXCEPT !.status = "pending_approval"]
         \/ pc' = "execute" /\ UNCHANGED row
  BY DEF route_after_plan
<1>2. /\ DOMAIN row' = DOMAIN row
      /\ row'.context = row.context
      /\ row'.judgment = row.judgment
      /\ row'.actions = row.actions
      /\ pc' = "parked" => row'.status = "pending_approval"
  BY <1>1 DEF Inv, CarriedOK
<1>3. get("proposed_actions", <<>>) = row.actions
  BY <1>1 DEF get, Inv, PlannedOK
<1>4. IF HasL2(row.actions) THEN pc' = "parked" ELSE pc' = "execute"
  BY <1>3 DEF route_after_plan
<1>5. CarriedOK'
  BY <1>1, <1>2 DEF Inv, CarriedOK, Held, Place
<1>6. DecidedOK'
  BY <1>1, <1>2 DEF Inv, DecidedOK
<1>7. ForkFollowsPlan'
  <2>1. HasL2(row.actions)' <=> HasL2(row.actions)
    BY <1>2 DEF HasL2
  <2> QED BY <1>2, <1>4, <2>1 DEF ForkFollowsPlan
<1> QED BY <1>1, <1>5, <1>6, <1>7 DEF Inv, PlannedOK

LEMMA NextInv == Inv /\ [Next]_vars => Inv'
<1> SUFFICES ASSUME Inv, [Next]_vars PROVE Inv'
  OBVIOUS
<1>1. CASE ingest_alerts_node
  BY <1>1, Ingests
<1>2. CASE retrieve_knowledge_node \/ enrich_alert \/ summarize
  BY <1>2, Gathers
<1>3. CASE \E i \in Ioc, p \in Provider : provider_answers(i, p) \/ provider_fails(i, p)
  BY <1>3, Gathers
<1>4. CASE enrich_ioc_node
  BY <1>4, StoresIocs
<1>5. ASSUME NEW output \in Outputs,
             \/ analyze_node(output) \/ analyze_node_falls_back(output)
             \/ analyze_node_raises(output)
      PROVE  Inv'
  BY <1>5, Analyzes
<1>6. CASE dfir_capture_node
  BY <1>6, Captures
<1>7. CASE ir_coordinate_node
  BY <1>7, Coordinates
<1>8. CASE plan_actions_node
  BY <1>8, Plans
<1>9. CASE route_after_plan
  BY <1>9, Forks
<1>10. CASE UNCHANGED vars
  BY <1>10 DEF vars, Inv, CarriedOK, Held, DecidedOK, PlannedOK, ForkFollowsPlan, HasL2
<1> QED BY <1>1, <1>2, <1>3, <1>4, <1>5, <1>6, <1>7, <1>8, <1>9, <1>10 DEF Next

\* Whatever the sources and the LLM do, a run gets to its fork only with
\* indicators, forensics, report and the decision that follows from it in the
\* case: evidence is kept before anything is contained (nodes.py:304).
THEOREM EvidenceComesFirst == Spec => []EvidencePrecedesContainment
<1>1. Inv => EvidencePrecedesContainment
  BY DEF Inv, CarriedOK, DecidedOK, Held, EvidencePrecedesContainment
<1> QED BY InitInv, NextInv, <1>1, PTL DEF Spec

\* For every playbook, a run parks exactly the cases whose stored plan has an
\* L2 action, although it reads its own copy of the plan (workflow.py:54-62).
THEOREM ForkIsFaithful == Spec => []ForkFollowsPlan
<1>1. Inv => ForkFollowsPlan
  BY DEF Inv
<1> QED BY InitInv, NextInv, <1>1, PTL DEF Spec
-----------------------------------------------------------------------------
(* The indicators.                                                         *)

Listed(n, i) == \E r : <<n, i, r>> \in ioc_summary

\* The summary lists the indicators of the alerts that are done, no others
ListedOK ==
  /\ at \in Nat \ {0}
  /\ at <= EnrichedAlerts + 1
  /\ pc = "gather" => at <= EnrichedAlerts
  /\ \A entry \in ioc_summary : entry = <<entry[1], entry[2], entry[3]>>
  /\ \A n, i : Listed(n, i) <=> n \in 1..(at - 1) /\ i \in Alerts[n]

\* What the case holds is the whole summary
StoredOK ==
  "iocs" \in DOMAIN row.context =>
    /\ at = EnrichedAlerts + 1
    /\ row.context["iocs"] = ioc_summary
    /\ pc \notin {"ingest", "retrieve", "enrich", "gather"}

\* The answers about an indicator are finitely many, each with a verdict
AnswersOK ==
  \A i : /\ IsFiniteSet(Results(i))
         /\ \A r \in Results(i) : r.malicious \in BOOLEAN

IocInv == Inv /\ ListedOK /\ StoredOK /\ AnswersOK

LEMMA EnrichedType == EnrichedAlerts \in Nat
<1>1. Len(Alerts) \in Nat
  BY InvestigationAssumption
<1> QED BY <1>1 DEF EnrichedAlerts, AtMost

\* Every answer a source can give says whether the indicator is malicious
LEMMA AnswersJudge ==
  ASSUME NEW p \in Provider, NEW r \in Answers(p)
  PROVE  r.malicious \in BOOLEAN
<1>1. CASE p = "abuseipdb"
  <2>1. r \in AbuseIPDBAnswers
    BY <1>1 DEF Answers
  <2>2. PICK score \in Scores, whitelisted \in BOOLEAN :
          r = Answer("abuseipdb", score >= 50 /\ ~ whitelisted, AtMost(score, 100))
    BY <2>1 DEF AbuseIPDBAnswers
  <2>3. r.malicious = (score >= 50 /\ ~ whitelisted)
    BY <2>2, Zenon DEF Answer
  <2> QED BY <2>3
<1>2. CASE p = "otx"
  <2>1. r \in OTXAnswers
    BY <1>2 DEF Answers
  <2>2. PICK pulses \in PulseCounts :
          r = Answer("otx", pulses >= 3, AtMost(10 * pulses, 100))
    BY <2>1 DEF OTXAnswers
  <2>3. r.malicious = (pulses >= 3)
    BY <2>2, Zenon DEF Answer
  <2> QED BY <2>3
<1>3. CASE p = "opencti"
  <2>1. r \in OpenCTIFound \cup {NotFound}
    BY <1>3 DEF Answers
  <2>2. CASE r = NotFound
    BY <2>2, Zenon DEF NotFound, Answer
  <2>3. CASE r \in OpenCTIFound
    <3>1. PICK score \in Scores, active \in BOOLEAN, attributed \in BOOLEAN :
            r = Answer("opencti", score >= 50 \/ active,
                       AtLeast(AtMost(score, 100),
                               IF attributed THEN 80 ELSE IF active THEN 60 ELSE 0))
      BY <2>3, SMT DEF OpenCTIFound
    <3>2. r.malicious = (score >= 50 \/ active)
      BY <3>1, Zenon DEF Answer
    <3> QED BY <3>2
  <2> QED BY <2>1, <2>2, <2>3
<1> QED BY <1>1, <1>2, <1>3, IntelAssumption

\* The verdict on an indicator, from the answers about it
LEMMA Verdict ==
  ASSUME NEW i \in Ioc, NEW results, IsFiniteSet(results),
         \A r \in results : r.malicious \in BOOLEAN
  PROVE  query(i, results).malicious =
           IF results = {} THEN FallbackToMock /\ i \in KnownBad
           ELSE \E r \in results : r.malicious
<1>1. CASE results = {}
  <2> DEFINE fallback == IF FallbackToMock THEN MockAnswer(i) ELSE Answer("none", FALSE, 0)
  <2>0. Cardinality(results) # 1
    BY <1>1, FS_EmptySet
  <2>1. query(i, results) = fallback
    <3> HIDE DEF fallback
    <3>1. query(i, results) = CASE results = {} -> fallback
                                [] Cardinality(results) = 1 -> CHOOSE r \in results : TRUE
                                [] OTHER -> synthesize(results)
      BY Zenon DEF query, fallback
    <3> QED BY <1>1, <2>0, <3>1
  <2>2. MockAnswer(i).malicious = (i \in KnownBad)
    BY DEF MockAnswer, Answer
  <2>3. Answer("none", FALSE, 0).malicious = FALSE
    BY DEF Answer
  <2>4. FallbackToMock \in BOOLEAN
    BY IntelAssumption
  <2>5. CASE FallbackToMock
    BY <1>1, <2>1, <2>2, <2>5
  <2>6. CASE ~ FallbackToMock
    BY <1>1, <2>1, <2>3, <2>6
  <2> QED BY <2>4, <2>5, <2>6
<1>2. CASE Cardinality(results) = 1
  <2>1. PICK r : results = {r}
    BY <1>2, FS_Singleton
  <2>2. results # {}
    BY <2>1
  <2>3. query(i, results) = r
    BY <1>2, <2>1, <2>2 DEF query
  <2>4. r.malicious \in BOOLEAN
    BY <2>1
  <2> QED BY <2>1, <2>2, <2>3, <2>4
<1>3. CASE results # {} /\ Cardinality(results) # 1
  <2>1. query(i, results) = synthesize(results)
    BY <1>3 DEF query
  <2>2. synthesize(results).malicious = (Hits(results) # {})
    BY DEF synthesize, Answer
  <2>3. (Hits(results) # {}) <=> \E r \in results : r.malicious
    BY DEF Hits
  <2> QED BY <1>3, <2>1, <2>2, <2>3
<1> QED BY <1>1, <1>2, <1>3

LEMMA InitIocInv == Init => IocInv
<1> SUFFICES ASSUME Init PROVE IocInv
  OBVIOUS
<1>1. pc = "ingest" /\ at = 1 /\ answers = {} /\ ioc_summary = {} /\ row.context = NoContext
  BY DEF Init
<1>2. Inv
  BY InitInv
<1>3. ListedOK
  BY <1>1, EnrichedType DEF ListedOK, Listed
<1>4. StoredOK
  BY <1>1 DEF StoredOK, NoContext
<1>5. AnswersOK
  BY <1>1, FS_EmptySet DEF AnswersOK, Results
<1> QED BY <1>2, <1>3, <1>4, <1>5 DEF IocInv
-----------------------------------------------------------------------------
\* A step that neither asks nor sums up and keeps the stored summary
LEMMA KeepsIocs ==
  ASSUME IocInv, UNCHANGED enriching,
         pc' # "gather",
         "iocs" \in DOMAIN row'.context =>
           /\ "iocs" \in DOMAIN row.context
           /\ row'.context["iocs"] = row.context["iocs"]
           /\ pc' \notin {"ingest", "retrieve", "enrich"}
  PROVE  ListedOK' /\ StoredOK' /\ AnswersOK'
<1>1. /\ at' = at /\ asked' = asked /\ answers' = answers /\ ioc_summary' = ioc_summary
      /\ EnrichedAlerts' = EnrichedAlerts
  BY DEF enriching, EnrichedAlerts
<1>2. ListedOK'
  BY <1>1 DEF IocInv, ListedOK, Listed
<1>3. StoredOK'
  BY <1>1 DEF IocInv, StoredOK
<1>4. AnswersOK'
  BY <1>1 DEF IocInv, AnswersOK, Results
<1> QED BY <1>2, <1>3, <1>4

LEMMA AsksIocs ==
  ASSUME IocInv, enrich_alert
  PROVE  ListedOK' /\ StoredOK' /\ AnswersOK'
<1>1. /\ pc = "enrich" /\ pc' = "gather" /\ answers' = {} /\ at <= EnrichedAlerts
      /\ UNCHANGED <<at, ioc_summary, row>>
  BY DEF enrich_alert
<1>2. ListedOK'
  BY <1>1 DEF IocInv, ListedOK, Listed, EnrichedAlerts
<1>3. StoredOK'
  BY <1>1 DEF IocInv, StoredOK
<1>4. AnswersOK'
  BY <1>1, FS_EmptySet DEF AnswersOK, Results
<1> QED BY <1>2, <1>3, <1>4

LEMMA HearsIocs ==
  ASSUME IocInv, NEW i \in Ioc, NEW p \in Provider,
         provider_answers(i, p) \/ provider_fails(i, p)
  PROVE  ListedOK' /\ StoredOK' /\ AnswersOK'
<1>1. /\ pc = "gather"
      /\ UNCHANGED <<pc, at, ioc_summary, row>>
  BY DEF provider_answers, provider_fails
<1>2. ListedOK'
  BY <1>1 DEF IocInv, ListedOK, Listed, EnrichedAlerts
<1>3. StoredOK'
  BY <1>1 DEF IocInv, StoredOK
<1>4. AnswersOK'
  <2>1. CASE provider_fails(i, p)
    BY <2>1 DEF provider_fails, IocInv, AnswersOK, Results
  <2>2. CASE provider_answers(i, p)
    <3>1. PICK r \in Answers(p) : answers' = answers \cup {<<i, r>>}
      BY <2>2 DEF provider_answers
    <3>2. r.malicious \in BOOLEAN
      BY AnswersJudge
    <3>3. ASSUME NEW j PROVE Results(j)' = Results(j) \/ Results(j)' = Results(j) \cup {r}
      <4>1. CASE j = i
        BY <3>1, <4>1 DEF Results
      <4>2. CASE j # i
        BY <3>1, <4>2 DEF Results
      <4> QED BY <4>1, <4>2
    <3>4. ASSUME NEW j PROVE IsFiniteSet(Results(j) \cup {r})
      BY FS_AddElement DEF IocInv, AnswersOK
    <3> QED BY <3>2, <3>3, <3>4 DEF IocInv, AnswersOK
  <2> QED BY <2>1, <2>2
<1> QED BY <1>2, <1>3, <1>4

LEMMA SumsUpIocs ==
  ASSUME IocInv, summarize
  PROVE  ListedOK' /\ StoredOK' /\ AnswersOK'
<1>1. /\ pc = "gather" /\ pc' = "enrich" /\ answers' = {} /\ at' = at + 1
      /\ ioc_summary' =
           ioc_summary \cup {<<at, i, query(i, Results(i))>> : i \in Alerts[at]}
      /\ UNCHANGED row
  BY DEF summarize
<1>2. ListedOK'
  <2>1. at \in Nat \ {0} /\ at <= EnrichedAlerts
    BY <1>1 DEF IocInv, ListedOK
  <2>2. at' \in Nat \ {0} /\ at' <= EnrichedAlerts + 1 /\ EnrichedAlerts' = EnrichedAlerts
    BY <1>1, <2>1, EnrichedType DEF EnrichedAlerts
  <2>3. \A entry \in ioc_summary' : entry = <<entry[1], entry[2], entry[3]>>
    BY <1>1 DEF IocInv, ListedOK
  <2>4. ASSUME NEW n, NEW i
        PROVE  Listed(n, i)' <=> Listed(n, i) \/ (n = at /\ i \in Alerts[at])
    BY <1>1 DEF Listed
  <2>5. 1..at = 1..(at - 1) \cup {at}
    BY <2>1
  <2>6. ASSUME NEW n, NEW i
        PROVE  Listed(n, i)' <=> n \in 1..at /\ i \in Alerts[n]
    BY <2>4, <2>5 DEF IocInv, ListedOK
  <2>7. at' - 1 = at
    BY <1>1, <2>1
  <2> QED BY <1>1, <2>2, <2>3, <2>6, <2>7 DEF ListedOK
<1>3. StoredOK'
  BY <1>1 DEF IocInv, StoredOK
<1>4. AnswersOK'
  BY <1>1, FS_EmptySet DEF AnswersOK, Results
<1> QED BY <1>2, <1>3, <1>4

LEMMA RecordsIocs ==
  ASSUME IocInv, enrich_ioc_node
  PROVE  ListedOK' /\ StoredOK' /\ AnswersOK'
<1>1. /\ pc' = "analyze" /\ at > EnrichedAlerts
      /\ StoreContext("iocs", ioc_summary, state)
      /\ at' = at /\ answers' = answers /\ ioc_summary' = ioc_summary
      /\ EnrichedAlerts' = EnrichedAlerts
  BY DEF enrich_ioc_node, enriching, EnrichedAlerts
<1>2. row'.context["iocs"] = ioc_summary
  BY <1>1, Stores DEF IocInv, Inv
<1>3. at = EnrichedAlerts + 1
  BY <1>1, EnrichedType DEF IocInv, ListedOK
<1>4. ListedOK'
  BY <1>1 DEF IocInv, ListedOK, Listed
<1>5. StoredOK'
  BY <1>1, <1>2, <1>3 DEF StoredOK
<1>6. AnswersOK'
  BY <1>1 DEF IocInv, AnswersOK, Results
<1> QED BY <1>4, <1>5, <1>6

LEMMA NextIocInv == IocInv /\ [Next]_vars => IocInv'
<1> SUFFICES ASSUME IocInv, [Next]_vars PROVE ListedOK' /\ StoredOK' /\ AnswersOK'
  BY NextInv DEF IocInv
<1>0. Inv
  BY DEF IocInv
<1>1. CASE ingest_alerts_node
  <2>1. row'.context = row.context
    BY <1>0, <1>1 DEF ingest_alerts_node, Inv, CarriedOK
  <2> QED BY <1>1, <2>1, KeepsIocs DEF ingest_alerts_node, IocInv, StoredOK
<1>2. CASE retrieve_knowledge_node
  BY <1>2, KeepsIocs DEF retrieve_knowledge_node, IocInv, StoredOK
<1>3. CASE enrich_alert
  BY <1>3, AsksIocs
<1>4. CASE summarize
  BY <1>4, SumsUpIocs
<1>5. CASE \E i \in Ioc, p \in Provider : provider_answers(i, p) \/ provider_fails(i, p)
  BY <1>5, HearsIocs
<1>6. CASE enrich_ioc_node
  BY <1>6, RecordsIocs
<1>7. ASSUME NEW output \in Outputs,
             \/ analyze_node(output) \/ analyze_node_falls_back(output)
             \/ analyze_node_raises(output)
      PROVE  ListedOK' /\ StoredOK' /\ AnswersOK'
  <2>1. UNCHANGED enriching /\ pc' \in {"dfir", "failed"}
    BY <1>7 DEF analyze_node, analyze_node_falls_back, analyze_node_raises, StoreJudgment
  <2>2. row'.context = row.context
    BY <1>0, <1>7 DEF analyze_node, analyze_node_falls_back, analyze_node_raises,
                      StoreJudgment, Inv, CarriedOK
  <2> QED BY <2>1, <2>2, KeepsIocs
<1>8. CASE dfir_capture_node
  <2>1. /\ UNCHANGED enriching /\ pc' = "ir"
        /\ StoreContext("forensics", "captured", state)
    BY <1>8 DEF dfir_capture_node
  <2>2. /\ DOMAIN row'.context = DOMAIN row.context \cup {"forensics"}
        /\ \A k \in DOMAIN row.context : k # "forensics" => row'.context[k] = row.context[k]
    BY <1>0, <2>1, Stores DEF Inv
  <2> QED BY <2>1, <2>2, KeepsIocs
<1>9. CASE ir_coordinate_node
  <2> DEFINE priority == decide_priority(row.judgment[1], criticality)
  <2>1. /\ UNCHANGED enriching /\ pc' = "plan"
        /\ StoreContext("ir_decision", priority, With(state, "ir_priority", priority))
    BY <1>9 DEF ir_coordinate_node
  <2> HIDE DEF priority
  <2>2. /\ DOMAIN row'.context = DOMAIN row.context \cup {"ir_decision"}
        /\ \A k \in DOMAIN row.context : k # "ir_decision" => row'.context[k] = row.context[k]
    BY <1>0, <2>1, Stores DEF Inv
  <2> QED BY <2>1, <2>2, KeepsIocs
<1>10. CASE plan_actions_node
  <2>1. row'.context = row.context
    BY <1>0, <1>10 DEF plan_actions_node, Inv, CarriedOK
  <2> QED BY <1>10, <2>1, KeepsIocs DEF plan_actions_node
<1>11. CASE route_after_plan
  <2>1. row'.context = row.context
    BY <1>0, <1>11 DEF route_after_plan, Inv, CarriedOK
  <2> QED BY <1>11, <2>1, KeepsIocs DEF route_after_plan
<1>12. CASE UNCHANGED vars
  BY <1>12 DEF vars, enriching, IocInv, ListedOK, Listed, EnrichedAlerts, StoredOK,
               AnswersOK, Results
<1> QED BY <1>1, <1>2, <1>3, <1>4, <1>5, <1>6, <1>7, <1>8, <1>9, <1>10, <1>11, <1>12 DEF Next

\* However many sources fail, and in whatever order they do, the case holds one
\* entry for every indicator of the first three alerts and no other
\* (service.py:101-124, nodes.py:255).
THEOREM NothingIsHidden == Spec => []FailuresHideNothing
<1>1. IocInv => FailuresHideNothing
  <2> SUFFICES ASSUME IocInv, "iocs" \in DOMAIN row.context
      PROVE  {<<entry[1], entry[2]>> : entry \in row.context["iocs"]} =
               UNION {{n} \X Alerts[n] : n \in 1..EnrichedAlerts}
    BY DEF FailuresHideNothing
  <2>1. at - 1 = EnrichedAlerts /\ row.context["iocs"] = ioc_summary
    BY EnrichedType DEF IocInv, StoredOK
  <2>2. ASSUME NEW entry \in ioc_summary
        PROVE  entry[1] \in 1..EnrichedAlerts /\ entry[2] \in Alerts[entry[1]]
    <3>1. Listed(entry[1], entry[2])
      BY DEF IocInv, ListedOK, Listed
    <3> QED BY <2>1, <3>1 DEF IocInv, ListedOK
  <2>3. ASSUME NEW n \in 1..EnrichedAlerts, NEW i \in Alerts[n]
        PROVE  \E entry \in ioc_summary : <<n, i>> = <<entry[1], entry[2]>>
    <3>1. Listed(n, i)
      BY <2>1 DEF IocInv, ListedOK
    <3> QED BY <3>1 DEF Listed
  <2> QED BY <2>1, <2>2, <2>3
<1> QED BY InitIocInv, NextIocInv, <1>1, PTL DEF Spec

\* An indicator is recorded as malicious exactly when a source that answered
\* says so or, without any answer, the fallback's tables do
\* (service.py:101-124).
THEOREM EveryVerdictIsBacked == Spec => VerdictsAreBacked
<1> DEFINE Backed ==
      \A entry \in ioc_summary' \ ioc_summary :
        LET i == entry[2]
        IN  entry[3].malicious =
              IF Results(i) = {}
              THEN FallbackToMock /\ i \in KnownBad
              ELSE \E r \in Results(i) : r.malicious
<1>1. IocInv /\ [Next]_vars => [Backed]_vars
  <2> SUFFICES ASSUME IocInv, [Next]_vars, NEW entry \in ioc_summary' \ ioc_summary
      PROVE  entry[3].malicious =
               IF Results(entry[2]) = {}
               THEN FallbackToMock /\ entry[2] \in KnownBad
               ELSE \E r \in Results(entry[2]) : r.malicious
    OBVIOUS
  <2>1. summarize
    BY DEF Next, vars, enriching, ingest_alerts_node, retrieve_knowledge_node, enrich_alert,
           provider_answers, provider_fails, enrich_ioc_node, analyze_node,
           analyze_node_falls_back, analyze_node_raises, dfir_capture_node,
           ir_coordinate_node, plan_actions_node, route_after_plan
  <2>2. PICK i \in Alerts[at] : entry = <<at, i, query(i, Results(i))>>
    BY <2>1 DEF summarize
  <2>3. i \in Ioc
    <3>1. at \in 1..Len(Alerts)
      BY <2>1, EnrichedType, InvestigationAssumption
         DEF summarize, IocInv, ListedOK, EnrichedAlerts, AtMost
    <3> QED BY <3>1, InvestigationAssumption
  <2>4. /\ IsFiniteSet(Results(i))
        /\ \A r \in Results(i) : r.malicious \in BOOLEAN
    BY DEF IocInv, AnswersOK
  <2>5. query(i, Results(i)).malicious =
          IF Results(i) = {} THEN FallbackToMock /\ i \in KnownBad
          ELSE \E r \in Results(i) : r.malicious
    <3> DEFINE results == Results(i)
    <3>1. IsFiniteSet(results) /\ \A r \in results : r.malicious \in BOOLEAN
      BY <2>4
    <3> HIDE DEF results
    <3>2. query(i, results).malicious =
            IF results = {} THEN FallbackToMock /\ i \in KnownBad
            ELSE \E r \in results : r.malicious
      BY <2>3, <3>1, Verdict
    <3> QED BY <3>2 DEF results
  <2>6. entry[2] = i /\ entry[3] = query(i, Results(i))
    BY <2>2
  <2> QED BY <2>5, <2>6
<1> QED BY InitIocInv, NextIocInv, <1>1, PTL DEF Spec, VerdictsAreBacked
-----------------------------------------------------------------------------
(* Types: what is stored of answers, reports and plans                     *)

\* Every answer of a source is a result with a confidence in hundredths.
LEMMA AnswersAreResults ==
  ASSUME NEW p \in Provider, NEW r \in Answers(p)
  PROVE  r \in IntelResult
<1>1. ASSUME NEW q \in {"abuseipdb", "otx", "opencti"}, NEW m \in BOOLEAN, NEW n \in 0..100
      PROVE  Answer(q, m, n) \in IntelResult
  BY DEF Answer, IntelResult
<1>2. CASE p = "abuseipdb"
  <2>1. PICK score \in Scores, whitelisted \in BOOLEAN :
          r = Answer("abuseipdb", score >= 50 /\ ~ whitelisted, AtMost(score, 100))
    BY <1>2 DEF Answers, AbuseIPDBAnswers
  <2>2. AtMost(score, 100) \in 0..100
    BY DEF AtMost, Scores
  <2>3. (score >= 50 /\ ~ whitelisted) \in BOOLEAN
    OBVIOUS
  <2> QED BY <1>1, <2>1, <2>2, <2>3
<1>3. CASE p = "otx"
  <2>1. PICK pulses \in PulseCounts :
          r = Answer("otx", pulses >= 3, AtMost(10 * pulses, 100))
    BY <1>3 DEF Answers, OTXAnswers
  <2>2. AtMost(10 * pulses, 100) \in 0..100
    BY DEF AtMost, PulseCounts
  <2>3. (pulses >= 3) \in BOOLEAN
    OBVIOUS
  <2> QED BY <1>1, <2>1, <2>2, <2>3
<1>4. CASE p = "opencti"
  <2>1. CASE r = NotFound
    BY <2>1 DEF NotFound, Answer, IntelResult
  <2>2. CASE r \in OpenCTIFound
    <3>1. PICK score \in Scores, active \in BOOLEAN, attributed \in BOOLEAN :
            r = Answer("opencti", score >= 50 \/ active,
                       AtLeast(AtMost(score, 100),
                               IF attributed THEN 80 ELSE IF active THEN 60 ELSE 0))
      BY <2>2, SMT DEF OpenCTIFound
    <3> DEFINE floor == IF attributed THEN 80 ELSE IF active THEN 60 ELSE 0
    <3>2. floor \in 0..100 /\ AtMost(score, 100) \in 0..100
      BY DEF AtMost, Scores
    <3>0. r = Answer("opencti", score >= 50 \/ active, AtLeast(AtMost(score, 100), floor))
      BY <3>1
    <3> HIDE DEF floor
    <3>3. AtLeast(AtMost(score, 100), floor) \in 0..100
      BY <3>2 DEF AtLeast
    <3>4. (score >= 50 \/ active) \in BOOLEAN
      OBVIOUS
    <3> QED BY <1>1, <3>0, <3>3, <3>4
  <2> QED BY <1>4, <2>1, <2>2 DEF Answers
<1> QED BY <1>2, <1>3, <1>4, IntelAssumption

\* So is what the service makes of them.
LEMMA QueryIsResult ==
  ASSUME NEW i \in Ioc, NEW results, IsFiniteSet(results), results \subseteq IntelResult
  PROVE  query(i, results) \in IntelResult
<1>1. CASE results = {}
  <2>1. MockAnswer(i) \in IntelResult
    <3> DEFINE confidence == CASE IocType[i] = "ip" -> IF i \in KnownBad THEN 85 ELSE 30
                               [] IocType[i] = "domain" -> IF i \in KnownBad THEN 92 ELSE 10
                               [] IocType[i] = "file_hash" -> IF i \in KnownBad THEN 90 ELSE 10
    <3>1. IocType[i] \in {"ip", "domain", "file_hash"}
      BY IntelAssumption
    <3>2. confidence \in 0..100
      BY <3>1
    <3> HIDE DEF confidence
    <3>3. MockAnswer(i) = [provider |-> "mock", malicious |-> i \in KnownBad, confidence |-> confidence]
      BY Zenon DEF MockAnswer, Answer, confidence
    <3> QED BY <3>2, <3>3 DEF IntelResult
  <2>2. Answer("none", FALSE, 0) \in IntelResult
    BY DEF Answer, IntelResult
  <2>3. query(i, results) = IF FallbackToMock THEN MockAnswer(i) ELSE Answer("none", FALSE, 0)
    <3>1. Cardinality(results) # 1
      BY <1>1, FS_EmptySet
    <3> DEFINE fallback == IF FallbackToMock THEN MockAnswer(i) ELSE Answer("none", FALSE, 0)
    <3> HIDE DEF fallback
    <3>2. query(i, results) = CASE results = {} -> fallback
                                [] Cardinality(results) = 1 -> CHOOSE r \in results : TRUE
                                [] OTHER -> synthesize(results)
      BY Zenon DEF query, fallback
    <3> QED BY <1>1, <3>1, <3>2 DEF fallback
  <2>4. CASE FallbackToMock
    BY <2>1, <2>3, <2>4
  <2>5. CASE ~ FallbackToMock
    BY <2>2, <2>3, <2>5
  <2> QED BY <2>4, <2>5
<1>2. CASE Cardinality(results) = 1
  <2>1. PICK r : results = {r}
    BY <1>2, FS_Singleton
  <2>2. query(i, results) = r
    BY <1>2, <2>1 DEF query
  <2> QED BY <2>1, <2>2
<1>3. CASE results # {} /\ Cardinality(results) # 1
  <2>1. query(i, results) = synthesize(results)
    BY <1>3 DEF query
  <2> DEFINE confidence == CASE Cardinality(Hits(results)) >= 2 -> 75
                             [] Cardinality(Hits(results)) = 1 -> 45
                             [] OTHER -> 10
  <2>2. confidence \in 0..100
    OBVIOUS
  <2> HIDE DEF confidence
  <2>3. synthesize(results) =
          [provider |-> "synthesizer", malicious |-> Hits(results) # {}, confidence |-> confidence]
    BY Zenon DEF synthesize, Answer, confidence
  <2> QED BY <2>1, <2>2, <2>3 DEF IntelResult
<1> QED BY <1>1, <1>2, <1>3

\* Whatever the LLM writes, the report has a known severity and a confidence
\* between 0 and 100 (provider.py:80-139).
LEMMA NormalizesToReport ==
  ASSUME NEW output \in Outputs, ~ ProviderError(output), ~ NormalizeRaises(output)
  PROVE  normalize(output) \in Report
<1>1. output.kind \in {"empty_list", "object"}
  BY InvestigationAssumption DEF ProviderError, NormalizeRaises
<1>2. CASE output.kind = "empty_list"
  BY <1>2 DEF normalize, Report, Severity
<1>3. CASE output.kind = "object"
  <2> DEFINE v == output.confidence
  <2>1. v \in WrittenConfidence
    BY <1>3, InvestigationAssumption
  <2> HIDE DEF v
  <2>2. coerce_confidence(v) \in 0..100
    <3>1. CASE v \in {"number"} \X Int
      <4>1. v[1] = "number" /\ v[2] \in Int
        BY <3>1
      <4>2. coerce_confidence(v) = clamp_or_percent(v[2])
        BY <4>1 DEF coerce_confidence
      <4>3. clamp_or_percent(v[2]) \in 0..100
        BY <4>1 DEF clamp_or_percent
      <4> QED BY <4>2, <4>3
    <3>2. CASE v \in {"bool"} \X BOOLEAN
      <4>1. v[1] = "bool"
        BY <3>2
      <4>2. coerce_confidence(v) = IF v[2] THEN 80 ELSE 20
        BY <4>1 DEF coerce_confidence
      <4> QED BY <4>2
    <3>3. CASE v \in {"word"} \X DOMAIN WordMap
      <4>1. v[1] = "word" /\ v[2] \in DOMAIN WordMap
        BY <3>3
      <4>2. coerce_confidence(v) = WordMap[v[2]]
        BY <4>1 DEF coerce_confidence
      <4>3. WordMap[v[2]] \in 0..100
        BY <4>1 DEF WordMap
      <4> QED BY <4>2, <4>3
    <3>4. CASE v = <<"other">>
      BY <3>4 DEF coerce_confidence
    <3> QED BY <2>1, <3>1, <3>2, <3>3, <3>4 DEF WrittenConfidence
  <2>3. normalize(output) =
          [severity |-> IF output.severity \in Severity THEN output.severity ELSE "medium",
           confidence |-> coerce_confidence(v)]
    BY <1>3 DEF normalize, v
  <2> QED BY <2>2, <2>3 DEF Report, Severity
<1> QED BY <1>1, <1>2, <1>3

\* With an indicator's results typed, their set is finite
LEMMA TypedResults ==
  ASSUME IocInv, answers \subseteq Ioc \X IntelResult, NEW i
  PROVE  IsFiniteSet(Results(i)) /\ Results(i) \subseteq IntelResult
  BY DEF IocInv, AnswersOK, Results

\* Escalation changes the autonomy of actions, never their number.
LEMMA PlannedType == ASSUME playbook \in ActionPlan PROVE Planned \in ActionPlan
<1> DEFINE A == [type : STRING, autonomy : {"L1", "L2", "L3", "L4", "L5"}]
<1>1. playbook \in Seq(A) /\ ActionPlan = Seq(A)
  BY DEF ActionPlan
<1>2. ASSUME NEW action \in A PROVE Escalate(action) \in A
  BY DEF Escalate
<1> HIDE DEF A
<1>3. Len(playbook) \in Nat /\ playbook \in [1..Len(playbook) -> A]
  BY <1>1
<1>4. [n \in DOMAIN playbook |-> Escalate(playbook[n])] \in [1..Len(playbook) -> A]
  BY <1>2, <1>3
<1>5. [n \in DOMAIN playbook |-> Escalate(playbook[n])] \in Seq(A)
  BY <1>3, <1>4
<1> QED BY <1>1, <1>5 DEF Planned

\* The types of what the nodes hand on and store
Typed ==
  /\ criticality \in Severity
  /\ playbook \in ActionPlan
  /\ DOMAIN state = SecSightState
  /\ asked \subseteq Ioc \X Provider
  /\ answers \subseteq Ioc \X IntelResult
  /\ ioc_summary \subseteq Nat \X Ioc \X IntelResult
  /\ row.status \in {"open", "investigating", "pending_approval"}
  /\ DOMAIN row.context \subseteq Part
  /\ row.judgment \in {<<>>} \cup {<<report>> : report \in Report}
  /\ row.actions \in ActionPlan

LEMMA TypedSuffices == ASSUME IocInv, Typed PROVE TypeOK
<1>1. pc \in Place
  BY DEF IocInv, Inv, CarriedOK
<1>2. at \in 1..Len(Alerts) + 1
  <2>1. Len(Alerts) \in Nat
    BY InvestigationAssumption
  <2> QED BY <2>1 DEF IocInv, ListedOK, EnrichedAlerts, AtMost
<1> QED BY <1>1, <1>2 DEF Typed, TypeOK

LEMMA TypedInit == ASSUME Init PROVE Typed
<1>1. <<>> \in ActionPlan
  BY DEF ActionPlan
<1>2. criticality \in Severity /\ playbook \in ActionPlan
  BY InvestigationAssumption DEF Init, ActionPlan
<1>3. DOMAIN state = SecSightState
  BY DEF Init, returned, SecSightState
<1>4. /\ row.status \in {"open", "investigating", "pending_approval"}
      /\ row.context = NoContext /\ row.judgment = <<>> /\ row.actions = <<>>
  BY DEF Init
<1>5. DOMAIN NoContext = {}
  BY DEF NoContext
<1> QED BY <1>1, <1>2, <1>3, <1>4, <1>5 DEF Init, Typed

\* A node hands every channel on.
LEMMA ChannelsKept ==
  ASSUME DOMAIN state = SecSightState, NEW key, NEW value, NEW dictionary,
         DOMAIN state \subseteq DOMAIN dictionary,
         state' = returned(With(dictionary, key, value))
  PROVE  DOMAIN state' = SecSightState
  BY DEF returned, With

\* A node that stores a part of the context
LEMMA TypedStores ==
  ASSUME IocInv, Typed, NEW key \in Part, NEW value, NEW dictionary,
         dictionary = state \/ (\E x : dictionary = With(state, "ir_priority", x)),
         StoreContext(key, value, dictionary),
         UNCHANGED <<criticality, playbook, enriching>>
  PROVE  Typed'
<1>1. CarriedOK
  BY DEF IocInv, Inv
<1>2. /\ row' = [row EXCEPT !.context = row'.context]
      /\ DOMAIN row'.context = DOMAIN row.context \cup {key}
  <2>1. DOMAIN row'.context = DOMAIN row.context \cup {key}
    BY <1>1, Stores
  <2>2. \E e : row' = [row EXCEPT !.context = e]
    BY DEF StoreContext
  <2> QED BY <1>1, <2>1, <2>2 DEF CarriedOK
<1>3. /\ row'.status = row.status /\ row'.judgment = row.judgment
      /\ row'.actions = row.actions
  <2>1. \E e : row' = [row EXCEPT !.context = e]
    BY DEF StoreContext
  <2> QED BY <1>1, <2>1 DEF CarriedOK
<1>4. DOMAIN state' = SecSightState
  <2>1. DOMAIN state \subseteq DOMAIN dictionary
    BY DEF With
  <2>2. \E e : state' = returned(With(dictionary, "enriched_context", e))
    BY DEF StoreContext
  <2> QED BY <2>1, <2>2, ChannelsKept DEF Typed
<1> QED BY <1>2, <1>3, <1>4 DEF Typed, enriching

\* What a node stores elsewhere in the case row
LEMMA RowTyped ==
  ASSUME IocInv, Typed, UNCHANGED <<criticality, playbook, enriching>>,
         DOMAIN state' = SecSightState,
         \/ /\ row' = [row EXCEPT !.status = row'.status]
            /\ row'.status \in {"open", "investigating", "pending_approval"}
         \/ /\ row' = [row EXCEPT !.judgment = row'.judgment]
            /\ row'.judgment \in {<<report>> : report \in Report}
         \/ /\ row' = [row EXCEPT !.actions = row'.actions]
            /\ row'.actions \in ActionPlan
         \/ row' = row
  PROVE  Typed'
<1>1. DOMAIN row = {"status", "context", "judgment", "actions"}
  BY DEF IocInv, Inv, CarriedOK
<1>2. /\ row'.status \in {"open", "investigating", "pending_approval"}
      /\ row'.context = row.context
      /\ row'.judgment \in {<<>>} \cup {<<report>> : report \in Report}
      /\ row'.actions \in ActionPlan
  BY <1>1 DEF Typed
<1> QED BY <1>2 DEF Typed, enriching

\* Questions and answers of one alert
LEMMA TypedGather ==
  ASSUME IocInv, Typed,
         \/ enrich_alert
         \/ summarize
         \/ \E i \in Ioc, p \in Provider : provider_answers(i, p) \/ provider_fails(i, p)
  PROVE  Typed'
<1>1. ASSUME at \in 1..EnrichedAlerts
      PROVE  at \in Nat /\ at \in DOMAIN Alerts /\ Alerts[at] \subseteq Ioc
  BY <1>1, InvestigationAssumption DEF EnrichedAlerts, AtMost
<1>2. CASE enrich_alert
  <2>1. at \in 1..EnrichedAlerts
    BY <1>2, EnrichedType DEF enrich_alert, IocInv, ListedOK
  <2>2. Questions(at) \subseteq Ioc \X Provider
    BY <1>1, <2>1 DEF Questions
  <2> QED BY <1>2, <2>2 DEF enrich_alert, Typed
<1>3. CASE summarize
  <2>1. at \in 1..EnrichedAlerts
    BY <1>3, EnrichedType DEF summarize, IocInv, ListedOK
  <2>2. ASSUME NEW i \in Alerts[at]
        PROVE  <<at, i, query(i, Results(i))>> \in Nat \X Ioc \X IntelResult
    <3>1. i \in Ioc /\ at \in Nat
      BY <1>1, <2>1
    <3>2. answers \subseteq Ioc \X IntelResult
      BY DEF Typed
    <3>3. IsFiniteSet(Results(i)) /\ Results(i) \subseteq IntelResult
      BY <3>2, TypedResults
    <3>4. query(i, Results(i)) \in IntelResult
      BY <3>1, <3>3, QueryIsResult
    <3> QED BY <3>1, <3>4
  <2>3. ioc_summary' \subseteq Nat \X Ioc \X IntelResult
    BY <1>3, <2>2 DEF summarize, Typed
  <2>4. asked' \subseteq Ioc \X Provider /\ answers' \subseteq Ioc \X IntelResult
    BY <1>3 DEF summarize, Typed
  <2> QED BY <1>3, <2>3, <2>4 DEF summarize, Typed
<1>4. ASSUME NEW i \in Ioc, NEW p \in Provider, provider_answers(i, p) \/ provider_fails(i, p)
      PROVE  Typed'
  <2>1. asked' \subseteq Ioc \X Provider
    BY <1>4 DEF provider_answers, provider_fails, Typed
  <2>2. answers' \subseteq Ioc \X IntelResult
    BY <1>4, AnswersAreResults DEF provider_answers, provider_fails, Typed
  <2> QED BY <1>4, <2>1, <2>2 DEF provider_answers, provider_fails, Typed
<1> QED BY <1>2, <1>3, <1>4

\* The report of the LLM, or one of the presets
LEMMA TypedReport ==
  ASSUME IocInv, Typed, NEW output \in Outputs,
         \/ analyze_node(output) \/ analyze_node_falls_back(output)
         \/ analyze_node_raises(output)
  PROVE  Typed'
<1>1. ASSUME NEW report \in Report, StoreJudgment(report),
             UNCHANGED <<criticality, playbook, enriching>>
      PROVE  Typed'
  <2>1. DOMAIN row = {"status", "context", "judgment", "actions"}
    BY DEF IocInv, Inv, CarriedOK
  <2>2. /\ row' = [row EXCEPT !.judgment = <<report>>]
        /\ row'.judgment = <<report>>
    BY <1>1, <2>1 DEF StoreJudgment
  <2>3. DOMAIN state' = SecSightState
    BY <1>1, ChannelsKept DEF StoreJudgment, Typed
  <2> QED BY <1>1, <2>2, <2>3, RowTyped
<1>2. CASE analyze_node(output)
  <2>1. normalize(output) \in Report
    BY <1>2, NormalizesToReport DEF analyze_node
  <2> QED BY <1>1, <1>2, <2>1 DEF analyze_node
<1>3. CASE analyze_node_falls_back(output)
  <2>1. PresetReports \subseteq Report
    BY DEF PresetReports, Report, Severity
  <2>2. PICK report \in PresetReports : StoreJudgment(report)
    BY <1>3 DEF analyze_node_falls_back
  <2> QED BY <1>1, <1>3, <2>1, <2>2 DEF analyze_node_falls_back
<1>4. CASE analyze_node_raises(output)
  BY <1>4 DEF analyze_node_raises, enriching, Typed
<1> QED BY <1>2, <1>3, <1>4

\* Plan and fork
LEMMA TypedFork ==
  ASSUME IocInv, Typed, plan_actions_node \/ route_after_plan
  PROVE  Typed'
<1>1. DOMAIN row = {"status", "context", "judgment", "actions"}
  BY DEF IocInv, Inv, CarriedOK
<1>2. CASE plan_actions_node
  <2>1. Planned \in ActionPlan
    BY PlannedType DEF Typed
  <2>2. row' = [row EXCEPT !.actions = row'.actions] /\ row'.actions = Planned
    BY <1>1, <1>2 DEF plan_actions_node
  <2>3. DOMAIN state' = SecSightState
    BY <1>2, ChannelsKept DEF plan_actions_node, Typed
  <2> QED BY <1>2, <2>1, <2>2, <2>3, RowTyped DEF plan_actions_node
<1>3. CASE route_after_plan
  <2>1. DOMAIN state' = SecSightState
    BY <1>3 DEF route_after_plan, Typed
  <2>2. CASE row' = row
    BY <1>3, <2>1, <2>2, RowTyped DEF route_after_plan
  <2>3. CASE row' = [row EXCEPT !.status = "pending_approval"]
    <3>1. row'.status = "pending_approval"
      BY <1>1, <2>3
    <3> QED BY <1>3, <2>1, <2>3, <3>1, RowTyped DEF route_after_plan
  <2> QED BY <1>3, <2>2, <2>3 DEF route_after_plan
<1> QED BY <1>2, <1>3

LEMMA TypedStep == IocInv /\ Typed /\ [Next]_vars => Typed'
<1> SUFFICES ASSUME IocInv, Typed, [Next]_vars PROVE Typed'
  OBVIOUS
<1>1. CASE ingest_alerts_node
  <2>1. row' = [row EXCEPT !.status = "investigating"] /\ row'.status = "investigating"
    BY <1>1 DEF ingest_alerts_node, IocInv, Inv, CarriedOK
  <2>2. DOMAIN state' = SecSightState
    BY <1>1 DEF ingest_alerts_node, Typed
  <2> QED BY <1>1, <2>1, <2>2, RowTyped DEF ingest_alerts_node
<1>2. CASE retrieve_knowledge_node
  BY <1>2 DEF retrieve_knowledge_node, enriching, Typed
<1>3. CASE enrich_alert \/ summarize
  BY <1>3, TypedGather
<1>4. CASE \E i \in Ioc, p \in Provider : provider_answers(i, p) \/ provider_fails(i, p)
  BY <1>4, TypedGather
<1>5. CASE enrich_ioc_node
  <2>1. "iocs" \in Part
    BY DEF Part
  <2> QED BY <1>5, <2>1, TypedStores DEF enrich_ioc_node
<1>6. CASE \E output \in Outputs :
             \/ analyze_node(output) \/ analyze_node_falls_back(output)
             \/ analyze_node_raises(output)
  BY <1>6, TypedReport
<1>7. CASE dfir_capture_node
  <2>1. "forensics" \in Part
    BY DEF Part
  <2> QED BY <1>7, <2>1, TypedStores DEF dfir_capture_node
<1>8. CASE ir_coordinate_node
  <2> DEFINE priority == decide_priority(row.judgment[1], criticality)
  <2>1. "ir_decision" \in Part
    BY DEF Part
  <2>2. /\ StoreContext("ir_decision", priority, With(state, "ir_priority", priority))
        /\ UNCHANGED <<criticality, playbook, enriching>>
    BY <1>8 DEF ir_coordinate_node
  <2> HIDE DEF priority
  <2> QED BY <2>1, <2>2, TypedStores
<1>9. CASE plan_actions_node \/ route_after_plan
  BY <1>9, TypedFork
<1>10. CASE UNCHANGED vars
  BY <1>10 DEF vars, Typed
<1> QED BY <1>1, <1>2, <1>3, <1>4, <1>5, <1>6, <1>7, <1>8, <1>9, <1>10 DEF Next

\* Whatever the sources answer and the LLM writes, what the run hands on and
\* stores has its type: at the fork and after a failure alike (nodes.py:100-400).
THEOREM InvestigationTypeCorrect == Spec => []TypeOK
<1>1. Init => IocInv /\ Typed
  BY InitIocInv, TypedInit
<1>2. IocInv /\ Typed /\ [Next]_vars => (IocInv /\ Typed)'
  BY NextIocInv, TypedStep
<1>3. IocInv /\ Typed => TypeOK
  BY TypedSuffices
<1> QED BY <1>1, <1>2, <1>3, PTL DEF Spec
=============================================================================
