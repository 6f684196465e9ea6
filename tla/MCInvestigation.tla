---------------------------- MODULE MCInvestigation ----------------------------
(* A small case: an address three sources know about, an alert without       *)
(* indicators, a domain two of them know about, and a fourth alert.          *)
EXTENDS Investigation

MCIoc == {"pool_ip", "domain", "late_ip"}
MCIocType == [pool_ip |-> "ip", domain |-> "domain", late_ip |-> "ip"]
MCKnownBad == {"pool_ip"}
MCProvider == {"abuseipdb", "otx", "opencti"}
MCAlerts == <<{"pool_ip"}, {}, {"domain"}, {"late_ip"}>>

MCCriticality == {"medium", "critical"}

\* playbooks/phase2/phishing.yaml has no L2 action, but a critical one; and a
\* mixed playbook
MCPlaybooks ==
  {<<[type |-> "block_domain", autonomy |-> "L3"], [type |-> "notify", autonomy |-> "L4"]>>,
   <<[type |-> "notify", autonomy |-> "L4"], [type |-> "kill_process", autonomy |-> "L2"]>>,
   <<>>}

Failures == {[kind |-> k] : k \in {"call_failed", "no_json", "empty_list"}}
Objects ==
  {Object("critical", <<"number", 85>>, TRUE, TRUE),
   Object("high", <<"number", 8500>>, TRUE, TRUE),
   Object("high", <<"number", 150>>, TRUE, TRUE),
   Object("high", <<"word", "low">>, TRUE, TRUE),
   Object("odd", <<"number", -20>>, TRUE, TRUE),
   Object("low", <<"bool", TRUE>>, TRUE, TRUE),
   Object("low", <<"other">>, TRUE, FALSE)}
Raisers == {[kind |-> "no_object"], Object("high", <<"number", 90>>, FALSE, TRUE)}

MCOutputs == Failures \cup Objects \cup Raisers
-----------------------------------------------------------------------------
(* What is learned from a case once it is closed                           *)

SR == INSTANCE SedimentRules

\* A case as it is read twice: before a poll result came in, and after it
Learned(ttps, raws, executions) ==
  [case_id |-> "c", ttps |-> ttps, odd |-> FALSE, execution_log |-> executions,
   alerts |-> [n \in DOMAIN raws |-> [src |-> "10.0.1.15", dst |-> "None", raw |-> raws[n]]]]
Raws ==
  {<<>>, <<[process_name |-> "xmrig"]>>,
   <<[hash |-> "", file_hash |-> "h"], [domain |-> "d"], [file_hash |-> "h"]>>}
LearnedCases ==
  {Learned(ttps, raws, log) :
     ttps \in {<<>>, <<"T1496">>, <<"T1053.003", "T1190">>}, raws \in Raws,
     log \in {<<"executing">>, <<"success">>}}
Services ==
  [qdrant : {"off", "taken", "refused", "answer_lost"}, disk : {"written", "full", "unwritable"},
   audit : BOOLEAN]
Unlearned == [points |-> <<>>, files |-> <<>>]
Sedimented(world, case, services) ==
  SR!sediment_case(world, [c |-> case], "c", services)

\* A case sedimented again is as if only the last time had been, if each store took
\* it that time: one point and one file (sediment.py:241 and the id of the chunk)
ASSUME SedimentOverwrites ==
  \A before, after \in LearnedCases, first, second \in Services :
    second.qdrant = "taken" /\ second.disk = "written" =>
      Sedimented(Sedimented(Unlearned, before, first).world, after, second)
        = Sedimented(Unlearned, after, second)

\* What is reported as stored is stored; a reported zero may be a stored point, a
\* missing path a file cut off, and an exception may follow two writes
ASSUME ReportsAreConservative ==
  /\ \A case \in LearnedCases, services \in Services :
       LET result == Sedimented(Unlearned, case, services)
       IN  result.outcome = "sedimented" =>
             /\ result.qdrant_points = 1 => "c" \in DOMAIN result.world.points
             /\ result.l1_yaml_path => result.world.files["c"].whole
  /\ \E case \in LearnedCases, services \in Services :
       LET result == Sedimented(Unlearned, case, services)
       IN  result.outcome = "raises" /\ result.world # Unlearned
  /\ SR!sediment_case(Unlearned, <<>>, "c", CHOOSE s \in Services : TRUE).outcome = "not_found"

\* Every technique gets a rule, a sub-technique not the condition of its parent;
\* an address of an alert is called malicious whoever's it is; hashes and
\* domains are kept and make no rule
ASSUME RulesOfACase ==
  LET knowledge ==
        SR!extract_case_knowledge(Learned(<<"T1053.003", "T1190">>, <<[file_hash |-> "h"]>>, <<>>))
      rules == SR!generate_detection_rules(knowledge)
  IN  /\ knowledge.iocs.hashes = {"h"}
      /\ [n \in DOMAIN rules |-> <<rules[n].kind, rules[n].selects>>]
           = <<<<"ttp", "mitre_id">>, <<"ttp", "fields">>, <<"ioc_ips", "src_ip">>>>
      /\ rules[3].values = {"10.0.1.15"}
=============================================================================
