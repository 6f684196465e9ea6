----------------------------- MODULE SedimentRules -----------------------------
(***************************************************************************)
(* What a closed case leaves behind: the knowledge taken from it, the      *)
(* detection rules made of that, its point in Qdrant and its file in       *)
(* knowledge/L1_tactic/derived.  Pure; the two stores are an argument and  *)
(* a result.  Ids that are drawn, dates and wording are left out.          *)
(***************************************************************************)
EXTENDS Sequences, SequencesExt, TLC

Missing == {"", "None"}

\* Indicators as the alerts name them; raw has the keys it has
iocs(alerts) ==
  LET all == ToSet(alerts)
      named(field) == {a.raw[field] : a \in {x \in all : field \in DOMAIN x.raw}}
      hash(raw) ==
        IF "hash" \in DOMAIN raw /\ raw["hash"] \notin Missing THEN raw["hash"]
        ELSE IF "file_hash" \in DOMAIN raw THEN raw["file_hash"] ELSE "None"
  IN  [ips |-> UNION {{a.src, a.dst} : a \in all} \ Missing,
       domains |-> named("domain"), processes |-> named("process_name"),
       hashes |-> {hash(a.raw) : a \in {x \in all : DOMAIN x.raw \cap {"hash", "file_hash"} # {}}}]

\* ttps: the technique ids of the judgment, none without one
extract_case_knowledge(case) ==
  [case_id |-> case.case_id, ttps |-> case.ttps, iocs |-> iocs(case.alerts),
   executions |-> case.execution_log]

\* The techniques with a condition of their own; any other, a sub-technique
\* too, is looked for by its id alone
ttp_fields == {"T1496", "T1486", "T1053", "T1110", "T1190", "T1071"}

Rule(kind, selects, values) == [kind |-> kind, selects |-> selects, values |-> values]

\* One rule per technique, one for all addresses (looked for as sources), one
\* for all processes; domains and hashes make none
generate_detection_rules(knowledge) ==
  LET by_ttp(ttp) ==
        Rule("ttp", IF ttp \in ttp_fields THEN "fields" ELSE "mitre_id", {ttp})
      by_ioc(kind, selects, values) ==
        IF values = {} THEN <<>> ELSE <<Rule(kind, selects, values)>>
  IN  [n \in DOMAIN knowledge.ttps |-> by_ttp(knowledge.ttps[n])]
        \o by_ioc("ioc_ips", "src_ip", knowledge.iocs.ips)
        \o by_ioc("ioc_process", "process_name", knowledge.iocs.processes)

\* Qdrant is off, takes the point, refuses it, or takes it while the answer is
\* lost; a case has one point
vectorize_to_qdrant(points, knowledge, qdrant) ==
  [points |-> IF qdrant \in {"taken", "answer_lost"} THEN knowledge.case_id :> knowledge @@ points
              ELSE points,
   count  |-> IF qdrant = "taken" THEN 1 ELSE 0]

\* The file of a case is written anew; a write that fails leaves it cut off
write_l1_yaml(files, knowledge, rules, disk) ==
  LET doc == [knowledge |-> knowledge, rules |-> rules, whole |-> disk = "written"]
  IN  [files |-> IF disk = "unwritable" THEN files ELSE knowledge.case_id :> doc @@ files,
       path  |-> disk = "written"]

\* sediment_case: world is both stores, services what each of them does; the
\* record in the audit log comes last and may fail
sediment_case(world, cases, case_id, services) ==
  IF case_id \notin DOMAIN cases THEN [outcome |-> "not_found", world |-> world]
  ELSE IF cases[case_id].odd THEN [outcome |-> "raises", world |-> world]
  ELSE LET knowledge == extract_case_knowledge(cases[case_id])
           rules == generate_detection_rules(knowledge)
           vector == vectorize_to_qdrant(world.points, knowledge, services.qdrant)
           yaml == write_l1_yaml(world.files, knowledge, rules, services.disk)
           stored == [points |-> vector.points, files |-> yaml.files]
       IN  IF ~ services.audit THEN [outcome |-> "raises", world |-> stored]
           ELSE [outcome |-> "sedimented", world |-> stored, rules |-> rules,
                 qdrant_points |-> vector.count, l1_yaml_path |-> yaml.path]
=============================================================================
