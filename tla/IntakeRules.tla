------------------------------ MODULE IntakeRules ------------------------------
(***************************************************************************)
(* What becomes an alert, and of which incident it is: the payloads of     *)
(* Wazuh and of the four vendors' devices, the lines of alerts.json, the   *)
(* preset alerts and the findings of the proactive agents; the token of    *)
(* the webhooks, the aggregation key, and the search over stored alerts.   *)
(* Pure, without state.                                                    *)
(*                                                                         *)
(* A part of a payload is a record with the keys it has, None standing for *)
(* null.  Instead of its text a payload carries text, the trigger patterns *)
(* in it (a message is part of it), and odd: a part of it has the wrong    *)
(* type, so that parsing raises.                                           *)
(***************************************************************************)
EXTENDS MockAlerts, Integers, Sequences, FiniteSets, SequencesExt

Falsy == {"", None}

\* data.get(key, default), and str of a value that may be null
Get(data, field, default) == IF field \in DOMAIN data THEN data[field] ELSE default
str(value) == IF value = None THEN "null" ELSE value

\* data.get(k1) or data.get(k2) or ... or default
FirstOf(data, fields, default) ==
  LET n == SelectInSeq(fields, LAMBDA field : Get(data, field, None) \notin Falsy)
  IN  IF n = 0 THEN default ELSE data[fields[n]]

\* Rule, host and source address, hashed.  Equal keys of different triples
\* (a separator inside a field, a collision) are left out
compute_agg_key(alert) ==
  LET text(value) == IF value \in Falsy THEN "" ELSE value
  IN  <<text(alert.rule),
        IF alert.host \in Falsy THEN text(alert.host_id) ELSE alert.host,
        text(alert.src)>>

\* The webhooks' shared secret: without one nothing is let in
verify_webhook_token(expected, provided) ==
  expected # "" /\ provided # "" /\ provided = expected
-----------------------------------------------------------------------------
(* Wazuh                                                                   *)

level_to_severity(level) ==
  CASE level >= 12 -> "critical"
    [] level \in 8..11 -> "high"
    [] level \in 5..7 -> "medium"
    [] OTHER -> "low"

parse_wazuh_alert(data) ==
  LET level == Get(data.rule, "level", 3)
  IN  [source |-> "wazuh", rule |-> str(Get(data.rule, "id", "")), level |-> level,
       severity |-> level_to_severity(level), sigma |-> data.sigma_id,
       techniques |-> data.techniques, text |-> data.text, message |-> {},
       ports |-> data.ports, host_id |-> Get(data.agent, "id", None),
       host |-> Get(data.agent, "name", ""), src |-> Get(data.data, "srcip", None),
       dst |-> Get(data.data, "dstip", None)]

\* What a source hands over to be ingested; after an error nothing
Failed == [ok |-> FALSE, alerts |-> <<>>]
Received(alerts) == [ok |-> TRUE, alerts |-> alerts]

wazuh_webhook(data) == IF data.odd THEN Failed ELSE Received(<<parse_wazuh_alert(data)>>)

\* read_alerts_json: blank and torn lines are skipped, reading stops after the
\* line that makes max_alerts, an odd line before that loses them all
read_alerts_json(lines, max_alerts) ==
  LET parsed(n) == {m \in 1..n : lines[m].kind = "alert"}
      enough == {n \in parsed(Len(lines)) : Cardinality(parsed(n)) >= max_alerts}
      last == IF enough = {} THEN Len(lines) ELSE CHOOSE n \in enough : \A m \in enough : n <= m
      read == SubSeq(lines, 1, last)
      alerts == SelectSeq(read, LAMBDA line : line.kind = "alert")
  IN  IF \E n \in 1..last : lines[n].kind = "odd" THEN Failed
      ELSE Received([n \in 1..Len(alerts) |-> parse_wazuh_alert(alerts[n].data)])

\* A poll reads the file if one is configured; else it asks the manager, whose
\* answer is all or nothing
poll_wazuh_alerts(wazuh_alerts_json, lines, events, limit) ==
  IF wazuh_alerts_json THEN read_alerts_json(lines, limit)
  ELSE IF ~ events.ok \/ \E n \in DOMAIN events.items : events.items[n].odd THEN Failed
  ELSE Received([n \in DOMAIN events.items |-> parse_wazuh_alert(events.items[n])])
-----------------------------------------------------------------------------
(* Devices                                                                 *)

Device == {"qianxin", "topsec", "sangfor", "nsfocus"}

\* A severity is absent, a number or a word, which a device may write as it likes
map_severity(raw) ==
  CASE raw.kind = "none" -> "medium"
    [] raw.kind = "number" ->
         CASE raw.number >= 8 -> "critical"
           [] raw.number \in 5..7 -> "high"
           [] raw.number \in 3..4 -> "medium"
           [] OTHER -> "low"
    [] raw.kind = "word" ->
         CASE raw.word \in {"critical", "high", "low"} -> raw.word
           [] raw.word = "info" -> "low"
           [] OTHER -> "medium"

severity_to_level(severity) ==
  CASE severity = "critical" -> 12 [] severity = "high" -> 10
    [] severity = "medium" -> 6 [] severity = "low" -> 3

\* Where each device writes its rule, its host (and what it is called if it
\* does not say) and the source address
RuleFields ==
  [qianxin |-> <<"rule_id", "alert_id">>, topsec |-> <<"rule_id", "sig_id">>,
   sangfor |-> <<"rule_id">>, nsfocus |-> <<"rule_id", "sig_id", "vuln_id">>]
HostFields ==
  [qianxin |-> <<"sensor", "device", "asset">>, topsec |-> <<"device">>,
   sangfor |-> <<"device">>, nsfocus |-> <<"sensor", "device">>]
DefaultHost ==
  [qianxin |-> "qianxin-sensor", topsec |-> "topsec-fw",
   sangfor |-> "sangfor-ac", nsfocus |-> "nsfocus-ids"]
SourceFields(device) ==
  IF device \in {"qianxin", "sangfor"} THEN <<"src_ip", "srcip">> ELSE <<"src_ip">>
TargetFields(device) ==
  IF device \in {"qianxin", "sangfor"} THEN <<"dst_ip", "dstip">> ELSE <<"dst_ip">>

\* data.fields are the texts of the payload; only qianxin names techniques
parse_device(device, data) ==
  LET severity == map_severity(data.severity)
  IN  [source |-> device, rule |-> FirstOf(data.fields, RuleFields[device], ""),
       level |-> severity_to_level(severity), severity |-> severity,
       sigma |-> Get(data.fields, "sigma_id", ""),
       techniques |-> IF device = "qianxin" THEN data.techniques ELSE <<>>,
       text |-> data.text, message |-> {}, ports |-> data.ports, host_id |-> None,
       host |-> FirstOf(data.fields, HostFields[device], DefaultHost[device]),
       src |-> FirstOf(data.fields, SourceFields(device), None),
       dst |-> FirstOf(data.fields, TargetFields(device), None)]

device_webhook(device, data) ==
  IF device \notin Device \/ data.odd THEN Failed ELSE Received(<<parse_device(device, data)>>)
-----------------------------------------------------------------------------
(* Proactive agents                                                        *)

\* What the agents find as they are built: fixed samples
VULNERABILITIES ==
  <<[asset |-> "web-prod-01", severity |-> "high"], [asset |-> "db-prod-01", severity |-> "medium"]>>
HUNTS == [n \in 1..3 |-> [status |-> "hunting"]]
FAILED_BASELINES == {<<"web-prod-01", "CIS-4.1">>, <<"db-prod-01", "CIS-2.3">>}
COVERAGE_GAPS == {"T1486", "T1053.003"}

count_findings(agent) ==
  CASE agent = "threat_hunting" -> Len(HUNTS)
    [] agent = "vuln_scan" -> Len(VULNERABILITIES)
    [] agent = "detection_engineering" -> Cardinality(COVERAGE_GAPS)
    [] agent = "asset_hardening" -> Cardinality(FAILED_BASELINES)
    [] OTHER -> 0

\* A finding has no address, and its rule is its source; none of the samples
\* holds a trigger pattern
finding_to_alert(finding, severity, source) ==
  LET asset == Get(finding, "asset", None)
  IN  [source |-> source, rule |-> "proactive_" \o source,
       level |-> IF severity \in {"critical", "high"} THEN 10 ELSE 5,
       severity |-> severity, sigma |-> "", techniques |-> <<>>, text |-> {},
       message |-> {}, ports |-> {}, host_id |-> asset, host |-> asset,
       src |-> None, dst |-> None]

\* The alerts of a run that found so much: severe vulnerabilities and
\* confirmed hunts
cases_of(agent, vulnerabilities, hunts) ==
  LET severe == SelectSeq(vulnerabilities, LAMBDA v : v.severity \in {"critical", "high"})
      hits == SelectSeq(hunts, LAMBDA h : h.status = "confirmed")
  IN  CASE agent = "vuln_scan" ->
             [n \in DOMAIN severe |-> finding_to_alert(severe[n], severe[n].severity, agent)]
        [] agent = "threat_hunting" ->
             [n \in DOMAIN hits |->
                finding_to_alert(hits[n], Get(hits[n], "severity", "high"), agent)]
        [] OTHER -> <<>>

maybe_create_cases(agent) == cases_of(agent, VULNERABILITIES, HUNTS)
-----------------------------------------------------------------------------
(* Search                                                                  *)

\* search_alerts without OpenSearch: the alerts of the newest 200 cases in the
\* order of cases and alerts, cut after the hit that makes size.  A size below
\* one stops at the first hit, and anyhow after the first case.  cases is the
\* sequence of the recent cases' alerts, newest case first; blob is what can be
\* found in an alert
ScanLimit == 200
FirstN(seq, n) == SubSeq(seq, 1, IF Len(seq) < n THEN Len(seq) ELSE n)
search_alerts(cases, needle, size) ==
  LET scanned == FlattenSeq(FirstN(cases, IF size < 1 THEN 1 ELSE ScanLimit))
      hits == SelectSeq(scanned, LAMBDA alert : needle \in alert.blob)
  IN  FirstN(hits, IF size < 1 THEN 1 ELSE size)
=============================================================================
