---------------------------- MODULE MCCaseIntake ----------------------------
(* A small instance of CaseIntake whose feeds receive what the sources     *)
(* deliver: a poll of alerts.json and the webhook, which start workflows   *)
(* in the background, and a scheduled and a manual vulnerability scan,     *)
(* which await them.                                                       *)
EXTENDS CaseIntake, IntakeRules, PlaybookRules, TLC

CONSTANTS r1, r2

\* The shipped playbooks, in the order they are loaded, with the triggers that
\* tell the alerts here apart
MCPlaybooks ==
  <<[Playbook("bruteforce", "P0", {"ssh_bruteforce"}, {"T1110", "T1110.001", "T1021.004"})
     EXCEPT !.wazuh_rules = {"5710", "5712", "5720"}],
    [Playbook("cryptominer", "P0",
        {"suspicious_cryptominer_process", "cryptomining_stratum_protocol"},
        {"T1496", "T1071.001"})
     EXCEPT !.wazuh_rules = {"550", "5710"}, !.names = <<"xmrig">>, !.pool_ports = {"3333"},
            !.cmdline_contains =
              <<"stratum+tcp://", "--cpu-max-threads-hint", "pool.supportxmr.com">>],
    [Playbook("log_compliance", "P0", {"log_collection_stopped"}, {"T1562", "T1070.002"})
     EXCEPT !.wazuh_rules = {"504"}],
    [Playbook("persistence", "P0", {"suspicious_crontab_modification"}, {"T1053.003"})
     EXCEPT !.wazuh_rules = {"550", "5710"}, !.commands = <<"crontab">>],
    [Playbook("ransomware", "P0", {}, {"T1486", "T1490"})
     EXCEPT !.wazuh_rules = {"550", "5710", "594"}],
    Playbook("service_crash", "P0", {"critical_service_stopped"}, {"T1489", "T1499"}),
    [Playbook("api_abuse", "P0", {"api_abuse"}, {"T1078", "T1110"})
     EXCEPT !.commands = <<"api/private">>],
    Playbook("backup_failure", "P0", {"backup_failure"}, {"T1486"}),
    Playbook("c2_communication", "P1", {"c2_beacon_detected"}, {"T1071", "T1573", "T1568"}),
    Playbook("compliance_baseline", "P0", {"compliance_baseline_deviation"}, {}),
    Playbook("data_exfiltration", "P1", {"large_data_transfer", "dns_tunneling"},
             {"T1048", "T1041", "T1567"}),
    Playbook("database_anomaly", "P0", {"database_dump"}, {"T1020", "T1213"}),
    Playbook("ddos_attack", "P0", {"ddos_attack"}, {"T1498"}),
    Playbook("dns_tunneling", "P1", {"dns_tunneling"}, {"T1071.004", "T1048"}),
    [Playbook("file_tampering", "P0", {"file_tampering"}, {"T1561", "T1547"})
     EXCEPT !.wazuh_rules = {"550"}, !.names = <<"bash", "systemd">>],
    [Playbook("lateral_movement", "P1", {"suspicious_smb_admin_share"}, {"T1021", "T1570"})
     EXCEPT !.wazuh_rules = {"601"}, !.commands = <<"psexec">>],
    Playbook("phishing", "P1", {"phishing_email_detected"}, {"T1566", "T1566.001"}),
    [Playbook("privilege_escalation", "P1", {"sudo_abuse"}, {"T1068", "T1548.001"})
     EXCEPT !.wazuh_rules = {"5902"}, !.commands = <<"sudo -i">>],
    Playbook("unauthorized_data_access", "P0", {"unauthorized_sensitive_access"},
             {"T1213", "T1078"}),
    [Playbook("waf_trigger", "P0", {"waf_trigger"}, {"T1190"}) EXCEPT !.wazuh_rules = {"30118"}],
    [Playbook("web_attack", "P1", {"web_sql_injection"}, {"T1190"})
     EXCEPT !.wazuh_rules = {"31151"}, !.commands = <<"or 1=1">>],
    [Playbook("webshell", "P0", {"webshell_upload"}, {"T1505.003"})
     EXCEPT !.names = <<"www-data">>, !.commands = <<"whoami">>]>>

\* alerts.json: a miner reported twice around a torn line, and what a poll of
\* two alerts does not reach: a blank line, an alert without a playbook, an odd line
Event(rule, host, text) ==
  [odd |-> FALSE, rule |-> [id |-> rule, level |-> 12], agent |-> [id |-> "003", name |-> host],
   data |-> [srcip |-> "10.0.1.15"], sigma_id |-> "", techniques |-> <<>>, text |-> text,
   ports |-> {}]
Line(event) == [kind |-> "alert", data |-> event]
MCLines ==
  <<Line(Event("5710", "web-prod-01", {"xmrig"})), [kind |-> "torn"],
    Line(Event("5710", "web-prod-01", {"xmrig"})), [kind |-> "blank"],
    Line(Event("9999", "dc-01", {})), [kind |-> "odd"]>>

MCAlert == {"miner", "again", "third", "cve", "vuln", "rce"}
MCKey == {"m", "v", "w"}
MCKeyOf == [miner |-> "m", again |-> "m", third |-> "m", cve |-> "v", vuln |-> "v", rce |-> "w"]
MCMatched == {"miner", "again", "third"}
MCFeed == {"poll", "webhook", "scheduled", "manual"}
MCAlertsOf ==
  [poll |-> <<"miner", "again">>, webhook |-> <<"third">>, manual |-> <<"vuln">>,
   scheduled |-> <<"cve", "rce">>]

MCScan == {"scheduled", "manual"}

\* Requests for the case that the first alert of the poll opens
MCRequest == {r1, r2}
MCAbout == [r \in MCRequest |-> "miner"]

\* Bound: two of a request, another one, the end of the window and a crash
Disturbances == clock + crashes + Cardinality({r \in Request : request[r] # "idle"})

\* Bound: poll and webhook with two disturbances, or poll and scans with a
\* crash.  The requests are alike, so r1 comes first.
OneScene ==
  /\ Disturbances <= 2
  /\ (\E f \in Scan : Begun(f)) =>
       Disturbances = crashes /\ ~ Begun("webhook")
  /\ request[r2] # "idle" => request[r1] # "idle"

\* These are the alerts the feeds receive, their incidents and their playbooks.
\* The sample of the scan has one severe finding; the loop over the findings is
\* given two where the second vulnerability is severe as well.
Delivered ==
  [poll |-> poll_wazuh_alerts(TRUE, MCLines, [ok |-> FALSE], 2).alerts,
   webhook |-> wazuh_webhook(MCLines[3].data).alerts,
   manual |-> maybe_create_cases("vuln_scan"),
   scheduled |-> cases_of("vuln_scan", [VULNERABILITIES EXCEPT ![2].severity = "critical"], HUNTS)]
Positions == UNION {{f} \X DOMAIN MCAlertsOf[f] : f \in MCFeed}
ASSUME FeedsAreDelivered ==
  /\ \A f \in MCFeed : Len(Delivered[f]) = Len(MCAlertsOf[f])
  /\ \A x, y \in Positions :
       LET a == MCAlertsOf[x[1]][x[2]]
           b == MCAlertsOf[y[1]][y[2]]
           received == Delivered[x[1]][x[2]]
       IN  /\ MCKeyOf[a] = MCKeyOf[b]
                <=> compute_agg_key(received) = compute_agg_key(Delivered[y[1]][y[2]])
           /\ a \in MCMatched <=> match(received, MCPlaybooks) # NoPlaybook
-----------------------------------------------------------------------------
(* What the rules compute, checked against what they are meant to          *)

\* Every preset alert finds the playbook of its scenario
Intended ==
  [t \in DOMAIN MOCK_ALERTS |->
     CASE t \in DOMAIN MinerAlerts -> "cryptominer"
       [] t = "suspicious_crontab" -> "persistence"
       [] t = "ssh_bruteforce" -> "bruteforce"
       [] t = "log_collection_stopped" -> "log_compliance"
       [] t = "critical_service_crash" -> "service_crash"
       [] t = "web_sql_injection" -> "web_attack"
       [] t = "phishing_email" -> "phishing"
       [] t = "webshell_upload" -> "webshell"
       [] OTHER -> t]
InjectRequest(type) == [alert_type |-> type, hostname |-> "h", src_ip |-> "s", dst_ip |-> ""]
ASSUME PresetsFindTheirPlaybook ==
  \A t \in DOMAIN MOCK_ALERTS :
    match(Build(MOCK_ALERTS[t], InjectRequest(t)), MCPlaybooks).id = Intended[t]

\* Any type can be injected but one, and an unknown one is refused
ASSUME OnePresetRaises ==
  {t \in DOMAIN MOCK_ALERTS : inject(InjectRequest(t)).outcome # "ingested"}
    = {"mining_pool_connection"}

\* One pass over the playbooks that keeps the first of the best
Pick(alert, playbooks) ==
  FoldLeft(LAMBDA best, pb :
             LET old == IF best = NoPlaybook THEN 0 ELSE score(alert, best)
                 new == score(alert, pb)
             IN  IF new > old \/ (new = old /\ new > 0 /\
                       PRIORITY_ORDER(pb.priority) < PRIORITY_ORDER(best.priority))
                 THEN pb ELSE best,
           NoPlaybook, playbooks)
SmallPlaybooks ==
  {[Playbook(id, p, s, {}) EXCEPT !.wazuh_rules = r] :
     id \in {"x", "y"}, p \in {"P0", "P1", "P3"}, s \in {{}, {"sigma"}}, r \in {{}, {"5710"}}}
ASSUME MatchIsStable ==
  LET alert == [Delivered.poll[1] EXCEPT !.sigma = "sigma"]
  IN  \A playbooks \in UNION {[1..n -> SmallPlaybooks] : n \in 0..3} :
        match(alert, playbooks) = Pick(alert, playbooks)

\* Reading alerts.json line by line
ReadOn(lines, max_alerts) ==
  FoldLeft(LAMBDA r, line :
             IF r.stop THEN r
             ELSE IF line.kind = "odd" THEN [Failed EXCEPT !.alerts = <<>>] @@ [stop |-> TRUE]
             ELSE IF line.kind # "alert" THEN r
             ELSE LET more == Append(r.alerts, parse_wazuh_alert(line.data))
                  IN  [ok |-> TRUE, alerts |-> more, stop |-> Len(more) >= max_alerts],
           [ok |-> TRUE, alerts |-> <<>>, stop |-> FALSE], lines)
ASSUME PollReadsLineByLine ==
  \A n \in 0..5 : \A lines \in [1..n -> {MCLines[1], MCLines[2], MCLines[5], MCLines[6]}] :
    \A max \in 0..3 :
      LET r == ReadOn(lines, max)
      IN  read_alerts_json(lines, max) = [ok |-> r.ok, alerts |-> r.alerts]
-----------------------------------------------------------------------------
(* The other sources of alerts, and what is done with alerts afterwards    *)

\* A device alert has the level that Wazuh would give its severity
ASSUME LevelsMeanTheSame ==
  \A severity \in {"critical", "high", "medium", "low"} :
    level_to_severity(severity_to_level(severity)) = severity

\* Two hosts with one vulnerability, as RSAS reports them, and one attack
\* reported twice, as Qianxin does: the key joins the first two and parts the others
Payload(fields) ==
  [odd |-> FALSE, severity |-> [kind |-> "word", word |-> "high"], fields |-> fields,
   techniques |-> <<>>, text |-> {}, ports |-> {}]
KeyFrom(device, fields) == compute_agg_key(device_webhook(device, Payload(fields)).alerts[1])
ASSUME DeviceKeys ==
  /\ KeyFrom("nsfocus", [vuln_id |-> "v1", host_ip |-> "10.0.0.1"])
       = KeyFrom("nsfocus", [vuln_id |-> "v1", host_ip |-> "10.0.0.2"])
  /\ KeyFrom("qianxin", [alert_id |-> "1", sensor |-> "s", srcip |-> "10.0.0.1"])
       # KeyFrom("qianxin", [alert_id |-> "2", sensor |-> "s", srcip |-> "10.0.0.1"])

\* The webhooks let nothing in without the secret, nor anything they cannot read
ASSUME WebhooksAreClosed ==
  /\ \A provided \in {"", "token"} : ~ verify_webhook_token("", provided)
  /\ \A device \in Device \cup {"other"} : \A odd \in BOOLEAN :
       device_webhook(device, [Payload([rule_id |-> "r"]) EXCEPT !.odd = odd]).ok
         <=> device \in Device /\ ~ odd
  /\ ~ wazuh_webhook([MCLines[1].data EXCEPT !.odd = TRUE]).ok

\* A run opens no more cases than it counts findings, and the sample of one
\* agent alone opens any
Agents == {"threat_hunting", "vuln_scan", "detection_engineering", "asset_hardening"}
ASSUME FindingsAreCounted ==
  /\ \A agent \in Agents : Len(maybe_create_cases(agent)) <= count_findings(agent)
  /\ {agent \in Agents : maybe_create_cases(agent) # <<>>} = {"vuln_scan"}

\* The playbook that is stored by its id is found by it, whatever lies among
\* the files; what test_playbook_validation.py:99-135 expects of the warnings
Actions(approval, type, autonomy) ==
  [Playbook("p", "P1", {}, {}) EXCEPT !.containment_actions =
     {[id |-> "A", autonomy |-> autonomy, approval |-> approval, action_type |-> type]}]
ASSUME PlaybooksAreFound ==
  /\ \A t \in DOMAIN MOCK_ALERTS :
       LET files == Append(<<NoPlaybook>> \o MCPlaybooks, NoPlaybook)
           found == match(Build(MOCK_ALERTS[t], InjectRequest(t)), load_all(files))
       IN  get_by_id(found.id, load_all(files)) = found
  /\ validate_playbooks(<<Actions("none", "isolate_host", "L2")>>) # {}
  /\ validate_playbooks(<<Actions("single", "isolate_host", "L2")>>) # {}
  /\ validate_playbooks(<<Actions("double", "isolate_host", "L2"),
                         Actions("double", "kill_process", "L2"),
                         Actions("none", "notify", "L4")>>) = {}

\* The search as the two loops it is, each left as soon as there are enough hits
Look(needle, size, hits, case) ==
  FoldLeft(LAMBDA r, alert :
             IF r.stop \/ needle \notin alert.blob THEN r
             ELSE [hits |-> Append(r.hits, alert), stop |-> Len(r.hits) + 1 >= size],
           [hits |-> hits, stop |-> FALSE], case).hits
SearchOn(cases, needle, size) ==
  FoldLeft(LAMBDA r, case :
             IF r.stop THEN r
             ELSE LET found == Look(needle, size, r.hits, case)
                  IN  [hits |-> found, stop |-> Len(found) >= size],
           [hits |-> <<>>, stop |-> FALSE], cases).hits
ASSUME SearchStopsAtSize ==
  LET Lists == UNION {[1..n -> [blob : {{}, {"q"}}]] : n \in 0..2}
  IN  \A cases \in UNION {[1..n -> Lists] : n \in 0..3} : \A size \in 0..3 :
        search_alerts(cases, "q", size) = SearchOn(cases, "q", size)
=============================================================================
