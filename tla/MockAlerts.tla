------------------------------ MODULE MockAlerts ------------------------------
(***************************************************************************)
(* The preset alerts that /api/alerts/inject builds.  Of an alert is kept  *)
(* what decides its incident and its playbook: rule, sigma id, technique   *)
(* ids, host and addresses, the destination port, and text, the trigger    *)
(* patterns of the shipped playbooks that occur in str(raw).lower().  No   *)
(* process name of a playbook occurs in a message without being in raw.    *)
(***************************************************************************)
EXTENDS TLC

None == "None"     \* Python's None
Given == "given"   \* the argument of the builder

\* Most builders take the host and the source they are given, no destination
Preset(source, rule, sigma, techniques, text) ==
  [source |-> source, rule |-> rule, sigma |-> sigma, techniques |-> techniques,
   text |-> text, message |-> {}, ports |-> {}, host_id |-> Given, host |-> Given,
   src |-> Given, dst |-> None, takes_pid |-> TRUE]

ToGiven(alert) == [alert EXCEPT !.dst = Given]

MinerAlerts ==
  [xmrig_process |->
     ToGiven(Preset("wazuh", "5710", "suspicious_cryptominer_process", <<"T1496", "T1071.001">>,
       {"xmrig", "stratum+tcp://", "--cpu-max-threads-hint", "pool.supportxmr.com"})),
   mining_pool_connection |->
     [ToGiven(Preset("suricata", "ET MALWARE Cryptomining", "cryptomining_stratum_protocol",
        <<"T1496", "T1071.001">>, {"pool.supportxmr.com"}))
      EXCEPT !.ports = {"3333"}, !.host_id = None, !.takes_pid = FALSE],
   high_cpu_anomaly |->
     [Preset("wazuh", "cpu_anomaly", "", <<"T1496">>, {"xmrig"}) EXCEPT !.host_id = None]]

HostAlerts ==
  [suspicious_crontab |->
     ToGiven(Preset("wazuh", "550", "suspicious_crontab_modification", <<"T1053.003">>,
       {"crontab", "bash", "www-data"})),
   ssh_bruteforce |->
     ToGiven(Preset("wazuh", "5712", "ssh_bruteforce", <<"T1110", "T1110.001", "T1021.004">>, {})),
   log_collection_stopped |->
     ToGiven(Preset("wazuh", "504", "log_collection_stopped", <<"T1562", "T1070.002">>, {})),
   critical_service_crash |->
     ToGiven(Preset("wazuh", "service_stop", "critical_service_stopped", <<"T1489", "T1499">>, {}))]

\* Some have a source or a destination of their own
AttackAlerts ==
  [web_sql_injection |->
     [ToGiven(Preset("wazuh", "31151", "web_sql_injection", <<"T1190">>, {"or 1=1"}))
      EXCEPT !.src = "45.10.0.1"],
   data_exfiltration |->
     [Preset("suricata", "ET POLICY Unusual outbound data volume", "large_data_transfer",
        <<"T1048", "T1567">>, {}) EXCEPT !.dst = "146.190.62.1"],
   lateral_movement |->
     [Preset("wazuh", "601", "suspicious_smb_admin_share", <<"T1021", "T1570">>, {"psexec"})
      EXCEPT !.dst = "10.0.2.20"],
   privilege_escalation |->
     Preset("wazuh", "5902", "sudo_abuse", <<"T1068", "T1548.001">>, {"sudo -i", "www-data"}),
   c2_communication |->
     [Preset("suricata", "ET C2 Known C2 IP", "c2_beacon_detected", <<"T1071", "T1573">>, {})
      EXCEPT !.dst = "146.190.62.1"],
   phishing_email |->
     [Preset("wazuh", "phishing_email", "phishing_email_detected", <<"T1566", "T1566.001">>, {})
      EXCEPT !.src = "45.10.0.1"]]

ServiceAlerts ==
  [file_tampering |->
     Preset("sysmon", "550", "file_tampering", <<"T1561">>, {"bash", "systemd"}),
   ddos_attack |->
     [ToGiven(Preset("suricata", "ET DOS SYN Flood", "ddos_attack", <<"T1498">>, {}))
      EXCEPT !.host_id = "edge-fw", !.host = "edge-fw"],
   waf_trigger |-> Preset("wazuh", "30118", "waf_trigger", <<"T1190">>, {"or 1=1"}),
   webshell_upload |-> Preset("qianxin", "9222", "webshell_upload", <<"T1505.003">>, {"whoami"}),
   dns_tunneling |->
     Preset("suricata", "ET POLICY DNS tunneling", "dns_tunneling", <<"T1071.004">>, {}),
   database_anomaly |->
     ToGiven(Preset("sysmon", "84448", "database_dump", <<"T1020">>, {})),
   api_abuse |->
     Preset("opensearch", "api_403_burst", "api_abuse", <<"T1078">>, {"api/private"}),
   unauthorized_data_access |->
     Preset("dlp", "DLP PII export", "unauthorized_sensitive_access", <<"T1213">>, {}),
   backup_failure |-> Preset("bacula", "Backup Job Error", "backup_failure", <<"T1486">>, {}),
   compliance_baseline |->
     Preset("wazuh_sca", "CIS-1.1.1", "compliance_baseline_deviation", <<>>, {})]

MOCK_ALERTS == MinerAlerts @@ HostAlerts @@ AttackAlerts @@ ServiceAlerts

\* What the builder returns for a request (AlertInjectRequest)
Arg(value, given) == IF value = Given THEN given ELSE value

Build(preset, request) ==
  [preset EXCEPT !.host_id = Arg(@, request.hostname), !.host = Arg(@, request.hostname),
                 !.src = Arg(@, request.src_ip),
                 !.dst = Arg(@, IF request.dst_ip = "" THEN "192.168.64.1" ELSE request.dst_ip)]

\* An unknown type is refused; a builder that takes no pid raises, since the
\* handler passes one to all of them
inject(request) ==
  IF request.alert_type \notin DOMAIN MOCK_ALERTS THEN [outcome |-> "refused"]
  ELSE IF ~ MOCK_ALERTS[request.alert_type].takes_pid THEN [outcome |-> "raises"]
  ELSE [outcome |-> "ingested", alert |-> Build(MOCK_ALERTS[request.alert_type], request)]
=============================================================================
