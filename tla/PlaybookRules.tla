---------------------------- MODULE PlaybookRules ----------------------------
(***************************************************************************)
(* Which playbook an alert gets, and what start-up says of the playbooks.  *)
(* Pure, without state.  Texts are reduced to what matching asks of them:  *)
(* text, message and ports are the sets of patterns that occur in          *)
(* str(alert.raw), in the message and in the destination port.             *)
(***************************************************************************)
EXTENDS Naturals, Sequences, FiniteSets, SequencesExt

CRITICAL_ACTIONS == {"isolate_host", "block_ip", "block_domain", "freeze_account"}

\* What matching reads of a playbook (TriggerConfig, MitreMapping); load_all
\* fills in what the file leaves out.  techniques are the ids alone
Playbook(id, priority, sigma_rules, techniques) ==
  [id |-> id, priority |-> priority, sigma_rules |-> sigma_rules,
   techniques |-> techniques, wazuh_rules |-> {}, names |-> <<>>,
   cmdline_contains |-> <<>>, commands |-> <<>>, pool_ports |-> {},
   containment_actions |-> {}]

NoPlaybook == Playbook("none", "", {}, {})

When(condition, points) == IF condition THEN points ELSE 0

\* How many entries of a list occur in a set; an entry listed twice counts twice
Hits(list, set) == Cardinality({n \in DOMAIN list : list[n] \in set})

score(alert, pb) ==
  When(alert.sigma # "" /\ alert.sigma \in pb.sigma_rules, 10)
    + 8 * Hits(pb.names, alert.text \cup alert.message)
    + 8 * Hits(pb.cmdline_contains, alert.text)
    + 6 * Hits(pb.commands, alert.text)
    + 7 * Hits(alert.techniques, pb.techniques)
    + When(alert.dst \notin {"", "None"} /\ pb.pool_ports \cap alert.ports # {}, 5)
    + When(alert.rule \in pb.wazuh_rules, 2)

PRIORITY_ORDER(priority) ==
  CASE priority = "P0" -> 0 [] priority = "P1" -> 1 [] priority = "P2" -> 2 [] OTHER -> 9

\* The best score wins, then the more urgent playbook, then the one loaded
\* first (the sort is stable)
Before(alert, playbooks, i, j) ==
  LET si == score(alert, playbooks[i])
      sj == score(alert, playbooks[j])
      pi == PRIORITY_ORDER(playbooks[i].priority)
      pj == PRIORITY_ORDER(playbooks[j].priority)
  IN  si > sj \/ (si = sj /\ (pi < pj \/ (pi = pj /\ i < j)))

match(alert, playbooks) ==
  LET scored == {i \in DOMAIN playbooks : score(alert, playbooks[i]) > 0}
  IN  IF scored = {} THEN NoPlaybook
      ELSE playbooks[CHOOSE i \in scored :
                       \A j \in scored \ {i} : Before(alert, playbooks, i, j)]

\* The first of that id, None without one
get_by_id(id, playbooks) ==
  LET same == {i \in DOMAIN playbooks : playbooks[i].id = id}
  IN  IF same = {} THEN NoPlaybook
      ELSE playbooks[CHOOSE i \in same : \A j \in same : i <= j]

\* load_all: the files of the directory in the order of their paths; an empty
\* file is no playbook
load_all(files) == SelectSeq(files, LAMBDA file : file # NoPlaybook)

\* The gated actions whose approval is not declared as strictly as it will be
\* applied
validate_playbooks(playbooks) ==
  {<<id, a>> \in UNION {{pb.id} \X pb.containment_actions : pb \in ToSet(playbooks)} :
     a.autonomy = "L2" /\ (a.approval \in {"", "none"}
                            \/ (a.action_type \in CRITICAL_ACTIONS /\ a.approval # "double"))}
=============================================================================
