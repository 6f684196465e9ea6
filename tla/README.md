# SecSight: a verification project

SecSight is a security-operations platform: alerts become cases, a workflow
investigates each case and plans containment actions from a playbook, dangerous
actions wait for two or three human signatures, an executor carries them out,
and the case is closed with an evidence pack. This directory models that code
in TLA+, checks it with TLC on small instances and proves the properties that
matter most with TLAPS. All source paths are relative to the repository root.

## 1. The system

| Part | State it keeps | Operations | Hard behaviour | What makes it correct |
|---|---|---|---|---|
| Approval rules (`auth/service.py`, `approvals/service.py`) | none | role of a signer, roles an action needs, verdict over the stored votes | three different tables must agree (login role, approval role, action type) | no account stands for two roles; an execution has 2 or 3 people behind it |
| Case repository (`db/repositories.py`, `db/models.py`) | `cases`, `approval_records`, `evidence_packs` | one column per method, each a SELECT, a change in memory and a commit | JSON columns are rebuilt from an earlier SELECT | no lost step, no invented step |
| Workflow, default mode (`agents/workflow.py`, `agents/nodes.py`) | the case row; nothing in memory survives a run | trigger run (ingest … plan, then park or execute), resume run (execute, update_case) | several runs inside one case, pollers, crash, failing analysis | nothing unsigned is executed, a contained case was signed, the log tells what happened |
| Approval service and API (`approvals/service.py`, `api/approvals.py`) | `approval_records`, `cases.status` | vote from dashboard or IM, reject, tally, resume | awaits between check, insert, tally, status write and resume | last signature never lost, a veto is final, a closed case stays closed |
| Workflow, checkpointer mode (`agents/workflow.py:212-373`) | the thread's checkpoints in Postgres | trigger to the interrupt, verdicts written to the thread, resume, escalation | checkpoint and row disagree; checkpoints are written behind the run's back; two resumes continue one thread | as in default mode; an ended thread stays ended |
| Alert ingestion (`api/alerts.py`, `db/repositories.py:179-247`, `integrations/wazuh.py`, `integrations/domestic_devices.py`, `mock/alerts.py`) | `cases.agg_key`, `alerts`, `alert_count` | find or create a case, absorb an alert, start orchestration | find-or-create race, two-commit creation, closing case | one case and one workflow per incident, no alert lost |
| Audit log (`db/repositories.py:312-485`) | `audit_logs` hash chain | record, verify_chain, purge_before | concurrent appends, purge | an untouched chain verifies |
| Sessions (`api/auth.py`, `auth/service.py`, `frontend/src/api/client.ts`) | `refresh_tokens`; localStorage and `refreshInFlight` of each tab | login, refresh (rotation), logout, logout all; single-flight refresh and replay | two uses of one token, logout against refresh, tabs that share localStorage | one live token per login; logged out is logged out; nobody is thrown out without a reason |
| Proactive agents (`agents/scheduler.py`, `agents/proactive.py`) | `proactive_runs`, cases | scheduled and manual runs, cases from findings | overlap, failure half-way | the record says what the run did |
| Real time (`realtime/broadcast.py`, `api/realtime.py`) | connected sockets; what each open page shows | connect, disconnect, publish; load, poll, vote | an await per client, clients that break or stall, answers that overtake each other | a broadcast never stops a run; who has to sign is offered the work; who listens sees the end |
| Execution back ends (`execution/mock.py`, `execution/shuffle.py`) | none | execute, poll to terminal | time-out after delivery | a reported outcome is what happened |
| Investigation: agent roles, threat intelligence, LLM gateway (`agents/nodes.py:202-439`, `threat_intel/`, `llm_gateway/`) | the run's LangGraph channels; `cases.enriched_context`, `judgment` | gather verdicts from sources, normalise the LLM's report, decide the priority, plan | sources that fail in any order, outputs no handler expects, values that get lost between nodes | nothing lost or invented on the way to the fork |
| Playbook engine (`playbooks/`) | the loaded playbooks | loading, scoring, matching, validation | weights, ties, stability | every scenario finds its playbook; the sort's choice is one pass's choice |
| Knowledge sediment (`knowledge/sediment.py`) | Qdrant points, files in `knowledge/L1_tactic/derived` | extract, make rules, store twice, record | either store fails, an answer is lost, a case is sedimented again | the last time wins, what is reported as stored is stored |
| Retrieval, compliance, notifications, OpenSearch, the dashboard's other pages | vector store, browser state | text production, HTTP calls, rendering | – | out of scope, see section 8 |

Interactions. The alert API writes the case row and starts the trigger run as a
background task. The trigger run ends parked (`pending_approval`) or executes.
Approval requests share nothing with it but the row; the request that sees every
signature reopens the case and awaits the resume run inside the same coroutine.
`execute_node` starts one background poller per asynchronous step; the poller
writes the same `execution_log` column. Everything runs in one event loop, so a
step of the model is the code between two awaits that touch the database.

## 2. Plan

1. Core: one case from ingestion to closure (done: sections 3 to 6).
2. `AuditChain`: hash chain under concurrent appends and purges (done: `AuditChain`,
   `MCAuditChain`, `AuditChainProofs`).
3. `CaseIntake`: aggregation of alerts, opening of cases, start of their workflows,
   proactive runs (done: `CaseIntake`, `MCCaseIntake`, `CaseIntakeProofs`). It ends
   where the core starts: `StoreInit` is the row it leaves.
4. `Sessions`: refresh-token rotation, with the dashboard's single-flight refresh
   (done: `Sessions`, `MCSessions`, `SessionsProofs`).
5. `Investigation`: the nodes of the trigger run that the core takes as one step (done:
   `IntelRules`, `JudgmentRules`, `Investigation`, `MCInvestigation`,
   `InvestigationProofs`). It ends at the fork, where the core goes on.
6. `CheckpointedCase`: the second workflow mode, over the same `CaseStore`,
   `ApprovalRules` and `ApprovalService` (done: `CheckpointedCase`,
   `MCCheckpointedCase`, `CheckpointedCaseProofs`).
7. `DualControl`: what approval promises, without cases, requests and runs (done:
   both workflow modes implement it, by proof).
8. `LiveConsole`: the core together with the broadcaster and the pages that watch
   and sign it (done: `LiveConsole`, `MCLiveConsole`, `CaseRecordProofs`).
9. Pure modules: execution back ends, playbook engine, preset alerts, the sources of
   alerts, what is learned from a case (done: `ExecutionRules`, `PlaybookRules`,
   `MockAlerts`, `IntakeRules`, `SedimentRules`, `CaseRecordProofs`).
10. Every safety invariant and every action property of the passing runs is proved
    (section 6). What stays with TLC, and why, is in section 7.

Runs: per module one run per question, 2 or 3 processes, and a refuted claim
where a comment or document promises more than the code does.

## 3. Modules

`ApprovalRules` → `CaseStore` → `Orchestration` → `ApprovalService` → `CaseCore`,
each extending the one before; `MCCaseCore` gives the constants values;
`CaseCoreProofs` and, on top of it, `CaseRecordProofs` hold the proofs.
`CheckpointedCase` extends `ApprovalService` with another workflow, `LiveConsole`
extends `CaseCore` with the pages that watch it, and `DualControl` is what both
workflows implement. The modules whose names end in `Rules`, and `MockAlerts`, are
pure. Each module has its proofs in the module of its name with `Proofs`, except that
those of `DualControl` are in the module itself and those of `LiveConsole` and
`ExecutionRules` in `CaseRecordProofs`.

- **ApprovalRules** – pure. Signers are dashboard accounts, whose approval role
  comes from the login role in the JWT, and IM applications, which always sign as
  `incident_commander`. `FullyApproved` is the verdict that both the approval
  service and the executor compute. An approval is "required" exactly when the
  autonomy level is L2 (`build_action_from_config`); L1 "Manual" actions are not
  gated, as in the code.
- **CaseStore** – one row of `cases`, its `approval_records`, and the timeline of
  its evidence pack. `update_status`, `update_actions`, `set_evidence_pack` and
  `close` are single atomic writes although the code reads the row first: what
  they write does not depend on what they read. (SQLAlchemy emits no UPDATE when
  the value it read equals the new one; such a call behaves as if it had happened
  at its SELECT.) `append_execution` and `update_execution_status` do depend on
  what they read, so their callers read in one step and write in a later one.
  The sessions are created with `expire_on_commit=False`, but no caller keeps a
  reference to the ORM row between repository calls and the identity map is
  weak, so every call reads afresh. The evidence pack row and the pointer to it are two
  commits; nothing reads the row without the pointer, so the model merges them.
- **Orchestration** – the trigger run up to its fork, `execute_node`,
  `update_case_node` and the Shuffle poller. A process is the trigger task or an
  approval request; `pc` is where it awaits, `at` the index of its loop, `seen`
  the log it last read, `outcome` the step it is about to append. An executor
  call is one step that picks an outcome of `Outcomes`; an asynchronous one
  starts a poller, or none if the answer carries no execution id; or it raises
  (`execute_action_raises`, with `ExecutorMayRaise`): an answer of Shuffle that is JSON
  but no object ends the run after the workflow was started and before the step is
  logged. The actions of `execute_node` take the list of actions as the process read
  it: in the default mode it is the stored one, since the plan is written once. `dispatched`
  and `unpolled` are history variables of the model: how often the executor was
  called, and which steps nobody will ever learn the end of.
- **ApprovalService** – a request: read and check the case (`submit_approval`),
  read the votes (`refuse_duplicate`/`accept_vote`), insert (`add_record`), close
  on a rejection, count action by action (`tally_action`), reopen and resume
  (`resume_workflow`). A refused request has changed nothing, so its slot can be
  used again: the number of refused calls is unbounded. Any decision string other
  than `approved` and `rejected` behaves as `deferred`.
- **CaseCore** – composition, `Crash`, fairness, the mapping to `DualControl` (`Licences`,
  `DC`) and the properties. A crash loses every coroutine, task and poller; the default
  mode has no recovery at start-up.

The loop index and the read log are reset when a process leaves the loop, so that
equal situations are equal states; this is bookkeeping, not code.

- **AuditChain** – a module of its own, since nothing reads the log back into a
  decision. Writers are the coroutines that call `_audit` (nodes, executor,
  approval requests), the scheduler is the nightly job, which runs at most once at
  a time (`max_instances=1`) and records its own purge. `record` is two steps, the
  SELECT of the tail and the INSERT; on PostgreSQL the SELECT is two steps of its
  own, because `FOR UPDATE` under READ COMMITTED chooses its row from the snapshot
  taken when the statement starts, then waits for the lock and returns the current
  version of *that* row. A purge is a SELECT of all rows and one commit that
  deletes the expired rows and renumbers and rehashes the others; on PostgreSQL it
  waits for the locked rows. The hash is the tuple it is computed from: SHA-256
  taken to be free of collisions. `written`, `purged` and `overlapped` are history
  variables: what was recorded, the highest cutoff applied, and whether two
  operations ever overlapped. Case, action, actor and detail of a record are one
  value, its writer, since they are stored and hashed unchanged.

- **CaseIntake** – a module of its own over many cases, each named by the alert that
  opened it. A feed is a coroutine that ingests a list of alerts one by one: a
  webhook (a list of one), a poll, or a proactive run (`Scan`), which awaits the
  workflow of every case it opens instead of starting it in the background and
  records itself at its end. A push with `?wait=true` awaits too and records
  nothing. The lookup of `ingest_alert` is the read that `append_alert` writes back
  (the session's identity map hands the same row out again), so they are two steps
  with `seen` between them. Creating a case is up to four commits, each an action.
  `Window` is the deduplication window in ticks of `utcnow`. Trigger run (`trigger`) and
  approval requests (`request`, each `About` a case) are reduced to their stages and to
  what they write into `status` and `updated_at`, the columns the lookup reads; votes and
  log are the business of the core. As in the code a request reads the status once, when
  it comes (`submit_approval`), and every later status is written over whatever it has
  become (`Write`): a rejection closes a case that is running, a resume opens one that
  has been closed meanwhile. `gated` are the cases whose plan has an action to sign. Runs
  and resumes may raise. A crash ends every coroutine under way; feeds and requests that
  have not begun come after the restart. Deduplication is on, the default.
  `answered`, `contended`, `raced` and `reopened` are history variables: which case a
  sender was told, incidents looked up while their case was being opened, cases whose
  list two feeds rewrote at the same time, cases written again after they were resolved.

- **Sessions** – one account: the table, the handlers, and the HTTP client in the
  tabs of one browser, which share `stored` (localStorage) but not `flight`
  (`refreshInFlight`). Tokens are numbered as they are issued, and a token's `login`
  is the first token of its chain of rotations, which the table does not record.
  Access tokens are left out: any call may be refused with 401 at any time, also
  after another call's refresh has ended, and a replayed call may be refused again.
  An exchange is a request on its way through the handler's commits
  (`get_valid`, `revoke`, `issue_tokens`). `exchange_fails` is a lost request, a
  handler that dies or a lost answer; a request lost on its way has the effect of a
  handler that dies before its first write. The SELECT and the commit of
  `revoke_all_for_user` are one step: a row inserted in between is not in the
  SELECT's result, as if it had been inserted afterwards. Moving to `/login` is
  immediate. `ended` and `disturbed` are history variables: logins that somebody has
  logged out of, and logins of which two operations overlapped (or a tab was
  reloaded during an exchange). Overlap within the exchange a tab already has in
  flight does not count: preventing that one is the client's own job. The expiry of
  refresh tokens (seven days), disabled users, other accounts (rows of different
  users never meet) and `purge_expired` (never called) are left out.

- **IntelRules** – pure: what each configured source can answer, the verdict made of
  the answers that came, and the fallback to the built-in tables. Scores are samples
  on both sides of every threshold; confidences are in hundredths. The mode without
  real sources asks the tables alone: `Provider` empty with `FallbackToMock`.
- **JudgmentRules** – pure: the kinds of outcome a call of the LLM has, with only the
  fields that decide something; normalisation, the two ways it fails
  (`ProviderError`, which the fallback catches, and `NormalizeRaises`, which it does
  not), and the priority table.
- **Investigation** – one trigger run, an action per node, except enrichment: there each
  answer or failure of a source is an action, and an alert is summed up when the
  last has come. `state` is the run's dictionary as the next node sees it: `returned`
  drops every key that `SecSightState` does not declare, which is what LangGraph does.
  `row` is what the nodes store in the case. Nobody else writes these columns during
  the run (a merge adds alerts to the row, not to the run's copy), so one run is enough.
  Left out: the texts (queries, prompts, summaries), the knowledge that is found,
  a case that is gone, and the indicators' extraction from the alert.

- **DualControl** – the abstract specification. People vote on actions; a runner may
  take a licence for an action while the votes entitle it to (all roles approved,
  nobody refused, or none is required); only a licence is spent on an execution. A
  licence survives a later refusal, because nothing recalls a run that has passed
  its check, but not a restart. `CaseCore` and `CheckpointedCase` have the instance `DC`: its votes are
  the stored records, a runner is a process, and its licences are the gated or free
  action that a process inside `execute_node` has cleared and not yet dispatched.
- **CheckpointedCase** – the checkpointer mode. A run carries its state in `thread`;
  each node that ends creates a checkpoint, which LangGraph writes in the background
  (`unsaved`), so a crash loses the last ones and a resume may read an older one.
  Reads take the newest checkpoint, so a late write of an older one changes nothing.
  The graph stops before `human_approve`; a request that completes the tally reads the
  verdicts action by action, writes them to the thread (`aupdate_state`, which reads
  a checkpoint first) and invokes the graph, which enters the node after the
  checkpoint it finds: the plan may be drawn again, under new action ids (`Fresh`),
  and the case be escalated or sealed. Other coroutines may be at work meanwhile, so each
  keeps in `plan` the list of actions it has read (`read_case`: when a request reads the
  case, reads the verdicts, and when `execute_node` begins) and goes through that one
  (`Held`), whatever is stored by then. A node's own transactions are those of
  `Orchestration` for `execute_node` and `update_case_node`. Bounds: the nodes before
  `plan_actions` are one checkpoint, a plan is redrawn at most once. Pollers are those of the default mode: background tasks that the thread
  knows nothing of, so that a crash loses them and no resume starts them again.
- **LiveConsole** – the core plus one page per tab. `due` are the events a step of the
  core still has to publish before the process goes on, `sending` the broadcast a
  process is in: a snapshot of the connections, one send at a time, dead ones removed
  at the end. A connection can break (the next send fails) or stall (the send waits until
  uvicorn's ping time-out closes it). A page loads when an event it subscribes to comes,
  the approvals page every 30 s besides; a load is a request, the server's SELECTs
  (`list_items` reads the votes action by action), and an answer that may overtake
  another or be lost. The list of pending approvals looks at the newest `Limit` cases,
  closed ones included; of the other cases only the number of `newer` ones matters
  (`create_newer`, `Listed`). `MyRole` and `offered` decide which button is shown, and a
  press is an ordinary request. Limits: no crash, no poller (`AnswersAtOnce` of
  `MCLiveConsole`), one tab, one load at a time,
  the timer only fires when no load is under way; the reconnecting socket of `lib/ws`
  and starlette are external; votes over IM and status changes made by a run publish
  nothing, as in the code.
- **ExecutionRules** – pure: choice of the executor, the two maps of workflow ids, the
  call and its fallback, what an answer becomes in `execute_node` (`Logged`: the status
  of the step, or the end of the run), polling, and what start-up announces. `MCCaseCore` checks that the outcomes the core assumes of an
  executor (`Outcomes` and `ExecutorMayRaise`) are those these rules report.
- **PlaybookRules**, **MockAlerts**, **IntakeRules** – pure: scoring and matching with the
  triggers reduced to sets of patterns, the 23 preset alerts, the parsers of Wazuh and of
  four vendors, reading alerts.json, the aggregation key, the webhooks' secret, the
  agents' sample findings and the alerts made of them, search in the database.
  `MCCaseIntake` instantiates `CaseIntake` with the alerts these rules deliver: the
  literal feeds, keys and matches of the run are compared with them by the assumption
  `FeedsAreDelivered`. The hash is the tuple it is computed from, without its separator.
- **SedimentRules** – pure: what is taken from a closed case, the detection rules made of
  it, and `sediment_case` as a function from the two stores, and from what Qdrant, the
  disk and the audit log do this time, to the two stores and the outcome. `odd` stands for
  an indicator or technique the code cannot handle. `MCInvestigation` checks it.

## 4. Properties

Kept by the code: `TypeOK`; `ExecutedWasSigned`, `ManyEyes`, `ContainedWasSigned`
(dual control); `RejectionIsFinal` and `SettledIsFinal` (what a veto and a closure
do guarantee in spite of the races below; the second is proved and in no run); `NoLostApproval` and
`SignedLeadsToSealed` (the last signature is acted upon; what may keep a signed case
from its end is a veto, a crash, or an executor that raises, after which every role has
voted and nobody can resume the case); `SoleRunIsAccounted`
(with one run, log and evidence are exact); `NoPhantomSteps` (with any number of
runs, the log may lose steps but invents no execution, unless a rejection made a
run skip the action: then a poll result meant for another run's step can turn
the newer, skipped one into an outcome).

Claimed by comments or documents and refuted, each by a run of its own
(PROJECT.json quotes the claims): `ExecutedAtMostOnce`, `ClosedStaysClosed`. The same races have weaker forms that the kept properties
live with: a role can store two votes on one action (so `ManyEyes` counts people,
not votes), a rejection stored between the executor's check and its call does not
stop that run (so `RejectionIsFinal` starts when no run is past its check), and two
runs over one log lose each other's steps (so `SoleRunIsAccounted` is about a
single run and `NoPhantomSteps` about what may not happen with several).

Of the audit log: `SerialChainVerifies` (without overlap the log verifies at any
time), `RecordsKept` (in any interleaving no young record is lost or altered and
none is invented), `PurgeRepairs` (a purge that nothing overlaps leaves a chain that
verifies, whatever forks it found), `BreakStaysVisible` (an append never hides a
break). Refuted: `LockPreventsForks`, the comment that the row lock keeps
concurrent appends apart.

Of the intake: `AlertsAccounted` (no alert strays, is shared or, without a race, lost),
`StormOpensOneCase` (one open case per incident and window, whatever workflow,
approvals and crashes do, but for three gaps: a lookup overlaps the opening, a crash
falls between row and key so that no lookup finds the case, a request under way writes a
resolved case open again), `EveryCaseIsDispatched` (no case without a workflow but by a
crash), `RunsTellTheTruth` (the history of proactive runs), `IntakeCompletes` (every feed that
has begun ends, and with every alert of its list answered unless it died in a crash or was a scan
whose workflow raised: such a scan gives up its remaining findings and records itself as
failed). Not stated as a property: a merged alert is said to need no workflow because its
case has one (`api/alerts.py:78`), but a case whose workflow raised stays
`investigating` and goes on absorbing the alerts of its incident.

Of the sessions: `OneLivePerLogin`, `SignedOutMeansOut` and `RefusalHasReason`, each for
logins whose operations did not overlap (when they do, rotation is three commits
and promises nothing: two exchanges of one token both succeed, a logout is outlived
by the token of an exchange that had passed its check); `WaitersAreWoken` (no call
waits for a refresh that has ended).

Of the investigation: `FailuresHideNothing` (whatever sources fail, every indicator of
the first three alerts is in the case, and no other), `VerdictsAreBacked` (an
indicator is called malicious exactly on the word of a source that answered, or of the
tables when none did), `EvidencePrecedesContainment` (no fork without indicators,
forensics, report and the decision that follows from it in the case),
`TypeOK` includes that every report's confidence lies in [0, 1]. Refuted:
`P0NeedsSignatures` (the escalation of P0 incidents reads a key that is lost between
two nodes). Two
more observations without a run: an embedding service that fails ends the run
(`EmbeddingMayFail`; the search behind it is guarded, the embedding is not), and an
indicator unknown to OpenCTI counts as an answer although `opencti.py:239` wants the
vote ignored, so a single hit beside it is reported with confidence 0.45.

Of both workflow modes: `DualControlled`, the refinement of `DualControl`. From it follow,
by the theorems of `DualControl`, that what was executed was backed by all its roles,
and that a refused action is not executed again once no licence is out.

Of the checkpointer mode: `SealedWasSigned` (a case is contained, and its evidence
sealed, only after the plan first drawn had its signatures, whatever stale checkpoint a
graph was entered at; a redrawn plan, whose ids nobody has signed, stops the request that
drew it at the interrupt, and only another request that had resumed too can close the
case around it), `EndedStaysEnded` (a late vote that resumes an
ended thread plans, executes and seals nothing), `SignedThreadEnds` (the request that
completes the signatures also ends the thread, however late the checkpoints are
written, unless its executor raises, the process dies, or the plan is drawn again). The first request to vote in this mode may still find the case
`investigating`: it is marked `pending_approval` by a node behind the interrupt.

Of the console: `WaitingIsOffered` (a signer whose signature is missing gets a button,
although nothing announces that the case waits, unless newer cases push the case off the
list), `OfferedCanBeSigned` (a button on an
up-to-date page leads to a signature, unless the role has deferred and is refused for
good), `ClosureIsShown` (a page whose connection holds and whose loads succeed shows the
closed case with all its steps), `SignedLeadsToSealed` (no client, broken or stalled, keeps a
signed case from its end, though a stalled one holds the run up until the ping
time-out).

Of the pure rules, as ASSUMEs of `MCCaseCore`, `MCCaseIntake` and `MCInvestigation`, each
against a definition of another shape: `ExecutorReportsOutcomes`, `ShuffleIsAnnounced`, `PollingStopsAtTheEnd`;
`FeedsAreDelivered`, `PresetsFindTheirPlaybook` (every preset alert finds its scenario's
playbook among the 22 shipped ones), `MatchIsStable` (sort and take the first is the
first of the best in one pass), `PollReadsLineByLine`, `LevelsMeanTheSame` (a device
alert's level is the one Wazuh has for its severity), `FindingsAreCounted`,
`WebhooksAreClosed`, `PlaybooksAreFound`, `SearchStopsAtSize`; `SedimentOverwrites` (a case
sedimented again is as if only the last time had been, if both stores took it then),
`ReportsAreConservative` (what is reported as stored is stored; a reported zero may be a
stored point, an exception may follow two writes), `RulesOfACase`.

### Disagreements found while modelling, without a run of their own

They concern one call, a configuration, or a wording; each is what the mapped
definition does.

- Polling: `update_execution_status` and `append_execution` overwrite each other's list,
  so a step whose poll did end can say `executing` for ever, although `nodes.py:583`
  keeps that for time-outs and failed queries.
- `resilient.py` promises a fallback, but an output of the LLM that `_normalize` cannot
  handle raises outside it and ends the run (`NormalizeRaises`).
- `tests/integration/test_checkpointer_pg.py:49` expects `pending_approval` at the
  interrupt; the code leaves `investigating` until a resume reaches `human_approve`. A late
  vote that completes a tally on an ended thread leaves `investigating` behind.
- The list of pending approvals is there so that an approver need not open cases one by one
  (`api/approvals.py:103`), but it looks at the newest 200 cases only, closed ones included,
  and the dashboard asks for no more (`api/client.ts:174`): behind them an older case that
  waits is not listed (`Listed` of `LiveConsole`).
- `close_checkpointer` is meant for the application's shutdown and is never called.
- Execution: one `SHUFFLE_WORKFLOW_…` variable among the eight that `mock.py` looks up
  hides the JSON map and the other five types' variables, although `shuffle.py:41` lets
  them complete each other, and start-up announces them as configured
  (`AnnouncedShuffleMayBeMock`). A value of blanks counts in one place and not in the
  other.
- An answer of Shuffle without `status` counts as executing in the adapter and as done in
  `execute_node`: success at once, never polled, against `nodes.py:537` 不假装 success. An
  answer `completed` or `finished` is a failure when it triggers and a success when it is
  polled. JSON that is no object raises outside the fallback, after the workflow
  was started (`execute_action_raises`): the resume ends and the signed case stays
  `investigating`.
- `inject` of `mining_pool_connection`, one of the three types `api/schemas.py:9` names,
  raises: the handler passes a pid and that builder takes none (`OnePresetRaises`).
- A poll of alerts.json reads its first lines, not the latest (`api/alerts.py:217`
  最近告警); a second poll reads them again. A limit below one still takes one alert, and a
  search of size zero looks at the newest case only.
- `suricata_rules` of a playbook are loaded and never consulted. `validate_playbooks` says
  that an L2 action without `approval` is signed once (当前按单签处理); the service always asks for two
  roles. Start-up validates `./playbooks` of its working directory, the engine loads the
  directory beside the backend.
- Device alerts: RSAS reports of one vulnerability on two hosts have one key (the host is
  not in it), Qianxin reports identified by `alert_id` never aggregate (`DeviceKeys`).
- Sediment: a sub-technique such as T1053.003 is looked for by its id alone, although T1053
  has fields of its own (`sediment.py:143`). Every address of an alert, also the host's
  own, ends in the rule 已知恶意 IP 通信 and is looked for as a source, so an outgoing
  connection to it is not found. `write_l1_yaml` returns `None` for a file it left cut
  off, and a lost answer of Qdrant is reported as zero points (`RulesOfACase`,
  `ReportsAreConservative`).
- `broadcast.py:1` and `CaseDetail.tsx:50` know an event `case_escalated` that nothing
  publishes.

## 5. Runs and bounds

The Core runs instantiate `MCCaseCore` with the seeded accounts (`admin`, `analyst`,
`approver`, `viewer`) and one IM application.

| Run | Instance | Shows |
|---|---|---|
| CoreVotes | a double-sign action, a critical one, two gated ones, a gated one after an automatic one, only automatic ones, no playbook; up to 4 votes; failing steps and analysis, an executor that raises; 1 crash | all orders of approve/defer/reject, of four signers of whom two share a role, and of votes stored between the SELECTs of a tally: type, dual control, people, lost signatures, veto, exact accounts |
| CoreLive | two signatures and a veto, synchronous and asynchronous steps, an executor that raises, fairness | the log invents nothing, a fully signed case is sealed, the whole implements `DualControl` |
| CoreTwice, CoreReopen | the smallest instance with the race | the refuted claims |
| AuditRecords | 2 writers, 4 records, 3 clock ticks with retention 1, either database | forks, stale purges, repair, retention |
| AuditFork | 2 writers on PostgreSQL | the refuted claim about the row lock |
| Checkpointed | 4 votes on 4 playbooks, a plan redrawn once at any time, 2 resumes at once, synchronous and asynchronous steps, an executor that raises, late checkpoints, failing analysis, 1 crash | everything the checkpointer mode keeps, and that it implements `DualControl` |
| LiveConsole | one tab on either page, an IM vote and the viewer's, one failure (break, stall, lost load) or one newer case, a list of one case, 2 answers under way | everything the console keeps |
| Intake | a poll that takes 2 alerts, with a webhook that brings a third of the same incident, 2 approval requests, window 0, 1 tick and 1 crash; or with a scheduled scan of 2 severe findings, a manual one and 1 crash; workflows that raise | everything the intake keeps, and how every feed ends |
| SessionTabs | 2 tabs with 2 calls each, 2 exchanges, 3 tokens, 1 loss | everything the sessions keep |
| Investigate | 4 alerts, 3 indicators, 3 sources, 12 outputs of the LLM, 3 playbooks, 2 criticalities | everything the investigation keeps |
| InvestigateP0 | the same with a local embedding service | the refuted claim |

Why the bounds suffice to meet the hazards: two requests are enough for a double
resume and for a duplicate vote, the third adds a veto to a full set of
signatures or a third role, the fourth the second gated action. One crash can fall
between any two steps. `CoreVotes` has the constraint `TwoActionsOneRun`: for playbooks
of two actions, states with two runs executing and states after a crash are checked
but not continued; two runs over one log are the subject of `CoreLive`, and both are
explored in full for one action. In `AuditRecords` two writers fork the chain, four records let a fork be extended
on both sides and three ticks let two purges with different cutoffs meet it.
In `Intake` the alerts of poll and webhook belong to one incident, so a case is opened by
one feed and appended to by the same or by another one, and two feeds race to open it.
The requests are about the case the poll opens: one can close it by a rejection while the
other is past its status check, so that a third alert opens a second case beside the one
that is then written open again; the tick is the expiry of the window, before or after
any commit; after a crash the feeds that had not begun meet what it left. The constraint
`OneScene` continues a state with at most two of these disturbances (a request, the other
one, the tick, the crash), and a state in which scans have begun only without the webhook
and with no other disturbance than the crash: incidents of scans are others than those of
alerts, and what the two have in common, the poll's background workflow, is in both. The
sample of the scan, which has one severe finding, is given a second one, so that a
workflow that raises leaves a finding behind; the manual scan finds what the scheduled
one does.
In `Checkpointed` two requests complete the signatures of a double-sign action, a third
vetoes or is the third role, two more sign the plan that a resume has drawn again
(one slot serves two cases); `MaxResumes` lets two resumes of one thread overlap. A plan
may be drawn again while the other resume is anywhere between its reading of the verdicts
and its end; `RedrawnBound` says which states with a redrawn plan are continued: those of
double-sign actions, with two requests under way that resume the case, or with one (that
may vote) after a crash. The constraint `PolledAlone` says
where asynchronous steps are followed to the end: for the automatic playbook, and for the
one that two people sign while nobody else votes, nothing crashes and one request resumes
at a time; elsewhere the state in which a poller has just started is checked and not
continued. What pollers do between two runs of one log is the subject of `CoreLive`.
In `LiveConsole` the vote over IM is announced to nobody, so the page learns of it by its
timer or not at all; one failure is a lost load, a break or a stall at any point. The
list is cut after one case instead of 200, so one newer case pushes this one off it;
`OneDisturbance` explores that or a failure, not both.
In `SessionTabs` two exchanges can present one token, two calls share or
repeat a refresh, and three tokens are a login, a rotation and either a second
rotation or another login. Exchanges beyond `MaxTokens` fail in the handler;
`MaxLost` bounds losses and reloads. Tabs and calls are symmetric.
In `Investigate` the alerts are one with an address all three sources know about, one
without indicators, one with a domain that two of them take, and a fourth that must
not be looked at; the outputs meet every branch of the normaliser, and the playbooks
have a critical automatic action, a gated one and none.
`MaxRecords` bounds the records, `MaxClock` the clock; the purge's own records are
bounded by the purges. `MaxCrashes` bounds crashes, the number
of requests bounds accepted votes; `dispatched` is bounded by the number of runs.
Deadlock is not checked where a case, a feed or an account may come to rest.

Fairness (`FairSpec`): the event loop schedules every coroutine and task it has
started until it ends, so the trigger run, each execution, each received request
and the pollers are weakly fair. No fairness for sending a request and none for a
crash. In the intake every feed that has begun and every trigger run is weakly
fair (a scan waits for the run it awaits); nothing makes alerts come, or people approve or
reject. In `Checkpointed` the
background writes of checkpoints are weakly fair too, and so are the pollers. In `LiveConsole` so are sends,
loads and their answers, the page's timer and the ping time-out; nothing makes a tab
connect again. `Sessions` states no liveness, and
so no fairness: `WaitersAreWoken` is the safety part of it. An executor
call always returns or raises: the HTTP client has a time-out.

## 6. What is proved

`CaseCoreProofs` and `CaseRecordProofs` hold for every set of accounts, actions,
playbooks, requests and votes and for any bound on crashes. Assumptions: the
named ASSUMEs of the modules (finite signers, disjoint account and IM names,
playbooks without repeated actions, requests vote as people who may sign).

- `TypeCorrect`: `Spec => []TypeOK`. Not inductive alone: a request that counts or
  executes must have its loop index in step with its place (`LoopsStep`), and must
  carry a vote (`VotesStep`). `Base` is the conjunction, used by everything else.
- `ExecutionNeedsSignatures`, `ContainmentNeedsSignatures`, `ApprovalIsServed`,
  `EnoughEyes`: from one inductive invariant `Inv`. Its parts: `PlanOK` (until the
  plan is written nothing is proposed, voted or executed, and it is written
  once), `BallotOK` (a request's record is in the table once it has left
  `sign`), `TallyOK` (the actions a tally has passed are signed, because records
  are never deleted; and a request whose tally stopped saw a signature missing
  that a later request then stores), `RunOK` (whoever executes came from a
  complete tally or from a plan without gated actions), `ClearedOK` (a gated
  action about to be dispatched is signed) and `RecordsOK` (a record's role is
  the role of its user). `RecordsOnlyGrow` is the fact that carries the signatures
  across every step. `EnoughEyes` counts: `SigningRole` is a function of the user,
  so distinct roles are distinct users.
- `RejectionHolds`: `[][...]_vars`, from `Inv`: with a rejection stored the
  verdict is negative, so no run can enter `execute` for that action again.
- `CaseImplementsDualControl`: `Spec => DualControlled`. `LicencesTyped` and `LicenceMeans` say
  what a licence is in the core; then every step of the core is mapped: clearing an action
  takes a licence (`ClearingIsLicensing`), dispatching spends it (`DispatchingIsExecuting`),
  storing a vote casts it (`SigningIsCasting`), a crash is a restart (`CrashIsRestart`), and
  every other step leaves votes, licences and counts alone (`OthersKeepLicences`).

`DualControl`, for any people, roles and runners:

- `BackedBeforeExecution`, `RefusalStops`: whoever holds a licence was backed when it was
  given, and votes are never withdrawn.

`CaseRecordProofs` is about what a case leaves behind, and about whoever watches it:

- `SettledForGood`: no action of a settled case changes anything, from `Inv`.
- `LogNeverInvents`: `Spec => []NoPhantomSteps`, from `LogInv` on top of `Inv`. The log is
  written from copies, so the invariant speaks of every copy in use (`Views`: the
  column, what a run has read, what a poller has read) and of the steps runs are about to
  append. `OnceOK`: a run has one step per action in every copy; `PassedOK`: only
  actions before its index; `SkippedOK`: a step is skipped only if its action was
  rejected; `CalledOK`: every run that has a step of an action was counted when it
  called the executor. `ViewsStep` says where copies come from.
- `LoneRunIsAccounted`: `Spec => [](Synchronous => SoleRunIsAccounted)`, from `LoneInv`
  (`UntouchedOK`: before the first run nothing was called; `LoneOK`: the log of a lone run
  is the prefix of the plan it has behind it, action by action with the calls made).
  The hypothesis, that no step is polled, is needed: a poller writes an old copy back
  and drops the step appended meanwhile.
- `WatchedCaseIsCase`: `LiveSpec => Spec`, so that every theorem about the core holds
  while pages watch and sign it. `ConsoleTypeCorrect` (`SocketsTyped`, `LoadsTyped`) and
  `ButtonsAreServed` are about the pages themselves.
- `WronglyAnnouncedAsMock`: which actions that Shuffle is called for were announced as
  mocked: those with an id of blanks in one of the eight variables the executor looks up
  (it passes blanks on, the announcement strips them) and no other id in the JSON, and no
  others. `AnswersBecomeOutcomes`: for every setting and answer, which answers end the run,
  which steps go on executing, which fail, and that an executing step is polled exactly
  if its answer has an id.

`CheckpointedCaseProofs`, for any accounts, playbooks, requests, redrawn plans, resumes and
crashes, under `CheckpointAssumption` and the assumptions of the core:

- `ThreadTypeCorrect`: `Base` is `TypeOK` with `LoopsOK` and `VotesOK`, as in the core.
- `ThreadEndsOnce`: an ended thread has no node left to enter.
- `SealingWasSigned`: from `SealInv`, which adds to `Base` that a request works on a plan it
  has read (`PlannedOK`), that the trigger run draws the first plan and goes on only if
  that needs no signature (`TriggerOK`), that the actions of its own list a tally has
  passed are signed (`TallyOK`), that whoever is past the interrupt, draws the plan again
  or reads a redrawn one comes after the signatures of the first (`FirstOK`, `PastOK`,
  `ClosingOK`), that the request which has drawn it again has stopped at the gate
  (`PausedOK`), and that a case with actions to sign is closed by a request (`EnderOK`).
  The first plan is fixed and records are never withdrawn, which is why a checkpoint as
  old as one likes does no harm.
- `ThreadImplementsDualControl`, `ThreadKeepsItsPromises`: each step is mapped as in the
  core (`RunExecutes`, `SigningIsCasting`, `ClearingIsLicensing`,
  `DispatchingIsExecuting`, `CrashIsRestart`), and what `DualControl` promises is
  concluded from its own theorems.

`AuditChainProofs`, for any number of writers, records and purges on either
database:

- `RetentionHolds`: `Spec => []RecordsKept`. The invariant adds that cutoffs only
  rise and stay behind the clock by the retention period (so a row committed
  while a purge runs is younger than its cutoff) and that what a purge has read was
  recorded. The lemma `RebuiltEntries` says that renumbering keeps every entry.
  Assumption: `AuditAssumption`.
- `AuditTypeCorrect`, from `ChainInv`, which adds to the retention invariant that ids are
  used once and that every read row has the place it was read at (`Counted`, `Placed`).
- `SerialChainHolds`: `Spec => []SerialChainVerifies`, from `Serial`: as long as nothing has
  overlapped, at most one operation is under way and `verify_chain` is true.
- `PurgesRepair`: an action property. What a purge writes is chosen by a recursive
  function over the rows in their order; that there is such a function for any
  finite set of rows (`ChainExists`) is shown with a least counterexample
  (`LeastElement`, from the well-foundedness of proper inclusion), since the
  induction theorems themselves are out of the provers' reach.
- `BreaksStayVisible`: `Spec => BreakStaysVisible`, from `BreakInv`. A hash is a whole
  history, so each row and each link about to be inserted is given the records that its
  hash tells of (`Trail`): all different, written before it, and not later than its
  stamp (`Told`). The rows the last purge has rebuilt (`BaseOK`, the existential `B`) are a
  chain from 1 on; of the others (`RowsOK`, `LinksOK`), one that is older than a cutoff
  was told of nothing the purge of that cutoff did not see, and the first of a chain is
  its writer's first record of its time (`LockingOK` says why: a SELECT sees what its own
  process has written). `InsertNeverRepairs` then counts. A row that makes the log
  verify fills a gap at some place s; the earliest record above the gap tells of s different
  records older than itself with the same writers and stamps as the chain up to s;
  retention keeps them in the log, and only s - 1 places are left for them. The argument rests on the
  stamp being part of the hash and on purges that keep what is younger than their
  cutoff. TLC checked `BreakInv` on the instance of `AuditRecords` first.

`CaseIntakeProofs`, for any feeds, alerts, incidents, approval requests, window and
number of crashes, under `IntakeAssumption` (no alert reaches two feeds). `Shape` holds
what all proofs need to know about the types; the lemma `WorkStep` says what the steps
of runs and requests have in common (`WorkEffect`).

- `IntakeTypeCorrect`, and `HistoryIsTrue`: `Spec => []RunsTellTheTruth`, from `HistoryInv`,
  which adds that nothing touches a case before it is dispatched (`UnstartedOK`) and what
  a scan has opened and seen end so far (`ScanOK`).
- `NoCaseForgotten`: `Spec => []EveryCaseIsDispatched`, inductive with `Shape`.
- `AlertsNeverStray`: `Spec => []AlertsAccounted`, from `Belonging`: alerts that have
  not been taken are unknown (`FreshOK`), a case being opened is named by the alert
  in hand (`OpeningOK`), lists, and the lists read by lookups, hold alerts of their
  own incident that were told this case or opened it (`ListsOK`), and only a
  concurrent rewrite takes an alert out (`KeptOK`).
- `OneOpenCase`: `Spec => []StormOpensOneCase`, from `UnstartedOK` (neither workflow nor
  request can touch a case before it is dispatched, so its key is set while it is
  open), `KeylessOK` (a case without a key is being opened, or its feed died) and
  `AloneOK` (while a feed opens a case and nobody looked the incident up, every other
  case of it is `Settled`, resolved, written open again or unfindable, and nobody else
  opens one).

`SessionsProofs`, for any number of tabs, calls, exchanges, tokens and losses, under
`SessionsAssumption` (exchanges are numbers, `NoExchange` is none of them).

- `OneLiveAlways`, `SignedOutAlways`, `RefusalsHaveReasons`: from one invariant `Inv`
  about the logins that are not `disturbed` (`Calm`). Their operations come one after
  the other (`AloneOK`); all their tokens but the latest are revoked
  (`OlderRevoked`); that latest one is what an exchange presents until it has issued
  the next (`PresentedOK`), what it then carries (`FreshOK`), what a logout names
  (`LeavingOK`) and what the browser holds unless a tab is exchanging it
  (`StoredOK`, `OrphanOK`); and a login that has ended has no exchange left that
  would issue another (`EndedOK`). None of the three properties is inductive: each
  needs to know where the latest token is. The steps after which less is going on
  than before share the lemma `Wane`.
- `SessionTypeCorrect` (`Typed`), and `WaitersWoken`: calls wait only while the refresh of
  their tab is under way.

`InvestigationProofs`, for any alerts, sources, playbooks and outputs, under
`IntelAssumption` and `InvestigationAssumption`:

- `InvestigationTypeCorrect` (`Typed`). That a decision's confidence stays in its range
  rests on what the normaliser writes (`WrittenConfidence`).
- `EvidenceComesFirst`, `ForkIsFaithful`: from `Inv`. The run's dictionary carries the
  stored context and each node adds its part (`CarriedOK`, with `Held` the parts that
  are there at each node), the stored decision stays the one that follows from the
  stored report (`DecidedOK`), and after planning the run's plan is the stored one
  (`PlannedOK`). The lemmas `Stores` and `Returns` say what survives the way from
  one node to the next.
- `NothingIsHidden`, `EveryVerdictIsBacked`: from `IocInv`, which adds that the summary
  lists the indicators of the alerts that are done (`ListedOK`), that the case holds
  the whole summary (`StoredOK`) and that every answer has a verdict (`AnswersOK`); the
  lemma `Verdict` says what `query` makes of any finite set of answers.

## 7. Model-checked only

- Liveness, which is outside the prover: `SignedLeadsToSealed`, `SignedThreadEnds`,
  `IntakeCompletes`, `WaitingIsOffered`, `ClosureIsShown`.
- `SoleRunIsAccounted` where an asynchronous step ends before its poller reads the log.
- The ASSUMEs about the pure rules (`PlaybookRules`, `IntakeRules`, `SedimentRules`,
  `MockAlerts`, and what `ExecutionRules` and the others assume): evaluated by TLC over
  the inputs they name.
- The refuted claims.

## 8. Not modelled, and why

In the core: database errors inside a node (each commit either happens or the
process is lost: a crash covers the prefix), audit,
metrics and notifications made along the way; the judgment and context
columns are the business of `Investigation`.

- Retrieval and compliance (`retrieval/`, `compliance/`): what a search finds is an input
  of the run, and the report only reads. What of retrieval can end a run is
  `EmbeddingMayFail` of `Investigation`. Sediment is a function, not a process: the node
  that calls it swallows whatever it raises, and nothing in the system decides by what
  it stores.
- OpenSearch, notifications and tickets: calls whose failures are swallowed; the search in
  OpenSearch itself is a service.
- Rate limiter, metrics, PII redaction, the signature checks of IM callbacks: library
  counters and byte computations without a state the system decides by.
- Agent roles without a node, prompts, summaries and coordination texts: wording.
- The dashboard's other pages: they load once and render. Dashboard and menu badge poll as
  the approvals page does. The evidence page and the approval panel of the case page are
  left out of `LiveConsole`: their requests are those of the approvals page.
- Start-up seeds, the migration check and the expiry of tokens: each is one query.
- `enable_alert_dedup = False`: every alert opens a case, which is `CaseIntake` with keys
  that all differ.
