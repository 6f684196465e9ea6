---------------------------- MODULE ExecutionRules ----------------------------
(***************************************************************************)
(* Which back end executes an action, and what becomes of its answer: the  *)
(* choice of the executor, the workflow ids it can find, the call of       *)
(* Shuffle with its fallback to the mock, the step that is logged, and     *)
(* what start-up announces about all this.  Pure, without state.           *)
(***************************************************************************)
EXTENDS Naturals, Sequences, FiniteSets

ActionTypes ==
  {"isolate_host", "block_ip", "block_domain", "kill_process", "quarantine_file",
   "freeze_account", "notify", "create_ticket", "query_asset", "forensic_capture",
   "report_regulator", "service_restart", "rollback_file"}

NoId == ""
Blank == " "
strip(id) == IF id = Blank THEN NoId ELSE id

\* The settings execution depends on: env has SHUFFLE_WORKFLOW_<ACTION> and
\* json the entries of SHUFFLE_WORKFLOW_MAP, for every action type (NoId: not
\* set, or the text is no JSON object)
Settings(Id) ==
  [mock_mode : BOOLEAN, enable_shuffle : BOOLEAN, base_url : BOOLEAN,
   env : [ActionTypes -> Id], json : [ActionTypes -> Id]]

get_executor(s) == IF s.mock_mode \/ ~ s.enable_shuffle THEN "mock" ELSE "shuffle"

\* The map of shuffle.py: the environment overrides the JSON
load_workflow_map(s) ==
  [t \in ActionTypes |-> IF strip(s.env[t]) # NoId THEN strip(s.env[t]) ELSE s.json[t]]

\* The types the executor in mock.py looks up itself
LookedUp ==
  {"isolate_host", "block_ip", "block_domain", "kill_process", "quarantine_file",
   "freeze_account", "notify", "service_restart"}

\* The map it hands on: as soon as one of its variables is set, neither the
\* JSON nor the other variables count
workflow_map(s) ==
  LET own == [t \in ActionTypes |-> IF t \in LookedUp THEN s.env[t] ELSE NoId]
  IN  IF \E t \in ActionTypes : own[t] # NoId THEN own ELSE load_workflow_map(s)

CallsShuffle(s, t) ==
  get_executor(s) = "shuffle" /\ s.base_url /\ workflow_map(s)[t] # NoId

\* validate_execution_config: the types start-up says will go to the mock
AnnouncedMock(s) ==
  IF get_executor(s) = "mock" THEN ActionTypes
  ELSE {t \in ActionTypes : load_workflow_map(s)[t] = NoId}
-----------------------------------------------------------------------------
(* The answer of Shuffle.                                                  *)

\* A status as it is written in an answer ("": the key is missing; "null")
Status ==
  {"", "null", "executing", "EXECUTING", "queued", "success", "completed", "finished",
   "FINISHED", "failure", "failed", "error", "timeout", "canceled", "aborted", "waiting"}

lower(status) ==
  CASE status = "EXECUTING" -> "executing"
    [] status = "FINISHED"  -> "finished"
    [] OTHER                -> status

\* No answer in time, an HTTP error, no JSON: "failed"; JSON that is no object
Response == [kind : {"object"}, status : Status, id : BOOLEAN]
              \cup [kind : {"failed", "no_object"}]

MockResult == [executor |-> "mock", success |-> TRUE, state |-> "", id |-> TRUE]

\* A missing status is read as "executing" here
ShuffleResult(response) ==
  [executor |-> "shuffle",
   success  |-> response.status \in {"", "executing", "success", "queued"},
   state    |-> response.status,
   id       |-> response.id]

\* Only ShuffleError is caught: an answer that is no object raises, after the
\* workflow was started
Raises(s, t, response) == CallsShuffle(s, t) /\ response.kind = "no_object"

execute(s, t, response) ==
  IF CallsShuffle(s, t) /\ response.kind # "failed" THEN ShuffleResult(response)
  ELSE MockResult

\* ... and as "" here, so that a workflow just started counts as done
StepStatus(result) ==
  IF result.executor = "shuffle" /\ lower(result.state) \in {"executing", "queued"}
  THEN "executing"
  ELSE IF result.success THEN "success" ELSE "failed"

\* An asynchronous step is polled if the answer had an id
Polled(result) == StepStatus(result) = "executing" /\ result.id

\* What becomes of the step when Shuffle would answer so: the status it is
\* logged with, or "raises", the end of the run that called
Logged(s, t, response) ==
  IF Raises(s, t, response) THEN "raises" ELSE StepStatus(execute(s, t, response))

Reported(s, t) == {Logged(s, t, r) : r \in Response}

Succeeded == {"success", "completed", "finished"}
Ended == Succeeded \cup {"failure", "failed", "error", "timeout", "canceled", "aborted"}

\* poll_to_terminal: the first answer that names an end decides ("lost": the
\* status query failed)
PollAttempts == 10
poll_to_terminal(answers) ==
  LET ends == {n \in 1..Len(answers) : n <= PollAttempts /\ lower(answers[n]) \in Ended}
  IN  IF ends = {} THEN "executing"
      ELSE LET first == CHOOSE n \in ends : \A m \in ends : n <= m
           IN  IF lower(answers[first]) \in Succeeded THEN "success" ELSE "failed"
=============================================================================
