---------------------------- MODULE JudgmentRules ----------------------------
(***************************************************************************)
(* From what a call of the LLM ends in to a judgment report, and from the  *)
(* report to the priority of the incident.  Confidences are in hundredths. *)
(***************************************************************************)
EXTENDS Integers

Severity == {"low", "medium", "high", "critical"}

Report == [severity : Severity, confidence : 0..100]

WordMap == [low |-> 30, medium |-> 50, high |-> 80, critical |-> 90]

\* A confidence as the LLM may write it
WrittenConfidence ==
  ({"number"} \X Int) \cup ({"bool"} \X BOOLEAN) \cup ({"word"} \X DOMAIN WordMap)
    \cup {<<"other">>}

\* MUTANT: values between 1 and 10 are taken as they are
clamp_or_percent_raw(f) ==
  LET g == IF f > 1000 THEN f \div 100 ELSE f
  IN  IF g < 0 THEN 0 ELSE g

\* Above 10 a number is a percentage
clamp_or_percent(f) ==
  LET g == IF f > 1000 THEN f \div 100 ELSE f
  IN  IF g < 0 THEN 0 ELSE IF g > 100 THEN 100 ELSE g

coerce_confidence(v) ==
  CASE v[1] = "number" -> clamp_or_percent(v[2])
    [] v[1] = "bool" -> IF v[2] THEN 80 ELSE 20
    [] v[1] = "word" -> WordMap[v[2]]
    [] v[1] = "other" -> 50

\* An output is [kind |-> "call_failed"], "no_json" (text without JSON),
\* "empty_list", "no_object" (any other JSON that is no object), or "object"
\* with the fields that decide something: severity, confidence, whether Python
\* can look the values of true_positive and recommended_actions up in a set
\* (it cannot look up a list or an object), and whether the rest fits the schema.
Object(severity, confidence, hashable, fits) ==
  [kind |-> "object", severity |-> severity, confidence |-> confidence,
   hashable |-> hashable, fits |-> fits]

\* The normaliser raises TypeError or ValueError: dict() of a scalar, and
\* "x in set" of an unhashable x
NormalizeRaises(output) ==
  \/ output.kind = "no_object"
  \/ output.kind = "object" /\ ~ output.hashable

\* dict([]) is an empty object, whose fields all take their defaults
normalize(output) ==
  IF output.kind = "empty_list"
  THEN [severity |-> "medium", confidence |-> 50]
  ELSE [severity |-> IF output.severity \in Severity THEN output.severity ELSE "medium",
        confidence |-> coerce_confidence(output.confidence)]

\* LLMProviderError: no answer, nothing to parse, or nothing that validates
ProviderError(output) ==
  \/ output.kind \in {"call_failed", "no_json"}
  \/ output.kind = "object" /\ output.hashable /\ ~ output.fits

decide_priority(report, criticality) ==
  IF "critical" \in {report.severity, criticality} THEN "P0"
  ELSE IF report.severity = "high" /\ report.confidence > 70 THEN "P1"
  ELSE IF report.severity = "medium" THEN "P2" ELSE "P3"
=============================================================================
