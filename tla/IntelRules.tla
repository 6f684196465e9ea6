------------------------------ MODULE IntelRules ------------------------------
(***************************************************************************)
(* What the threat-intelligence sources can say about an indicator, and    *)
(* the verdict the service makes of what the answering ones said.          *)
(* Confidences are in hundredths.                                          *)
(***************************************************************************)
EXTENDS Integers, FiniteSets

CONSTANTS
  Ioc,             \* indicators found in the alerts
  IocType,         \* [Ioc -> {"ip", "domain", "file_hash"}]
  KnownBad,        \* the indicators in the mock provider's tables
  Provider,        \* the configured real sources
  FallbackToMock   \* THREAT_INTEL_FALLBACK_TO_MOCK

ASSUME IntelAssumption ==
  /\ IsFiniteSet(Ioc)
  /\ IocType \in [Ioc -> {"ip", "domain", "file_hash"}]
  /\ KnownBad \subseteq Ioc
  /\ Provider \subseteq {"abuseipdb", "otx", "opencti"}
  /\ FallbackToMock \in BOOLEAN

IntelResult ==
  [provider : {"abuseipdb", "otx", "opencti", "mock", "synthesizer", "none"},
   malicious : BOOLEAN, confidence : 0..100]

supports(p) == IF p = "abuseipdb" THEN {"ip"} ELSE {"ip", "domain", "file_hash"}

Answer(p, malicious, confidence) ==
  [provider |-> p, malicious |-> malicious, confidence |-> confidence]

AtMost(n, limit) == IF n > limit THEN limit ELSE n

AtLeast(n, limit) == IF n < limit THEN limit ELSE n

\* Samples of what the sources report: scores and pulse counts on both sides
\* of the thresholds
Scores == {0, 60, 100}

PulseCounts == {0, 2, 12}

AbuseIPDBAnswers ==
  {Answer("abuseipdb", score >= 50 /\ ~ whitelisted, AtMost(score, 100)) :
     score \in Scores, whitelisted \in BOOLEAN}

OTXAnswers ==
  {Answer("otx", pulses >= 3, AtMost(10 * pulses, 100)) : pulses \in PulseCounts}

\* An observable OpenCTI knows, with a group it is attributed to or an active
\* (not revoked) indicator
OpenCTIFound ==
  {Answer("opencti", score >= 50 \/ active,
          AtLeast(AtMost(score, 100),
                  IF attributed THEN 80 ELSE IF active THEN 60 ELSE 0)) :
     score \in Scores, active \in BOOLEAN, attributed \in BOOLEAN}

NotFound == Answer("opencti", FALSE, 0)

Answers(p) ==
  CASE p = "abuseipdb" -> AbuseIPDBAnswers
    [] p = "otx" -> OTXAnswers
    [] p = "opencti" -> OpenCTIFound \cup {NotFound}

\* MockThreatIntelProvider: pools and known samples, anything else harmless
MockAnswer(i) ==
  Answer("mock", i \in KnownBad,
         CASE IocType[i] = "ip" -> IF i \in KnownBad THEN 85 ELSE 30
           [] IocType[i] = "domain" -> IF i \in KnownBad THEN 92 ELSE 10
           [] IocType[i] = "file_hash" -> IF i \in KnownBad THEN 90 ELSE 10)

Hits(results) == {r \in results : r.malicious}

\* MUTANT: a hit is believed only when a second source confirms it
synthesize_confirmed(results) ==
  Answer("synthesizer", Cardinality(Hits(results)) >= 2,
         IF Cardinality(Hits(results)) >= 2 THEN 75 ELSE 10)

synthesize(results) ==
  Answer("synthesizer", Hits(results) # {},
         CASE Cardinality(Hits(results)) >= 2 -> 75
           [] Cardinality(Hits(results)) = 1 -> 45
           [] OTHER -> 10)

\* results: what the sources that answered said, one result each
query(i, results) ==
  CASE results = {} -> IF FallbackToMock THEN MockAnswer(i) ELSE Answer("none", FALSE, 0)
    [] Cardinality(results) = 1 -> CHOOSE r \in results : TRUE
    [] OTHER -> synthesize(results)
=============================================================================
