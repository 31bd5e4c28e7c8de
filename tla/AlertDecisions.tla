--------------------------- MODULE AlertDecisions ---------------------------
(***************************************************************************)
(* The decisions of AlertEngine: a line has been analyzed, with whatever   *)
(* the models and the counts of recent lines say, and is decided.          *)
(***************************************************************************)
EXTENDS AlertEngine

CONSTANTS MaxErrors,    \* bound: ERROR logs counted
          MaxAnomalies  \* bound: anomalies counted

ASSUME CountsAreNumbers == MaxErrors \in Nat /\ MaxAnomalies \in Nat

Categories == HighRiskCategories \cup MediumRiskCategories \cup {"OTHER"}

VARIABLES evidence,  \* what was found about the line
          decision   \* <<>>, or the decision

vars == <<evidence, decision>>

Evidence ==
  [category : Categories, severity : {"LOW", "MEDIUM", "HIGH"}, confident : BOOLEAN,
   anomaly : BOOLEAN, keyword : BOOLEAN, errors : 0..MaxErrors,
   anomalies : 0..MaxAnomalies]

\* analyze_log: any declared level, words and answers of the models; the counts
\* include the line and its own analysis.
Init ==
  /\ \E declared \in KnownLevels \cup {"OTHER"}, words \in KnownLevels, risky \in BOOLEAN :
       LET level == ClassifySeverity(declared, words)
       IN  /\ evidence \in Evidence
           /\ evidence.severity = PredictSeverity(level, risky, evidence.category)
           /\ level = "ERROR" => evidence.errors > 0
           /\ evidence.anomaly => evidence.anomalies > 0
  /\ decision = <<>>

Decide ==
  /\ decision = <<>>
  /\ decision' = <<EvaluateAlert(evidence)>>
  /\ UNCHANGED evidence

Next == Decide
Spec == Init /\ [][Next]_vars

----------------------------------------------------------------------------
\* The three independent cascades of evaluate_alert agree: a line is alerted
\* exactly when its severity is HIGH or CRITICAL and exactly when it has a type,
\* and no alert falls through to the generic ML_INCIDENT.
CascadesAgree ==
  \A i \in DOMAIN decision :
    LET d == decision[i]
    IN  /\ d.should_alert <=> d.severity \in HighSeverities
        /\ d.should_alert <=> d.alert_type # "NONE"
        /\ d.alert_type # "ML_INCIDENT"

\* What a type claims is one of the reasons written in the alert's message.
ReasonOf(type) ==
  CASE type = "SECURITY_THREAT" -> {"classified threat", "threat rule"}
    [] type = "REPEATED_ANOMALY" -> {"repeated anomaly"}
    [] type = "ERROR_BURST" -> {"error burst"}
    [] type = "ANOMALY" -> {"anomaly"}
    [] type = "HIGH_SEVERITY" -> {"high severity"}
TypeHasReason ==
  \A i \in DOMAIN decision :
    decision[i].should_alert => ReasonOf(decision[i].alert_type) \cap decision[i].reasons # {}

\* The developers are mailed about CRITICAL alerts and no others.
MailedIffCritical ==
  \A i \in DOMAIN decision : decision[i].notify_email <=> decision[i].severity = "CRITICAL"

\* More evidence never lowers an alert: one more error or anomaly counted, a
\* keyword, an anomaly or a confident classifier added.
Rank(severity) ==
  CASE severity = "LOW" -> 0 [] severity = "MEDIUM" -> 1
    [] severity = "HIGH" -> 2 [] severity = "CRITICAL" -> 3
Stronger(e) ==
  {[e EXCEPT !.errors = @ + 1], [e EXCEPT !.anomalies = @ + 1], [e EXCEPT !.keyword = TRUE],
   [e EXCEPT !.anomaly = TRUE], [e EXCEPT !.confident = TRUE]}
EvidenceNeverLowers ==
  \A i \in DOMAIN decision : \A e \in Stronger(evidence) :
    Rank(decision[i].severity) <= Rank(EvaluateAlert(e).severity)

=============================================================================
