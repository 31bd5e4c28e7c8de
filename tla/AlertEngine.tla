---------------------------- MODULE AlertEngine ----------------------------
(***************************************************************************)
(* What the backend decides about one log line: the level it stores        *)
(* (classify_severity in main.py), the severity it predicts                *)
(* (ai_engine/severity_predictor.py) and the alert it raises               *)
(* (evaluate_alert in alerts/engine.py).  The classifier and the anomaly   *)
(* detector are trained models: their answers are inputs here.             *)
(***************************************************************************)
EXTENDS Naturals

KnownLevels == {"ERROR", "WARNING", "INFO"}
HighRiskCategories == {"PAYMENT_ERROR", "DATABASE_ERROR", "SECURITY_THREAT"}
MediumRiskCategories == {"LOGIN_ERROR", "API_ERROR"}
HighSeverities == {"HIGH", "CRITICAL"}

BurstSize == 3    \* ERROR logs in five minutes
RepeatSize == 3   \* anomalies in ten minutes

\* classify_severity; words is the strongest group of words in the message.
ClassifySeverity(declared, words) ==
  IF declared \in KnownLevels THEN declared ELSE words

\* SeverityPredictor.predict; risky: the message has DEADLOCK, REFUSED, FAILED or TIMEOUT.
PredictSeverity(level, risky, category) ==
  IF level \in {"CRITICAL", "ERROR"} \/ risky \/ category \in HighRiskCategories
  THEN "HIGH"
  ELSE IF category \in MediumRiskCategories \/ level = "WARNING" THEN "MEDIUM" ELSE "LOW"

----------------------------------------------------------------------------
(* evaluate_alert.  The evidence a is a record: category, confident and         *)
(* anomaly from the models, severity predicted, keyword when a security word    *)
(* is in the message, errors and anomalies counted in the recent past.          *)

HighSeverity(a) == a.confident /\ a.severity \in HighSeverities
ClassifiedThreat(a) == a.confident /\ a.category = "SECURITY_THREAT"
BurstOfExactly(a) == a.errors = BurstSize  \* mutant: == for >=
ErrorBurst(a) == a.errors >= BurstSize
RepeatedAnomaly(a) == a.anomalies >= RepeatSize

Reasons(a) ==
  {r \in {"high severity", "anomaly", "classified threat", "threat rule",
          "error burst", "repeated anomaly"} :
     \/ r = "high severity" /\ HighSeverity(a)
     \/ r = "anomaly" /\ a.anomaly
     \/ r = "classified threat" /\ ClassifiedThreat(a)
     \/ r = "threat rule" /\ a.keyword
     \/ r = "error burst" /\ ErrorBurst(a)
     \/ r = "repeated anomaly" /\ RepeatedAnomaly(a)}

DoubtfulCategory(a) ==   \* mutant: the confidence is not looked at
  IF a.keyword THEN "SECURITY_THREAT" ELSE a.category
AlertCategory(a) ==
  IF a.keyword THEN "SECURITY_THREAT" ELSE IF a.confident THEN a.category ELSE "UNKNOWN"

SeverityWithoutAnomaly(a) ==   \* mutant: a single anomaly is forgotten
  IF AlertCategory(a) = "SECURITY_THREAT" \/ HighSeverity(a) \/ RepeatedAnomaly(a)
  THEN "CRITICAL"
  ELSE IF ErrorBurst(a) THEN "HIGH"
  ELSE IF a.severity = "MEDIUM" THEN "MEDIUM" ELSE "LOW"
AlertSeverity(a) ==
  IF AlertCategory(a) = "SECURITY_THREAT" \/ HighSeverity(a) \/ RepeatedAnomaly(a)
  THEN "CRITICAL"
  ELSE IF a.anomaly \/ ErrorBurst(a) THEN "HIGH"
  ELSE IF a.severity = "MEDIUM" THEN "MEDIUM" ELSE "LOW"

TypeWithoutAnomaly(a) ==   \* mutant: a single anomaly has no type of its own
  IF AlertCategory(a) = "SECURITY_THREAT" THEN "SECURITY_THREAT"
  ELSE IF RepeatedAnomaly(a) THEN "REPEATED_ANOMALY"
  ELSE IF ErrorBurst(a) THEN "ERROR_BURST"
  ELSE IF HighSeverity(a) THEN "HIGH_SEVERITY"
  ELSE IF Reasons(a) # {} THEN "ML_INCIDENT" ELSE "NONE"
AlertType(a) ==
  IF AlertCategory(a) = "SECURITY_THREAT" THEN "SECURITY_THREAT"
  ELSE IF RepeatedAnomaly(a) THEN "REPEATED_ANOMALY"
  ELSE IF ErrorBurst(a) THEN "ERROR_BURST"
  ELSE IF a.anomaly THEN "ANOMALY"
  ELSE IF HighSeverity(a) THEN "HIGH_SEVERITY"
  ELSE IF Reasons(a) # {} THEN "ML_INCIDENT" ELSE "NONE"

ThreatsOnly(a) ==   \* mutant: the severity is not looked at
  AlertCategory(a) = "SECURITY_THREAT" \/ RepeatedAnomaly(a)
NotifyEmail(a) ==
  \/ AlertSeverity(a) = "CRITICAL"
  \/ AlertCategory(a) = "SECURITY_THREAT" \/ RepeatedAnomaly(a)

EvaluateAlert(a) ==
  [should_alert |-> Reasons(a) # {}, alert_type |-> AlertType(a),
   severity |-> AlertSeverity(a), category |-> AlertCategory(a),
   notify_email |-> NotifyEmail(a), reasons |-> Reasons(a)]

=============================================================================
