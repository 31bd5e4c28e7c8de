------------------------ MODULE AlertDecisionsProofs ------------------------
(* What evaluate_alert decides, for any counts of errors and anomalies. *)
EXTENDS AlertDecisions, AlertEngineProofs

\* A decision is the one of the evidence beside it.
DecisionOf == evidence \in Evidence /\ decision \in {<<>>, <<EvaluateAlert(evidence)>>}

LEMMA Decisions == Spec => []DecisionOf
<1>1. Init => DecisionOf
  BY DEF Init, DecisionOf
<1>2. DecisionOf /\ [Next]_vars => DecisionOf'
  BY DEF DecisionOf, Next, Decide, vars
<1> QED BY <1>1, <1>2, PTL DEF Spec

\* The cascades of evaluate_alert agree however many errors and anomalies there are.
THEOREM CascadesSafe == Spec => []CascadesAgree
<1>1. ASSUME NEW e \in Evidence
      PROVE  e.keyword \in BOOLEAN /\ e.confident \in BOOLEAN /\ e.anomaly \in BOOLEAN
  BY DEF Evidence
<1>2. DecisionOf => CascadesAgree
  BY <1>1, RulesAgree DEF DecisionOf, CascadesAgree
<1> QED BY <1>2, Decisions, PTL

\* Mail goes out for CRITICAL alerts and no others.
THEOREM MailSafe == Spec => []MailedIffCritical
<1>1. ASSUME NEW e \in Evidence
      PROVE  EvaluateAlert(e).notify_email <=> EvaluateAlert(e).severity = "CRITICAL"
  BY DEF EvaluateAlert, NotifyEmail, AlertSeverity
<1>2. DecisionOf => MailedIffCritical
  BY <1>1 DEF DecisionOf, MailedIffCritical
<1> QED BY <1>2, Decisions, PTL

\* An alert is of a type for which its message gives the reason.
THEOREM TypesHaveReasons == Spec => []TypeHasReason
<1>1. ASSUME NEW e \in Evidence, EvaluateAlert(e).should_alert
      PROVE  ReasonOf(EvaluateAlert(e).alert_type) \cap EvaluateAlert(e).reasons # {}
  <2>1. e.keyword \in BOOLEAN /\ e.confident \in BOOLEAN /\ e.anomaly \in BOOLEAN
    BY DEF Evidence
  <2>2. /\ EvaluateAlert(e).alert_type = AlertType(e) /\ EvaluateAlert(e).reasons = Reasons(e)
        /\ AlertType(e) \in {"HIGH_SEVERITY", "ANOMALY", "ERROR_BURST", "REPEATED_ANOMALY",
                             "SECURITY_THREAT"}
    BY <1>1, <2>1, AlertedTypes DEF EvaluateAlert
  <2>3. CASE AlertType(e) = "SECURITY_THREAT"
    <3>1. AlertCategory(e) = "SECURITY_THREAT"
      BY <2>3 DEF AlertType
    <3>2. "threat rule" \in Reasons(e) \/ "classified threat" \in Reasons(e)
      BY <2>1, <3>1 DEF AlertCategory, ClassifiedThreat, Reasons
    <3> QED BY <2>2, <2>3, <3>2 DEF ReasonOf
  <2>4. CASE AlertType(e) = "REPEATED_ANOMALY"
    <3>1. "repeated anomaly" \in Reasons(e)
      BY <2>4 DEF AlertType, Reasons
    <3> QED BY <2>2, <2>4, <3>1 DEF ReasonOf
  <2>5. CASE AlertType(e) = "ERROR_BURST"
    <3>1. "error burst" \in Reasons(e)
      BY <2>5 DEF AlertType, Reasons
    <3> QED BY <2>2, <2>5, <3>1 DEF ReasonOf
  <2>6. CASE AlertType(e) = "ANOMALY"
    <3>1. "anomaly" \in Reasons(e)
      BY <2>6 DEF AlertType, Reasons
    <3> QED BY <2>2, <2>6, <3>1 DEF ReasonOf
  <2>7. CASE AlertType(e) = "HIGH_SEVERITY"
    <3>1. "high severity" \in Reasons(e)
      BY <2>7 DEF AlertType, Reasons
    <3> QED BY <2>2, <2>7, <3>1 DEF ReasonOf
  <2> QED BY <2>2, <2>3, <2>4, <2>5, <2>6, <2>7
<1>2. DecisionOf => TypeHasReason
  <2> SUFFICES ASSUME DecisionOf, NEW i \in DOMAIN decision, decision[i].should_alert
               PROVE  ReasonOf(decision[i].alert_type) \cap decision[i].reasons # {}
    BY DEF TypeHasReason
  <2>1. evidence \in Evidence /\ decision[i] = EvaluateAlert(evidence)
    BY DEF DecisionOf
  <2> QED BY <1>1, <2>1
<1> QED BY <1>2, Decisions, PTL

\* What raises the severity is kept by stronger evidence.
LEMMA StrongerKeeps ==
  ASSUME NEW e \in Evidence, NEW f \in Stronger(e)
  PROVE  /\ HighSeverity(e) => HighSeverity(f)
         /\ RepeatedAnomaly(e) => RepeatedAnomaly(f)
         /\ ErrorBurst(e) => ErrorBurst(f)
         /\ e.anomaly => f.anomaly
         /\ AlertCategory(e) = "SECURITY_THREAT" => AlertCategory(f) = "SECURITY_THREAT"
         /\ f.severity = e.severity
<1>1. /\ e.errors \in Nat /\ e.anomalies \in Nat
      /\ e.keyword \in BOOLEAN /\ e.anomaly \in BOOLEAN /\ e.confident \in BOOLEAN
  BY CountsAreNumbers DEF Evidence
<1>2. f \in {[e EXCEPT !.errors = @ + 1], [e EXCEPT !.anomalies = @ + 1],
             [e EXCEPT !.keyword = TRUE], [e EXCEPT !.anomaly = TRUE],
             [e EXCEPT !.confident = TRUE]}
  BY DEF Stronger
<1>3. /\ f.severity = e.severity /\ f.category = e.category
      /\ e.confident => f.confident
      /\ e.keyword => f.keyword
      /\ e.anomaly => f.anomaly
      /\ f.errors \in Nat /\ f.errors >= e.errors
      /\ f.anomalies \in Nat /\ f.anomalies >= e.anomalies
  BY <1>1, <1>2 DEF Evidence
<1>4. AlertCategory(e) = "SECURITY_THREAT" => AlertCategory(f) = "SECURITY_THREAT"
  BY <1>3 DEF AlertCategory
<1>5. HighSeverity(e) => HighSeverity(f)
  BY <1>3 DEF HighSeverity
<1>6. RepeatedAnomaly(e) => RepeatedAnomaly(f)
  BY <1>1, <1>3 DEF RepeatedAnomaly, RepeatSize
<1>7. ErrorBurst(e) => ErrorBurst(f)
  BY <1>1, <1>3 DEF ErrorBurst, BurstSize
<1> QED BY <1>3, <1>4, <1>5, <1>6, <1>7

\* No stronger evidence lowers the severity of an alert.
THEOREM NeverLowers == Spec => []EvidenceNeverLowers
<1>1. ASSUME NEW e \in Evidence, NEW f \in Stronger(e)
      PROVE  Rank(AlertSeverity(e)) <= Rank(AlertSeverity(f))
  BY StrongerKeeps DEF AlertSeverity, Rank
<1>2. DecisionOf => EvidenceNeverLowers
  BY <1>1 DEF DecisionOf, EvidenceNeverLowers, EvaluateAlert
<1> QED BY <1>2, Decisions, PTL

=============================================================================
