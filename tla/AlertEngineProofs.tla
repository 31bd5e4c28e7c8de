------------------------- MODULE AlertEngineProofs -------------------------
(* What the rules of AlertEngine decide on any evidence. *)
EXTENDS AlertEngine, TLAPS

\* The three cascades of the rules agree on any evidence.
LEMMA RulesAgree ==
  ASSUME NEW e, e.keyword \in BOOLEAN, e.confident \in BOOLEAN, e.anomaly \in BOOLEAN
  PROVE  LET d == EvaluateAlert(e)
         IN  /\ d.should_alert <=> d.severity \in HighSeverities
             /\ d.should_alert <=> d.alert_type # "NONE"
             /\ d.alert_type # "ML_INCIDENT"
<1> DEFINE d == EvaluateAlert(e)
<1>1. /\ d.should_alert <=> Reasons(e) # {}
      /\ d.severity = AlertSeverity(e) /\ d.alert_type = AlertType(e)
  BY DEF EvaluateAlert
<1>2. Reasons(e) # {} <=> \/ HighSeverity(e) \/ e.anomaly \/ ClassifiedThreat(e)
                          \/ e.keyword \/ ErrorBurst(e) \/ RepeatedAnomaly(e)
  <2> DEFINE Names == {"high severity", "anomaly", "classified threat", "threat rule",
                       "error burst", "repeated anomaly"}
  <2>1. /\ HighSeverity(e) => "high severity" \in Reasons(e)
        /\ e.anomaly => "anomaly" \in Reasons(e)
        /\ ClassifiedThreat(e) => "classified threat" \in Reasons(e)
        /\ e.keyword => "threat rule" \in Reasons(e)
        /\ ErrorBurst(e) => "error burst" \in Reasons(e)
        /\ RepeatedAnomaly(e) => "repeated anomaly" \in Reasons(e)
    BY DEF Reasons
  <2>2. \A r \in Reasons(e) : \/ HighSeverity(e) \/ e.anomaly \/ ClassifiedThreat(e)
                              \/ e.keyword \/ ErrorBurst(e) \/ RepeatedAnomaly(e)
    BY DEF Reasons
  <2> QED BY <2>1, <2>2
<1>3. AlertCategory(e) = "SECURITY_THREAT" <=> e.keyword \/ ClassifiedThreat(e)
  BY DEF AlertCategory, ClassifiedThreat
<1>4. d.severity \in HighSeverities
        <=> \/ HighSeverity(e) \/ e.anomaly \/ ClassifiedThreat(e)
            \/ e.keyword \/ ErrorBurst(e) \/ RepeatedAnomaly(e)
  BY <1>1, <1>3 DEF AlertSeverity, HighSeverities
<1>5. /\ d.alert_type # "NONE"
           <=> \/ HighSeverity(e) \/ e.anomaly \/ ClassifiedThreat(e)
               \/ e.keyword \/ ErrorBurst(e) \/ RepeatedAnomaly(e)
      /\ d.alert_type # "ML_INCIDENT"
  BY <1>1, <1>2, <1>3 DEF AlertType
<1> QED BY <1>1, <1>2, <1>4, <1>5


\* What is alerted has one of the five types.
LEMMA AlertedTypes ==
  ASSUME NEW e, e.keyword \in BOOLEAN, e.confident \in BOOLEAN, e.anomaly \in BOOLEAN,
         EvaluateAlert(e).should_alert
  PROVE  EvaluateAlert(e).alert_type \in {"HIGH_SEVERITY", "ANOMALY", "ERROR_BURST",
                                         "REPEATED_ANOMALY", "SECURITY_THREAT"}
<1>1. EvaluateAlert(e).alert_type = AlertType(e)
  BY DEF EvaluateAlert
<1>2. AlertType(e) \in {"NONE", "ML_INCIDENT", "HIGH_SEVERITY", "ANOMALY", "ERROR_BURST",
                       "REPEATED_ANOMALY", "SECURITY_THREAT"}
  BY DEF AlertType
<1> QED BY <1>1, <1>2, RulesAgree

=============================================================================
