\* Counts on both sides of the thresholds (3).
SPECIFICATION Spec
CONSTANTS
  MaxErrors = 4
  MaxAnomalies = 4
INVARIANTS
  CascadesAgree
  TypeHasReason
  MailedIffCritical
  EvidenceNeverLowers
\* A decided line stays decided.
CHECK_DEADLOCK FALSE
