------------------------------ MODULE MCIngest ------------------------------
(* Instances of Ingest for TLC. *)
EXTENDS Ingest, TLC

\* An error the classifier is not sure of: only a burst or an anomaly alerts it.
DoubtfulError ==
  [level |-> "ERROR", category |-> "API_ERROR", severity |-> "HIGH", confident |-> FALSE,
   keyword |-> FALSE]
\* A line with a word of SECURITY_KEYWORDS, which alerts at once.
Suspicious ==
  [level |-> "INFO", category |-> "OTHER", severity |-> "LOW", confident |-> TRUE,
   keyword |-> TRUE]
MCLines == {DoubtfulError}
MCSymmetry == Permutations(Requests)
=============================================================================
