----------------------------- MODULE MCHubAudit -----------------------------
(* HubAudit for TLC: which event is which makes no difference.             *)
EXTENDS HubAudit

Symmetry == Permutations(Events)
=============================================================================
