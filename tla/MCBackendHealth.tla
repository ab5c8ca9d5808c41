--------------------------- MODULE MCBackendHealth ---------------------------
(* Instances of BackendHealth for TLC: the configurations give its constants. *)
EXTENDS BackendHealth
=============================================================================
