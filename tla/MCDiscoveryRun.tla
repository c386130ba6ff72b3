--------------------------- MODULE MCDiscoveryRun ---------------------------
(* DiscoveryRun for TLC. *)
EXTENDS DiscoveryRun
=============================================================================
