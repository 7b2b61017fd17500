---------------------------- MODULE MCPrDecision ----------------------------
(* Small instances of PrDecision for TLC.                                  *)
EXTENDS PrDecision
=============================================================================
