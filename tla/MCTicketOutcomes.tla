-------------------------- MODULE MCTicketOutcomes --------------------------
(* Small instances of TicketOutcomes for TLC.                              *)
EXTENDS TicketOutcomes
=============================================================================
