-------------------------- MODULE MCProjectRegistry --------------------------
(* Small instances of ProjectRegistry for TLC.                            *)
EXTENDS ProjectRegistry
=============================================================================
