------------------------ MODULE MCInteractiveSession ------------------------
(* Instances of InteractiveSession for TLC: a first prompt and follow-ups. *)
EXTENDS InteractiveSession
=============================================================================
