----------------------------- MODULE MCRepoLock -----------------------------
(* Three overlapping calls over three repositories.                        *)
EXTENDS RepoLock

MCKey == 1..3
=============================================================================
