---------------------------- MODULE MCJiraOutbox ----------------------------
(* Instances of JiraOutbox for TLC.                                        *)
EXTENDS JiraOutbox

\* A workflow without a direct way from the first status to the last.
Line == {<<"todo", "in_progress">>, <<"in_progress", "done">>,
         <<"in_progress", "todo">>, <<"done", "in_progress">>}

\* An edit that is held, and one that is sent at once and has a priority.
Fields == {{"labels"}, {"summary", "priority"}}
=============================================================================
