------------------------------- MODULE MCTaskRefs -------------------------------
(* Two clients and three ids: two creates in flight at once, the later id stored *)
(* first, and a task that is already there for the other operations.             *)
EXTENDS TaskRefs

CONSTANTS c1, c2, title

MCClients == {c1, c2}
MCTitles == {title}

================================================================================
