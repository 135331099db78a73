------------------------------ MODULE MCTaskStore ------------------------------
(* Two clients that serve any request over two ids, so that a list or put of    *)
(* one can meet every step of a create, put or delete of the other, and a third *)
(* that reads: two readers that overlap could keep a writer out.  A put marks   *)
(* the task done, so that it differs from what the create stored.               *)
EXTENDS TaskStore

CONSTANTS c1, c2, c3, title

MCClients == {c1, c2, c3}
MCTitles == {title}
MCServes ==
    [c \in MCClients |->
       IF c = c3 THEN {[op |-> "get", id |-> 1]}
       ELSE {r \in Requests : r.op = "put" => r.body.done}]

================================================================================
