--------------------------------- MODULE TaskApi ---------------------------------
(* What the task REST API promises (the endpoint table in the READMEs of        *)
(* bench/tasks/agent-{go,rust,scala}-rest/project): an in-memory store that     *)
(* concurrent clients see as one object.  Every request takes effect at one     *)
(* point between its arrival and its response, a new task gets an id that no    *)
(* task ever had, and a deleted id stays absent.  How the reference             *)
(* implementations get there is TaskStore's and TaskRefs' business.             *)
EXTENDS Naturals

CONSTANTS
    Clients,    \* the connections requests come from
    Titles,
    MaxId       \* bound: how many tasks are ever created

VARIABLES
    tasks,      \* the tasks, by id
    created,    \* every id ever handed out
    calls       \* what each client is doing: the state of its call, request and response

vars == <<tasks, created, calls>>

Ids == 1 .. MaxId
Contents == [title : Titles, done : BOOLEAN]

(* Request bodies are abstracted to what the handlers keep of them.             *)
Requests ==
    [op : {"list"}] \cup
    [op : {"get", "delete"}, id : Ids] \cup
    [op : {"create"}, body : [title : Titles, done : {FALSE}]] \cup
    [op : {"put"}, id : Ids, body : Contents]

(* Responses: the status, and the tasks in the body.                            *)
Response(status, body) == [status |-> status, body |-> body]
NoTasks == [i \in {} |-> 0]
One(id, t) == [i \in {id} |-> t]
NotFound == Response("not_found", NoTasks)
NoResponse == Response("none", NoTasks)

Without(m, id) == [i \in DOMAIN m \ {id} |-> m[i]]
With(m, id, t) == [i \in DOMAIN m \cup {id} |-> IF i = id THEN t ELSE m[i]]

NoCall == [state |-> "idle", req |-> [op |-> "none"], resp |-> NoResponse]
Called(req) == [state |-> "open", req |-> req, resp |-> NoResponse]
Served(req, resp) == [state |-> "served", req |-> req, resp |-> resp]

Init ==
    /\ tasks = NoTasks
    /\ created = {}
    /\ calls = [c \in Clients |-> NoCall]

Call(c) ==
    /\ calls[c].state = "idle"
    /\ \E req \in Requests : calls' = [calls EXCEPT ![c] = Called(req)]
    /\ UNCHANGED <<tasks, created>>

(* A client that waits for this operation.                                      *)
Asks(c, op) == calls[c].state = "open" /\ calls[c].req.op = op

(* The call is served: its response, the tasks and the ids it leaves behind.    *)
Serve(c, resp, after, ids) ==
    /\ calls' = [calls EXCEPT ![c] = Served(calls[c].req, resp)]
    /\ tasks' = after
    /\ created' = ids

List(c) ==
    /\ Asks(c, "list")
    /\ Serve(c, Response("ok", tasks), tasks, created)

Create(c) ==
    /\ Asks(c, "create")
    /\ \E id \in Ids \ created :
        LET t == calls[c].req.body IN
        Serve(c, Response("created", One(id, t)), With(tasks, id, t), created \cup {id})

(* Get, put and delete of an id that is not there.                              *)
Miss(c) ==
    /\ Asks(c, "get") \/ Asks(c, "put") \/ Asks(c, "delete")
    /\ calls[c].req.id \notin DOMAIN tasks
    /\ Serve(c, NotFound, tasks, created)

Get(c) ==
    /\ Asks(c, "get")
    /\ \E id \in DOMAIN tasks :
        /\ id = calls[c].req.id
        /\ Serve(c, Response("ok", One(id, tasks[id])), tasks, created)

Put(c) ==
    /\ Asks(c, "put")
    /\ \E id \in DOMAIN tasks :
        /\ id = calls[c].req.id
        /\ Serve(c, Response("ok", One(id, calls[c].req.body)),
                 With(tasks, id, calls[c].req.body), created)

Delete(c) ==
    /\ Asks(c, "delete")
    /\ \E id \in DOMAIN tasks :
        /\ id = calls[c].req.id
        /\ Serve(c, Response("no_content", NoTasks), Without(tasks, id), created)

Return(c) ==
    /\ calls[c].state = "served"
    /\ calls' = [calls EXCEPT ![c] = NoCall]
    /\ UNCHANGED <<tasks, created>>

Next ==
    \E c \in Clients :
        \/ Call(c)
        \/ List(c)
        \/ Create(c)
        \/ Miss(c)
        \/ Get(c)
        \/ Put(c)
        \/ Delete(c)
        \/ Return(c)

Spec == Init /\ [][Next]_vars

================================================================================
