--------------------------------- MODULE TaskRefs ---------------------------------
(* The reference task API on two atomic cells: Api.routes of                     *)
(* bench/tasks/agent-scala-rest/reference/main.scala, a Ref with the tasks and a *)
(* Ref with the last id.  Each access of a Ref is atomic and nothing holds two   *)
(* of them together: a create takes its id in one step and stores the task in a  *)
(* later one, and other requests run in between.                                 *)
EXTENDS Naturals, FiniteSets

CONSTANTS
    Clients,    \* the fibers that serve requests
    Titles,
    MaxId       \* bound: how many tasks are ever created

ASSUME ClientsAssumption == IsFiniteSet(Clients)
ASSUME MaxIdAssumption == MaxId \in Nat

Api == INSTANCE TaskApi WITH tasks <- {}, created <- {}, calls <- {}

Ids == Api!Ids
Requests == Api!Requests
NoTasks == Api!NoTasks
NotFound == Api!NotFound
NoResponse == Api!NoResponse

VARIABLES
    store,      \* Ref of the tasks by id
    counter,    \* Ref of the last id taken
    pc,         \* where each client's handler is
    req,        \* the request it serves
    fresh,      \* the id its create has taken
    resp,       \* the response it has prepared
    inserted    \* every id a task was stored under (history)

vars == <<store, counter, pc, req, fresh, resp, inserted>>

Init ==
    /\ store = NoTasks
    /\ counter = 0
    /\ pc = [c \in Clients |-> "idle"]
    /\ req = [c \in Clients |-> [op |-> "none"]]
    /\ fresh = [c \in Clients |-> 0]
    /\ resp = [c \in Clients |-> NoResponse]
    /\ inserted = {}

Creating == {c \in Clients : req[c].op = "create" /\ pc[c] = "create"}

(* A request whose path and body parse.  MaxId bounds the creates there can be.  *)
Arrive(c) ==
    /\ pc[c] = "idle"
    /\ \E r \in Requests :
        /\ r.op = "create" => counter + Cardinality(Creating) < MaxId
        /\ req' = [req EXCEPT ![c] = r]
        /\ pc' = [pc EXCEPT ![c] = r.op]
    /\ UNCHANGED <<store, counter, fresh, resp, inserted>>

Answer(c, r) ==
    /\ resp' = [resp EXCEPT ![c] = r]
    /\ pc' = [pc EXCEPT ![c] = "respond"]

ListTasks(c) ==
    /\ pc[c] = "list"
    /\ Answer(c, Api!Response("ok", store))
    /\ UNCHANGED <<store, counter, req, fresh, inserted>>

GetTask(c) ==
    LET id == req[c].id IN
    /\ pc[c] = "get"
    /\ Answer(c, IF id \in DOMAIN store THEN Api!Response("ok", Api!One(id, store[id]))
                                        ELSE NotFound)
    /\ UNCHANGED <<store, counter, req, fresh, inserted>>

(* Plausible bug: the id is read with get and the counter left to the insert.    *)
TakeIdByGet(c) ==
    /\ pc[c] = "create"
    /\ fresh' = [fresh EXCEPT ![c] = counter + 1]
    /\ pc' = [pc EXCEPT ![c] = "insert"]
    /\ UNCHANGED <<store, counter, req, resp, inserted>>

(* Plausible bug: the counter is incremented again when the id is taken.         *)
TakeIdTwice(c) ==
    /\ pc[c] = "create"
    /\ counter' = counter + 2
    /\ fresh' = [fresh EXCEPT ![c] = counter + 1]
    /\ pc' = [pc EXCEPT ![c] = "insert"]
    /\ UNCHANGED <<store, req, resp, inserted>>

(* counter.updateAndGet(_ + 1)                                                   *)
TakeId(c) ==
    /\ pc[c] = "create"
    /\ counter' = counter + 1
    /\ fresh' = [fresh EXCEPT ![c] = counter + 1]
    /\ pc' = [pc EXCEPT ![c] = "insert"]
    /\ UNCHANGED <<store, req, resp, inserted>>

(* store.update(_.updated(id, task))                                             *)
InsertTask(c) ==
    LET id == fresh[c] IN
    /\ pc[c] = "insert"
    /\ store' = Api!With(store, id, req[c].body)
    /\ inserted' = inserted \cup {id}
    /\ Answer(c, Api!Response("created", Api!One(id, req[c].body)))
    /\ UNCHANGED <<counter, req, fresh>>

(* Plausible bug: put stores without looking the id up.                          *)
UpdateUpserts(c) ==
    LET id == req[c].id IN
    /\ pc[c] = "put"
    /\ store' = Api!With(store, id, req[c].body)
    /\ Answer(c, Api!Response("ok", Api!One(id, req[c].body)))
    /\ UNCHANGED <<counter, req, fresh, inserted>>

(* store.modify of put: the lookup and the write are one.                        *)
UpdateTask(c) ==
    LET id == req[c].id IN
    /\ pc[c] = "put"
    /\ IF id \in DOMAIN store
         THEN /\ store' = Api!With(store, id, req[c].body)
              /\ Answer(c, Api!Response("ok", Api!One(id, req[c].body)))
         ELSE /\ Answer(c, NotFound)
              /\ UNCHANGED store
    /\ UNCHANGED <<counter, req, fresh, inserted>>

RemoveTask(c) ==
    LET id == req[c].id IN
    /\ pc[c] = "delete"
    /\ store' = Api!Without(store, id)
    /\ Answer(c, IF id \in DOMAIN store THEN Api!Response("no_content", NoTasks) ELSE NotFound)
    /\ UNCHANGED <<counter, req, fresh, inserted>>

Respond(c) ==
    /\ pc[c] = "respond"
    /\ pc' = [pc EXCEPT ![c] = "idle"]
    /\ req' = [req EXCEPT ![c] = [op |-> "none"]]
    /\ fresh' = [fresh EXCEPT ![c] = 0]
    /\ resp' = [resp EXCEPT ![c] = NoResponse]
    /\ UNCHANGED <<store, counter, inserted>>

Next ==
    \E c \in Clients :
        \/ Arrive(c)
        \/ ListTasks(c)
        \/ GetTask(c)
        \/ TakeId(c)
        \/ InsertTask(c)
        \/ UpdateTask(c)
        \/ RemoveTask(c)
        \/ Respond(c)

Spec == Init /\ [][Next]_vars

--------------------------------------------------------------------------------
(* Properties.                                                                   *)

TaskMap == UNION {[S -> Api!Contents] : S \in SUBSET Ids}

TypeOK ==
    /\ store \in TaskMap
    /\ counter \in 0 .. MaxId
    /\ pc \in [Clients -> {"idle", "list", "get", "create", "insert", "put", "delete",
                           "respond"}]
    /\ req \in [Clients -> Requests \cup {[op |-> "none"]}]
    /\ fresh \in [Clients -> 0 .. MaxId]
    /\ resp \in [Clients -> [status : {"ok", "created", "no_content", "not_found", "none"},
                             body : TaskMap]]
    /\ inserted \subseteq Ids

(* Ids are dense from 1, with holes only where a create is between its two       *)
(* steps, and no two creates ever hold or stored the same one.                   *)
HolesAreInFlight ==
    LET inserting == {c \in Clients : pc[c] = "insert"} IN
    /\ 1 .. counter = inserted \cup {fresh[c] : c \in inserting}
    /\ \A c \in inserting :
        /\ fresh[c] \notin inserted
        /\ \A d \in inserting : fresh[c] = fresh[d] => c = d

(* The store is the one object TaskApi promises: a create takes effect when its  *)
(* task is stored, every other request when it accesses the store.               *)
CallOf(c) ==
    CASE pc[c] = "idle"    -> Api!NoCall
      [] pc[c] = "respond" -> Api!Served(req[c], resp[c])
      [] OTHER             -> Api!Called(req[c])

Object == INSTANCE TaskApi
    WITH tasks <- store,
         created <- inserted,
         calls <- [c \in Clients |-> CallOf(c)]

ImplementsTaskApi == Object!Spec

================================================================================
