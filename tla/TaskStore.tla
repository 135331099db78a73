-------------------------------- MODULE TaskStore --------------------------------
(* The reference task API with a read-write lock: App of                        *)
(* bench/tasks/agent-go-rest/reference/main.go (sync.RWMutex around a map and   *)
(* nextID), and with the same critical sections app of                          *)
(* bench/tasks/agent-rust-rest/reference/lib.rs (std RwLock).  Every handler is *)
(* a client's steps: parse, lock, the statements under the lock, unlock,        *)
(* respond.  Every statement that touches the shared state is a step of its     *)
(* own, so that only the lock makes them one.  Of the lock we keep what the     *)
(* handlers rely on: many readers or one writer, and that a writer that waits   *)
(* keeps later readers out.                                                     *)
EXTENDS Naturals, FiniteSets

CONSTANTS
    Clients,    \* the goroutines or tasks that serve requests
    Titles,
    Serves,     \* the requests each of them may serve
    MaxId       \* bound: how many tasks are ever created

ASSUME ClientsAssumption == IsFiniteSet(Clients)
ASSUME MaxIdAssumption == MaxId \in Nat

Api == INSTANCE TaskApi WITH tasks <- {}, created <- {}, calls <- {}

Ids == Api!Ids
Requests == Api!Requests
NoTasks == Api!NoTasks
NotFound == Api!NotFound
NoResponse == Api!NoResponse

VARIABLES
    tasks,      \* the map
    nextID,     \* the next id
    readers,    \* who holds the lock for reading
    writer,     \* who holds it for writing: a set of at most one
    pending,    \* the writer that waits for the readers to leave: at most one
    parked,     \* the readers that wait for that writer, or the one that holds
    pc,         \* where each client's handler is
    req,        \* the request it serves
    copied,     \* the entries its list has copied so far
    fresh,      \* the id its create has read
    found,      \* whether its put or delete has found the id
    resp,       \* the response it has prepared
    committed   \* tasks and nextID when the lock was last released (history)

shared == <<tasks, nextID>>
lock == <<readers, writer, pending, parked>>
local == <<pc, req, copied, fresh, found, resp>>
vars == <<shared, lock, local, committed>>

Reads(c) == req[c].op \in {"list", "get"}

Init ==
    /\ tasks = NoTasks
    /\ nextID = 1
    /\ readers = {}
    /\ writer = {}
    /\ pending = {}
    /\ parked = {}
    /\ pc = [c \in Clients |-> "idle"]
    /\ req = [c \in Clients |-> [op |-> "none"]]
    /\ copied = [c \in Clients |-> NoTasks]
    /\ fresh = [c \in Clients |-> 0]
    /\ found = [c \in Clients |-> FALSE]
    /\ resp = [c \in Clients |-> NoResponse]
    /\ committed = [tasks |-> NoTasks, nextID |-> 1]

Goto(c, label) == pc' = [pc EXCEPT ![c] = label]

(* A request whose path and body parse; the others never reach the store.       *)
(* MaxId bounds the creates there can be.                                       *)
Arrive(c) ==
    /\ pc[c] = "idle"
    /\ \E r \in Requests :
        /\ r \in Serves[c]
        /\ r.op = "create" =>
             committed.nextID + Cardinality({d \in Clients : req[d].op = "create"
                                                /\ pc[d] \notin {"idle", "respond"}}) <= MaxId
        /\ req' = [req EXCEPT ![c] = r]
    /\ Goto(c, "lock")
    /\ UNCHANGED <<shared, lock, copied, fresh, found, resp, committed>>

(* Plausible bug: the readers' lock is taken without looking for a writer.      *)
RLockUnguarded(c) ==
    /\ pc[c] = "lock"
    /\ Reads(c)
    /\ readers' = readers \cup {c}
    /\ Goto(c, req[c].op)
    /\ UNCHANGED <<shared, writer, pending, parked, req, copied, fresh, found, resp, committed>>

(* A reader enters if no writer holds the lock or waits for it.                 *)
RLock(c) ==
    /\ pc[c] = "lock"
    /\ Reads(c)
    /\ writer = {} /\ pending = {}
    /\ readers' = readers \cup {c}
    /\ Goto(c, req[c].op)
    /\ UNCHANGED <<shared, writer, pending, parked, req, copied, fresh, found, resp, committed>>

(* Behind a writer it is parked, and the writer's unlock lets it in.            *)
Park(c) ==
    /\ pc[c] = "lock"
    /\ Reads(c)
    /\ writer # {} \/ pending # {}
    /\ parked' = parked \cup {c}
    /\ Goto(c, "parked")
    /\ UNCHANGED <<shared, readers, writer, pending, req, copied, fresh, found, resp, committed>>

Resume(c) ==
    /\ pc[c] = "parked"
    /\ c \in readers
    /\ Goto(c, req[c].op)
    /\ UNCHANGED <<shared, lock, req, copied, fresh, found, resp, committed>>

(* Plausible bug: put or delete announces itself while another writer holds the *)
(* lock, as when two handlers lock different mutexes.                           *)
AnnounceUnguarded(c) ==
    /\ pc[c] = "lock"
    /\ ~ Reads(c)
    /\ pending' = pending \cup {c}
    /\ Goto(c, "announced")
    /\ UNCHANGED <<shared, readers, writer, parked, req, copied, fresh, found, resp, committed>>

(* One writer at a time comes to the front; from then on readers are parked.    *)
Announce(c) ==
    /\ pc[c] = "lock"
    /\ ~ Reads(c)
    /\ writer = {} /\ pending = {}
    /\ pending' = {c}
    /\ Goto(c, "announced")
    /\ UNCHANGED <<shared, readers, writer, parked, req, copied, fresh, found, resp, committed>>

(* It has the lock when the readers that were there have left.                  *)
Lock(c) ==
    /\ pc[c] = "announced"
    /\ readers = {}
    /\ writer' = writer \cup {c}
    /\ pending' = pending \ {c}
    /\ Goto(c, req[c].op)
    /\ UNCHANGED <<shared, readers, parked, req, copied, fresh, found, resp, committed>>

(* The loop of the list handler: one entry of the map, in any order; when it    *)
(* has seen every entry it is done.                                             *)
CopyEntry(c) ==
    /\ pc[c] = "list"
    /\ \E i \in DOMAIN tasks \ DOMAIN copied[c] :
        copied' = [copied EXCEPT ![c] = Api!With(@, i, tasks[i])]
    /\ UNCHANGED <<shared, lock, pc, req, fresh, found, resp, committed>>

(* A handler has what it answers and goes on to unlock.                         *)
Prepare(c, r) ==
    /\ resp' = [resp EXCEPT ![c] = r]
    /\ Goto(c, "unlock")

CopyDone(c) ==
    /\ pc[c] = "list"
    /\ DOMAIN tasks \subseteq DOMAIN copied[c]
    /\ Prepare(c, Api!Response("ok", copied[c]))
    /\ UNCHANGED <<shared, lock, req, copied, fresh, found, committed>>

Lookup(c) ==
    LET id == req[c].id IN
    /\ pc[c] = "get"
    /\ Prepare(c, IF id \in DOMAIN tasks THEN Api!Response("ok", Api!One(id, tasks[id]))
                                         ELSE NotFound)
    /\ UNCHANGED <<shared, lock, req, copied, fresh, found, committed>>

(* Create reads nextID, stores the task under it and increments it; the Rust    *)
(* handler does the last two the other way round.                               *)
ReadNextID(c) ==
    /\ pc[c] = "create"
    /\ fresh' = [fresh EXCEPT ![c] = nextID]
    /\ \/ Goto(c, "insert_then_bump")
       \/ Goto(c, "bump_then_insert")
    /\ UNCHANGED <<shared, lock, req, copied, found, resp, committed>>

Insert(c) ==
    /\ pc[c] \in {"insert_then_bump", "insert"}
    /\ tasks' = Api!With(tasks, fresh[c], req[c].body)
    /\ IF pc[c] = "insert"
         THEN Prepare(c, Api!Response("created", Api!One(fresh[c], req[c].body)))
         ELSE Goto(c, "bump") /\ UNCHANGED resp
    /\ UNCHANGED <<nextID, lock, req, copied, fresh, found, committed>>

(* Plausible bug: the counter is incremented twice, as when both orders of the  *)
(* statements are merged.                                                       *)
BumpTwice(c) ==
    /\ pc[c] \in {"bump_then_insert", "bump"}
    /\ nextID' = nextID + 2
    /\ IF pc[c] = "bump"
         THEN Prepare(c, Api!Response("created", Api!One(fresh[c], req[c].body)))
         ELSE Goto(c, "insert") /\ UNCHANGED resp
    /\ UNCHANGED <<tasks, lock, req, copied, fresh, found, committed>>

Bump(c) ==
    /\ pc[c] \in {"bump_then_insert", "bump"}
    /\ nextID' = nextID + 1
    /\ IF pc[c] = "bump"
         THEN Prepare(c, Api!Response("created", Api!One(fresh[c], req[c].body)))
         ELSE Goto(c, "insert") /\ UNCHANGED resp
    /\ UNCHANGED <<tasks, lock, req, copied, fresh, found, committed>>

(* Put and delete look the id up first; what they do next rests on what they    *)
(* have found.                                                                  *)
Find(c) ==
    /\ pc[c] \in {"put", "delete"}
    /\ found' = [found EXCEPT ![c] = req[c].id \in DOMAIN tasks]
    /\ Goto(c, IF pc[c] = "put" THEN "update" ELSE "remove")
    /\ UNCHANGED <<shared, lock, req, copied, fresh, resp, committed>>

Update(c) ==
    /\ pc[c] = "update"
    /\ tasks' = IF found[c] THEN Api!With(tasks, req[c].id, req[c].body) ELSE tasks
    /\ Goto(c, "read_back")
    /\ UNCHANGED <<nextID, lock, req, copied, fresh, found, resp, committed>>

(* A map read of a key that is not there gives Go's zero value.                 *)
Stored(id) == IF id \in DOMAIN tasks THEN tasks[id] ELSE [title |-> "", done |-> FALSE]

(* Put reads the task back in any case and answers with it if it was found.     *)
ReadBack(c) ==
    LET id == req[c].id IN
    /\ pc[c] = "read_back"
    /\ Prepare(c, IF found[c] THEN Api!Response("ok", Api!One(id, Stored(id))) ELSE NotFound)
    /\ UNCHANGED <<shared, lock, req, copied, fresh, found, committed>>

Remove(c) ==
    /\ pc[c] = "remove"
    /\ tasks' = Api!Without(tasks, req[c].id)
    /\ Prepare(c, IF found[c] THEN Api!Response("no_content", NoTasks) ELSE NotFound)
    /\ UNCHANGED <<nextID, lock, req, copied, fresh, found, committed>>

(* Leaving the lock; a writer lets in the readers that are parked.              *)
Release(c) ==
    /\ readers' = (readers \ {c}) \cup (IF c \in writer THEN parked ELSE {})
    /\ parked' = IF c \in writer THEN {} ELSE parked
    /\ writer' = writer \ {c}
    /\ pending' = pending
    /\ committed' = IF c \in writer THEN [tasks |-> tasks, nextID |-> nextID] ELSE committed

(* Plausible bug: the not-found return comes before the unlock.                 *)
UnlockIfFound(c) ==
    /\ pc[c] = "unlock"
    /\ IF resp[c].status # "not_found" THEN Release(c) ELSE UNCHANGED <<lock, committed>>
    /\ Goto(c, "respond")
    /\ UNCHANGED <<shared, req, copied, fresh, found, resp>>

Unlock(c) ==
    /\ pc[c] = "unlock"
    /\ Release(c)
    /\ Goto(c, "respond")
    /\ UNCHANGED <<shared, req, copied, fresh, found, resp>>

(* The response is written after the lock is released; the handler's locals go. *)
Respond(c) ==
    /\ pc[c] = "respond"
    /\ Goto(c, "idle")
    /\ req' = [req EXCEPT ![c] = [op |-> "none"]]
    /\ copied' = [copied EXCEPT ![c] = NoTasks]
    /\ fresh' = [fresh EXCEPT ![c] = 0]
    /\ found' = [found EXCEPT ![c] = FALSE]
    /\ resp' = [resp EXCEPT ![c] = NoResponse]
    /\ UNCHANGED <<shared, lock, committed>>

Acquire(c) == RLock(c) \/ Park(c) \/ Resume(c) \/ Announce(c) \/ Lock(c)

Handle(c) ==
    \/ CopyEntry(c)
    \/ CopyDone(c)
    \/ Lookup(c)
    \/ ReadNextID(c)
    \/ Insert(c)
    \/ Bump(c)
    \/ Find(c)
    \/ Update(c)
    \/ ReadBack(c)
    \/ Remove(c)
    \/ Unlock(c)
    \/ Respond(c)

Next == \E c \in Clients : Arrive(c) \/ Acquire(c) \/ Handle(c)

(* A handler that can go on goes on.  Coming to the front among the writers is  *)
(* strongly fair: they queue for one sync.Mutex, whose starvation mode serves   *)
(* them in order.  That readers do not starve a writer, nor writers a reader,   *)
(* is not assumed: it follows from Park and Release.  std's RwLock leaves that  *)
(* order to the operating system.                                               *)
Spec ==
    /\ Init
    /\ [][Next]_vars
    /\ \A c \in Clients :
        /\ SF_vars(Announce(c))
        /\ WF_vars(RLock(c) \/ Park(c) \/ Resume(c) \/ Lock(c) \/ Handle(c))

--------------------------------------------------------------------------------
(* Properties.                                                                  *)

TaskMap == UNION {[S -> Api!Contents] : S \in SUBSET Ids}
Responses ==
    [status : {"ok", "created", "no_content", "not_found", "none"}, body : TaskMap]

TypeOK ==
    /\ tasks \in TaskMap
    /\ nextID \in 1 .. MaxId + 1
    /\ readers \subseteq Clients
    /\ writer \subseteq Clients /\ Cardinality(writer) <= 1
    /\ pending \subseteq Clients /\ parked \subseteq Clients
    /\ pc \in [Clients -> {"idle", "lock", "parked", "announced", "list", "get", "create",
                           "insert_then_bump", "bump_then_insert", "insert", "bump",
                           "put", "update", "read_back", "delete", "remove",
                           "unlock", "respond"}]
    /\ req \in [Clients -> Requests \cup {[op |-> "none"]}]
    /\ copied \in [Clients -> TaskMap]
    /\ fresh \in [Clients -> 0 .. MaxId]
    /\ found \in [Clients -> BOOLEAN]
    /\ resp \in [Clients -> Responses]
    /\ committed \in [tasks : TaskMap, nextID : 1 .. MaxId + 1]

(* An id that has been given out and is gone never comes back: neither a later  *)
(* create nor a put that found the id before the delete and writes after it     *)
(* (main.go:101-103 against 121-122) revives it.                                *)
DeletedStaysDeleted ==
    [][ \A i \in 1 .. nextID - 1 :
          i \notin DOMAIN committed.tasks /\ i < committed.nextID =>
              i \notin DOMAIN committed'.tasks ]_vars

(* Every request that reached the store is answered.                            *)
Answered == \A c \in Clients : pc[c] = "lock" ~> pc[c] = "idle"

(* The store is the one object TaskApi promises: a request takes effect when    *)
(* its handler releases the lock.                                               *)
CallOf(c) ==
    CASE pc[c] = "idle"    -> Api!NoCall
      [] pc[c] = "respond" -> Api!Served(req[c], resp[c])
      [] OTHER             -> Api!Called(req[c])

Object == INSTANCE TaskApi
    WITH tasks <- committed.tasks,
         created <- 1 .. committed.nextID - 1,
         calls <- [c \in Clients |-> CallOf(c)]

ImplementsTaskApi == Object!Spec

================================================================================
