------------------------------ MODULE TaskStoreProofs ------------------------------
(* Proofs about TaskStore, for every finite set of clients and every number of  *)
(* ids: that the lock makes the statements under it one step of TaskApi.        *)
EXTENDS TaskStore, FiniteSetTheorems, TLAPS

USE ClientsAssumption, MaxIdAssumption

--------------------------------------------------------------------------------
(* Tasks by id, and requests.                                                   *)

LEMMA MapsById ==
    \A m : m \in TaskMap <=> DOMAIN m \subseteq Ids /\ m \in [DOMAIN m -> Api!Contents]
<1>1. ASSUME NEW m \in TaskMap PROVE DOMAIN m \subseteq Ids /\ m \in [DOMAIN m -> Api!Contents]
  <2>1. PICK S \in SUBSET Ids : m \in [S -> Api!Contents]
    BY DEF TaskMap
  <2> QED BY <2>1
<1> QED BY <1>1 DEF TaskMap

LEMMA MapsStayMaps ==
    /\ NoTasks \in TaskMap
    /\ \A id \in Ids, t \in Api!Contents : Api!One(id, t) \in TaskMap
    /\ \A m \in TaskMap, id \in Ids, t \in Api!Contents : Api!With(m, id, t) \in TaskMap
    /\ \A m \in TaskMap : \A id : Api!Without(m, id) \in TaskMap
<1>1. NoTasks \in TaskMap
  BY MapsById DEF NoTasks, Api!NoTasks
<1>2. ASSUME NEW id \in Ids, NEW t \in Api!Contents PROVE Api!One(id, t) \in TaskMap
  BY MapsById DEF Api!One
<1>3. ASSUME NEW m \in TaskMap, NEW id \in Ids, NEW t \in Api!Contents
      PROVE  Api!With(m, id, t) \in TaskMap
  BY MapsById DEF Api!With
<1>4. ASSUME NEW m \in TaskMap, NEW id PROVE Api!Without(m, id) \in TaskMap
  BY MapsById DEF Api!Without
<1> QED BY <1>1, <1>2, <1>3, <1>4

LEMMA ResponsesAre ==
    /\ NoResponse \in Responses /\ NotFound \in Responses
    /\ \A s \in {"ok", "created", "no_content", "not_found", "none"}, m \in TaskMap :
          Api!Response(s, m) \in Responses
BY MapsStayMaps
DEF Responses, NoResponse, NotFound, NoTasks, Api!NoResponse, Api!NotFound, Api!Response

LEMMA RequestsHave ==
    ASSUME NEW r \in Requests
    PROVE  /\ r.op \in {"list", "get", "create", "put", "delete"}
           /\ r.op \in {"get", "put", "delete"} => r.id \in Ids
           /\ r.op \in {"create", "put"} => r.body \in Api!Contents
BY DEF Requests, Ids, Api!Requests, Api!Contents

--------------------------------------------------------------------------------
(* The inductive invariant.                                                     *)

Creating == {"create", "insert_then_bump", "bump_then_insert", "insert", "bump"}
Writing == Creating \cup {"put", "update", "read_back", "delete", "remove"}

(* A handler serves the request that brought it where it is.                    *)
ServesItsRequest ==
    \A c \in Clients :
        /\ pc[c] \in {"lock", "parked", "announced", "unlock"} => req[c] \in Requests
        /\ pc[c] \in {"list", "get", "create", "put", "delete"} =>
              req[c] \in Requests /\ req[c].op = pc[c]
        /\ pc[c] \in Creating => req[c] \in Requests /\ req[c].op = "create"
        /\ pc[c] \in {"update", "read_back"} => req[c] \in Requests /\ req[c].op = "put"
        /\ pc[c] = "remove" => req[c] \in Requests /\ req[c].op = "delete"
        /\ pc[c] = "parked" => Reads(c)
        /\ pc[c] = "announced" => ~ Reads(c)

(* The lock is held by those who are between lock and unlock, by many readers   *)
(* or by one writer; a reader that is still parked may hold it already.  One    *)
(* writer at a time waits for the readers, and no other holds the lock then.    *)
LockExcludes ==
    /\ \A c \in Clients :
        /\ c \in readers => pc[c] \in {"parked", "list", "get"} \/ (pc[c] = "unlock" /\ Reads(c))
        /\ pc[c] \in {"list", "get"} \/ (pc[c] = "unlock" /\ Reads(c)) => c \in readers
        /\ c \in parked => pc[c] = "parked" /\ c \notin readers
        /\ c \in pending <=> pc[c] = "announced"
        /\ c \in writer <=> pc[c] \in Writing \/ (pc[c] = "unlock" /\ ~ Reads(c))
    /\ \A c \in pending : pending = {c} /\ writer = {}
    /\ \A c \in writer : writer = {c} /\ readers = {}

Untouched == tasks = committed.tasks /\ nextID = committed.nextID

(* What a write that is complete is about to publish, and has answered.         *)
Effect(c) ==
    LET before == committed.tasks
        id == req[c].id
        body == req[c].body
        new == committed.nextID
    IN
    \/ /\ req[c].op = "create"
       /\ tasks = Api!With(before, new, body) /\ nextID = new + 1
       /\ resp[c] = Api!Response("created", Api!One(new, body))
    \/ /\ req[c].op = "put" /\ id \in DOMAIN before
       /\ tasks = Api!With(before, id, body) /\ nextID = new
       /\ resp[c] = Api!Response("ok", Api!One(id, body))
    \/ /\ req[c].op = "delete" /\ id \in DOMAIN before
       /\ tasks = Api!Without(before, id) /\ nextID = new
       /\ resp[c] = Api!Response("no_content", NoTasks)
    \/ /\ req[c].op \in {"put", "delete"} /\ id \notin DOMAIN before
       /\ Untouched
       /\ resp[c] = NotFound

(* How far the writer is from what was last published.                          *)
WriterIsAt(c) ==
    LET before == committed.tasks
        new == committed.nextID
    IN
    /\ pc[c] \in {"create", "put", "delete"} => Untouched
    /\ pc[c] \in {"insert_then_bump", "bump_then_insert"} => Untouched /\ fresh[c] = new
    /\ pc[c] = "insert" => tasks = before /\ nextID = new + 1 /\ fresh[c] = new
    /\ pc[c] = "bump" =>
          /\ tasks = Api!With(before, new, req[c].body)
          /\ nextID = new /\ fresh[c] = new
    /\ pc[c] \in {"update", "read_back", "remove"} =>
          (found[c] <=> req[c].id \in DOMAIN before)
    /\ pc[c] \in {"update", "remove"} => Untouched
    /\ pc[c] = "read_back" =>
          /\ tasks = IF found[c] THEN Api!With(before, req[c].id, req[c].body) ELSE before
          /\ nextID = new
    /\ pc[c] = "unlock" => Effect(c)

WriterInvariant ==
    /\ writer = {} => Untouched
    /\ \A c \in writer : WriterIsAt(c)

(* What a read has seen is what was last published.                             *)
ReaderIsAt(c) ==
    /\ pc[c] \in {"idle", "lock", "parked"} => copied[c] = NoTasks
    /\ pc[c] = "list" =>
          \A i \in DOMAIN copied[c] :
              i \in DOMAIN committed.tasks /\ copied[c][i] = committed.tasks[i]
    /\ pc[c] = "unlock" /\ req[c].op = "list" =>
          resp[c] = Api!Response("ok", committed.tasks)
    /\ pc[c] = "unlock" /\ req[c].op = "get" =>
          \/ /\ req[c].id \in DOMAIN committed.tasks
             /\ resp[c] = Api!Response("ok", Api!One(req[c].id, committed.tasks[req[c].id]))
          \/ /\ req[c].id \notin DOMAIN committed.tasks
             /\ resp[c] = NotFound

ReaderInvariant == \A c \in Clients : ReaderIsAt(c)

(* Published tasks have ids below the next one, and creates that are under way  *)
(* find one left.                                                               *)
Creates == {d \in Clients : req[d].op = "create" /\ pc[d] \notin {"idle", "respond"}}

IdsLeft ==
    /\ DOMAIN committed.tasks \subseteq 1 .. committed.nextID - 1
    /\ committed.nextID + Cardinality(Creates) <= MaxId + 1

IInv ==
    /\ TypeOK
    /\ ServesItsRequest
    /\ LockExcludes
    /\ WriterInvariant
    /\ ReaderInvariant
    /\ IdsLeft

LEMMA CreatesAreFinite == IsFiniteSet(Creates) /\ Cardinality(Creates) \in Nat
BY FS_Subset, FS_CardinalityType DEF Creates

LEMMA InitIInv == Init => IInv
<1> SUFFICES ASSUME Init PROVE IInv
  OBVIOUS
<1>1. TypeOK
  BY MapsStayMaps, ResponsesAre, FS_EmptySet DEF Init, TypeOK
<1>2. IdsLeft
  <2>1. Creates = {}
    BY DEF Init, Creates
  <2> QED BY <2>1, FS_EmptySet DEF Init, IdsLeft, NoTasks, Api!NoTasks
<1>3. ServesItsRequest /\ LockExcludes
  BY DEF Init, ServesItsRequest, LockExcludes, Creating, Writing
<1>4. WriterInvariant /\ ReaderInvariant
  BY DEF Init, WriterInvariant, Untouched, ReaderInvariant, ReaderIsAt
<1> QED BY <1>1, <1>2, <1>3, <1>4 DEF IInv

(* A create that is under way finds an id left.                                 *)
LEMMA NextIdIsLeft ==
    ASSUME TypeOK, IdsLeft, NEW c \in Clients, c \in Creates
    PROVE  committed.nextID \in Ids
<1>1. Cardinality(Creates) # 0
  BY CreatesAreFinite, FS_EmptySet
<1> QED BY <1>1, CreatesAreFinite DEF TypeOK, IdsLeft, Ids, Api!Ids

(* Every step is one handler's: it leaves the others' locals alone.             *)
OthersStay(c) ==
    \A d \in Clients \ {c} :
        /\ pc'[d] = pc[d] /\ req'[d] = req[d] /\ copied'[d] = copied[d]
        /\ fresh'[d] = fresh[d] /\ found'[d] = found[d] /\ resp'[d] = resp[d]

LEMMA StepsAreLocal ==
    ASSUME TypeOK, NEW c \in Clients, Arrive(c) \/ Acquire(c) \/ Handle(c)
    PROVE  OthersStay(c)
BY DEF TypeOK, OthersStay, Arrive, Acquire, RLock, Park, Resume, Announce, Lock, Handle,
       CopyEntry, CopyDone, Lookup, ReadNextID, Insert, Bump, Find, Update, ReadBack, Remove, Unlock, Respond, Prepare, Goto

LEMMA ArriveKeeps ==
    ASSUME IInv, NEW c \in Clients, Arrive(c) PROVE IInv'
<1> USE DEF IInv
<1>1. PICK r \in Requests :
        /\ r.op = "create" => committed.nextID + Cardinality(Creates) <= MaxId
        /\ req' = [req EXCEPT ![c] = r]
  BY DEF Arrive, Creates
<1>2. /\ pc[c] = "idle" /\ pc' = [pc EXCEPT ![c] = "lock"]
      /\ UNCHANGED <<tasks, nextID, readers, writer, pending, parked, copied, fresh, found,
                     resp, committed>>
  BY DEF Arrive, Goto, shared, lock
<1>3. TypeOK'
  BY <1>1, <1>2 DEF TypeOK
<1>4. ServesItsRequest'
  BY <1>1, <1>2 DEF TypeOK, ServesItsRequest, Reads, Creating
<1>5. c \notin readers /\ c \notin writer /\ c \notin parked /\ c \notin pending
  BY <1>2 DEF LockExcludes, Writing, Creating
<1>6. LockExcludes'
  BY <1>1, <1>2, <1>5 DEF TypeOK, LockExcludes, Reads, Writing, Creating
<1>7. WriterInvariant'
  <2>1. \A d \in writer : d # c /\ pc'[d] = pc[d] /\ req'[d] = req[d]
    BY <1>1, <1>2, <1>5 DEF TypeOK
  <2> QED BY <1>2, <2>1 DEF WriterInvariant, WriterIsAt, Effect, Untouched
<1>8. ReaderInvariant'
  BY <1>1, <1>2 DEF TypeOK, ReaderInvariant, ReaderIsAt
<1>9. IdsLeft'
  <2>1. CASE r.op = "create"
    <3>1. Creates' = Creates \cup {c} /\ c \notin Creates
      BY <1>1, <1>2, <2>1 DEF TypeOK, Creates
    <3>2. Cardinality(Creates') = Cardinality(Creates) + 1
      BY <3>1, CreatesAreFinite, FS_AddElement
    <3> QED BY <1>1, <1>2, <2>1, <3>2, CreatesAreFinite DEF TypeOK, IdsLeft
  <2>2. CASE r.op # "create"
    <3>1. Creates' = Creates
      BY <1>1, <1>2, <2>2 DEF TypeOK, Creates
    <3> QED BY <1>2, <3>1 DEF IdsLeft
  <2> QED BY <2>1, <2>2
<1> QED BY <1>3, <1>4, <1>6, <1>7, <1>8, <1>9

(* Waiting for the lock.                                                        *)
LEMMA WaitKeeps ==
    ASSUME IInv, NEW c \in Clients, Park(c) \/ Announce(c) PROVE IInv'
<1> USE DEF IInv
<1>1. PICK l \in {"parked", "announced"} : pc' = [pc EXCEPT ![c] = l]
  BY DEF Park, Announce, Goto
<1>2. /\ pc[c] = "lock"
      /\ UNCHANGED <<tasks, nextID, readers, writer, req, copied, fresh, found, resp, committed>>
      /\ \/ /\ l = "parked" /\ Reads(c) /\ parked' = parked \cup {c} /\ pending' = pending
         \/ /\ l = "announced" /\ ~ Reads(c) /\ parked' = parked
            /\ pending = {} /\ writer = {} /\ pending' = {c}
  BY <1>1 DEF Park, Announce, Goto, shared, TypeOK
<1>3. TypeOK'
  BY <1>1, <1>2 DEF TypeOK
<1>4. ServesItsRequest'
  BY <1>1, <1>2 DEF TypeOK, ServesItsRequest, Reads, Creating
<1>5. LockExcludes'
  BY <1>1, <1>2 DEF TypeOK, LockExcludes, Reads, Writing, Creating
<1>6. WriterInvariant'
  <2>1. \A d \in writer : d # c /\ pc'[d] = pc[d]
    BY <1>1, <1>2 DEF TypeOK, LockExcludes, Writing, Creating
  <2> QED BY <1>2, <2>1 DEF WriterInvariant, WriterIsAt, Effect, Untouched
<1>7. ReaderInvariant'
  BY <1>1, <1>2 DEF TypeOK, ReaderInvariant, ReaderIsAt
<1>8. IdsLeft'
  <2>1. Creates' = Creates
    BY <1>1, <1>2 DEF TypeOK, Creates
  <2> QED BY <1>2, <2>1 DEF IdsLeft
<1> QED BY <1>3, <1>4, <1>5, <1>6, <1>7, <1>8

(* Taking the lock: what is under it is what was last published.                *)
LEMMA EnterKeeps ==
    ASSUME IInv, NEW c \in Clients, RLock(c) \/ Resume(c) \/ Lock(c) PROVE IInv'
<1> USE DEF IInv
<1>1. /\ pc[c] \in {"lock", "parked", "announced"} /\ pc' = [pc EXCEPT ![c] = req[c].op]
      /\ UNCHANGED <<tasks, nextID, parked, req, copied, fresh, found, resp, committed>>
  BY DEF RLock, Resume, Lock, Goto, shared, lock
<1>2. /\ req[c] \in Requests
      /\ req[c].op \in {"list", "get", "create", "put", "delete"}
  BY <1>1, RequestsHave DEF ServesItsRequest
<1>3. /\ writer = {}
      /\ \/ /\ Reads(c) /\ pc[c] \in {"lock", "parked"}
            /\ readers' = readers \cup {c} /\ writer' = {} /\ pending' = pending
            /\ c \notin parked'
         \/ /\ ~ Reads(c) /\ pc[c] = "announced" /\ readers = {} /\ readers' = {}
            /\ writer' = {c} /\ pending' = {}
  <2>1. CASE RLock(c)
    BY <2>1 DEF RLock, LockExcludes
  <2>2. CASE Resume(c)
    BY <2>2 DEF Resume, lock, LockExcludes, ServesItsRequest, TypeOK
  <2>3. CASE Lock(c)
    BY <2>3 DEF Lock, LockExcludes, ServesItsRequest
  <2> QED BY <2>1, <2>2, <2>3
<1>4. TypeOK'
  <2>1. Cardinality(writer') <= 1
    <3>1. Cardinality({}) = 0 /\ Cardinality({c}) = 1
      BY FS_EmptySet, FS_Singleton
    <3>2. writer' = {} \/ writer' = {c}
      BY <1>3
    <3> QED BY <3>1, <3>2
  <2> QED BY <1>1, <1>2, <1>3, <2>1 DEF TypeOK
<1>5. ServesItsRequest'
  BY <1>1, <1>2 DEF TypeOK, ServesItsRequest, Reads, Creating
<1>6. LockExcludes'
  BY <1>1, <1>2, <1>3 DEF TypeOK, LockExcludes, Reads, Writing, Creating
<1>7. WriterInvariant'
  BY <1>1, <1>2, <1>3 DEF TypeOK, WriterInvariant, WriterIsAt, Untouched
<1>8. ReaderInvariant'
  <2>1. pc[c] # "announced" => copied[c] = NoTasks
    BY <1>1 DEF ReaderInvariant, ReaderIsAt
  <2>2. ReaderIsAt(c)'
    BY <1>1, <1>2, <1>3, <2>1 DEF TypeOK, ReaderIsAt, Reads, NoTasks, Api!NoTasks
  <2>3. \A d \in Clients \ {c} : pc'[d] = pc[d]
    BY <1>1 DEF TypeOK
  <2> QED BY <1>1, <2>2, <2>3 DEF ReaderInvariant, ReaderIsAt
<1>9. IdsLeft'
  <2>1. Creates' = Creates
    BY <1>1, <1>2 DEF TypeOK, Creates
  <2> QED BY <1>1, <2>1 DEF IdsLeft
<1> QED BY <1>4, <1>5, <1>6, <1>7, <1>8, <1>9

(* A reader's statements: nothing is written while it reads.                    *)
LEMMA ReaderKeeps ==
    ASSUME IInv, NEW c \in Clients, CopyEntry(c) \/ CopyDone(c) \/ Lookup(c) PROVE IInv'
<1> USE DEF IInv
<1>1. /\ pc[c] \in {"list", "get"} /\ pc'[c] \in {pc[c], "unlock"}
      /\ UNCHANGED <<tasks, nextID, readers, writer, pending, parked, req, fresh, found, committed>>
  BY DEF CopyEntry, CopyDone, Lookup, Prepare, Goto, shared, lock, TypeOK
<1>2. req[c] \in Requests /\ req[c].op = pc[c]
  BY <1>1 DEF ServesItsRequest
<1>3. OthersStay(c)
  BY StepsAreLocal DEF Handle
<1>4. writer = {} /\ tasks = committed.tasks /\ committed.tasks \in TaskMap
  BY <1>1 DEF TypeOK, LockExcludes, WriterInvariant, Untouched
<1>5. \A i \in DOMAIN tasks : i \in Ids /\ tasks[i] \in Api!Contents
  BY <1>4, MapsById
<1>6. TypeOK' /\ ReaderIsAt(c)'
  <2>1. CASE CopyEntry(c)
    <3>1. PICK i \in DOMAIN tasks \ DOMAIN copied[c] :
            copied' = [copied EXCEPT ![c] = Api!With(copied[c], i, tasks[i])]
      BY <2>1 DEF CopyEntry
    <3>2. /\ pc[c] = "list" /\ pc' = pc /\ resp' = resp
          /\ copied'[c] = Api!With(copied[c], i, tasks[i])
      BY <2>1, <3>1 DEF CopyEntry, TypeOK
    <3>3. Api!With(copied[c], i, tasks[i]) \in TaskMap
      BY <1>5, <3>1, MapsStayMaps DEF TypeOK
    <3>4. TypeOK'
      BY <1>1, <3>1, <3>2, <3>3 DEF TypeOK
    <3>5. ReaderIsAt(c)'
      BY <1>1, <1>4, <3>1, <3>2 DEF ReaderInvariant, ReaderIsAt, Api!With
    <3> QED BY <3>4, <3>5
  <2>2. CASE CopyDone(c)
    <3>1. copied[c] = committed.tasks
      <4>1. copied[c] \in TaskMap
        BY DEF TypeOK
      <4>2. DOMAIN copied[c] = DOMAIN committed.tasks
        BY <1>4, <2>2 DEF CopyDone, ReaderInvariant, ReaderIsAt
      <4>3. \A i \in DOMAIN copied[c] : copied[c][i] = committed.tasks[i]
        BY <2>2 DEF CopyDone, ReaderInvariant, ReaderIsAt
      <4> QED BY <1>4, <4>1, <4>2, <4>3, MapsById
    <3>2. /\ pc[c] = "list" /\ pc' = [pc EXCEPT ![c] = "unlock"] /\ copied' = copied
          /\ resp' = [resp EXCEPT ![c] = Api!Response("ok", committed.tasks)]
      BY <2>2, <3>1 DEF CopyDone, Prepare, Goto
    <3>3. TypeOK'
      BY <1>1, <1>4, <3>2, ResponsesAre DEF TypeOK
    <3>4. ReaderIsAt(c)'
      BY <1>1, <1>2, <3>2 DEF TypeOK, ReaderIsAt
    <3> QED BY <3>3, <3>4
  <2>3. CASE Lookup(c)
    <3>1. /\ pc[c] = "get" /\ pc' = [pc EXCEPT ![c] = "unlock"] /\ copied' = copied
          /\ resp' = [resp EXCEPT ![c] =
                         IF req[c].id \in DOMAIN tasks
                           THEN Api!Response("ok", Api!One(req[c].id, tasks[req[c].id]))
                           ELSE NotFound]
      BY <2>3 DEF Lookup, Prepare, Goto
    <3>2. resp'[c] \in Responses
      BY <1>5, <3>1, MapsStayMaps, ResponsesAre DEF TypeOK
    <3>3. TypeOK'
      BY <1>1, <3>1, <3>2 DEF TypeOK
    <3>4. ReaderIsAt(c)'
      BY <1>1, <1>2, <1>4, <3>1 DEF TypeOK, ReaderIsAt
    <3> QED BY <3>3, <3>4
  <2> QED BY <2>1, <2>2, <2>3
<1>7. ServesItsRequest'
  BY <1>1, <1>2, <1>3 DEF ServesItsRequest, OthersStay, Reads, Creating
<1>8. LockExcludes'
  BY <1>1, <1>2, <1>3 DEF LockExcludes, OthersStay, Reads, Writing, Creating
<1>9. WriterInvariant'
  BY <1>1, <1>4 DEF WriterInvariant, Untouched
<1>10. ReaderInvariant'
  BY <1>1, <1>3, <1>6 DEF ReaderInvariant, ReaderIsAt, OthersStay
<1>11. IdsLeft'
  <2>1. Creates' = Creates
    BY <1>1, <1>2, <1>3 DEF Creates, OthersStay
  <2> QED BY <1>1, <2>1 DEF IdsLeft
<1> QED BY <1>6, <1>7, <1>8, <1>9, <1>10, <1>11

(* The writer's statements: nobody else is under the lock.                      *)
LEMMA WriterKeeps ==
    ASSUME IInv, NEW c \in Clients,
           \/ ReadNextID(c) \/ Insert(c) \/ Bump(c) \/ Find(c) \/ Update(c) \/ ReadBack(c)
           \/ Remove(c)
    PROVE  IInv'
<1> USE DEF IInv
<1>1. /\ pc[c] \in Writing
      /\ UNCHANGED <<readers, writer, pending, parked, req, copied, committed>>
  BY DEF ReadNextID, Insert, Bump, Find, Update, ReadBack, Remove, Writing, Creating, lock, shared
<1>2. writer = {c} /\ readers = {} /\ WriterIsAt(c)
  BY <1>1 DEF LockExcludes, WriterInvariant
<1>3. /\ req[c] \in Requests
      /\ req[c].op = IF pc[c] \in Creating THEN "create"
                     ELSE IF pc[c] \in {"delete", "remove"} THEN "delete" ELSE "put"
  BY <1>1 DEF ServesItsRequest, Writing, Creating
<1>4. OthersStay(c)
  BY StepsAreLocal DEF Handle
<1>5. /\ req[c].op \in {"create", "put"} => req[c].body \in Api!Contents
      /\ req[c].op \in {"put", "delete"} => req[c].id \in Ids
  BY <1>3, RequestsHave
<1>6. pc[c] \in Creating => committed.nextID \in Ids
  BY <1>1, <1>3, NextIdIsLeft DEF Creates, Creating
<1>7. /\ TypeOK'
      /\ WriterIsAt(c)'
      /\ pc[c] \in Creating => pc'[c] \in Creating \cup {"unlock"}
      /\ pc[c] \in {"put", "update", "read_back"} => pc'[c] \in {"update", "read_back", "unlock"}
      /\ pc[c] \in {"delete", "remove"} => pc'[c] \in {"remove", "unlock"}
      /\ pc'[c] # "create"
  <2>1. CASE ReadNextID(c)
    <3>1. PICK l \in {"insert_then_bump", "bump_then_insert"} : pc' = [pc EXCEPT ![c] = l]
      BY <2>1 DEF ReadNextID, Goto
    <3>2. /\ pc[c] = "create" /\ fresh' = [fresh EXCEPT ![c] = nextID]
          /\ UNCHANGED <<tasks, nextID, found, resp>>
      BY <2>1 DEF ReadNextID, shared
    <3>3. nextID = committed.nextID /\ nextID \in 0 .. MaxId
      BY <1>2, <1>6, <3>2 DEF WriterIsAt, Untouched, Creating, Ids, Api!Ids
    <3>4. TypeOK'
      BY <1>1, <3>1, <3>2, <3>3 DEF TypeOK
    <3>5. WriterIsAt(c)'
      BY <1>1, <1>2, <3>1, <3>2, <3>3 DEF TypeOK, WriterIsAt, Untouched
    <3> QED BY <3>1, <3>2, <3>4, <3>5 DEF TypeOK, Creating
  <2>2. CASE Insert(c)
    <3>1. /\ pc[c] \in {"insert_then_bump", "insert"}
          /\ tasks' = Api!With(tasks, fresh[c], req[c].body)
          /\ UNCHANGED <<nextID, fresh, found>>
      BY <2>2 DEF Insert
    <3>2. fresh[c] = committed.nextID /\ tasks = committed.tasks
      BY <1>2, <3>1 DEF WriterIsAt, Untouched
    <3>3. fresh[c] \in Ids /\ req[c].body \in Api!Contents /\ tasks' \in TaskMap
      BY <1>3, <1>5, <1>6, <3>1, <3>2, MapsStayMaps DEF TypeOK, Creating
    <3>4. CASE pc[c] = "insert"
      <4>1. /\ pc' = [pc EXCEPT ![c] = "unlock"]
            /\ resp' = [resp EXCEPT ![c] =
                            Api!Response("created", Api!One(fresh[c], req[c].body))]
        BY <2>2, <3>4 DEF Insert, Prepare, Goto
      <4>2. TypeOK'
        BY <1>1, <3>1, <3>3, <4>1, MapsStayMaps, ResponsesAre DEF TypeOK
      <4>3. nextID' = committed.nextID + 1
        BY <1>2, <3>1, <3>4 DEF WriterIsAt
      <4>4. WriterIsAt(c)'
        BY <1>1, <1>3, <3>1, <3>2, <3>4, <4>1, <4>3 DEF TypeOK, WriterIsAt, Effect, Creating
      <4> QED BY <3>4, <4>1, <4>2, <4>4 DEF TypeOK, Creating
    <3>5. CASE pc[c] = "insert_then_bump"
      <4>1. pc' = [pc EXCEPT ![c] = "bump"] /\ resp' = resp
        BY <2>2, <3>5 DEF Insert, Goto
      <4>2. TypeOK'
        BY <1>1, <3>1, <3>3, <4>1 DEF TypeOK
      <4>3. WriterIsAt(c)'
        BY <1>1, <1>2, <3>1, <3>2, <3>5, <4>1 DEF TypeOK, WriterIsAt, Untouched
      <4> QED BY <3>5, <4>1, <4>2, <4>3 DEF TypeOK, Creating
    <3> QED BY <3>1, <3>4, <3>5
  <2>3. CASE Bump(c)
    <3>1. /\ pc[c] \in {"bump_then_insert", "bump"} /\ nextID' = nextID + 1
          /\ UNCHANGED <<tasks, fresh, found>>
      BY <2>3 DEF Bump
    <3>2. fresh[c] = committed.nextID /\ nextID = committed.nextID
      BY <1>2, <3>1 DEF WriterIsAt, Untouched
    <3>3. fresh[c] \in Ids /\ req[c].body \in Api!Contents /\ nextID' \in 1 .. MaxId + 1
      BY <1>3, <1>5, <1>6, <3>1, <3>2 DEF Creating, Ids, Api!Ids
    <3>4. CASE pc[c] = "bump"
      <4>1. /\ pc' = [pc EXCEPT ![c] = "unlock"]
            /\ resp' = [resp EXCEPT ![c] =
                            Api!Response("created", Api!One(fresh[c], req[c].body))]
        BY <2>3, <3>4 DEF Bump, Prepare, Goto
      <4>2. TypeOK'
        BY <1>1, <3>1, <3>3, <4>1, MapsStayMaps, ResponsesAre DEF TypeOK
      <4>3. WriterIsAt(c)'
        BY <1>1, <1>2, <1>3, <3>1, <3>2, <3>4, <4>1 DEF TypeOK, WriterIsAt, Effect, Creating
      <4> QED BY <3>4, <4>1, <4>2, <4>3 DEF TypeOK, Creating
    <3>5. CASE pc[c] = "bump_then_insert"
      <4>1. pc' = [pc EXCEPT ![c] = "insert"] /\ resp' = resp
        BY <2>3, <3>5 DEF Bump, Goto
      <4>2. TypeOK'
        BY <1>1, <3>1, <3>3, <4>1 DEF TypeOK
      <4>3. WriterIsAt(c)'
        BY <1>1, <1>2, <3>1, <3>2, <3>5, <4>1 DEF TypeOK, WriterIsAt, Untouched
      <4> QED BY <3>5, <4>1, <4>2, <4>3 DEF TypeOK, Creating
    <3> QED BY <3>1, <3>4, <3>5
  <2>4. CASE Find(c)
    <3>1. PICK l \in {"update", "remove"} :
            /\ pc' = [pc EXCEPT ![c] = l]
            /\ (pc[c] = "put" /\ l = "update") \/ (pc[c] = "delete" /\ l = "remove")
      BY <2>4 DEF Find, Goto
    <3>2. /\ found' = [found EXCEPT ![c] = req[c].id \in DOMAIN tasks]
          /\ UNCHANGED <<tasks, nextID, fresh, resp>>
      BY <2>4 DEF Find, shared
    <3>3. Untouched
      BY <1>2, <3>1 DEF WriterIsAt
    <3>4. TypeOK'
      BY <1>1, <3>1, <3>2 DEF TypeOK
    <3>5. WriterIsAt(c)'
      <4>1. found'[c] <=> req[c].id \in DOMAIN committed.tasks
        BY <3>2, <3>3 DEF TypeOK, Untouched
      <4>2. pc'[c] \in {"update", "remove"}
        BY <3>1 DEF TypeOK
      <4> QED BY <1>1, <3>2, <3>3, <4>1, <4>2 DEF WriterIsAt, Untouched
    <3> QED BY <3>1, <3>4, <3>5 DEF TypeOK, Creating
  <2>5. CASE Update(c)
    <3>1. /\ pc[c] = "update" /\ pc' = [pc EXCEPT ![c] = "read_back"]
          /\ tasks' = IF found[c] THEN Api!With(tasks, req[c].id, req[c].body) ELSE tasks
          /\ UNCHANGED <<nextID, fresh, found, resp>> /\ req[c].op = "put"
      BY <1>3, <2>5 DEF Update, Goto, Creating
    <3>2. Untouched
      BY <1>2, <3>1 DEF WriterIsAt
    <3>3. tasks' \in TaskMap
      BY <1>5, <3>1, MapsStayMaps DEF TypeOK
    <3>4. TypeOK'
      BY <1>1, <3>1, <3>3 DEF TypeOK
    <3>5. WriterIsAt(c)'
      BY <1>1, <1>2, <3>1, <3>2 DEF TypeOK, WriterIsAt, Untouched
    <3> QED BY <3>1, <3>4, <3>5 DEF TypeOK, Creating
  <2>6. CASE ReadBack(c)
    <3>1. /\ pc[c] = "read_back" /\ pc' = [pc EXCEPT ![c] = "unlock"]
          /\ resp' = [resp EXCEPT ![c] =
                          IF found[c] THEN Api!Response("ok", Api!One(req[c].id, Stored(req[c].id)))
                                      ELSE NotFound]
          /\ UNCHANGED <<tasks, nextID, fresh, found>> /\ req[c].op = "put"
      BY <1>3, <2>6 DEF ReadBack, Prepare, Goto, shared, Creating
    <3>2. found[c] => Stored(req[c].id) = req[c].body
      BY <1>2, <3>1 DEF WriterIsAt, Stored, Api!With
    <3>3. TypeOK'
      BY <1>1, <1>5, <3>1, <3>2, MapsStayMaps, ResponsesAre DEF TypeOK
    <3>4. WriterIsAt(c)'
      BY <1>1, <1>2, <3>1, <3>2 DEF TypeOK, WriterIsAt, Effect, Untouched
    <3> QED BY <3>1, <3>3, <3>4 DEF TypeOK, Creating
  <2>7. CASE Remove(c)
    <3>1. /\ pc[c] = "remove" /\ pc' = [pc EXCEPT ![c] = "unlock"]
          /\ tasks' = Api!Without(tasks, req[c].id)
          /\ resp' = [resp EXCEPT ![c] =
                          IF found[c] THEN Api!Response("no_content", NoTasks) ELSE NotFound]
          /\ UNCHANGED <<nextID, fresh, found>> /\ req[c].op = "delete"
      BY <1>3, <2>7 DEF Remove, Prepare, Goto, Creating
    <3>2. Untouched /\ (found[c] <=> req[c].id \in DOMAIN tasks)
      BY <1>2, <3>1 DEF WriterIsAt, Untouched
    <3>3. TypeOK'
      BY <1>1, <3>1, MapsStayMaps, ResponsesAre DEF TypeOK
    <3>4. req[c].id \notin DOMAIN tasks => tasks' = tasks
      BY <3>1, MapsById DEF TypeOK, Api!Without
    <3>5. WriterIsAt(c)'
      BY <1>1, <3>1, <3>2, <3>4 DEF TypeOK, WriterIsAt, Effect, Untouched
    <3> QED BY <3>1, <3>3, <3>5 DEF TypeOK, Creating
  <2> QED BY <2>1, <2>2, <2>3, <2>4, <2>5, <2>6, <2>7
<1>8. ServesItsRequest'
  BY <1>1, <1>3, <1>4, <1>7 DEF ServesItsRequest, OthersStay, Reads, Creating, Writing
<1>9. LockExcludes'
  BY <1>1, <1>2, <1>3, <1>4, <1>7 DEF LockExcludes, OthersStay, Reads, Writing, Creating
<1>10. WriterInvariant'
  BY <1>1, <1>2, <1>7 DEF WriterInvariant
<1>11. ReaderInvariant'
  BY <1>1, <1>3, <1>4, <1>7 DEF ReaderInvariant, ReaderIsAt, OthersStay, Creating, Writing
<1>12. IdsLeft'
  <2>1. Creates' = Creates
    BY <1>1, <1>4, <1>7 DEF Creates, OthersStay, Writing, Creating
  <2> QED BY <1>1, <2>1 DEF IdsLeft
<1> QED BY <1>7, <1>8, <1>9, <1>10, <1>11, <1>12

(* The lock is released: a writer publishes its effect.                         *)
LEMMA UnlockKeeps ==
    ASSUME IInv, NEW c \in Clients, Unlock(c) PROVE IInv'
<1> USE DEF IInv
<1>1. /\ pc[c] = "unlock" /\ pc' = [pc EXCEPT ![c] = "respond"]
      /\ readers' = (readers \ {c}) \cup (IF c \in writer THEN parked ELSE {})
      /\ parked' = IF c \in writer THEN {} ELSE parked
      /\ writer' = writer \ {c}
      /\ committed' = IF c \in writer THEN [tasks |-> tasks, nextID |-> nextID] ELSE committed
      /\ UNCHANGED <<tasks, nextID, pending, req, copied, fresh, found, resp>>
  BY DEF Unlock, Release, Goto, shared
<1>2. req[c] \in Requests
  BY <1>1 DEF ServesItsRequest
<1>3. TypeOK'
  <2>1. writer' = {} \/ writer' = writer
    BY <1>1 DEF LockExcludes
  <2>2. committed' \in [tasks : TaskMap, nextID : 1 .. MaxId + 1]
    BY <1>1 DEF TypeOK
  <2>3. Cardinality(writer') <= 1
    <3>1. Cardinality({}) = 0 /\ Cardinality(writer) <= 1
      BY FS_EmptySet DEF TypeOK
    <3> QED BY <2>1, <3>1
  <2> QED BY <1>1, <2>2, <2>3 DEF TypeOK
<1>4. ServesItsRequest'
  BY <1>1 DEF TypeOK, ServesItsRequest, Reads, Creating
<1>5. LockExcludes'
  BY <1>1 DEF TypeOK, LockExcludes, Reads, Writing, Creating
<1>6. writer' = {} /\ Untouched'
  <2>1. CASE c \in writer
    BY <1>1, <2>1 DEF LockExcludes, Untouched
  <2>2. CASE c \notin writer
    <3>1. writer = {}
      BY <1>1, <2>2 DEF LockExcludes
    <3> QED BY <1>1, <2>2, <3>1 DEF WriterInvariant, Untouched
  <2> QED BY <2>1, <2>2
<1>7. WriterInvariant'
  BY <1>6 DEF WriterInvariant
<1>8. ReaderInvariant'
  <2> SUFFICES ASSUME NEW d \in Clients PROVE ReaderIsAt(d)'
    BY DEF ReaderInvariant
  <2>1. CASE c \in writer
    <3>1. d = c \/ (d \notin readers /\ d \notin writer)
      BY <2>1 DEF LockExcludes
    <3>2. d = c \/ pc[d] \notin {"list", "get", "unlock"}
      BY <3>1 DEF LockExcludes
    <3> QED BY <1>1, <3>2 DEF TypeOK, ReaderInvariant, ReaderIsAt
  <2>2. CASE c \notin writer
    BY <1>1, <2>2 DEF TypeOK, ReaderInvariant, ReaderIsAt
  <2> QED BY <2>1, <2>2
<1>9. IdsLeft'
  <2>1. CASE c \in writer /\ req[c].op = "create"
    <3>1. /\ tasks = Api!With(committed.tasks, committed.nextID, req[c].body)
          /\ nextID = committed.nextID + 1
      BY <1>1, <2>1 DEF WriterInvariant, WriterIsAt, Effect
    <3>2. c \in Creates /\ Creates' = Creates \ {c}
      BY <1>1, <2>1 DEF TypeOK, Creates
    <3>3. Cardinality(Creates') = Cardinality(Creates) - 1
      BY <3>2, CreatesAreFinite, FS_RemoveElement
    <3>4. DOMAIN tasks \subseteq 1 .. nextID - 1
      BY <3>1 DEF TypeOK, IdsLeft, Api!With
    <3> QED BY <1>1, <2>1, <3>1, <3>3, <3>4, CreatesAreFinite DEF TypeOK, IdsLeft
  <2>2. CASE c \in writer /\ req[c].op # "create"
    <3>1. /\ nextID = committed.nextID
          /\ DOMAIN tasks \subseteq DOMAIN committed.tasks
      <4>1. Effect(c)
        BY <1>1, <2>2 DEF WriterInvariant, WriterIsAt
      <4> QED BY <2>2, <4>1 DEF Effect, Untouched, Api!With, Api!Without
    <3>2. Creates' = Creates
      BY <1>1, <2>2 DEF TypeOK, Creates
    <3> QED BY <1>1, <2>2, <3>1, <3>2 DEF IdsLeft
  <2>3. CASE c \notin writer
    <3>1. Reads(c)
      BY <1>1, <2>3 DEF LockExcludes
    <3>2. Creates' = Creates
      BY <1>1, <3>1 DEF TypeOK, Creates, Reads
    <3> QED BY <1>1, <2>3, <3>2 DEF IdsLeft
  <2> QED BY <2>1, <2>2, <2>3
<1> QED BY <1>3, <1>4, <1>5, <1>7, <1>8, <1>9

LEMMA RespondKeeps ==
    ASSUME IInv, NEW c \in Clients, Respond(c) PROVE IInv'
<1> USE DEF IInv
<1>1. /\ pc[c] = "respond" /\ pc' = [pc EXCEPT ![c] = "idle"]
      /\ req' = [req EXCEPT ![c] = [op |-> "none"]]
      /\ copied' = [copied EXCEPT ![c] = NoTasks]
      /\ fresh' = [fresh EXCEPT ![c] = 0]
      /\ resp' = [resp EXCEPT ![c] = NoResponse]
      /\ found' = [found EXCEPT ![c] = FALSE]
      /\ UNCHANGED <<tasks, nextID, readers, writer, pending, parked, committed>>
  BY DEF Respond, Goto, shared, lock
<1>2. TypeOK'
  BY <1>1, MapsStayMaps, ResponsesAre DEF TypeOK
<1>3. ServesItsRequest'
  BY <1>1 DEF TypeOK, ServesItsRequest, Reads, Creating
<1>4. c \notin readers /\ c \notin writer /\ c \notin parked /\ c \notin pending
  BY <1>1 DEF LockExcludes, Writing, Creating
<1>5. LockExcludes'
  BY <1>1, <1>4 DEF TypeOK, LockExcludes, Reads, Writing, Creating
<1>6. WriterInvariant'
  <2>1. OthersStay(c)
    BY StepsAreLocal DEF Handle
  <2> QED BY <1>1, <1>4, <2>1 DEF TypeOK, OthersStay, WriterInvariant, WriterIsAt, Effect, Untouched
<1>7. ReaderInvariant'
  BY <1>1 DEF TypeOK, ReaderInvariant, ReaderIsAt
<1>8. IdsLeft'
  <2>1. Creates' = Creates
    BY <1>1 DEF TypeOK, Creates
  <2> QED BY <1>1, <2>1 DEF IdsLeft
<1> QED BY <1>2, <1>3, <1>5, <1>6, <1>7, <1>8

LEMMA NextIInv == ASSUME IInv, [Next]_vars PROVE IInv'
<1>1. CASE UNCHANGED vars
  BY <1>1 DEF vars, shared, lock, local, IInv, TypeOK, ServesItsRequest, LockExcludes, Reads,
              WriterInvariant, WriterIsAt, Effect, Untouched, ReaderInvariant, ReaderIsAt,
              IdsLeft, Creates
<1> QED
  BY <1>1, ArriveKeeps, WaitKeeps, EnterKeeps, ReaderKeeps, WriterKeeps, UnlockKeeps, RespondKeeps
  DEF Next, Acquire, Handle

LEMMA SpecIInv == Spec => []IInv
BY InitIInv, NextIInv, PTL DEF Spec

(* Every variable keeps its type; in particular at most one handler holds the   *)
(* lock for writing, and no create runs out of ids.                             *)
THEOREM TypeCorrect == Spec => []TypeOK
<1>1. IInv => TypeOK
  BY DEF IInv
<1> QED BY <1>1, SpecIInv, PTL

--------------------------------------------------------------------------------
(* What the release of the lock does to what is published.                      *)

LEMMA OnlyUnlockPublishes ==
    ASSUME TypeOK, [Next]_vars, committed' # committed
    PROVE  \E c \in writer : Unlock(c)
BY DEF Next, Arrive, Acquire, RLock, Park, Resume, Announce, Lock, Handle, CopyEntry, CopyDone,
       Lookup, ReadNextID, Insert, Bump, Find, Update, ReadBack, Remove, Unlock, Release,
       Respond, vars, TypeOK

(* Neither a later create nor a put that raced the delete brings an id back.    *)
THEOREM DeletedForGood == Spec => DeletedStaysDeleted
<1>1. ASSUME IInv, [Next]_vars
      PROVE  [ \A i \in 1 .. nextID - 1 :
                 i \notin DOMAIN committed.tasks /\ i < committed.nextID =>
                     i \notin DOMAIN committed'.tasks ]_vars
  <2> SUFFICES ASSUME committed' # committed,
                      NEW i \in 1 .. nextID - 1,
                      i \notin DOMAIN committed.tasks, i < committed.nextID
               PROVE  i \notin DOMAIN committed'.tasks
    OBVIOUS
  <2>1. PICK c \in writer : Unlock(c)
    BY <1>1, OnlyUnlockPublishes DEF IInv
  <2>2. pc[c] = "unlock" /\ committed'.tasks = tasks
    BY <2>1 DEF Unlock, Release
  <2>3. Effect(c)
    BY <1>1, <2>2 DEF IInv, WriterInvariant, WriterIsAt
  <2> QED BY <1>1, <2>2, <2>3 DEF IInv, TypeOK, Effect, Untouched, Api!With, Api!Without
<1> QED BY <1>1, SpecIInv, PTL DEF Spec, DeletedStaysDeleted

--------------------------------------------------------------------------------
(* The refinement.                                                              *)

calls == [c \in Clients |-> CallOf(c)]

(* What the object understands by requests, responses and maps is what the      *)
(* handlers do.                                                                 *)
LEMMA SameObject ==
    /\ Object!Ids = Ids
    /\ Object!Requests = Requests
    /\ Object!NoTasks = NoTasks
    /\ Object!NotFound = NotFound
    /\ Object!NoCall = Api!NoCall
    /\ \A r : Object!Called(r) = Api!Called(r)
    /\ \A r, a : Object!Served(r, a) = Api!Served(r, a)
    /\ \A s, b : Object!Response(s, b) = Api!Response(s, b)
    /\ \A id, t : Object!One(id, t) = Api!One(id, t)
    /\ \A m, id, t : Object!With(m, id, t) = Api!With(m, id, t)
    /\ \A m, id : Object!Without(m, id) = Api!Without(m, id)
BY DEF Ids, Requests, NoTasks, NotFound,
       Api!Ids, Api!Requests, Api!NoTasks, Api!NotFound, Api!NoCall, Api!NoResponse,
       Api!Called, Api!Served, Api!Response, Api!One, Api!With, Api!Without, Api!Contents,
       Object!Ids, Object!Requests, Object!NoTasks, Object!NotFound, Object!NoCall,
       Object!NoResponse, Object!Called, Object!Served, Object!Response, Object!One,
       Object!With, Object!Without, Object!Contents

(* The state of a call, by where its handler is.                                *)
LEMMA CallStates ==
    ASSUME NEW c \in Clients
    PROVE  /\ calls[c] = CallOf(c)
           /\ pc[c] = "idle" => CallOf(c) = Api!NoCall /\ CallOf(c).state = "idle"
           /\ pc[c] = "respond" =>
                CallOf(c) = Api!Served(req[c], resp[c]) /\ CallOf(c).state = "served"
           /\ pc[c] \notin {"idle", "respond"} =>
                /\ CallOf(c) = Api!Called(req[c])
                /\ CallOf(c).state = "open" /\ CallOf(c).req = req[c]
BY DEF calls, CallOf, Api!NoCall, Api!Called, Api!Served

(* A step of one handler changes its own call only.                             *)
LEMMA OneCallChanges ==
    ASSUME NEW c \in Clients, OthersStay(c)
    PROVE  calls' = [calls EXCEPT ![c] = CallOf(c)']
<1>1. \A d \in Clients \ {c} : CallOf(d)' = CallOf(d)
  BY DEF CallOf, OthersStay
<1> QED BY <1>1 DEF calls

LEMMA InitRefines == Init => Object!Init
<1>1. 1 .. 1 - 1 = {}
  OBVIOUS
<1> QED BY <1>1, SameObject DEF Init, Object!Init, CallOf, NoTasks

LEMMA ArriveRefines ==
    ASSUME TypeOK, NEW c \in Clients, Arrive(c) PROVE Object!Call(c)
<1>1. PICK r \in Requests : req' = [req EXCEPT ![c] = r]
  BY DEF Arrive
<1>2. pc[c] = "idle" /\ pc' = [pc EXCEPT ![c] = "lock"] /\ UNCHANGED <<resp, committed>>
  BY DEF Arrive, Goto
<1>3. CallOf(c)' = Api!Called(r)
  BY <1>1, <1>2 DEF TypeOK, CallOf
<1>4. calls' = [calls EXCEPT ![c] = Api!Called(r)]
  BY <1>3, OneCallChanges, StepsAreLocal
<1>5. calls[c].state = "idle"
  BY <1>2, CallStates
<1> QED BY <1>1, <1>2, <1>4, <1>5, SameObject DEF Object!Call, calls

LEMMA RespondRefines ==
    ASSUME TypeOK, NEW c \in Clients, Respond(c) PROVE Object!Return(c)
<1>1. pc[c] = "respond" /\ pc' = [pc EXCEPT ![c] = "idle"] /\ UNCHANGED committed
  BY DEF Respond, Goto
<1>2. CallOf(c)' = Api!NoCall
  BY <1>1 DEF TypeOK, CallOf
<1>3. calls' = [calls EXCEPT ![c] = Api!NoCall]
  BY <1>2, OneCallChanges, StepsAreLocal DEF Handle
<1>4. calls[c].state = "served"
  BY <1>1, CallStates
<1> QED BY <1>1, <1>3, <1>4, SameObject DEF Object!Return, calls

(* The request takes effect when the lock is released: a reader's answer is of  *)
(* what is published, a writer's effect is published with its answer.           *)
LEMMA UnlockRefines ==
    ASSUME IInv, NEW c \in Clients, Unlock(c)
    PROVE  \/ Object!List(c) \/ Object!Get(c) \/ Object!Put(c) \/ Object!Delete(c)
           \/ Object!Create(c) \/ Object!Miss(c)
<1> USE SameObject DEF IInv, Object!Asks, Object!Serve
<1>1. /\ pc[c] = "unlock" /\ pc' = [pc EXCEPT ![c] = "respond"]
      /\ committed' = IF c \in writer THEN [tasks |-> tasks, nextID |-> nextID] ELSE committed
      /\ UNCHANGED <<req, resp>>
  BY DEF Unlock, Release, Goto
<1>2. calls[c].state = "open" /\ calls[c].req = req[c]
  BY <1>1, CallStates
<1>3. calls' = [calls EXCEPT ![c] = Api!Served(calls[c].req, resp[c])]
  <2>1. CallOf(c)' = Api!Served(req[c], resp[c])
    BY <1>1 DEF TypeOK, CallOf
  <2>2. calls' = [calls EXCEPT ![c] = Api!Served(req[c], resp[c])]
    BY <2>1, OneCallChanges, StepsAreLocal DEF Handle
  <2> QED BY <1>2, <2>2
<1>4. req[c] \in Requests /\ req[c].op \in {"list", "get", "create", "put", "delete"}
  BY <1>1, RequestsHave DEF ServesItsRequest
<1>5. CASE Reads(c)
  <2>1. committed' = committed
    BY <1>1, <1>5 DEF LockExcludes
  <2>2. ReaderIsAt(c)
    BY DEF ReaderInvariant
  <2>3. CASE req[c].op = "list"
    <3>1. Object!List(c)
      BY <1>1, <1>2, <1>3, <2>1, <2>2, <2>3 DEF ReaderIsAt, Object!List, calls
    <3> QED BY <3>1
  <2>4. CASE req[c].op = "get" /\ req[c].id \in DOMAIN committed.tasks
    <3>1. Object!Get(c)
      BY <1>1, <1>2, <1>3, <2>1, <2>2, <2>4 DEF ReaderIsAt, Object!Get, calls
    <3> QED BY <3>1
  <2>5. CASE req[c].op = "get" /\ req[c].id \notin DOMAIN committed.tasks
    <3>1. Object!Miss(c)
      BY <1>1, <1>2, <1>3, <2>1, <2>2, <2>5 DEF ReaderIsAt, Object!Miss, calls
    <3> QED BY <3>1
  <2> QED BY <1>5, <2>3, <2>4, <2>5 DEF Reads
<1>6. CASE ~ Reads(c)
  <2>1. c \in writer /\ Effect(c)
    BY <1>1, <1>6 DEF LockExcludes, WriterInvariant, WriterIsAt
  <2>2. committed'.tasks = tasks /\ committed'.nextID = nextID
    BY <1>1, <2>1
  <2>3. nextID = committed.nextID => 1 .. committed'.nextID - 1 = 1 .. committed.nextID - 1
    BY <2>2
  <2>4. CASE req[c].op = "create"
    <3>1. /\ tasks = Api!With(committed.tasks, committed.nextID, req[c].body)
          /\ nextID = committed.nextID + 1
          /\ resp[c] = Api!Response("created", Api!One(committed.nextID, req[c].body))
      BY <2>1, <2>4 DEF Effect
    <3>2. committed.nextID \in Ids \ (1 .. committed.nextID - 1)
      BY <1>1, <2>4, NextIdIsLeft DEF Creates, TypeOK
    <3>3. 1 .. committed'.nextID - 1 = (1 .. committed.nextID - 1) \cup {committed.nextID}
      <4>1. \A n \in Nat \ {0} : 1 .. (n + 1) - 1 = (1 .. n - 1) \cup {n}
        OBVIOUS
      <4> QED BY <2>2, <3>1, <4>1 DEF TypeOK
    <3>4. /\ committed'.tasks = Api!With(committed.tasks, committed.nextID, req[c].body)
          /\ 1 .. committed'.nextID - 1 = (1 .. committed.nextID - 1) \cup {committed.nextID}
      BY <2>2, <3>1, <3>3
    <3>5. Object!Create(c)
      BY <1>2, <1>3, <2>4, <3>1, <3>2, <3>4 DEF Object!Create, calls
    <3> QED BY <3>5
  <2>5. CASE req[c].op = "put" /\ req[c].id \in DOMAIN committed.tasks
    <3>1. /\ tasks = Api!With(committed.tasks, req[c].id, req[c].body)
          /\ nextID = committed.nextID
          /\ resp[c] = Api!Response("ok", Api!One(req[c].id, req[c].body))
      BY <2>1, <2>5 DEF Effect
    <3>2. Object!Put(c)
      BY <1>2, <1>3, <2>2, <2>3, <2>5, <3>1 DEF Object!Put, calls
    <3> QED BY <3>2
  <2>6. CASE req[c].op = "delete" /\ req[c].id \in DOMAIN committed.tasks
    <3>1. /\ tasks = Api!Without(committed.tasks, req[c].id)
          /\ nextID = committed.nextID
          /\ resp[c] = Api!Response("no_content", NoTasks)
      BY <2>1, <2>6 DEF Effect
    <3>2. Object!Delete(c)
      BY <1>2, <1>3, <2>2, <2>3, <2>6, <3>1 DEF Object!Delete, calls
    <3> QED BY <3>2
  <2>7. CASE req[c].op \in {"put", "delete"} /\ req[c].id \notin DOMAIN committed.tasks
    <3>1. /\ tasks = committed.tasks /\ nextID = committed.nextID
          /\ resp[c] = NotFound
      BY <2>1, <2>7 DEF Effect, Untouched
    <3>2. Object!Miss(c)
      BY <1>2, <1>3, <2>2, <2>3, <2>7, <3>1 DEF Object!Miss, calls
    <3> QED BY <3>2
  <2> QED BY <1>4, <1>6, <2>4, <2>5, <2>6, <2>7 DEF Reads
<1> QED BY <1>5, <1>6

(* What is done before the release is seen by nobody.                           *)
LEMMA UnderTheLockStutters ==
    ASSUME TypeOK, ServesItsRequest, NEW c \in Clients,
           \/ Acquire(c) \/ CopyEntry(c) \/ CopyDone(c) \/ Lookup(c) \/ ReadNextID(c)
           \/ Insert(c) \/ Bump(c) \/ Find(c) \/ Update(c) \/ ReadBack(c) \/ Remove(c)
    PROVE  UNCHANGED <<committed, calls>>
<1>1. /\ committed' = committed /\ req' = req
      /\ pc[c] \notin {"idle", "respond"} /\ pc'[c] \notin {"idle", "respond"}
  BY RequestsHave
  DEF Acquire, RLock, Park, Resume, Announce, Lock, CopyEntry, CopyDone, Lookup, ReadNextID,
      Insert, Bump, Find, Update, ReadBack, Remove, Prepare, Goto, local, ServesItsRequest, TypeOK
<1>2. CallOf(c)' = CallOf(c)
  BY <1>1 DEF CallOf
<1>3. \A d \in Clients \ {c} : CallOf(d)' = CallOf(d)
  BY StepsAreLocal DEF Handle, OthersStay, CallOf
<1> QED BY <1>1, <1>2, <1>3 DEF calls

LEMMA NextRefines == ASSUME IInv, [Next]_vars PROVE [Object!Next]_(Object!vars)
<1> USE DEF IInv
<1>1. CASE UNCHANGED vars
  BY <1>1 DEF vars, local, Object!vars, CallOf
<1>2. ASSUME NEW c \in Clients,
             \/ Acquire(c) \/ CopyEntry(c) \/ CopyDone(c) \/ Lookup(c) \/ ReadNextID(c)
             \/ Insert(c) \/ Bump(c) \/ Find(c) \/ Update(c) \/ ReadBack(c) \/ Remove(c)
      PROVE  UNCHANGED Object!vars
  BY <1>2, UnderTheLockStutters DEF Object!vars, calls
<1>3. ASSUME NEW c \in Clients, Arrive(c) \/ Unlock(c) \/ Respond(c)
      PROVE  Object!Next
  BY <1>3, ArriveRefines, UnlockRefines, RespondRefines DEF Object!Next
<1> QED BY <1>1, <1>2, <1>3 DEF Next, Handle

(* What the handlers do under the lock, statement by statement, is one step of  *)
(* the object of the endpoint table.                                            *)
THEOREM LockedStoreIsOneObject == Spec => ImplementsTaskApi
BY SpecIInv, InitRefines, NextRefines, PTL DEF Spec, ImplementsTaskApi, Object!Spec

================================================================================
