------------------------------ MODULE TaskRefsProofs ------------------------------
(* Proofs about TaskRefs, for every finite set of clients and every number of    *)
(* ids: that two atomic cells without a lock are the one object of TaskApi.      *)
EXTENDS TaskRefs, FiniteSetTheorems, TLAPS

USE ClientsAssumption, MaxIdAssumption

--------------------------------------------------------------------------------
(* Tasks by id, and requests.                                                    *)

LEMMA MapsById ==
    \A m : m \in TaskMap <=> DOMAIN m \subseteq Ids /\ m \in [DOMAIN m -> Api!Contents]
<1>1. ASSUME NEW m \in TaskMap PROVE DOMAIN m \subseteq Ids /\ m \in [DOMAIN m -> Api!Contents]
  <2>1. PICK S \in SUBSET Ids : m \in [S -> Api!Contents]
    BY DEF TaskMap
  <2> QED BY <2>1
<1> QED BY <1>1 DEF TaskMap

LEMMA MapsStayMaps ==
    /\ NoTasks \in TaskMap
    /\ \A id \in Ids, t \in Api!Contents : Api!One(id, t) \in TaskMap
    /\ \A m \in TaskMap, id \in Ids, t \in Api!Contents : Api!With(m, id, t) \in TaskMap
    /\ \A m \in TaskMap : \A id : Api!Without(m, id) \in TaskMap
<1>1. NoTasks \in TaskMap
  BY MapsById DEF NoTasks, Api!NoTasks
<1>2. ASSUME NEW id \in Ids, NEW t \in Api!Contents PROVE Api!One(id, t) \in TaskMap
  BY MapsById DEF Api!One
<1>3. ASSUME NEW m \in TaskMap, NEW id \in Ids, NEW t \in Api!Contents
      PROVE  Api!With(m, id, t) \in TaskMap
  BY MapsById DEF Api!With
<1>4. ASSUME NEW m \in TaskMap, NEW id PROVE Api!Without(m, id) \in TaskMap
  BY MapsById DEF Api!Without
<1> QED BY <1>1, <1>2, <1>3, <1>4

LEMMA RequestsHave ==
    ASSUME NEW r \in Requests
    PROVE  /\ r.op \in {"list", "get", "create", "put", "delete"}
           /\ r.op \in {"get", "put", "delete"} => r.id \in Ids
           /\ r.op \in {"create", "put"} => r.body \in Api!Contents
BY DEF Requests, Ids, Api!Requests, Api!Contents

--------------------------------------------------------------------------------
(* The inductive invariant.                                                      *)

(* A handler serves the request that brought it where it is.                     *)
ServesItsRequest ==
    \A c \in Clients :
        /\ pc[c] \in {"list", "get", "create", "put", "delete"} =>
              req[c] \in Requests /\ req[c].op = pc[c]
        /\ pc[c] = "insert" => req[c] \in Requests /\ req[c].op = "create"

(* Creates that have yet to take their id find one left.                         *)
IdsLeft == counter + Cardinality(Creating) <= MaxId

IInv ==
    /\ TypeOK
    /\ ServesItsRequest
    /\ IdsLeft
    /\ HolesAreInFlight

LEMMA CreatingIsFinite == IsFiniteSet(Creating) /\ Cardinality(Creating) \in Nat
BY FS_Subset, FS_CardinalityType DEF Creating

LEMMA InitIInv == Init => IInv
<1> SUFFICES ASSUME Init PROVE IInv
  OBVIOUS
<1>1. TypeOK
  BY MapsStayMaps DEF Init, TypeOK, NoResponse, NoTasks, Api!NoResponse, Api!Response
<1>2. IdsLeft
  <2>1. Creating = {}
    BY DEF Init, Creating
  <2> QED BY <2>1, FS_EmptySet DEF Init, IdsLeft
<1>3. ServesItsRequest /\ HolesAreInFlight
  BY DEF Init, ServesItsRequest, HolesAreInFlight
<1> QED BY <1>1, <1>2, <1>3 DEF IInv

LEMMA ArriveKeeps ==
    ASSUME IInv, NEW c \in Clients, Arrive(c) PROVE IInv'
<1> USE DEF IInv
<1>1. PICK r \in Requests :
        /\ r.op = "create" => counter + Cardinality(Creating) < MaxId
        /\ req' = [req EXCEPT ![c] = r]
        /\ pc' = [pc EXCEPT ![c] = r.op]
  BY DEF Arrive
<1>2. r.op \in {"list", "get", "create", "put", "delete"}
  BY RequestsHave
<1>3. pc[c] = "idle" /\ UNCHANGED <<store, counter, fresh, resp, inserted>>
  BY DEF Arrive
<1>4. TypeOK'
  BY <1>1, <1>2, <1>3 DEF TypeOK
<1>5. ServesItsRequest'
  BY <1>1, <1>2, <1>3 DEF TypeOK, ServesItsRequest
<1>6. IdsLeft'
  <2>1. CASE r.op = "create"
    <3>1. Creating' = Creating \cup {c} /\ c \notin Creating
      BY <1>1, <1>3, <2>1 DEF TypeOK, Creating
    <3>2. Cardinality(Creating') = Cardinality(Creating) + 1
      BY <3>1, CreatingIsFinite, FS_AddElement
    <3> QED BY <1>1, <1>3, <2>1, <3>2, CreatingIsFinite DEF TypeOK, IdsLeft
  <2>2. CASE r.op # "create"
    <3>1. Creating' = Creating
      BY <1>1, <1>3, <2>2 DEF TypeOK, Creating
    <3> QED BY <1>3, <3>1 DEF IdsLeft
  <2> QED BY <2>1, <2>2
<1>7. HolesAreInFlight'
  <2>1. \A d \in Clients : pc'[d] = "insert" <=> pc[d] = "insert"
    BY <1>1, <1>2, <1>3 DEF TypeOK
  <2> QED BY <1>3, <2>1 DEF HolesAreInFlight
<1> QED BY <1>4, <1>5, <1>6, <1>7

(* The steps of a handler that leave ids alone: what it answers is well formed.  *)
LEMMA AnswerKeeps ==
    ASSUME IInv, NEW c \in Clients, ListTasks(c) \/ GetTask(c) \/ UpdateTask(c) \/ RemoveTask(c)
    PROVE  IInv'
<1> USE DEF IInv
<1>1. /\ pc[c] \in {"list", "get", "put", "delete"}
      /\ pc' = [pc EXCEPT ![c] = "respond"]
      /\ UNCHANGED <<counter, req, fresh, inserted>>
  BY DEF ListTasks, GetTask, UpdateTask, RemoveTask, Answer
<1>2. req[c] \in Requests /\ req[c].op = pc[c]
  BY <1>1 DEF ServesItsRequest
<1>3. TypeOK'
  <2> DEFINE answers == [status : {"ok", "created", "no_content", "not_found", "none"},
                         body : TaskMap]
  <2>1. \A s \in {"ok", "created", "no_content", "not_found", "none"}, m \in TaskMap :
          Api!Response(s, m) \in answers
    BY DEF Api!Response
  <2>2. NotFound \in answers
    BY <2>1, MapsStayMaps DEF NotFound, NoTasks, Api!NotFound
  <2>3. \A id \in DOMAIN store : id \in Ids /\ store[id] \in Api!Contents
    BY MapsById DEF TypeOK
  <2>4. store' \in TaskMap /\ \E a \in answers : resp' = [resp EXCEPT ![c] = a]
    <3>1. CASE ListTasks(c)
      BY <2>1, <3>1 DEF ListTasks, Answer, TypeOK
    <3>2. CASE GetTask(c)
      BY <2>1, <2>2, <2>3, <3>2, MapsStayMaps DEF GetTask, Answer, TypeOK
    <3>3. CASE UpdateTask(c)
      <4>1. req[c].id \in Ids /\ req[c].body \in Api!Contents
        BY <1>2, <3>3, RequestsHave DEF UpdateTask
      <4> QED BY <2>1, <2>2, <3>3, <4>1, MapsStayMaps DEF UpdateTask, Answer, TypeOK
    <3>4. CASE RemoveTask(c)
      BY <2>1, <2>2, <3>4, MapsStayMaps DEF RemoveTask, Answer, TypeOK
    <3> QED BY <3>1, <3>2, <3>3, <3>4
  <2> QED BY <1>1, <2>4 DEF TypeOK
<1>4. ServesItsRequest'
  BY <1>1 DEF TypeOK, ServesItsRequest
<1>5. IdsLeft'
  <2>1. Creating' = Creating
    BY <1>1, <1>2 DEF TypeOK, Creating
  <2> QED BY <1>1, <2>1 DEF IdsLeft
<1>6. HolesAreInFlight'
  <2>1. \A d \in Clients : pc'[d] = "insert" <=> pc[d] = "insert"
    BY <1>1 DEF TypeOK
  <2> QED BY <1>1, <2>1 DEF HolesAreInFlight
<1> QED BY <1>3, <1>4, <1>5, <1>6

(* A create takes an id no other create has taken or stored.                     *)
LEMMA TakeIdKeeps ==
    ASSUME IInv, NEW c \in Clients, TakeId(c) PROVE IInv'
<1> USE DEF IInv
<1>1. /\ pc[c] = "create" /\ pc' = [pc EXCEPT ![c] = "insert"]
      /\ counter' = counter + 1 /\ fresh' = [fresh EXCEPT ![c] = counter + 1]
      /\ UNCHANGED <<store, req, resp, inserted>>
  BY DEF TakeId
<1>2. req[c] \in Requests /\ req[c].op = "create"
  BY <1>1 DEF ServesItsRequest
<1>3. c \in Creating /\ Creating' = Creating \ {c}
  BY <1>1, <1>2 DEF TypeOK, Creating
<1>4. Cardinality(Creating') = Cardinality(Creating) - 1
  BY <1>3, CreatingIsFinite, FS_RemoveElement
<1>5. Cardinality(Creating) # 0
  BY <1>3, CreatingIsFinite, FS_EmptySet
<1>6. IdsLeft' /\ counter' \in 0 .. MaxId
  <2> DEFINE k == Cardinality(Creating)
  <2>1. k \in Nat \ {0} /\ counter \in 0 .. MaxId /\ counter + k <= MaxId
    BY <1>5, CreatingIsFinite DEF TypeOK, IdsLeft
  <2> HIDE DEF k
  <2>2. counter' + (k - 1) <= MaxId /\ counter' \in 0 .. MaxId
    BY <1>1, <2>1
  <2> QED BY <1>4, <2>2 DEF k, IdsLeft
<1>7. TypeOK' /\ ServesItsRequest'
  BY <1>1, <1>2, <1>6 DEF TypeOK, ServesItsRequest
<1>8. HolesAreInFlight'
  <2> DEFINE inserting == {d \in Clients : pc[d] = "insert"}
             taken == {fresh[d] : d \in inserting}
  <2>1. inserting' = inserting \cup {c} /\ c \notin inserting
    BY <1>1 DEF TypeOK
  <2>2. fresh'[c] = counter + 1 /\ \A d \in inserting : fresh'[d] = fresh[d]
    BY <1>1, <2>1 DEF TypeOK
  <2>3. taken' = taken \cup {counter + 1}
    BY <2>1, <2>2
  <2>4. 1 .. counter = inserted \cup taken
    BY DEF HolesAreInFlight
  <2>5. 1 .. counter' = (1 .. counter) \cup {counter + 1} /\ counter + 1 \notin 1 .. counter
    <3>1. counter \in Nat /\ counter' = counter + 1
      BY <1>1 DEF TypeOK
    <3>2. \A n \in Nat : 1 .. n + 1 = (1 .. n) \cup {n + 1} /\ n + 1 \notin 1 .. n
      OBVIOUS
    <3> QED BY <3>1, <3>2
  <2>6. 1 .. counter' = inserted' \cup taken'
    BY <1>1, <2>3, <2>4, <2>5
  <2>7. \A d \in inserting : fresh[d] \notin inserted /\ \A e \in inserting : fresh[d] = fresh[e] => d = e
    BY DEF HolesAreInFlight
  <2>8. counter + 1 \notin inserted /\ counter + 1 \notin taken
    BY <2>4, <2>5
  <2>9. \A d \in inserting' :
          fresh'[d] \notin inserted' /\ \A e \in inserting' : fresh'[d] = fresh'[e] => d = e
    BY <1>1, <2>1, <2>2, <2>7, <2>8
  <2> QED BY <2>6, <2>9 DEF HolesAreInFlight
<1> QED BY <1>6, <1>7, <1>8

(* The task is stored: its hole is filled.                                       *)
LEMMA InsertKeeps ==
    ASSUME IInv, NEW c \in Clients, InsertTask(c) PROVE IInv' /\ fresh[c] \in Ids \ inserted
<1> USE DEF IInv
<1> DEFINE inserting == {d \in Clients : pc[d] = "insert"}
           taken == {fresh[d] : d \in inserting}
<1>1. /\ pc[c] = "insert" /\ pc' = [pc EXCEPT ![c] = "respond"]
      /\ store' = Api!With(store, fresh[c], req[c].body)
      /\ inserted' = inserted \cup {fresh[c]}
      /\ resp' = [resp EXCEPT ![c] =
                      Api!Response("created", Api!One(fresh[c], req[c].body))]
      /\ UNCHANGED <<counter, req, fresh>>
  BY DEF InsertTask, Answer
<1>2. req[c].body \in Api!Contents
  BY <1>1, RequestsHave DEF ServesItsRequest
<1>3. 1 .. counter = inserted \cup taken
  BY DEF HolesAreInFlight
<1>4. \A d \in inserting : fresh[d] \notin inserted /\ \A e \in inserting : fresh[d] = fresh[e] => d = e
  BY DEF HolesAreInFlight
<1>5. fresh[c] \in Ids \ inserted
  <2>1. fresh[c] \in 1 .. counter
    BY <1>1, <1>3
  <2> QED BY <1>1, <1>4, <2>1 DEF TypeOK, Ids, Api!Ids
<1>6. TypeOK'
  <2>1. store' \in TaskMap
    BY <1>1, <1>2, <1>5, MapsStayMaps DEF TypeOK
  <2>2. Api!Response("created", Api!One(fresh[c], req[c].body)) \in
          [status : {"ok", "created", "no_content", "not_found", "none"}, body : TaskMap]
    BY <1>2, <1>5, MapsStayMaps DEF Api!Response
  <2> QED BY <1>1, <1>5, <2>1, <2>2 DEF TypeOK
<1>7. ServesItsRequest'
  BY <1>1 DEF TypeOK, ServesItsRequest
<1>8. IdsLeft'
  <2>1. Creating' = Creating
    BY <1>1 DEF TypeOK, Creating
  <2> QED BY <1>1, <2>1 DEF IdsLeft
<1>9. HolesAreInFlight'
  <2>1. inserting' = inserting \ {c} /\ c \in inserting
    BY <1>1 DEF TypeOK
  <2>2. inserted' \cup taken' = inserted \cup taken
    BY <1>1, <2>1
  <2>3. \A d \in inserting' :
          fresh'[d] \notin inserted' /\ \A e \in inserting' : fresh'[d] = fresh'[e] => d = e
    BY <1>1, <1>4, <2>1
  <2> QED BY <1>1, <1>3, <2>2, <2>3 DEF HolesAreInFlight
<1> QED BY <1>5, <1>6, <1>7, <1>8, <1>9

LEMMA RespondKeeps ==
    ASSUME IInv, NEW c \in Clients, Respond(c) PROVE IInv'
<1> USE DEF IInv
<1>1. /\ pc[c] = "respond" /\ pc' = [pc EXCEPT ![c] = "idle"]
      /\ req' = [req EXCEPT ![c] = [op |-> "none"]]
      /\ fresh' = [fresh EXCEPT ![c] = 0]
      /\ resp' = [resp EXCEPT ![c] = NoResponse]
      /\ UNCHANGED <<store, counter, inserted>>
  BY DEF Respond
<1>2. TypeOK'
  <2>1. NoResponse \in
          [status : {"ok", "created", "no_content", "not_found", "none"}, body : TaskMap]
    BY MapsStayMaps DEF NoResponse, NoTasks, Api!NoResponse, Api!Response
  <2> QED BY <1>1, <2>1 DEF TypeOK
<1>3. ServesItsRequest'
  BY <1>1 DEF TypeOK, ServesItsRequest
<1>4. IdsLeft'
  <2>1. Creating' = Creating
    BY <1>1 DEF TypeOK, Creating
  <2> QED BY <1>1, <2>1 DEF IdsLeft
<1>5. HolesAreInFlight'
  <2>1. \A d \in Clients :
          /\ pc'[d] = "insert" <=> pc[d] = "insert"
          /\ pc[d] = "insert" => fresh'[d] = fresh[d]
    BY <1>1 DEF TypeOK
  <2> DEFINE inserting == {d \in Clients : pc[d] = "insert"}
  <2>2. inserting' = inserting
    BY <2>1
  <2>3. {fresh[d] : d \in inserting}' = {fresh[d] : d \in inserting}
    BY <2>1, <2>2
  <2> QED BY <1>1, <2>1, <2>2, <2>3 DEF HolesAreInFlight
<1> QED BY <1>2, <1>3, <1>4, <1>5

LEMMA NextIInv == ASSUME IInv, [Next]_vars PROVE IInv'
<1>1. CASE UNCHANGED vars
  BY <1>1 DEF vars, IInv, TypeOK, ServesItsRequest, IdsLeft, HolesAreInFlight, Creating
<1> QED
  BY <1>1, ArriveKeeps, AnswerKeeps, TakeIdKeeps, InsertKeeps, RespondKeeps DEF Next

LEMMA SpecIInv == Spec => []IInv
BY InitIInv, NextIInv, PTL DEF Spec

(* Every variable keeps its type; in particular no create runs out of ids.       *)
THEOREM TypeCorrect == Spec => []TypeOK
<1>1. IInv => TypeOK
  BY DEF IInv
<1> QED BY <1>1, SpecIInv, PTL

(* However the two steps of the creates interleave, no id is taken twice, and    *)
(* the ids that are not stored are those of the creates in flight.               *)
THEOREM NoIdTwice == Spec => []HolesAreInFlight
<1>1. IInv => HolesAreInFlight
  BY DEF IInv
<1> QED BY <1>1, SpecIInv, PTL

--------------------------------------------------------------------------------
(* The refinement.                                                               *)

calls == [c \in Clients |-> CallOf(c)]

(* What the object understands by requests, responses and maps is what the       *)
(* handlers do.                                                                  *)
LEMMA SameObject ==
    /\ Object!Ids = Ids
    /\ Object!Requests = Requests
    /\ Object!NoTasks = NoTasks
    /\ Object!NotFound = NotFound
    /\ Object!NoCall = Api!NoCall
    /\ \A r : Object!Called(r) = Api!Called(r)
    /\ \A r, a : Object!Served(r, a) = Api!Served(r, a)
    /\ \A s, b : Object!Response(s, b) = Api!Response(s, b)
    /\ \A id, t : Object!One(id, t) = Api!One(id, t)
    /\ \A m, id, t : Object!With(m, id, t) = Api!With(m, id, t)
    /\ \A m, id : Object!Without(m, id) = Api!Without(m, id)
BY DEF Ids, Requests, NoTasks, NotFound,
       Api!Ids, Api!Requests, Api!NoTasks, Api!NotFound, Api!NoCall, Api!NoResponse,
       Api!Called, Api!Served, Api!Response, Api!One, Api!With, Api!Without, Api!Contents,
       Object!Ids, Object!Requests, Object!NoTasks, Object!NotFound, Object!NoCall,
       Object!NoResponse, Object!Called, Object!Served, Object!Response, Object!One,
       Object!With, Object!Without, Object!Contents

(* The state of a call, by where its handler is.                                 *)
LEMMA CallStates ==
    ASSUME NEW c \in Clients
    PROVE  /\ calls[c] = CallOf(c)
           /\ pc[c] = "idle" => CallOf(c) = Api!NoCall /\ CallOf(c).state = "idle"
           /\ pc[c] = "respond" =>
                CallOf(c) = Api!Served(req[c], resp[c]) /\ CallOf(c).state = "served"
           /\ pc[c] \notin {"idle", "respond"} =>
                /\ CallOf(c) = Api!Called(req[c])
                /\ CallOf(c).state = "open" /\ CallOf(c).req = req[c]
BY DEF calls, CallOf, Api!NoCall, Api!Called, Api!Served

(* A step of one handler changes its own call only.                              *)
LEMMA OneCallChanges ==
    ASSUME NEW c \in Clients,
           \A d \in Clients \ {c} :
               pc'[d] = pc[d] /\ req'[d] = req[d] /\ resp'[d] = resp[d]
    PROVE  calls' = [calls EXCEPT ![c] = CallOf(c)']
<1>1. \A d \in Clients \ {c} : CallOf(d)' = CallOf(d)
  BY DEF CallOf
<1> QED BY <1>1 DEF calls

LEMMA InitRefines == Init => Object!Init
BY SameObject DEF Init, Object!Init, CallOf, NoTasks

LEMMA ArriveRefines ==
    ASSUME TypeOK, NEW c \in Clients, Arrive(c) PROVE Object!Call(c)
<1>1. PICK r \in Requests : req' = [req EXCEPT ![c] = r] /\ pc' = [pc EXCEPT ![c] = r.op]
  BY DEF Arrive
<1>2. pc[c] = "idle" /\ UNCHANGED <<store, resp, inserted>>
  BY DEF Arrive
<1>3. CallOf(c)' = Api!Called(r)
  BY <1>1, <1>2, RequestsHave DEF TypeOK, CallOf
<1>4. calls' = [calls EXCEPT ![c] = Api!Called(r)]
  BY <1>1, <1>2, <1>3, OneCallChanges DEF TypeOK
<1>5. calls[c].state = "idle"
  BY <1>2, CallStates
<1> QED BY <1>1, <1>2, <1>4, <1>5, SameObject DEF Object!Call, calls

(* An answer is prepared in the step that accesses the store, and the call is    *)
(* served by it.                                                                 *)
LEMMA AnswerServes ==
    ASSUME TypeOK, NEW c \in Clients, NEW a,
           pc[c] \notin {"idle", "respond"}, Answer(c, a), req' = req
    PROVE  /\ calls[c].state = "open" /\ calls[c].req = req[c]
           /\ calls' = [calls EXCEPT ![c] = Api!Served(calls[c].req, a)]
<1>1. CallOf(c)' = Api!Served(req[c], a)
  BY DEF TypeOK, CallOf, Answer
<1>2. calls' = [calls EXCEPT ![c] = Api!Served(req[c], a)]
  BY <1>1, OneCallChanges DEF TypeOK, Answer
<1> QED BY <1>2, CallStates

LEMMA HandlersRefine ==
    ASSUME IInv, NEW c \in Clients,
           ListTasks(c) \/ GetTask(c) \/ UpdateTask(c) \/ RemoveTask(c) \/ InsertTask(c)
    PROVE  \/ Object!List(c) \/ Object!Get(c) \/ Object!Put(c) \/ Object!Delete(c)
           \/ Object!Create(c) \/ Object!Miss(c)
<1> USE SameObject DEF IInv, Object!Asks, Object!Serve
<1>1. /\ pc[c] \notin {"idle", "respond"} /\ req' = req
      /\ req[c].op = IF pc[c] = "insert" THEN "create" ELSE pc[c]
  BY DEF ListTasks, GetTask, UpdateTask, RemoveTask, InsertTask, ServesItsRequest
<1>2. ASSUME NEW a, Answer(c, a)
      PROVE  /\ calls[c].state = "open" /\ calls[c].req = req[c]
             /\ calls' = [calls EXCEPT ![c] = Api!Served(calls[c].req, a)]
  BY <1>1, <1>2, AnswerServes
<1>3. CASE ListTasks(c)
  <2>1. Object!List(c)
    BY <1>1, <1>2, <1>3 DEF ListTasks, Object!List, calls
  <2> QED BY <2>1
<1>4. CASE GetTask(c)
  <2>1. CASE req[c].id \in DOMAIN store
    <3>1. Object!Get(c)
      BY <1>1, <1>2, <1>4, <2>1 DEF GetTask, Object!Get, calls
    <3> QED BY <3>1
  <2>2. CASE req[c].id \notin DOMAIN store
    <3>1. Object!Miss(c)
      BY <1>1, <1>2, <1>4, <2>2 DEF GetTask, Object!Miss, calls
    <3> QED BY <3>1
  <2> QED BY <2>1, <2>2
<1>5. CASE UpdateTask(c)
  <2>1. CASE req[c].id \in DOMAIN store
    <3>1. Object!Put(c)
      BY <1>1, <1>2, <1>5, <2>1 DEF UpdateTask, Object!Put, calls
    <3> QED BY <3>1
  <2>2. CASE req[c].id \notin DOMAIN store
    <3>1. Object!Miss(c)
      BY <1>1, <1>2, <1>5, <2>2 DEF UpdateTask, Object!Miss, calls
    <3> QED BY <3>1
  <2> QED BY <2>1, <2>2
<1>6. CASE RemoveTask(c)
  <2>1. CASE req[c].id \in DOMAIN store
    <3>1. Object!Delete(c)
      BY <1>1, <1>2, <1>6, <2>1 DEF RemoveTask, Object!Delete, calls
    <3> QED BY <3>1
  <2>2. CASE req[c].id \notin DOMAIN store
    <3>1. Api!Without(store, req[c].id) = store
      BY <2>2, MapsById DEF TypeOK, Api!Without
    <3>2. Object!Miss(c)
      BY <1>1, <1>2, <1>6, <2>2, <3>1 DEF RemoveTask, Object!Miss, calls
    <3> QED BY <3>2
  <2> QED BY <2>1, <2>2
<1>7. CASE InsertTask(c)
  <2>1. fresh[c] \in Ids \ inserted
    BY <1>7, InsertKeeps
  <2>2. Object!Create(c)
    BY <1>1, <1>2, <1>7, <2>1 DEF InsertTask, Object!Create, calls
  <2> QED BY <2>2
<1> QED BY <1>3, <1>4, <1>5, <1>6, <1>7

LEMMA RespondRefines ==
    ASSUME TypeOK, NEW c \in Clients, Respond(c) PROVE Object!Return(c)
<1>1. /\ pc[c] = "respond" /\ pc' = [pc EXCEPT ![c] = "idle"]
      /\ req' = [req EXCEPT ![c] = [op |-> "none"]]
      /\ resp' = [resp EXCEPT ![c] = NoResponse]
      /\ UNCHANGED <<store, inserted>>
  BY DEF Respond
<1>2. CallOf(c)' = Api!NoCall
  BY <1>1 DEF TypeOK, CallOf
<1>3. calls' = [calls EXCEPT ![c] = Api!NoCall]
  BY <1>1, <1>2, OneCallChanges DEF TypeOK
<1>4. calls[c].state = "served"
  BY <1>1, CallStates
<1> QED BY <1>1, <1>3, <1>4, SameObject DEF Object!Return, calls

(* Taking an id is seen by nobody.                                               *)
LEMMA TakeIdStutters ==
    ASSUME TypeOK, NEW c \in Clients, TakeId(c) PROVE UNCHANGED <<store, inserted, calls>>
<1>1. /\ pc[c] = "create" /\ pc' = [pc EXCEPT ![c] = "insert"]
      /\ UNCHANGED <<store, req, resp, inserted>>
  BY DEF TakeId
<1>2. \A d \in Clients : CallOf(d)' = CallOf(d)
  BY <1>1 DEF TypeOK, CallOf
<1> QED BY <1>1, <1>2 DEF calls

LEMMA NextRefines == ASSUME IInv, [Next]_vars PROVE [Object!Next]_(Object!vars)
<1> USE DEF IInv
<1>1. CASE UNCHANGED vars
  BY <1>1 DEF vars, Object!vars, CallOf
<1>2. ASSUME NEW c \in Clients, TakeId(c) PROVE UNCHANGED Object!vars
  BY <1>2, TakeIdStutters DEF Object!vars, calls
<1>3. ASSUME NEW c \in Clients,
             \/ Arrive(c) \/ ListTasks(c) \/ GetTask(c) \/ InsertTask(c) \/ UpdateTask(c)
             \/ RemoveTask(c) \/ Respond(c)
      PROVE  Object!Next
  BY <1>3, ArriveRefines, HandlersRefine, RespondRefines DEF Object!Next
<1> QED BY <1>1, <1>2, <1>3 DEF Next

(* Two cells that are atomic one at a time are the object of the endpoint table: *)
(* every request takes effect at one point between its arrival and its response. *)
THEOREM RefsAreOneObject == Spec => ImplementsTaskApi
BY SpecIInv, InitRefines, NextRefines, PTL DEF Spec, ImplementsTaskApi, Object!Spec

================================================================================
