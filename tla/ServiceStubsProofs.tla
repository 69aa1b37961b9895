------------------------- MODULE ServiceStubsProofs -------------------------
(***************************************************************************)
(* Proofs about ServiceStubs, for any threads, services and servicers.     *)
(***************************************************************************)
EXTENDS ServiceStubs, FiniteSetTheorems, TLAPS

(***************************************************************************)
(* The invariant.  A thread that goes on with an endpoint finds a client   *)
(* of it; a thread that is about to make one has seen none, and none is    *)
(* ever removed, so that the clients that were made and the threads that   *)
(* are about to make one are at most as many as the threads.               *)
(***************************************************************************)
ClientInv ==
  /\ \A e \in Endpoint : clients[e] # None => clients[e].endpoint = e
  /\ \A t \in Thread : point[t] \in {"check", "create", "get", "stub"} =>
       found[t].endpoint \in Endpoint

Creating(e) == {t \in Thread : point[t] = "create" /\ found[t].endpoint = e}

MadeInv == \A e \in Endpoint :
  /\ clients[e] = None => made[e] = 0
  /\ made[e] + Cardinality(Creating(e)) <= Cardinality(Thread)

(***************************************************************************)
(* The worker has one queue for each servicer that was added, all of them  *)
(* bound once it serves; its table has the last servicer of each method;   *)
(* and calls are handled when no servicer can be added any more.           *)
(***************************************************************************)
Serving(a, k, s, m) == ImplFor[a[k]] = s /\ m \in Has[a[k]]

IsLast(i, a, s, m) ==
  \/ i = None /\ \A k \in 1..Len(a) : ~Serving(a, k, s, m)
  \/ \E k \in 1..Len(a) : /\ Serving(a, k, s, m) /\ i = a[k]
                          /\ \A j \in 1..Len(a) : Serving(a, j, s, m) => j <= k

QueueInv ==
  /\ Len(queues) = Len(added)
  /\ \A k \in 1..Len(added) : queues[k] = ImplFor[added[k]]
  /\ bound <= Len(queues)
  /\ setup = "serves" => bound = Len(queues)

TableInv ==
  \A s \in Service, m \in Method : IsLast(handlers[<<s, m>>], added, s, m)

Bound(s) == \E k \in 1..Len(added) : ImplFor[added[k]] = s

(* The worker's own name, broker and exchange for a service.                 *)
OwnAddress(s) ==
  [name |-> Definition[s], endpoint |-> Worker.endpoint, exchange |-> Worker.exchange]

CallInv ==
  \A t \in Thread :
    LET c == call[t] IN
    /\ c.fate # "none" => point[t] = "stub"
    /\ c.fate \in {"none", "lost"} => ~c.served
    /\ c.fate \in {"queued", "handled", "failed"} => c.method \in Method
    /\ c.served => setup = "serves"
    /\ c.fate \in {"handled", "failed"} =>
         /\ setup = "serves" /\ c.impl = handlers[<<service[t], c.method>>]
         /\ c.fate = "handled" <=> c.impl # None
    /\ c.fate = "dropped" /\ c.served =>
         \/ found[t] # OwnAddress(service[t]) \/ ~Bound(service[t])

StubsInv == TypeOK /\ ClientInv /\ StubFits /\ MadeInv /\ QueueInv /\ TableInv /\ CallInv

LEMMA InitStubsInv == Init => StubsInv
<1> SUFFICES ASSUME Init PROVE StubsInv
  OBVIOUS
<1> USE StubsAssumption
<1>1. TypeOK
  BY DEF Init, TypeOK, Point, Fate, NoAddress, NoCall
<1>2. ClientInv /\ StubFits
  BY DEF Init, ClientInv, StubFits
<1>3. MadeInv
  <2> SUFFICES ASSUME NEW e \in Endpoint
               PROVE  made[e] = 0 /\ made[e] + Cardinality(Creating(e)) <= Cardinality(Thread)
    BY DEF MadeInv
  <2>1. Creating(e) = {}
    BY DEF Init, Creating
  <2>2. Cardinality(Thread) \in Nat
    BY FS_CardinalityType
  <2> QED
    BY <2>1, <2>2, FS_EmptySet DEF Init, MadeInv
<1>4. QueueInv /\ TableInv
  BY DEF Init, QueueInv, TableInv, IsLast
<1>5. CallInv
  BY DEF Init, CallInv, NoCall
<1> QED
  BY <1>1, <1>2, <1>3, <1>4, <1>5 DEF StubsInv

(* Every step keeps the types. *)
LEMMA NextTypeOK == TypeOK /\ ClientInv /\ CallInv /\ [Next]_vars => TypeOK'
<1> SUFFICES ASSUME TypeOK, ClientInv, CallInv, [Next]_vars PROVE TypeOK'
  OBVIOUS
<1> USE StubsAssumption
<1>1. ASSUME NEW t \in Thread, NEW s \in Service, Ask(t, s) PROVE TypeOK'
  BY <1>1 DEF Ask, factoryVars, stubVars, workerVars, TypeOK, ClientInv,
    CallInv, Point, Fate, Client, NoAddress, NoCall
<1>2. ASSUME NEW t \in Thread, NEW n \in Name \cup {None},
             NEW c \in Instance \cup {None}, LookUp(t, n, c)
      PROVE  TypeOK'
  <2>1. found' = found \/ \E a \in Address : found' = [found EXCEPT ![t] = a]
    <3> DEFINE name == IF n = None THEN Definition[service[t]] ELSE n
    <3>1. name \in Name \cup {None}
      BY DEF TypeOK
    <3>2. name # None /\ c # None =>
            [name |-> name, endpoint |-> c.endpoint, exchange |-> c.exchange] \in Address
      BY <3>1 DEF Address
    <3> QED
      BY <1>2, <3>2 DEF LookUp
  <2>3. found' \in [Thread -> Address \cup {NoAddress}]
    BY <2>1 DEF TypeOK
  <2>4. point' \in [Thread -> Point]
    <3>1. PICK p \in Point : point' = [point EXCEPT ![t] = p]
      BY <1>2 DEF LookUp, Goes, Point
    <3> QED
      BY <3>1 DEF TypeOK
  <2> QED
    BY <1>2, <2>3, <2>4 DEF LookUp, factoryVars, workerVars, TypeOK
<1>3. ASSUME NEW t \in Thread, Check(t) PROVE TypeOK'
  BY <1>3 DEF Check, Goes, factoryVars, stubVars, workerVars, TypeOK,
    ClientInv, CallInv, Point, Fate, Client, NoAddress, NoCall
<1>4. ASSUME NEW t \in Thread, Create(t) PROVE TypeOK'
  BY <1>4 DEF Create, Goes, factoryVars, stubVars, workerVars, TypeOK,
    ClientInv, CallInv, Point, Fate, Client, NoAddress, NoCall
<1>5. ASSUME NEW t \in Thread, GetStub(t) PROVE TypeOK'
  BY <1>5 DEF GetStub, Goes, factoryVars, stubVars, workerVars, TypeOK,
    ClientInv, CallInv, Point, Fate, Client, NoAddress, NoCall
<1>6. ASSUME NEW t \in Thread, Dispatch(t) PROVE TypeOK'
  <2>1. call[t].method \in Method /\ service[t] \in Service
    BY <1>6 DEF Dispatch, CallInv, TypeOK
  <2>2. handlers[<<service[t], call[t].method>>] \in Impl \cup {None}
    BY <2>1 DEF TypeOK
  <2>3. call' \in [Thread -> [method : Method \cup {None}, fate : Fate, served : BOOLEAN,
                             impl : Impl \cup {None}]]
    <3>1. call[t] \in [method : Method \cup {None}, fate : Fate, served : BOOLEAN,
                       impl : Impl \cup {None}]
      BY DEF TypeOK
    <3> DEFINE i == handlers[<<service[t], call[t].method>>]
               f == IF i = None THEN "failed" ELSE "handled"
    <3>2. call' = [call EXCEPT ![t] = [call[t] EXCEPT !.impl = i, !.fate = f]]
      BY <1>6, <3>1 DEF Dispatch, TypeOK
    <3>3. f \in Fate /\ i \in Impl \cup {None}
      BY <2>2 DEF Fate
    <3> HIDE DEF i, f
    <3>4. [call[t] EXCEPT !.impl = i, !.fate = f] \in
            [method : Method \cup {None}, fate : Fate, served : BOOLEAN, impl : Impl \cup {None}]
      BY <3>1, <3>3
    <3> QED
      BY <3>2, <3>4 DEF TypeOK
  <2> QED
    BY <1>6, <2>3 DEF Dispatch, factoryVars, stubVars, workerVars, TypeOK
<1>7. ASSUME NEW t \in Thread, NEW m \in Method, Publish(t, m) PROVE TypeOK'
  <2> DEFINE sent(fate) == [method |-> m, served |-> setup = "serves", impl |-> None,
                            fate |-> fate]
  <2>1. \/ call' = [call EXCEPT ![t].fate = "lost"]
        \/ call' = [call EXCEPT ![t] = sent("queued")]
        \/ call' = [call EXCEPT ![t] = sent("dropped")]
    BY <1>7 DEF Publish
  <2>2. call' \in [Thread -> [method : Method \cup {None}, fate : Fate, served : BOOLEAN,
                             impl : Impl \cup {None}]]
    <3> DEFINE Calls == [method : Method \cup {None}, fate : Fate, served : BOOLEAN,
                         impl : Impl \cup {None}]
    <3>1. call \in [Thread -> Calls] /\ call[t] \in Calls
      BY DEF TypeOK
    <3>2. \A c \in {"queued", "dropped"} : sent(c) \in Calls
      BY DEF Fate
    <3>3. [call[t] EXCEPT !.fate = "lost"] \in Calls
      BY <3>1 DEF Fate
    <3>4. call' = [call EXCEPT ![t] = [call[t] EXCEPT !.fate = "lost"]]
            \/ \E c \in {"queued", "dropped"} : call' = [call EXCEPT ![t] = sent(c)]
      BY <2>1, <3>1
    <3> HIDE DEF Calls, sent
    <3>5. call' \in [Thread -> Calls]
      BY <3>1, <3>2, <3>3, <3>4
    <3> QED
      BY <3>5 DEF Calls
  <2> QED
    BY <1>7, <2>2 DEF Publish, factoryVars, stubVars, workerVars, TypeOK
<1>8. CASE Declare
  BY <1>8 DEF Declare, factoryVars, stubVars, workerVars, TypeOK, ClientInv,
    CallInv, Point, Fate, Client, NoAddress, NoCall
<1>9. CASE Start
  BY <1>9 DEF Start, factoryVars, stubVars, workerVars, TypeOK, ClientInv,
    CallInv, Point, Fate, Client, NoAddress, NoCall
<1>10. ASSUME NEW i \in Impl, AddServicer(i) PROVE TypeOK'
  BY <1>10 DEF AddServicer, Handler, factoryVars, stubVars, workerVars, TypeOK,
    ClientInv, CallInv, Point, Fate, Client, NoAddress, NoCall
<1>11. CASE UNCHANGED vars
  BY <1>11 DEF vars, factoryVars, stubVars, workerVars, TypeOK, ClientInv,
    CallInv, Point, Fate, Client, NoAddress, NoCall
<1>12. ASSUME NEW t \in Thread, Raises(t) PROVE TypeOK'
  BY <1>12 DEF Raises, Goes, factoryVars, stubVars, workerVars, TypeOK,
    ClientInv, CallInv, Point, Fate, Client, NoAddress, NoCall
<1> QED
  BY <1>1, <1>2, <1>3, <1>4, <1>5, <1>6, <1>7, <1>8, <1>9, <1>10, <1>11, <1>12 DEF
    Next, GetsStub, Terminating

(* Every step keeps the cache. *)
LEMMA NextClientInv == TypeOK /\ ClientInv /\ [Next]_vars => ClientInv'
<1> SUFFICES ASSUME TypeOK, ClientInv, [Next]_vars PROVE ClientInv'
  OBVIOUS
<1> USE StubsAssumption
<1>1. ASSUME NEW t \in Thread, NEW s \in Service, Ask(t, s) PROVE ClientInv'
  BY <1>1 DEF Ask, factoryVars, stubVars, workerVars, TypeOK, ClientInv
<1>2. ASSUME NEW t \in Thread, NEW n \in Name \cup {None},
             NEW c \in Instance \cup {None}, LookUp(t, n, c)
      PROVE  ClientInv'
  BY <1>2 DEF LookUp, Goes, factoryVars, stubVars, workerVars, TypeOK, ClientInv
<1>3. ASSUME NEW t \in Thread, Check(t) PROVE ClientInv'
  BY <1>3 DEF Check, Goes, factoryVars, stubVars, workerVars, TypeOK, ClientInv
<1>4. ASSUME NEW t \in Thread, Create(t) PROVE ClientInv'
  BY <1>4 DEF Create, Goes, factoryVars, stubVars, workerVars, TypeOK, ClientInv
<1>5. ASSUME NEW t \in Thread, GetStub(t) PROVE ClientInv'
  BY <1>5 DEF GetStub, Goes, factoryVars, stubVars, workerVars, TypeOK,
    ClientInv
<1>6. ASSUME NEW t \in Thread, Dispatch(t) PROVE ClientInv'
  BY <1>6 DEF Dispatch, factoryVars, stubVars, workerVars, TypeOK, ClientInv
<1>7. ASSUME NEW t \in Thread, NEW m \in Method, Publish(t, m) PROVE ClientInv'
  BY <1>7 DEF Publish, Routed, factoryVars, stubVars, workerVars, TypeOK,
    ClientInv
<1>8. CASE Declare
  BY <1>8 DEF Declare, factoryVars, stubVars, workerVars, TypeOK, ClientInv
<1>9. CASE Start
  BY <1>9 DEF Start, factoryVars, stubVars, workerVars, TypeOK, ClientInv
<1>10. ASSUME NEW i \in Impl, AddServicer(i) PROVE ClientInv'
  BY <1>10 DEF AddServicer, Handler, factoryVars, stubVars, workerVars, TypeOK,
    ClientInv
<1>11. CASE UNCHANGED vars
  BY <1>11 DEF vars, factoryVars, stubVars, workerVars, TypeOK, ClientInv
<1>12. ASSUME NEW t \in Thread, Raises(t) PROVE ClientInv'
  BY <1>12 DEF Raises, Goes, factoryVars, stubVars, workerVars, TypeOK, ClientInv
<1> QED
  BY <1>1, <1>2, <1>3, <1>4, <1>5, <1>6, <1>7, <1>8, <1>9, <1>10, <1>11, <1>12 DEF
    Next, GetsStub, Terminating

(* Every step keeps the stubs fitting. *)
LEMMA NextStubFits == TypeOK /\ ClientInv /\ StubFits /\ [Next]_vars => StubFits'
<1> SUFFICES ASSUME TypeOK, ClientInv, StubFits, [Next]_vars PROVE StubFits'
  OBVIOUS
<1> USE StubsAssumption
<1>1. ASSUME NEW t \in Thread, NEW s \in Service, Ask(t, s) PROVE StubFits'
  BY <1>1 DEF Ask, factoryVars, stubVars, workerVars, TypeOK, ClientInv,
    StubFits, Client
<1>2. ASSUME NEW t \in Thread, NEW n \in Name \cup {None},
             NEW c \in Instance \cup {None}, LookUp(t, n, c)
      PROVE  StubFits'
  BY <1>2 DEF LookUp, Goes, factoryVars, stubVars, workerVars, TypeOK,
    ClientInv, StubFits, Client
<1>3. ASSUME NEW t \in Thread, Check(t) PROVE StubFits'
  BY <1>3 DEF Check, Goes, factoryVars, stubVars, workerVars, TypeOK,
    ClientInv, StubFits, Client
<1>4. ASSUME NEW t \in Thread, Create(t) PROVE StubFits'
  BY <1>4 DEF Create, Goes, factoryVars, stubVars, workerVars, TypeOK,
    ClientInv, StubFits, Client
<1>5. ASSUME NEW t \in Thread, GetStub(t) PROVE StubFits'
  BY <1>5 DEF GetStub, Goes, factoryVars, stubVars, workerVars, TypeOK,
    ClientInv, StubFits, Client
<1>6. ASSUME NEW t \in Thread, Dispatch(t) PROVE StubFits'
  BY <1>6 DEF Dispatch, factoryVars, stubVars, workerVars, TypeOK, ClientInv,
    StubFits, Client
<1>7. ASSUME NEW t \in Thread, NEW m \in Method, Publish(t, m) PROVE StubFits'
  BY <1>7 DEF Publish, Routed, factoryVars, stubVars, workerVars, TypeOK,
    ClientInv, StubFits, Client
<1>8. CASE Declare
  BY <1>8 DEF Declare, factoryVars, stubVars, workerVars, TypeOK, ClientInv,
    StubFits, Client
<1>9. CASE Start
  BY <1>9 DEF Start, factoryVars, stubVars, workerVars, TypeOK, ClientInv,
    StubFits, Client
<1>10. ASSUME NEW i \in Impl, AddServicer(i) PROVE StubFits'
  BY <1>10 DEF AddServicer, Handler, factoryVars, stubVars, workerVars, TypeOK,
    ClientInv, StubFits, Client
<1>11. CASE UNCHANGED vars
  BY <1>11 DEF vars, factoryVars, stubVars, workerVars, TypeOK, ClientInv,
    StubFits, Client
<1>12. ASSUME NEW t \in Thread, Raises(t) PROVE StubFits'
  BY <1>12 DEF Raises, Goes, factoryVars, stubVars, workerVars, TypeOK,
    ClientInv, StubFits, Client
<1> QED
  BY <1>1, <1>2, <1>3, <1>4, <1>5, <1>6, <1>7, <1>8, <1>9, <1>10, <1>11, <1>12 DEF
    Next, GetsStub, Terminating

LEMMA FewerCreating ==
  ASSUME TypeOK, MadeInv, UNCHANGED <<clients, made>>,
         \A e \in Endpoint : Creating(e)' \subseteq Creating(e)
  PROVE  MadeInv'
<1> SUFFICES ASSUME NEW e \in Endpoint
             PROVE  made[e] + Cardinality(Creating(e)') <= Cardinality(Thread)
  BY DEF MadeInv
<1>1. IsFiniteSet(Thread) /\ Creating(e) \subseteq Thread
  BY StubsAssumption DEF Creating
<1>2. IsFiniteSet(Creating(e)) /\ IsFiniteSet(Creating(e)')
  BY <1>1, FS_Subset
<1>3. Cardinality(Creating(e)') <= Cardinality(Creating(e))
  BY <1>2, FS_Subset
<1>4. /\ Cardinality(Creating(e)') \in Nat /\ Cardinality(Creating(e)) \in Nat
      /\ Cardinality(Thread) \in Nat /\ made[e] \in Nat
  BY <1>1, <1>2, FS_CardinalityType DEF TypeOK
<1>5. made[e] + Cardinality(Creating(e)) <= Cardinality(Thread)
  BY DEF MadeInv
<1> QED
  BY <1>3, <1>4, <1>5

(* No thread makes two clients of an endpoint. *)
LEMMA NextMadeInv == TypeOK /\ ClientInv /\ MadeInv /\ [Next]_vars => MadeInv'
<1> SUFFICES ASSUME TypeOK, ClientInv, MadeInv, [Next]_vars PROVE MadeInv'
  OBVIOUS
<1> USE StubsAssumption
<1>1. ASSUME NEW t \in Thread, NEW s \in Service, Ask(t, s) PROVE MadeInv'
  <2>1. UNCHANGED <<clients, made>>
    BY <1>1 DEF Ask, factoryVars, stubVars, workerVars
  <2>2. \A d \in Endpoint : Creating(d)' \subseteq Creating(d)
    BY <1>1 DEF Ask, factoryVars, stubVars, workerVars, Creating, TypeOK
  <2> QED
    BY <2>1, <2>2, FewerCreating
<1>2. ASSUME NEW t \in Thread, NEW n \in Name \cup {None},
             NEW c \in Instance \cup {None}, LookUp(t, n, c)
      PROVE  MadeInv'
  <2>1. UNCHANGED <<clients, made>>
    BY <1>2 DEF LookUp, Goes, factoryVars, stubVars, workerVars
  <2>2. \A d \in Endpoint : Creating(d)' \subseteq Creating(d)
    BY <1>2 DEF LookUp, Goes, factoryVars, stubVars, workerVars, Creating,
      TypeOK
  <2> QED
    BY <2>1, <2>2, FewerCreating
<1>3. ASSUME NEW t \in Thread, Check(t) PROVE MadeInv'
  <2> DEFINE e == found[t].endpoint
  <2>1. CASE clients[e] # None
    <3>1. \A d \in Endpoint : Creating(d)' \subseteq Creating(d)
      BY <1>3, <2>1 DEF Check, Goes, Creating, TypeOK
    <3> QED
      BY <1>3, <3>1, FewerCreating DEF Check, factoryVars
  <2>2. CASE clients[e] = None
    <3>1. \A d \in Endpoint : d # e => Creating(d)' = Creating(d)
      BY <1>3, <2>2 DEF Check, Goes, Creating, TypeOK
    <3>2. e \in Endpoint => Creating(e)' \subseteq Thread /\ made'[e] = 0
      BY <1>3, <2>2 DEF Check, factoryVars, Creating, MadeInv
    <3>3. e \in Endpoint => Cardinality(Creating(e)') <= Cardinality(Thread)
      BY <3>2, FS_Subset
    <3>4. e \in Endpoint => made'[e] + Cardinality(Creating(e)') <= Cardinality(Thread)
      BY <3>2, <3>3, FS_Subset, FS_CardinalityType
    <3> QED
      BY <1>3, <3>1, <3>4 DEF Check, factoryVars, MadeInv
  <2> QED
    BY <2>1, <2>2
<1>4. ASSUME NEW t \in Thread, Create(t) PROVE MadeInv'
  <2>0. PICK e \in Endpoint : e = found[t].endpoint
    BY <1>4 DEF Create, Goes, ClientInv
  <2>1. e \in Endpoint /\ t \in Creating(e)
    BY <1>4, <2>0 DEF Create, Goes, Creating
  <2>2. /\ Creating(e)' = Creating(e) \ {t}
        /\ \A d \in Endpoint : d # e => Creating(d)' = Creating(d)
    BY <1>4, <2>0 DEF Create, Goes, Creating, TypeOK
  <2>3. /\ made'[e] = made[e] + 1 /\ clients'[e] # None
        /\ \A d \in Endpoint : d # e => made'[d] = made[d] /\ clients'[d] = clients[d]
    BY <1>4, <2>0, <2>1 DEF Create, TypeOK
  <2>4. Cardinality(Creating(e)') = Cardinality(Creating(e)) - 1 /\ Cardinality(Creating(e)) \in Nat
    <3>1. IsFiniteSet(Creating(e))
      BY FS_Subset DEF Creating
    <3> QED
      BY <2>1, <2>2, <3>1, FS_RemoveElement, FS_CardinalityType
  <2>5. made[e] \in Nat /\ Cardinality(Thread) \in Nat
    BY <2>1, FS_CardinalityType DEF TypeOK
  <2>6. made'[e] + Cardinality(Creating(e)') <= Cardinality(Thread)
    BY <2>1, <2>3, <2>4, <2>5 DEF MadeInv
  <2> SUFFICES ASSUME NEW d \in Endpoint
               PROVE  /\ clients'[d] = None => made'[d] = 0
                      /\ made'[d] + Cardinality(Creating(d)') <= Cardinality(Thread)
    BY DEF MadeInv
  <2>7. CASE d = e
    BY <2>3, <2>6, <2>7
  <2>8. CASE d # e
    <3>1. Creating(d)' = Creating(d) /\ made'[d] = made[d] /\ clients'[d] = clients[d]
      BY <2>2, <2>3, <2>8
    <3> QED
      BY <3>1 DEF MadeInv
  <2> QED
    BY <2>7, <2>8
<1>5. ASSUME NEW t \in Thread, GetStub(t) PROVE MadeInv'
  <2>1. UNCHANGED <<clients, made>>
    BY <1>5 DEF GetStub, Goes, factoryVars, stubVars, workerVars
  <2>2. \A d \in Endpoint : Creating(d)' \subseteq Creating(d)
    BY <1>5 DEF GetStub, Goes, factoryVars, stubVars, workerVars, Creating,
      TypeOK
  <2> QED
    BY <2>1, <2>2, FewerCreating
<1>6. ASSUME NEW t \in Thread, Dispatch(t) PROVE MadeInv'
  <2>1. UNCHANGED <<clients, made>>
    BY <1>6 DEF Dispatch, factoryVars, stubVars, workerVars
  <2>2. \A d \in Endpoint : Creating(d)' \subseteq Creating(d)
    BY <1>6 DEF Dispatch, factoryVars, stubVars, workerVars, Creating, TypeOK
  <2> QED
    BY <2>1, <2>2, FewerCreating
<1>7. ASSUME NEW t \in Thread, NEW m \in Method, Publish(t, m) PROVE MadeInv'
  <2>1. UNCHANGED <<clients, made>>
    BY <1>7 DEF Publish, factoryVars, stubVars, workerVars
  <2>2. \A d \in Endpoint : Creating(d)' \subseteq Creating(d)
    BY <1>7 DEF Publish, factoryVars, stubVars, workerVars, Creating, TypeOK
  <2> QED
    BY <2>1, <2>2, FewerCreating
<1>8. CASE Declare
  <2>1. UNCHANGED <<clients, made>>
    BY <1>8 DEF Declare, factoryVars, stubVars, workerVars
  <2>2. \A d \in Endpoint : Creating(d)' \subseteq Creating(d)
    BY <1>8 DEF Declare, factoryVars, stubVars, workerVars, Creating, TypeOK
  <2> QED
    BY <2>1, <2>2, FewerCreating
<1>9. CASE Start
  <2>1. UNCHANGED <<clients, made>>
    BY <1>9 DEF Start, factoryVars, stubVars, workerVars
  <2>2. \A d \in Endpoint : Creating(d)' \subseteq Creating(d)
    BY <1>9 DEF Start, factoryVars, stubVars, workerVars, Creating, TypeOK
  <2> QED
    BY <2>1, <2>2, FewerCreating
<1>10. ASSUME NEW i \in Impl, AddServicer(i) PROVE MadeInv'
  <2>1. UNCHANGED <<clients, made>>
    BY <1>10 DEF AddServicer, factoryVars, stubVars, workerVars
  <2>2. \A d \in Endpoint : Creating(d)' \subseteq Creating(d)
    BY <1>10 DEF AddServicer, factoryVars, stubVars, workerVars, Creating,
      TypeOK
  <2> QED
    BY <2>1, <2>2, FewerCreating
<1>11. CASE UNCHANGED vars
  <2>1. UNCHANGED <<clients, made>>
    BY <1>11 DEF vars, factoryVars, stubVars, workerVars
  <2>2. \A d \in Endpoint : Creating(d)' \subseteq Creating(d)
    BY <1>11 DEF vars, factoryVars, stubVars, workerVars, Creating, TypeOK
  <2> QED
    BY <2>1, <2>2, FewerCreating
<1>12. ASSUME NEW t \in Thread, Raises(t) PROVE MadeInv'
  <2>1. UNCHANGED <<clients, made>>
    BY <1>12 DEF Raises, factoryVars
  <2>2. \A d \in Endpoint : Creating(d)' \subseteq Creating(d)
    BY <1>12 DEF Raises, Goes, Creating, TypeOK
  <2> QED
    BY <2>1, <2>2, FewerCreating
<1> QED
  BY <1>1, <1>2, <1>3, <1>4, <1>5, <1>6, <1>7, <1>8, <1>9, <1>10, <1>11, <1>12 DEF
    Next, GetsStub, Terminating

(* Every step keeps the queues. *)
LEMMA NextQueueInv == TypeOK /\ QueueInv /\ [Next]_vars => QueueInv'
<1> SUFFICES ASSUME TypeOK, QueueInv, [Next]_vars PROVE QueueInv'
  OBVIOUS
<1> USE StubsAssumption
<1>1. ASSUME NEW t \in Thread, NEW s \in Service, Ask(t, s) PROVE QueueInv'
  BY <1>1 DEF Ask, factoryVars, stubVars, workerVars, TypeOK, QueueInv
<1>2. ASSUME NEW t \in Thread, NEW n \in Name \cup {None},
             NEW c \in Instance \cup {None}, LookUp(t, n, c)
      PROVE  QueueInv'
  BY <1>2 DEF LookUp, Goes, factoryVars, stubVars, workerVars, TypeOK, QueueInv
<1>3. ASSUME NEW t \in Thread, Check(t) PROVE QueueInv'
  BY <1>3 DEF Check, Goes, factoryVars, stubVars, workerVars, TypeOK, QueueInv
<1>4. ASSUME NEW t \in Thread, Create(t) PROVE QueueInv'
  BY <1>4 DEF Create, Goes, factoryVars, stubVars, workerVars, TypeOK, QueueInv
<1>5. ASSUME NEW t \in Thread, GetStub(t) PROVE QueueInv'
  BY <1>5 DEF GetStub, Goes, factoryVars, stubVars, workerVars, TypeOK, QueueInv
<1>6. ASSUME NEW t \in Thread, Dispatch(t) PROVE QueueInv'
  BY <1>6 DEF Dispatch, factoryVars, stubVars, workerVars, TypeOK, QueueInv
<1>7. ASSUME NEW t \in Thread, NEW m \in Method, Publish(t, m) PROVE QueueInv'
  BY <1>7 DEF Publish, Routed, factoryVars, stubVars, workerVars, TypeOK,
    QueueInv
<1>8. CASE Declare
  BY <1>8 DEF Declare, factoryVars, stubVars, workerVars, TypeOK, QueueInv
<1>9. CASE Start
  BY <1>9 DEF Start, factoryVars, stubVars, workerVars, TypeOK, QueueInv
<1>10. ASSUME NEW i \in Impl, AddServicer(i) PROVE QueueInv'
  BY <1>10 DEF AddServicer, Handler, factoryVars, stubVars, workerVars, TypeOK,
    QueueInv
<1>11. CASE UNCHANGED vars
  BY <1>11 DEF vars, factoryVars, stubVars, workerVars, TypeOK, QueueInv
<1>12. ASSUME NEW t \in Thread, Raises(t) PROVE QueueInv'
  BY <1>12 DEF Raises, Goes, factoryVars, stubVars, workerVars, TypeOK, QueueInv
<1> QED
  BY <1>1, <1>2, <1>3, <1>4, <1>5, <1>6, <1>7, <1>8, <1>9, <1>10, <1>11, <1>12 DEF
    Next, GetsStub, Terminating

(* Every step keeps the table of methods. *)
LEMMA NextTableInv == TypeOK /\ TableInv /\ [Next]_vars => TableInv'
<1> SUFFICES ASSUME TypeOK, TableInv, [Next]_vars PROVE TableInv'
  OBVIOUS
<1> USE StubsAssumption
<1>1. ASSUME NEW t \in Thread, NEW s \in Service, Ask(t, s) PROVE TableInv'
  <2>1. UNCHANGED <<handlers, added>>
    BY <1>1 DEF Ask, workerVars
  <2> QED
    BY <2>1 DEF TableInv
<1>2. ASSUME NEW t \in Thread, NEW n \in Name \cup {None},
             NEW c \in Instance \cup {None}, LookUp(t, n, c)
      PROVE  TableInv'
  <2>1. UNCHANGED <<handlers, added>>
    BY <1>2 DEF LookUp, workerVars
  <2> QED
    BY <2>1 DEF TableInv
<1>3. ASSUME NEW t \in Thread, Check(t) PROVE TableInv'
  <2>1. UNCHANGED <<handlers, added>>
    BY <1>3 DEF Check, workerVars
  <2> QED
    BY <2>1 DEF TableInv
<1>4. ASSUME NEW t \in Thread, Create(t) PROVE TableInv'
  <2>1. UNCHANGED <<handlers, added>>
    BY <1>4 DEF Create, workerVars
  <2> QED
    BY <2>1 DEF TableInv
<1>5. ASSUME NEW t \in Thread, GetStub(t) PROVE TableInv'
  <2>1. UNCHANGED <<handlers, added>>
    BY <1>5 DEF GetStub, workerVars
  <2> QED
    BY <2>1 DEF TableInv
<1>6. ASSUME NEW t \in Thread, Dispatch(t) PROVE TableInv'
  <2>1. UNCHANGED <<handlers, added>>
    BY <1>6 DEF Dispatch, workerVars
  <2> QED
    BY <2>1 DEF TableInv
<1>7. ASSUME NEW t \in Thread, NEW m \in Method, Publish(t, m) PROVE TableInv'
  <2>1. UNCHANGED <<handlers, added>>
    BY <1>7 DEF Publish, workerVars
  <2> QED
    BY <2>1 DEF TableInv
<1>8. CASE Declare
  <2>1. UNCHANGED <<handlers, added>>
    BY <1>8 DEF Declare
  <2> QED
    BY <2>1 DEF TableInv
<1>9. CASE Start
  <2>1. UNCHANGED <<handlers, added>>
    BY <1>9 DEF Start
  <2> QED
    BY <2>1 DEF TableInv
<1>10. ASSUME NEW i \in Impl, AddServicer(i) PROVE TableInv'
  <2>1. /\ added' = Append(added, i) /\ Len(added') = Len(added) + 1 /\ Len(added) \in Nat
        /\ added'[Len(added) + 1] = i /\ \A k \in 1..Len(added) : added'[k] = added[k]
    BY <1>10 DEF AddServicer, TypeOK
  <2> SUFFICES ASSUME NEW s \in Service, NEW m \in Method
               PROVE  IsLast(handlers'[<<s, m>>], added', s, m)
    BY DEF TableInv
  <2>2. /\ \A k \in 1..Len(added) : Serving(added', k, s, m) <=> Serving(added, k, s, m)
        /\ Serving(added', Len(added) + 1, s, m) <=> ImplFor[i] = s /\ m \in Has[i]
    BY <2>1 DEF Serving
  <2>3. handlers'[<<s, m>>] = IF ImplFor[i] = s /\ m \in Has[i] THEN i ELSE handlers[<<s, m>>]
    BY <1>10 DEF AddServicer, Handler
  <2>4. IsLast(handlers[<<s, m>>], added, s, m)
    BY DEF TableInv
  <2>5. CASE ImplFor[i] = s /\ m \in Has[i]
    BY <2>1, <2>2, <2>3, <2>5 DEF IsLast
  <2>6. CASE ~(ImplFor[i] = s /\ m \in Has[i])
    <3>1. handlers'[<<s, m>>] = handlers[<<s, m>>] /\ ~Serving(added', Len(added) + 1, s, m)
      BY <2>2, <2>3, <2>6
    <3>2. CASE /\ handlers[<<s, m>>] = None
               /\ \A k \in 1..Len(added) : ~Serving(added, k, s, m)
      BY <2>1, <2>2, <3>1, <3>2 DEF IsLast
    <3>3. ASSUME NEW k \in 1..Len(added), Serving(added, k, s, m),
                 handlers[<<s, m>>] = added[k],
                 \A j \in 1..Len(added) : Serving(added, j, s, m) => j <= k
          PROVE  IsLast(handlers'[<<s, m>>], added', s, m)
      <4>1. k \in 1..Len(added') /\ Serving(added', k, s, m) /\ handlers'[<<s, m>>] = added'[k]
        BY <2>1, <2>2, <3>1, <3>3
      <4>2. \A j \in 1..Len(added') : Serving(added', j, s, m) => j <= k
        BY <2>1, <2>2, <3>1, <3>3
      <4> QED
        BY <4>1, <4>2 DEF IsLast
    <3> QED
      BY <2>4, <3>2, <3>3 DEF IsLast
  <2> QED
    BY <2>5, <2>6
<1>11. CASE UNCHANGED vars
  <2>1. UNCHANGED <<handlers, added>>
    BY <1>11 DEF vars, workerVars
  <2> QED
    BY <2>1 DEF TableInv
<1>12. ASSUME NEW t \in Thread, Raises(t) PROVE TableInv'
  <2>1. UNCHANGED <<handlers, added>>
    BY <1>12 DEF Raises, workerVars
  <2> QED
    BY <2>1 DEF TableInv
<1> QED
  BY <1>1, <1>2, <1>3, <1>4, <1>5, <1>6, <1>7, <1>8, <1>9, <1>10, <1>11, <1>12 DEF
    Next, GetsStub, Terminating

(* Every step keeps what is known of the calls. *)
LEMMA NextCallInv == TypeOK /\ StubFits /\ QueueInv /\ CallInv /\ [Next]_vars => CallInv'
<1> SUFFICES ASSUME TypeOK, StubFits, QueueInv, CallInv, [Next]_vars PROVE CallInv'
  OBVIOUS
<1> USE StubsAssumption
<1>1. ASSUME NEW t \in Thread, NEW s \in Service, Ask(t, s) PROVE CallInv'
  BY <1>1 DEF Ask, factoryVars, stubVars, workerVars, TypeOK, QueueInv,
    CallInv, Bound, NoCall
<1>2. ASSUME NEW t \in Thread, NEW n \in Name \cup {None},
             NEW c \in Instance \cup {None}, LookUp(t, n, c)
      PROVE  CallInv'
  BY <1>2 DEF LookUp, Goes, factoryVars, stubVars, workerVars, TypeOK,
    QueueInv, CallInv, Bound, NoCall
<1>3. ASSUME NEW t \in Thread, Check(t) PROVE CallInv'
  BY <1>3 DEF Check, Goes, factoryVars, stubVars, workerVars, TypeOK, QueueInv,
    CallInv, Bound, NoCall
<1>4. ASSUME NEW t \in Thread, Create(t) PROVE CallInv'
  BY <1>4 DEF Create, Goes, factoryVars, stubVars, workerVars, TypeOK,
    QueueInv, CallInv, Bound, NoCall
<1>5. ASSUME NEW t \in Thread, GetStub(t) PROVE CallInv'
  BY <1>5 DEF GetStub, Goes, factoryVars, stubVars, workerVars, TypeOK,
    QueueInv, CallInv, Bound, NoCall
<1>6. ASSUME NEW t \in Thread, Dispatch(t) PROVE CallInv'
  BY <1>6 DEF Dispatch, factoryVars, stubVars, workerVars, TypeOK, QueueInv,
    CallInv, Bound, NoCall
<1>7. ASSUME NEW t \in Thread, NEW m \in Method, Publish(t, m) PROVE CallInv'
  <2>1. /\ point[t] = "stub" /\ ~call[t].served
        /\ \A q \in Thread : q # t => call'[q] = call[q]
        /\ UNCHANGED <<point, service, found, queues, bound, added, setup, handlers>>
    BY <1>7 DEF Publish, stubVars, workerVars, TypeOK, CallInv
  <2>2. \/ call'[t].fate = "lost" /\ ~call'[t].served
        \/ /\ call'[t].fate \in {"queued", "dropped"} /\ call'[t].method = m
           /\ call'[t].served = (setup = "serves")
           /\ call'[t].fate = "dropped" => ~Routed(stub[t].endpoint, found[t], service[t])
    <3>1. CASE call' = [call EXCEPT ![t].fate = "lost"]
      BY <2>1, <3>1 DEF TypeOK
    <3>2. CASE call' = [call EXCEPT ![t] =
                 [method |-> m, served |-> setup = "serves", impl |-> None,
                  fate |-> IF Routed(stub[t].endpoint, found[t], service[t])
                           THEN "queued" ELSE "dropped"]]
      BY <3>2 DEF TypeOK
    <3> QED
      BY <1>7, <3>1, <3>2 DEF Publish
  <2>3. setup = "serves" /\ ~Routed(stub[t].endpoint, found[t], service[t])
          => found[t] # OwnAddress(service[t]) \/ ~Bound(service[t])
    <3> SUFFICES ASSUME setup = "serves", NEW k \in 1..Len(added), ImplFor[added[k]] = service[t],
                        found[t] = OwnAddress(service[t])
                 PROVE  Routed(stub[t].endpoint, found[t], service[t])
      BY DEF Bound
    <3>1. queues[k] = service[t] /\ k \in 1..bound
      BY DEF QueueInv
    <3>2. stub[t].endpoint = Worker.endpoint
      BY <2>1 DEF StubFits, OwnAddress
    <3> QED
      BY <3>1, <3>2 DEF Routed, OwnAddress
  <2> QED
    <3> SUFFICES ASSUME NEW q \in Thread
                 PROVE  LET c == call'[q] IN
                        /\ c.fate # "none" => point'[q] = "stub"
                        /\ c.fate \in {"none", "lost"} => ~c.served
                        /\ c.fate \in {"queued", "handled", "failed"} => c.method \in Method
                        /\ c.served => setup' = "serves"
                        /\ c.fate \in {"handled", "failed"} =>
                             /\ setup' = "serves" /\ c.impl = handlers'[<<service'[q], c.method>>]
                             /\ c.fate = "handled" <=> c.impl # None
                        /\ c.fate = "dropped" /\ c.served =>
                             \/ found'[q] # OwnAddress(service'[q])
                             \/ ~\E k \in 1..Len(added') : ImplFor[added'[k]] = service'[q]
      BY DEF CallInv, Bound, OwnAddress
    <3>1. (\E k \in 1..Len(added') : ImplFor[added'[k]] = service'[q]) <=> Bound(service[q])
      BY <2>1 DEF Bound
    <3>2. CASE q = t
      BY <2>1, <2>2, <2>3, <3>1, <3>2
    <3>3. CASE q # t
      BY <2>1, <3>1, <3>3 DEF CallInv
    <3> QED
      BY <3>2, <3>3
<1>8. CASE Declare
  BY <1>8 DEF Declare, factoryVars, stubVars, workerVars, TypeOK, QueueInv,
    CallInv, Bound, NoCall
<1>9. CASE Start
  BY <1>9 DEF Start, factoryVars, stubVars, workerVars, TypeOK, QueueInv,
    CallInv, Bound, NoCall
<1>10. ASSUME NEW i \in Impl, AddServicer(i) PROVE CallInv'
  BY <1>10 DEF AddServicer, Handler, factoryVars, stubVars, workerVars, TypeOK,
    QueueInv, CallInv, Bound, NoCall
<1>11. CASE UNCHANGED vars
  BY <1>11 DEF vars, factoryVars, stubVars, workerVars, TypeOK, QueueInv,
    CallInv, Bound, NoCall
<1>12. ASSUME NEW t \in Thread, Raises(t) PROVE CallInv'
  BY <1>12 DEF Raises, Goes, factoryVars, stubVars, workerVars, TypeOK, QueueInv,
    CallInv, Bound, NoCall
<1> QED
  BY <1>1, <1>2, <1>3, <1>4, <1>5, <1>6, <1>7, <1>8, <1>9, <1>10, <1>11, <1>12 DEF
    Next, GetsStub, Terminating

LEMMA StubsInvariant == Spec => []StubsInv
<1>1. StubsInv /\ [Next]_vars => StubsInv'
  BY NextTypeOK, NextClientInv, NextStubFits, NextMadeInv, NextQueueInv,
    NextTableInv, NextCallInv DEF StubsInv
<1> QED
  BY InitStubsInv, <1>1, PTL DEF Spec

(* The factory's and the worker's tables keep their types. *)
THEOREM TypeCorrect == Spec => []TypeOK
<1>1. StubsInv => TypeOK
  BY DEF StubsInv
<1> QED
  BY <1>1, StubsInvariant, PTL

(* Every stub goes to the endpoint that was looked up for it, and the second  *)
(* look at the cache always finds a client.                                   *)
THEOREM StubsFit == Spec => []StubFits
<1>1. StubsInv => StubFits
  BY DEF StubsInv
<1> QED
  BY <1>1, StubsInvariant, PTL

(* An endpoint gets at most one client for each thread, however many stubs    *)
(* are asked for.                                                             *)
THEOREM ClientsAreBounded == Spec => []ClientsBounded
<1>1. StubsInv => ClientsBounded
  <2> SUFFICES ASSUME StubsInv, NEW e \in Endpoint PROVE made[e] <= Cardinality(Thread)
    BY DEF ClientsBounded
  <2>1. IsFiniteSet(Thread) /\ IsFiniteSet(Creating(e))
    BY StubsAssumption, FS_Subset DEF Creating
  <2>2. Cardinality(Thread) \in Nat /\ Cardinality(Creating(e)) \in Nat /\ made[e] \in Nat
    BY <2>1, FS_CardinalityType DEF StubsInv, TypeOK
  <2> QED
    BY <2>2 DEF StubsInv, MadeInv
<1> QED
  BY <1>1, StubsInvariant, PTL

LEMMA TableHasLast ==
  ASSUME TypeOK, TableInv, NEW s \in Service, NEW m \in Method
  PROVE  handlers[<<s, m>>] = LastAdded(s, m)
<1> DEFINE serve == {k \in DOMAIN added : ImplFor[added[k]] = s /\ m \in Has[added[k]]}
<1>1. DOMAIN added = 1..Len(added) /\ Len(added) \in Nat
  BY DEF TypeOK
<1>2. serve = {k \in 1..Len(added) : Serving(added, k, s, m)}
  BY <1>1 DEF Serving
<1> HIDE DEF serve
<1>3. LastAdded(s, m) = IF serve = {} THEN None ELSE added[CHOOSE k \in serve : \A j \in serve : j <= k]
  BY DEF LastAdded, serve
<1>4. CASE handlers[<<s, m>>] = None /\ \A k \in 1..Len(added) : ~Serving(added, k, s, m)
  BY <1>2, <1>3, <1>4
<1>5. CASE \E k \in 1..Len(added) :
             /\ Serving(added, k, s, m) /\ handlers[<<s, m>>] = added[k]
             /\ \A j \in 1..Len(added) : Serving(added, j, s, m) => j <= k
  <2>1. PICK k \in serve : handlers[<<s, m>>] = added[k] /\ \A j \in serve : j <= k
    BY <1>2, <1>5
  <2>2. \A n \in serve : (\A j \in serve : j <= n) => n = k
    BY <1>1, <1>2, <2>1
  <2>3. (CHOOSE n \in serve : \A j \in serve : j <= n) = k
    BY <2>1, <2>2
  <2> QED
    BY <1>3, <2>1, <2>3
<1> QED
  BY <1>4, <1>5 DEF TableInv, IsLast

(* A call of a service that the serving worker has servicers for is dropped   *)
(* only for another name, broker or exchange than the worker's in the         *)
(* caller's config, and is handled by the last servicer that has the method.  *)
THEOREM CallsRouted == Spec => []CallsReachTheirServicer
<1>1. StubsInv => CallsReachTheirServicer
  <2> SUFFICES ASSUME StubsInv, NEW t \in Thread
               PROVE  LET s == service[t]
                          last == LastAdded(s, call[t].method)
                      IN /\ call[t].fate = "dropped" /\ call[t].served =>
                              \/ found[t] # OwnAddress(s)
                              \/ \A i \in ToSet(added) : ImplFor[i] # s
                         /\ call[t].fate = "handled" => call[t].impl = last /\ last # None
                         /\ call[t].fate = "failed" => last = None
    BY DEF CallsReachTheirServicer, OwnAddress
  <2>1. service[t] \in Service
    BY DEF StubsInv, TypeOK
  <2>2. \A i \in ToSet(added) : \E k \in 1..Len(added) : i = added[k]
    BY DEF StubsInv, TypeOK, ToSet
  <2>3. ~Bound(service[t]) => \A i \in ToSet(added) : ImplFor[i] # service[t]
    BY <2>2 DEF Bound
  <2>4. call[t].method \in Method => handlers[<<service[t], call[t].method>>] = LastAdded(service[t], call[t].method)
    BY <2>1, TableHasLast DEF StubsInv
  <2> QED
    BY <2>3, <2>4 DEF StubsInv, CallInv
<1> QED
  BY <1>1, StubsInvariant, PTL
=============================================================================
