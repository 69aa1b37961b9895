---------------------------- MODULE ServiceStubs ----------------------------
(***************************************************************************)
(* grpc/client_factory.py and rabbitmq/client_factory.py: threads get      *)
(* stubs from a factory, which caches one client for each endpoint without *)
(* a lock.  For RabbitMQ, also what the stubs' calls meet in the worker's  *)
(* process: the queues and the handlers that add_servicer and              *)
(* declare_queues of rabbitmq/server.py set up.                            *)
(***************************************************************************)
EXTENDS Integers, FiniteSets, SequencesExt

CONSTANTS
  Thread,      \* threads that get stubs and call
  Service,     \* members of the services enum
  Name,        \* names of servicers
  Endpoint,    \* addresses of servers and brokers
  Empty,       \* the empty address
  Exchange,    \* names of exchanges, "rpc" when the configuration has none
  Instance,    \* instance configurations: an endpoint and an exchange
  Worker,      \* the worker's broker and its exchange_name
  Method,      \* method names
  Impl,        \* servicer objects of the worker
  None,        \* no name, no endpoint, no client, no servicer
  Definition,  \* service_definition.name of each service, None when empty
  ImplFor,     \* the service that each servicer object is added for
  Has,         \* the methods that it has
  MaxStubs     \* bound: stubs that each thread asks for

ASSUME StubsAssumption ==
  /\ None \notin Name \cup Endpoint \cup Exchange \cup Thread \cup Impl \cup Instance
  /\ None \notin [maker : Thread, endpoint : Endpoint]
  /\ Instance \subseteq [endpoint : Endpoint, exchange : Exchange]
  /\ Worker \in [endpoint : Endpoint, exchange : Exchange]
  /\ Definition \in [Service -> Name \cup {None}]
  /\ ImplFor \in [Impl -> Service] /\ Has \in [Impl -> SUBSET Method]
  /\ IsFiniteSet(Thread) /\ MaxStubs \in Nat

VARIABLES
  clients,   \* _client_by_endpoint: the client, as its maker and its endpoint
  made,      \* history: how many clients were made for each endpoint
  point,     \* control point of each thread
  service,   \* the service that each thread asks a stub for
  found,     \* the servicer's name, the endpoint and the exchange it has found
  stub,      \* the client of the stub it has
  asked,     \* how many stubs it has asked for
  call,      \* its call: the method and what has become of it
  queues,    \* _queues of the worker, as the services they are for
  bound,     \* how many of them are declared and bound to the exchange
  handlers,  \* _service_func_by_method_fullname of the worker
  added,     \* history: the servicers added, in their order
  setup      \* the worker's process adds servicers, declares queues, or serves

factoryVars == <<clients, made>>
stubVars    == <<point, service, found, stub, asked>>
workerVars  == <<queues, bound, handlers, added, setup>>
vars == <<factoryVars, stubVars, call, workerVars>>
-----------------------------------------------------------------------------
Point == {"idle", "look", "check", "create", "get", "stub", "none", "raised"}
Fate  == {"none", "lost", "dropped", "queued", "handled", "failed"}
NoAddress == [name |-> None, endpoint |-> None, exchange |-> None]
NoCall    == [method |-> None, fate |-> "none", served |-> FALSE, impl |-> None]

Init ==
  /\ clients = [e \in Endpoint |-> None]
  /\ made = [e \in Endpoint |-> 0]
  /\ point = [t \in Thread |-> "idle"]
  /\ service \in [Thread -> Service]
  /\ found = [t \in Thread |-> NoAddress]
  /\ stub = [t \in Thread |-> None]
  /\ asked = [t \in Thread |-> 0]
  /\ call = [t \in Thread |-> NoCall]
  /\ queues = <<>> /\ bound = 0 /\ added = <<>> /\ setup = "adds"
  /\ handlers = [m \in Service \X Method |-> None]

Goes(t, from, to) == point[t] = from /\ point' = [point EXCEPT ![t] = to]

(* get_stub_for_service(s), called again when the last stub is used up.      *)
Ask(t, s) ==
  /\ point[t] \in {"idle", "stub", "none", "raised"} /\ call[t].fate # "queued"
  /\ asked[t] < MaxStubs
  /\ point' = [point EXCEPT ![t] = "look"]
  /\ service' = [service EXCEPT ![t] = s]
  /\ found' = [found EXCEPT ![t] = NoAddress]
  /\ stub' = [stub EXCEPT ![t] = None]
  /\ asked' = [asked EXCEPT ![t] = @ + 1]
  /\ call' = [call EXCEPT ![t] = NoCall]
  /\ UNCHANGED <<factoryVars, workerVars>>

(* The services manager names a servicer, n, or none, and the definition     *)
(* does, the deprecated way: GlobalConfig shows when.  The instance c is the *)
(* servicer's configuration, or the caller's own, that of set_config or the  *)
(* preloaded one; None if it has no part for this protocol.  An empty        *)
(* endpoint is refused only the deprecated way.                              *)
LookUp(t, n, c) ==
  LET name == IF n = None THEN Definition[service[t]] ELSE n
      usable == name # None /\ c # None /\ (n = None => c.endpoint # Empty)
  IN /\ \/ ~usable /\ Goes(t, "look", "none") /\ UNCHANGED found
        \/ /\ usable /\ Goes(t, "look", "check")
           /\ found' = [found EXCEPT ![t] =
                [name |-> name, endpoint |-> c.endpoint, exchange |-> c.exchange]]
     /\ UNCHANGED <<factoryVars, service, stub, asked, call, workerVars>>

(* A lookup raises for a caller's configuration without a name, a client for *)
(* an address that it cannot read, and get_stub for a module that cannot be  *)
(* imported or an exchange that cannot be declared.                          *)
Raises(t) ==
  /\ \E at \in {"look", "create", "get"} : Goes(t, at, "raised")
  /\ found' = [found EXCEPT ![t] = NoAddress]
  /\ UNCHANGED <<factoryVars, service, stub, asked, call, workerVars>>

(* Mutant: the cache is not looked at.                                       *)
CheckNever(t) ==
  /\ Goes(t, "check", "create")
  /\ UNCHANGED <<factoryVars, service, found, stub, asked, call, workerVars>>

Check(t) ==
  /\ Goes(t, "check", IF clients[found[t].endpoint] = None THEN "create" ELSE "get")
  /\ UNCHANGED <<factoryVars, service, found, stub, asked, call, workerVars>>

(* Mutant: the first client is the default of all endpoints.                 *)
CreateDefault(t) ==
  /\ Goes(t, "create", "get")
  /\ LET e == found[t].endpoint IN
       /\ clients' = [d \in Endpoint |-> IF d = e \/ clients[d] = None
                                         THEN [maker |-> t, endpoint |-> e] ELSE clients[d]]
       /\ made' = [made EXCEPT ![e] = @ + 1]
  /\ UNCHANGED <<service, found, stub, asked, call, workerVars>>

(* create_grpc_client or RabbitMQClient, entered over another thread's.      *)
Create(t) ==
  /\ Goes(t, "create", "get")
  /\ LET e == found[t].endpoint IN
       /\ clients' = [clients EXCEPT ![e] = [maker |-> t, endpoint |-> e]]
       /\ made' = [made EXCEPT ![e] = @ + 1]
  /\ UNCHANGED <<service, found, stub, asked, call, workerVars>>

(* Mutant: what was looked up is taken for the client.                       *)
GetStubFound(t) ==
  /\ Goes(t, "get", "stub")
  /\ stub' = [stub EXCEPT ![t] = found[t]]
  /\ UNCHANGED <<factoryVars, service, found, asked, call, workerVars>>

(* The second look at the cache, and get_stub of what it has.                *)
GetStub(t) ==
  /\ Goes(t, "get", "stub")
  /\ stub' = [stub EXCEPT ![t] = clients[found[t].endpoint]]
  /\ UNCHANGED <<factoryVars, service, found, asked, call, workerVars>>
-----------------------------------------------------------------------------
(* The worker's process.                                                     *)

(* The check for a duplicate looks for the method's name without the '/' of  *)
(* the table's keys, and never finds one.                                    *)
Handler(i, m) ==
  IF m[1] = ImplFor[i] /\ m[2] \in Has[i] THEN i ELSE handlers[m]

AddServicer(i) ==
  /\ setup = "adds" /\ i \notin ToSet(added)
  /\ queues' = Append(queues, ImplFor[i])
  /\ handlers' = [m \in Service \X Method |-> Handler(i, m)]
  /\ added' = Append(added, i)
  /\ UNCHANGED <<factoryVars, stubVars, call, bound, setup>>

(* run: declare_queues declares one queue after another, with its retry      *)
(* queue, then the worker starts.                                            *)
Declare ==
  /\ setup # "serves" /\ bound < Len(queues)
  /\ setup' = "declares"
  /\ bound' = bound + 1
  /\ UNCHANGED <<factoryVars, stubVars, call, queues, handlers, added>>

(* Mutant: the last queue is left out.                                       *)
StartEarly ==
  /\ setup # "serves" /\ bound >= Len(queues) - 1
  /\ setup' = "serves"
  /\ UNCHANGED <<factoryVars, stubVars, call, queues, bound, handlers, added>>

Start ==
  /\ setup # "serves" /\ bound = Len(queues)
  /\ setup' = "serves"
  /\ UNCHANGED <<factoryVars, stubVars, call, queues, bound, handlers, added>>

(* The broker's topic exchange: the queue of s is bound with the             *)
(* definition's name, the routing key has the name that the caller found.    *)
Routed(endpoint, address, s) ==
  /\ endpoint = Worker.endpoint /\ address.exchange = Worker.exchange
  /\ address.name = Definition[s] /\ s \in {queues[k] : k \in 1..bound}

(* The client of the stub publishes the call, without the broker's           *)
(* confirmation: it may be lost, with an exception after the last retry or   *)
(* without one.  A call that no queue is bound for is dropped; the caller is *)
(* not told.                                                                 *)
Publish(t, m) ==
  /\ point[t] = "stub" /\ call[t].fate = "none"
  /\ \/ call' = [call EXCEPT ![t].fate = "lost"]
     \/ call' = [call EXCEPT ![t] =
          [method |-> m, served |-> setup = "serves", impl |-> None,
           fate |-> IF Routed(stub[t].endpoint, found[t], service[t])
                    THEN "queued" ELSE "dropped"]]
  /\ UNCHANGED <<factoryVars, stubVars, workerVars>>

(* The method is looked up in the table; when it is missing, the KeyError    *)
(* counts as a failure of the handler.                                       *)
Dispatch(t) ==
  /\ setup = "serves" /\ call[t].fate = "queued"
  /\ LET i == handlers[<<service[t], call[t].method>>] IN
       call' = [call EXCEPT ![t].impl = i,
                            ![t].fate = IF i = None THEN "failed" ELSE "handled"]
  /\ UNCHANGED <<factoryVars, stubVars, workerVars>>
-----------------------------------------------------------------------------
GetsStub(t) ==
  \/ \E s \in Service : Ask(t, s)
  \/ \E n \in Name \cup {None}, c \in Instance \cup {None} : LookUp(t, n, c)
  \/ Check(t) \/ Create(t) \/ GetStub(t) \/ Raises(t)

(* The callers have all the stubs they want and the worker has no call left. *)
Terminating ==
  /\ setup = "serves" /\ \A t \in Thread : asked[t] = MaxStubs
  /\ \A t \in Thread : \/ point[t] \in {"none", "raised"}
                       \/ call[t].fate \in {"lost", "dropped", "handled", "failed"}
  /\ UNCHANGED vars

Next ==
  \/ Terminating
  \/ \E t \in Thread : GetsStub(t) \/ Dispatch(t) \/ \E m \in Method : Publish(t, m)
  \/ Declare \/ Start \/ \E i \in Impl : AddServicer(i)

Spec == Init /\ [][Next]_vars
-----------------------------------------------------------------------------
Client  == [maker : Thread, endpoint : Endpoint]
Address == [name : Name, endpoint : Endpoint, exchange : Exchange]

(* Every variable keeps its type.                                            *)
TypeOK ==
  /\ clients \in [Endpoint -> Client \cup {None}]
  /\ made \in [Endpoint -> Nat]
  /\ point \in [Thread -> Point]
  /\ service \in [Thread -> Service]
  /\ found \in [Thread -> Address \cup {NoAddress}]
  /\ stub \in [Thread -> Client \cup {None}]
  /\ asked \in [Thread -> 0..MaxStubs]
  /\ call \in [Thread -> [method : Method \cup {None}, fate : Fate, served : BOOLEAN,
                          impl : Impl \cup {None}]]
  /\ queues \in Seq(Service) /\ bound \in Nat
  /\ handlers \in [Service \X Method -> Impl \cup {None}]
  /\ added \in Seq(Impl)
  /\ setup \in {"adds", "declares", "serves"}

(* Whatever threads fill the cache at once, the second look at it never      *)
(* finds nothing, and every stub goes to the endpoint that was looked up     *)
(* for it.                                                                   *)
StubFits ==
  \A t \in Thread :
    /\ point[t] = "get" => clients[found[t].endpoint] # None
    /\ point[t] = "stub" => stub[t] # None /\ stub[t].endpoint = found[t].endpoint

(* However many stubs are asked for, each thread makes at most one client of *)
(* an endpoint: the ones that are overwritten are as few as the threads that *)
(* met at the first use.                                                     *)
ClientsBounded == \A e \in Endpoint : made[e] <= Cardinality(Thread)

(* The servicer that was added last among those of the service that have     *)
(* the method, None if there is none.                                        *)
LastAdded(s, m) ==
  LET serve == {k \in DOMAIN added : ImplFor[added[k]] = s /\ m \in Has[added[k]]} IN
  IF serve = {} THEN None ELSE added[CHOOSE k \in serve : \A j \in serve : j <= k]

(* While the worker serves, a call of a service that it has servicers for is *)
(* dropped only if the caller's config has another name than the definition, *)
(* or another broker or exchange than the worker's: never for a stub that    *)
(* the cache took from another endpoint.  And what is queued, even before,   *)
(* is handled by the last servicer that has the method: a second servicer    *)
(* replaces the first one's methods without an error.                        *)
CallsReachTheirServicer ==
  \A t \in Thread :
    LET s == service[t]
        last == LastAdded(s, call[t].method)
    IN /\ call[t].fate = "dropped" /\ call[t].served =>
            \/ found[t] # [name |-> Definition[s], endpoint |-> Worker.endpoint,
                           exchange |-> Worker.exchange]
            \/ \A i \in ToSet(added) : ImplFor[i] # s
       /\ call[t].fate = "handled" => call[t].impl = last /\ last # None
       /\ call[t].fate = "failed" => last = None
=============================================================================
