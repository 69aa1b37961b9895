----------------------------- MODULE TaskContext -----------------------------
(***************************************************************************)
(* The current task context and the gauge of requests in progress, as the  *)
(* hooks of each kind of server keep them: flask/middleware.py,            *)
(* django/middleware.py, sanic/middleware.py, celery/signals_impl.py,      *)
(* grpc_server/interceptor.py and rabbitmq/server.py, with the context     *)
(* holders of common/context_holder.  SERVER_FREE_WORKERS always changes   *)
(* with SERVER_IN_PROGRESS, by the opposite amount, and is left out.       *)
(***************************************************************************)
EXTENDS Integers, FiniteSets, Sequences

CONSTANTS
  Request,  \* the requests, or tasks of Celery
  Slot,     \* the threads of the server, or asyncio's tasks, that handle them
  None      \* no context, no holder

ASSUME ContextAssumption == None \notin Request \cup Slot

VARIABLES
  server,      \* the kind of server; it does not change
  stage,       \* of each request: the next hook, or the handler
  slot,        \* the thread or task that handles each request
  holder,      \* _context_holder: the threading.local object, named after the
               \* thread that has created it, or None
  current,     \* current[l][s]: what thread s has in the local object l; for
               \* Sanic what the task s has in itself, current[s][s]
  inprogress,  \* the gauge SERVER_IN_PROGRESS
  counted,     \* the requests that are counted in
  fate,        \* what has gone wrong with each request
  seen,        \* history: the contexts that each request's handler was given
  replaced     \* history: the requests during which a second holder was made

hookVars == <<server, slot>>
contextVars == <<holder, current, replaced>>
gaugeVars == <<inprogress, counted>>
vars == <<hookVars, stage, contextVars, gaugeVars, fate, seen>>
-----------------------------------------------------------------------------
(* The hooks before the handler, in the order of their statements: the       *)
(* headers are decoded, the context is set, the request is counted in.       *)
Hooks == [flask    |-> <<"decode", "look", "count", "handler">>,
          sanic    |-> <<"decode", "look", "count", "handler">>,
          grpc     |-> <<"decode", "look", "count", "handler">>,
          django   |-> <<"count", "look", "handler">>,
          rabbitmq |-> <<"count", "decode", "look", "handler">>,
          celery   |-> <<"decode", "look", "handler">>]

After(hook) ==
  LET hooks == Hooks[server] IN
  hooks[1 + CHOOSE i \in DOMAIN hooks : hooks[i] = hook]

Stage == {"new", "decode", "look", "create", "use", "count", "handler", "found", "raised",
          "leave", "done"}
Fate  == {"well", "refused", "raised", "cancelled", "answered"}

Init ==
  /\ server \in DOMAIN Hooks
  /\ stage = [r \in Request |-> "new"]
  /\ slot = [r \in Request |-> None]
  /\ holder = None
  /\ current = [l \in Slot |-> [s \in Slot |-> None]]
  /\ inprogress = 0 /\ counted = {}
  /\ fate = [r \in Request |-> "well"]
  /\ seen = [r \in Request |-> {}] /\ replaced = {}

Active == {r \in Request : stage[r] \notin {"new", "done"}}

Goes(r, from, to) == stage[r] = from /\ stage' = [stage EXCEPT ![r] = to]

(* A thread takes another request; Sanic makes a task for each.              *)
Receive(r, s) ==
  /\ Goes(r, "new", Hooks[server][1])
  /\ \A q \in Active : slot[q] # s
  /\ slot' = [slot EXCEPT ![r] = s]
  /\ current' = IF server = "sanic" THEN [current EXCEPT ![s][s] = None] ELSE current
  /\ UNCHANGED <<server, holder, replaced, gaugeVars, fate, seen>>

Decode(r) ==
  /\ Goes(r, "decode", After("decode"))
  /\ UNCHANGED <<hookVars, contextVars, gaugeVars, fate, seen>>

(* The header is no state or trace.  Celery logs what a signal's receiver    *)
(* raises and runs the task; Flask and Sanic run the error handlers, which   *)
(* may look at the context; the others run nothing.                          *)
Refuse(r) ==
  /\ Goes(r, "decode", CASE server = "grpc"     -> "done"
                         [] server = "rabbitmq" -> "leave"
                         [] OTHER               -> "look")
  /\ fate' = [fate EXCEPT ![r] = "refused"]
  /\ UNCHANGED <<hookVars, contextVars, gaugeVars, seen>>
-----------------------------------------------------------------------------
(* context_holder(): the threading.local is made when it is first asked for, *)
(* without a lock; a task's holder is the task.                              *)
Look(r) ==
  /\ Goes(r, "look", IF server # "sanic" /\ holder = None THEN "create" ELSE "use")
  /\ UNCHANGED <<hookVars, contextVars, gaugeVars, fate, seen>>

Create(r) ==
  /\ Goes(r, "create", "use")
  /\ holder' = slot[r]
  /\ replaced' = IF holder = None THEN replaced ELSE replaced \cup (Active \ {r})
  /\ UNCHANGED <<hookVars, current, gaugeVars, fate, seen>>

(* Mutant: the holder is one object for all threads.                         *)
CellShared(s) == CHOOSE t \in Slot : TRUE

(* The attribute that a thread sees in a threading.local is its own.         *)
Cell(s) == s

Holder(s) == IF server = "sanic" THEN s ELSE holder

(* Mutant: the arguments are swapped.                                        *)
SetSwapped(s, c) == current' = [current EXCEPT ![Holder(s)][Cell(s)] = s]

Set(s, c) == current' = [current EXCEPT ![Holder(s)][Cell(s)] = c]

current_context(s) == current[Holder(s)][Cell(s)]

(* set_current_context, unless the headers were refused.                     *)
Use(r) ==
  /\ Goes(r, "use", IF fate[r] = "refused" THEN "handler" ELSE After("look"))
  /\ IF fate[r] = "refused" THEN UNCHANGED current ELSE Set(slot[r], r)
  /\ UNCHANGED <<hookVars, holder, replaced, gaugeVars, fate, seen>>

(* The handler, a stub that it calls or a task that it publishes asks for    *)
(* the current context, for its state and its trace: there is none, or ...   *)
See(r) ==
  /\ stage[r] = "handler"
  /\ IF current_context(slot[r]) = None
     THEN seen' = [seen EXCEPT ![r] = @ \cup {None}] /\ UNCHANGED stage
     ELSE stage' = [stage EXCEPT ![r] = "found"] /\ UNCHANGED seen
  /\ UNCHANGED <<hookVars, contextVars, gaugeVars, fate>>

(* ... the holder is asked for again, which may be another one by then and   *)
(* raises AttributeError if it has none.                                     *)
Get(r) ==
  /\ Goes(r, "found", "handler")
  /\ LET context == current_context(slot[r])
     IN  seen' = [seen EXCEPT ![r] = @ \cup {IF context = None THEN "raises" ELSE context}]
  /\ UNCHANGED <<hookVars, contextVars, gaugeVars, fate>>
-----------------------------------------------------------------------------
CountIn(r) ==
  /\ Goes(r, "count", After("count"))
  /\ inprogress' = inprogress + 1
  /\ counted' = counted \cup {r}
  /\ UNCHANGED <<hookVars, contextVars, fate, seen>>

(* Mutant: Django's middleware counts out whatever it has counted.           *)
CountOutAlways(r) ==
  /\ inprogress' = inprogress - 1
  /\ counted' = counted \ {r}

(* Only Django's middleware looks at counted_request.                        *)
CountOut(r) ==
  /\ inprogress' = IF server = "django" /\ r \notin counted THEN inprogress
                   ELSE inprogress - 1
  /\ counted' = counted \ {r}

(* got_request_exception; process_exception.                                 *)
AfterException(r) ==
  /\ server \in {"flask", "django"}
  /\ Goes(r, "handler", "raised")
  /\ CountOut(r)
  /\ fate' = [fate EXCEPT ![r] = IF @ = "well" THEN "raised" ELSE @]
  /\ UNCHANGED <<hookVars, contextVars, seen>>

(* request_finished, which the response to an exception sends too;           *)
(* process_response; Sanic's response middleware.                            *)
AfterRequest(r) ==
  /\ server \in {"flask", "django", "sanic"}
  /\ Goes(r, "handler", "done") \/ Goes(r, "raised", "done")
  /\ CountOut(r)
  /\ UNCHANGED <<hookVars, contextVars, fate, seen>>

(* A request middleware of the application's, which all come before the      *)
(* library's own (init.py:15), has answered: Sanic runs none of the other    *)
(* ones and all of the response middlewares.                                 *)
AnsweredBefore(r) ==
  /\ server = "sanic" /\ Goes(r, "decode", "done")
  /\ CountOut(r)
  /\ fate' = [fate EXCEPT ![r] = "answered"]
  /\ UNCHANGED <<hookVars, contextVars, seen>>

(* Flask lets the exception through, with no response of its own; Sanic's    *)
(* task is cancelled.                                                        *)
NoResponse(r) ==
  /\ \/ server = "flask" /\ Goes(r, "raised", "done") /\ UNCHANGED fate
     \/ /\ server = "sanic" /\ Goes(r, "handler", "done")
        /\ fate' = [fate EXCEPT ![r] = IF @ = "well" THEN "cancelled" ELSE @]
  /\ UNCHANGED <<hookVars, contextVars, gaugeVars, seen>>

(* The handler returns or raises; gRPC's interceptor resets the context.     *)
Return(r) ==
  /\ server \in {"grpc", "rabbitmq", "celery"}
  /\ Goes(r, "handler", IF server = "celery" THEN "done" ELSE "leave")
  /\ IF server = "grpc" THEN Set(slot[r], None) ELSE UNCHANGED current
  /\ UNCHANGED <<hookVars, holder, replaced, gaugeVars, fate, seen>>

Leave(r) ==
  /\ Goes(r, "leave", "done")
  /\ CountOut(r)
  /\ UNCHANGED <<hookVars, contextVars, fate, seen>>
-----------------------------------------------------------------------------
Hook(r) == \/ \E s \in Slot : Receive(r, s)
           \/ Decode(r) \/ Refuse(r) \/ Look(r) \/ Create(r) \/ Use(r) \/ CountIn(r)

End(r) == \/ AfterException(r) \/ AfterRequest(r) \/ AnsweredBefore(r) \/ NoResponse(r)
          \/ Return(r) \/ Leave(r)

(* No request comes any more.                                                *)
Terminating == (\A r \in Request : stage[r] = "done") /\ UNCHANGED vars

Next == Terminating \/ \E r \in Request : Hook(r) \/ See(r) \/ Get(r) \/ End(r)

Spec == Init /\ [][Next]_vars
-----------------------------------------------------------------------------
(* Every variable keeps its type; the gauge may well go below 0.             *)
TypeOK ==
  /\ server \in DOMAIN Hooks
  /\ stage \in [Request -> Stage]
  /\ slot \in [Request -> Slot \cup {None}]
  /\ holder \in Slot \cup {None}
  /\ current \in [Slot -> [Slot -> Request \cup {None}]]
  /\ inprogress \in Int /\ counted \subseteq Request
  /\ fate \in [Request -> Fate]
  /\ seen \in [Request -> SUBSET (Request \cup {None, "raises"})]
  /\ replaced \subseteq Request

(* What a handler does is done in the name of its own request, although      *)
(* Flask, Django, Celery and RabbitMQ leave the context of a finished        *)
(* request on the thread: its context may get lost, when two threads both    *)
(* make the holder at start-up, so that asking for it finds none or raises,  *)
(* but is never another request's.                                           *)
OwnContext ==
  \A r \in Request : fate[r] # "refused" =>
    seen[r] \subseteq {r} \cup (IF r \in replaced THEN {None, "raises"} ELSE {})

Upset == CASE server = "flask" -> {"refused", "raised"}
           [] server = "sanic" -> {"refused", "cancelled", "answered"}
           [] OTHER            -> {}

(* The gauge is the number of requests in progress, whatever way they end,   *)
(* for Django, gRPC and RabbitMQ; for Flask as long as none has raised, for  *)
(* Sanic as long as none was cancelled or answered before the library's      *)
(* middleware, and for both while no header was refused.  Only Sanic's gauge *)
(* can exceed the requests in progress.                                      *)
GaugeExact ==
  /\ (\A r \in Request : fate[r] \notin Upset) =>
       inprogress = Cardinality(counted) /\ counted \subseteq Active
  /\ server # "sanic" => inprogress <= Cardinality(Active)
=============================================================================
