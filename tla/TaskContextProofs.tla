-------------------------- MODULE TaskContextProofs --------------------------
(***************************************************************************)
(* Proofs about TaskContext, for any requests and threads.                 *)
(***************************************************************************)
EXTENDS TaskContext, FiniteSetTheorems, TLAPS

(* The servers whose hooks set the context before the request is counted in. *)
Early == {"flask", "sanic", "grpc"}

LEMMA AfterHooks ==
  ASSUME server \in DOMAIN Hooks
  PROVE  /\ server # "django" => After("decode") = "look"
         /\ server \in Early => After("look") = "count" /\ After("count") = "handler"
         /\ server \notin Early => After("look") = "handler"
         /\ server = "django" => After("count") = "look"
         /\ server = "rabbitmq" => After("count") = "decode"
         /\ Hooks[server][1] = IF server \in {"django", "rabbitmq"} THEN "count" ELSE "decode"
<1> DEFINE h == Hooks[server]
<1>1. CASE server \in Early
  <2>1. h = <<"decode", "look", "count", "handler">>
    BY <1>1 DEF Early, Hooks
  <2>2. DOMAIN h = 1..4 /\ h[1] = "decode" /\ h[2] = "look" /\ h[3] = "count" /\ h[4] = "handler"
    BY <2>1
  <2>3. (CHOOSE i \in DOMAIN h : h[i] = "decode") = 1
    BY <2>2
  <2>4. (CHOOSE i \in DOMAIN h : h[i] = "look") = 2
    BY <2>2
  <2>5. (CHOOSE i \in DOMAIN h : h[i] = "count") = 3
    BY <2>2
  <2> QED
    BY <1>1, <2>2, <2>3, <2>4, <2>5 DEF After, Early
<1>2. CASE server = "django"
  <2>1. h = <<"count", "look", "handler">>
    BY <1>2 DEF Hooks
  <2>2. DOMAIN h = 1..3 /\ h[1] = "count" /\ h[2] = "look" /\ h[3] = "handler"
    BY <2>1
  <2>3. (CHOOSE i \in DOMAIN h : h[i] = "count") = 1
    BY <2>2
  <2>4. (CHOOSE i \in DOMAIN h : h[i] = "look") = 2
    BY <2>2
  <2> QED
    BY <1>2, <2>2, <2>3, <2>4 DEF After, Early
<1>3. CASE server = "rabbitmq"
  <2>1. h = <<"count", "decode", "look", "handler">>
    BY <1>3 DEF Hooks
  <2>2. DOMAIN h = 1..4 /\ h[1] = "count" /\ h[2] = "decode" /\ h[3] = "look" /\ h[4] = "handler"
    BY <2>1
  <2>3. (CHOOSE i \in DOMAIN h : h[i] = "count") = 1
    BY <2>2
  <2>4. (CHOOSE i \in DOMAIN h : h[i] = "decode") = 2
    BY <2>2
  <2>5. (CHOOSE i \in DOMAIN h : h[i] = "look") = 3
    BY <2>2
  <2> QED
    BY <1>3, <2>2, <2>3, <2>4, <2>5 DEF After, Early
<1>4. CASE server = "celery"
  <2>1. h = <<"decode", "look", "handler">>
    BY <1>4 DEF Hooks
  <2>2. DOMAIN h = 1..3 /\ h[1] = "decode" /\ h[2] = "look" /\ h[3] = "handler"
    BY <2>1
  <2>3. (CHOOSE i \in DOMAIN h : h[i] = "decode") = 1
    BY <2>2
  <2>4. (CHOOSE i \in DOMAIN h : h[i] = "look") = 2
    BY <2>2
  <2> QED
    BY <1>4, <2>2, <2>3, <2>4 DEF After, Early
<1> QED
  BY <1>1, <1>2, <1>3, <1>4 DEF Hooks, Early

(***************************************************************************)
(* The invariant.  A thread handles one request at a time; once a request  *)
(* has looked for the holder there is one; a thread that is about to make  *)
(* a holder makes one that nothing was stored in; and from set_current_    *)
(* context to the end of its handler a request has its own context, or     *)
(* none, if a second holder was made in the meantime.                      *)
(***************************************************************************)
StageInv ==
  \A r \in Request :
    /\ stage[r] = "decode" => server # "django"
    /\ stage[r] = "count" => server # "celery"
    /\ stage[r] = "create" => server # "sanic"
    /\ stage[r] = "raised" => server \in {"flask", "django"}
    /\ stage[r] = "leave" => server \in {"grpc", "rabbitmq"}

SlotInv ==
  \A r \in Active : /\ slot[r] \in Slot
                    /\ \A q \in Active : q # r => slot[q] # slot[r]

Handling == {"handler", "found"}

HasContext(r) == stage[r] \in Handling \/ (stage[r] = "count" /\ server \in Early)

HolderInv ==
  server # "sanic" =>
    /\ holder = None => \A l, s \in Slot : current[l][s] = None
    /\ \A r \in Request :
         /\ stage[r] = "create" => /\ holder # slot[r]
                                   /\ \A s \in Slot : current[slot[r]][s] = None
         /\ stage[r] = "use" \/ HasContext(r) => holder # None

Own(r) == {r} \cup (IF r \in replaced THEN {None, "raises"} ELSE {})

OwnInv ==
  \A r \in Request : fate[r] # "refused" =>
    /\ HasContext(r) => current_context(slot[r]) \in Own(r)
    /\ seen[r] \subseteq Own(r)

(***************************************************************************)
(* The gauge: a request is counted from its count hook to the hook that    *)
(* counts it out, and the gauge is at most the number of those, exactly    *)
(* that number while nothing has gone wrong that the server's hooks do not *)
(* cater for.  A cancelled request of Sanic's stays counted.               *)
(***************************************************************************)
IsCounted(r) ==
  CASE server = "flask"    -> stage[r] \in Handling /\ fate[r] # "refused"
    [] server = "sanic"    -> \/ stage[r] \in Handling /\ fate[r] # "refused"
                              \/ stage[r] = "done" /\ fate[r] = "cancelled"
    [] server = "grpc"     -> stage[r] \in Handling \cup {"leave"}
    [] server = "django"   -> stage[r] \in Handling \cup {"look", "create", "use"}
    [] server = "rabbitmq" -> stage[r] \in Handling \cup {"decode", "look", "create", "use", "leave"}
    [] OTHER               -> FALSE

NoUpset == \A r \in Request : fate[r] \notin Upset

FateInv ==
  \A r \in Request :
    /\ fate[r] \in {"cancelled", "answered"} => server = "sanic" /\ stage[r] = "done"
    /\ fate[r] = "raised" => server \in {"flask", "django"} /\ stage[r] \in {"raised", "done"}
    /\ fate[r] = "refused" =>
         /\ server # "django" /\ stage[r] \notin {"new", "decode", "count"}
         /\ server = "grpc" => stage[r] = "done"
         /\ server = "rabbitmq" => stage[r] \in {"leave", "done"}
    /\ server = "flask" /\ stage[r] = "raised" => fate[r] \in {"refused", "raised"}

CountedInv == \A r \in Request : r \in counted <=> IsCounted(r)

NumberInv ==
  /\ IsFiniteSet(Active) /\ IsFiniteSet(counted)
  /\ NoUpset => inprogress = Cardinality(counted)
  /\ server # "sanic" => inprogress <= Cardinality(counted)

ContextsInv == /\ TypeOK /\ StageInv /\ SlotInv /\ HolderInv /\ OwnInv
               /\ FateInv /\ CountedInv /\ NumberInv

LEMMA InitContextsInv == Init => ContextsInv
<1> SUFFICES ASSUME Init PROVE ContextsInv
  OBVIOUS
<1> USE ContextAssumption
<1>1. TypeOK
  BY DEF Init, TypeOK, Stage, Fate
<1>2. StageInv
  BY DEF Init, StageInv
<1>3. Active = {} /\ SlotInv
  BY DEF Init, SlotInv, Active
<1>4. HolderInv /\ OwnInv
  BY DEF Init, HolderInv, OwnInv, HasContext, Handling, Own
<1>5. FateInv /\ CountedInv
  BY DEF Init, FateInv, CountedInv, IsCounted, Handling, Hooks
<1>6. NumberInv
  BY <1>3, FS_EmptySet DEF Init, NumberInv
<1> QED
  BY <1>1, <1>2, <1>3, <1>4, <1>5, <1>6 DEF ContextsInv
-----------------------------------------------------------------------------
(***************************************************************************)
(* What a step does, read off the actions once: it is a step of one        *)
(* request, which goes from stage to stage as its server's hooks say.      *)
(***************************************************************************)
Step(r) == Hook(r) \/ See(r) \/ Get(r) \/ End(r)

Becomes(r, to, f, isCounted) ==
  stage'[r] = to /\ fate'[r] = f /\ (r \in counted' <=> isCounted)

Transition(r) ==
  \/ /\ stage[r] = "new"
     /\ Becomes(r, IF server \in {"django", "rabbitmq"} THEN "count" ELSE "decode",
                fate[r], r \in counted)
  \/ stage[r] = "decode" /\ Becomes(r, "look", fate[r], r \in counted)
  \/ /\ stage[r] = "decode"
     /\ Becomes(r, CASE server = "grpc"     -> "done"
                     [] server = "rabbitmq" -> "leave"
                     [] OTHER               -> "look", "refused", r \in counted)
  \/ /\ stage[r] = "look"
     /\ Becomes(r, IF server # "sanic" /\ holder = None THEN "create" ELSE "use",
                fate[r], r \in counted)
  \/ stage[r] = "create" /\ Becomes(r, "use", fate[r], r \in counted)
  \/ /\ stage[r] = "use"
     /\ Becomes(r, IF fate[r] = "refused" \/ server \notin Early THEN "handler" ELSE "count",
                fate[r], r \in counted)
  \/ /\ stage[r] = "count"
     /\ Becomes(r, CASE server \in Early    -> "handler"
                     [] server = "django"   -> "look"
                     [] OTHER               -> "decode", fate[r], TRUE)
  \/ stage[r] = "handler" /\ Becomes(r, "handler", fate[r], r \in counted)
  \/ stage[r] = "handler" /\ Becomes(r, "found", fate[r], r \in counted)
  \/ stage[r] = "found" /\ Becomes(r, "handler", fate[r], r \in counted)
  \/ stage[r] = "decode" /\ server = "sanic" /\ Becomes(r, "done", "answered", FALSE)
  \/ /\ stage[r] = "handler" /\ server \in {"flask", "django"}
     /\ Becomes(r, "raised", IF fate[r] = "well" THEN "raised" ELSE fate[r], FALSE)
  \/ /\ stage[r] \in {"handler", "raised"} /\ server \in {"flask", "django", "sanic"}
     /\ Becomes(r, "done", fate[r], FALSE)
  \/ /\ stage[r] = "raised" /\ server = "flask"
     /\ Becomes(r, "done", fate[r], r \in counted)
  \/ /\ stage[r] = "handler" /\ server = "sanic"
     /\ Becomes(r, "done", IF fate[r] = "well" THEN "cancelled" ELSE fate[r], r \in counted)
  \/ /\ stage[r] = "handler" /\ server \in {"grpc", "rabbitmq", "celery"}
     /\ Becomes(r, IF server = "celery" THEN "done" ELSE "leave", fate[r], r \in counted)
  \/ stage[r] = "leave" /\ Becomes(r, "done", fate[r], FALSE)

LEMMA StepTransition ==
  ASSUME TypeOK, StageInv, NEW r \in Request, Step(r)
  PROVE  Transition(r)
<1> USE DEF Becomes
<1>1. ASSUME NEW s \in Slot, Receive(r, s) PROVE Transition(r)
  BY <1>1, AfterHooks DEF Receive, Goes, gaugeVars, TypeOK, Transition
<1>2. CASE Decode(r)
  <2>1. stage[r] = "decode" /\ stage'[r] = "look"
    BY <1>2, AfterHooks DEF Decode, Goes, TypeOK, StageInv
  <2> QED
    BY <1>2, <2>1 DEF Decode, gaugeVars, Transition
<1>3. CASE Refuse(r)
  BY <1>3 DEF Refuse, Goes, gaugeVars, TypeOK, Transition
<1>4. CASE Look(r)
  BY <1>4 DEF Look, Goes, gaugeVars, TypeOK, Transition
<1>5. CASE Create(r)
  BY <1>5 DEF Create, Goes, gaugeVars, TypeOK, Transition
<1>6. CASE Use(r)
  <2>1. stage'[r] = IF fate[r] = "refused" \/ server \notin Early THEN "handler" ELSE "count"
    BY <1>6, AfterHooks DEF Use, Goes, TypeOK
  <2> QED
    BY <1>6, <2>1 DEF Use, Goes, gaugeVars, Transition
<1>7. CASE CountIn(r)
  <2>1. server \in Early \cup {"django", "rabbitmq"}
    BY <1>7 DEF CountIn, Goes, StageInv, TypeOK, Hooks, Early
  <2>2. stage'[r] = CASE server \in Early  -> "handler"
                      [] server = "django" -> "look"
                      [] OTHER             -> "decode"
    BY <1>7, <2>1, AfterHooks DEF CountIn, Goes, TypeOK, Early
  <2> QED
    BY <1>7, <2>2 DEF CountIn, Goes, Transition
<1>8. CASE See(r)
  BY <1>8 DEF See, gaugeVars, Transition, TypeOK
<1>9. CASE AfterException(r) \/ AfterRequest(r) \/ AnsweredBefore(r) \/ Leave(r)
  BY <1>9 DEF AfterException, AfterRequest, AnsweredBefore, Leave, Goes, CountOut, TypeOK, Transition
<1>10. CASE NoResponse(r) \/ Return(r)
  BY <1>10 DEF NoResponse, Return, Goes, gaugeVars, TypeOK, Transition
<1>11. CASE Get(r)
  BY <1>11 DEF Get, Goes, gaugeVars, TypeOK, Transition
<1> QED
  BY <1>1, <1>2, <1>3, <1>4, <1>5, <1>6, <1>7, <1>8, <1>9, <1>10, <1>11 DEF Step, Hook, End

(* Nothing happens to the other requests. *)
LEMMA OthersStay ==
  ASSUME TypeOK, NEW r \in Request, Step(r)
  PROVE  /\ server' = server
         /\ \A q \in Request \ {r} :
              /\ stage'[q] = stage[q] /\ slot'[q] = slot[q] /\ fate'[q] = fate[q]
              /\ seen'[q] = seen[q] /\ (q \in counted' <=> q \in counted)
<1>1. ASSUME NEW s \in Slot, Receive(r, s)
      PROVE  server' = server /\ \A q \in Request \ {r} :
               /\ stage'[q] = stage[q] /\ slot'[q] = slot[q] /\ fate'[q] = fate[q]
               /\ seen'[q] = seen[q] /\ (q \in counted' <=> q \in counted)
  BY <1>1 DEF Receive, Goes, gaugeVars, TypeOK
<1>2. CASE Decode(r) \/ Refuse(r) \/ Look(r) \/ Create(r) \/ Use(r) \/ See(r) \/ Get(r)
  BY <1>2 DEF Decode, Refuse, Look, Create, Use, See, Get, Goes, hookVars, gaugeVars, TypeOK
<1>3. CASE CountIn(r)
  BY <1>3 DEF CountIn, Goes, hookVars, TypeOK
<1>4. CASE AfterException(r) \/ AfterRequest(r) \/ AnsweredBefore(r) \/ Leave(r)
  BY <1>4 DEF AfterException, AfterRequest, AnsweredBefore, Leave, Goes, CountOut, hookVars, TypeOK
<1>5. CASE NoResponse(r) \/ Return(r)
  BY <1>5 DEF NoResponse, Return, Goes, hookVars, gaugeVars, TypeOK
<1> QED
  BY <1>1, <1>2, <1>3, <1>4, <1>5 DEF Step, Hook, End

(* The steps that change where contexts are; all others keep the slots too.  *)
LEMMA ContextSteps ==
  ASSUME NEW r \in Request, Step(r)
  PROVE  \/ \E s \in Slot : Receive(r, s)
         \/ Create(r) \/ Use(r) \/ Return(r)
         \/ UNCHANGED <<slot, contextVars>> /\ stage[r] \notin {"new", "create", "use", "done"}
  BY DEF Step, Hook, End, Decode, Refuse, Look, CountIn, See, Get, AfterException,
         AfterRequest, AnsweredBefore, NoResponse, Leave, Goes, hookVars

LEMMA StepOrStutter == [Next]_vars => UNCHANGED vars \/ \E r \in Request : Step(r)
  BY DEF Next, Terminating, Step

(* A request that is being handled has a slot, and a holder to look in. *)
LEMMA HasSlot ==
  ASSUME TypeOK, SlotInv, NEW r \in Request, stage[r] \notin {"new", "done"}
  PROVE  slot[r] \in Slot
  BY DEF SlotInv, Active

LEMMA HasHolder ==
  ASSUME TypeOK, SlotInv, HolderInv, NEW r \in Request, stage[r] = "use" \/ HasContext(r)
  PROVE  slot[r] \in Slot /\ Holder(slot[r]) \in Slot
<1>1. slot[r] \in Slot
  BY HasSlot DEF HasContext, Handling
<1> QED
  BY <1>1 DEF Holder, HolderInv, TypeOK
-----------------------------------------------------------------------------
(* A server runs its own hooks only. *)
LEMMA NextStageInv == TypeOK /\ StageInv /\ [Next]_vars => StageInv'
<1> SUFFICES ASSUME TypeOK, StageInv, [Next]_vars PROVE StageInv'
  OBVIOUS
<1>1. ASSUME NEW r \in Request, Step(r) PROVE StageInv'
  <2>1. server' = server /\ server \in DOMAIN Hooks
        /\ \A q \in Request \ {r} : stage'[q] = stage[q]
    BY <1>1, OthersStay DEF TypeOK
  <2>2. /\ stage'[r] = "decode" => server # "django"
        /\ stage'[r] = "count" => server # "celery"
        /\ stage'[r] = "create" => server # "sanic"
        /\ stage'[r] = "raised" => server \in {"flask", "django"}
        /\ stage'[r] = "leave" => server \in {"grpc", "rabbitmq"}
    BY <1>1, <2>1, StepTransition DEF Transition, Becomes, StageInv, Early, Hooks
  <2> QED
    BY <2>1, <2>2 DEF StageInv
<1>2. CASE UNCHANGED vars
  BY <1>2 DEF vars, hookVars, StageInv
<1> QED
  BY <1>1, <1>2, StepOrStutter

(* Every step keeps the types. *)
LEMMA NextTypeOK == TypeOK /\ StageInv /\ SlotInv /\ HolderInv /\ [Next]_vars => TypeOK'
<1> SUFFICES ASSUME TypeOK, StageInv, SlotInv, HolderInv, [Next]_vars PROVE TypeOK'
  OBVIOUS
<1> USE ContextAssumption
<1>1. ASSUME NEW r \in Request, Step(r) PROVE TypeOK'
  <2>1. stage' \in [Request -> Stage] /\ fate' \in [Request -> Fate]
    <3>1. /\ stage' = [stage EXCEPT ![r] = stage'[r]]
          /\ fate' = [fate EXCEPT ![r] = fate'[r]]
      BY <1>1 DEF Step, Hook, End, Receive, Decode, Refuse, Look, Create, Use, CountIn, See, Get,
                  AfterException, AfterRequest, AnsweredBefore, NoResponse, Return, Leave, Goes, TypeOK
    <3>2. stage'[r] \in Stage /\ fate'[r] \in Fate
      BY <1>1, StepTransition DEF Transition, Becomes, TypeOK, Stage, Fate
    <3> QED
      BY <3>1, <3>2 DEF TypeOK
  <2>2. inprogress' \in Int /\ counted' \subseteq Request
    <3>1. \/ UNCHANGED gaugeVars \/ CountOut(r)
          \/ inprogress' = inprogress + 1 /\ counted' = counted \cup {r}
      BY <1>1 DEF Step, Hook, End, Receive, Decode, Refuse, Look, Create, Use, CountIn, See, Get,
                  AfterException, AfterRequest, AnsweredBefore, NoResponse, Return, Leave
    <3> QED
      BY <3>1 DEF CountOut, gaugeVars, TypeOK
  <2>3. ASSUME NEW h \in Slot, NEW k \in Slot, NEW c \in Request \cup {None},
               current' = [current EXCEPT ![h][k] = c]
        PROVE  current' \in [Slot -> [Slot -> Request \cup {None}]]
    BY <2>3 DEF TypeOK
  <2>4. ASSUME NEW s \in Slot, Receive(r, s) PROVE TypeOK'
    <3>1. current' \in [Slot -> [Slot -> Request \cup {None}]]
      BY <2>3, <2>4 DEF Receive, TypeOK
    <3> QED
      BY <2>1, <2>2, <2>4, <3>1 DEF Receive, TypeOK
  <2>5. CASE Create(r)
    <3>1. slot[r] \in Slot /\ Active \subseteq Request
      BY <2>5, HasSlot DEF Create, Goes, Active
    <3> QED
      BY <2>1, <2>2, <2>5, <3>1 DEF Create, hookVars, TypeOK
  <2>6. CASE Use(r) \/ Return(r)
    <3>1. slot[r] \in Slot /\ Holder(slot[r]) \in Slot
      BY <2>6, HasHolder DEF Use, Return, Goes, HasContext, Handling
    <3>2. current' \in [Slot -> [Slot -> Request \cup {None}]]
      BY <2>3, <2>6, <3>1 DEF Use, Return, Set, Cell, TypeOK
    <3> QED
      BY <2>1, <2>2, <2>6, <3>2 DEF Use, Return, hookVars, TypeOK
  <2>7. CASE UNCHANGED <<slot, contextVars>>
    <3>1. seen' \in [Request -> SUBSET (Request \cup {None, "raises"})]
      <4>1. CASE See(r) \/ Get(r)
        <5>1. slot[r] \in Slot /\ Holder(slot[r]) \in Slot
          BY <4>1, HasHolder DEF See, Get, Goes, HasContext, Handling
        <5>2. current_context(slot[r]) \in Request \cup {None}
          BY <5>1 DEF current_context, Cell, TypeOK
        <5> QED
          BY <4>1, <5>2 DEF See, Get, TypeOK
      <4>2. CASE seen' = seen
        BY <4>2 DEF TypeOK
      <4> QED
        BY <1>1, <4>1, <4>2 DEF Step, Hook, End, Receive, Decode, Refuse, Look, Create, Use,
          CountIn, AfterException, AfterRequest, AnsweredBefore, NoResponse, Return, Leave
    <3>2. server' = server
      BY <1>1, OthersStay
    <3> QED
      BY <2>1, <2>2, <2>7, <3>1, <3>2 DEF contextVars, TypeOK
  <2> QED
    BY <1>1, <2>4, <2>5, <2>6, <2>7, ContextSteps
<1>2. CASE UNCHANGED vars
  BY <1>2 DEF vars, hookVars, contextVars, gaugeVars, TypeOK
<1> QED
  BY <1>1, <1>2, StepOrStutter

(* A thread takes no request while it handles one. *)
LEMMA NextSlotInv == TypeOK /\ SlotInv /\ [Next]_vars => SlotInv'
<1> SUFFICES ASSUME TypeOK, SlotInv, [Next]_vars PROVE SlotInv'
  OBVIOUS
<1>1. ASSUME NEW r \in Request, NEW s \in Slot, Receive(r, s) PROVE SlotInv'
  <2>1. slot' = [slot EXCEPT ![r] = s] /\ Active' \subseteq Active \cup {r} /\ r \notin Active
    BY <1>1 DEF Receive, Goes, Active, TypeOK
  <2>2. \A q \in Active : slot[q] # s /\ slot'[q] = slot[q] /\ q \in Request
    BY <1>1, <2>1 DEF Receive, Active, TypeOK
  <2>3. slot'[r] = s
    BY <2>1 DEF TypeOK
  <2> QED
    BY <2>1, <2>2, <2>3 DEF SlotInv
<1>2. ASSUME NEW r \in Request, Step(r), slot' = slot, stage[r] \notin {"new", "done"}
      PROVE  SlotInv'
  <2>1. Active' \subseteq Active
    BY <1>2, OthersStay DEF Active
  <2> QED
    BY <1>2, <2>1 DEF SlotInv
<1>3. ASSUME NEW r \in Request, Create(r) \/ Use(r) \/ Return(r)
      PROVE  slot' = slot /\ stage[r] \notin {"new", "done"}
  BY <1>3 DEF Create, Use, Return, Goes, hookVars
<1>4. CASE UNCHANGED vars
  BY <1>4 DEF vars, hookVars, SlotInv, Active
<1> QED
  BY <1>1, <1>2, <1>3, <1>4, StepOrStutter, ContextSteps

(* A holder that is made is new. *)
LEMMA NextHolderInv ==
  TypeOK /\ StageInv /\ SlotInv /\ HolderInv /\ [Next]_vars => HolderInv'
<1> SUFFICES ASSUME TypeOK, StageInv, SlotInv, HolderInv, [Next]_vars PROVE HolderInv'
  OBVIOUS
<1>0. server' = server
  <2>1. CASE UNCHANGED vars
    BY <2>1 DEF vars, hookVars
  <2>2. ASSUME NEW r \in Request, Step(r) PROVE server' = server
    BY <2>2, OthersStay
  <2> QED
    BY <2>1, <2>2, StepOrStutter
<1> SUFFICES ASSUME server # "sanic" PROVE HolderInv'
  BY <1>0 DEF HolderInv
<1> USE ContextAssumption
<1>1. ASSUME NEW r \in Request, Step(r), UNCHANGED <<holder, current>>,
             stage[r] # "create", stage'[r] = "create" => slot'[r] \in Slot
      PROVE  HolderInv'
  <2>1. /\ server' = server /\ server \in DOMAIN Hooks
        /\ \A q \in Request \ {r} : stage'[q] = stage[q] /\ slot'[q] = slot[q]
    BY <1>1, OthersStay DEF TypeOK
  <2>2. /\ stage'[r] = "create" => holder = None
        /\ stage'[r] = "use" \/ HasContext(r)' => holder # None
    <3>1. stage[r] = "use" \/ HasContext(r) => holder # None
      BY DEF HolderInv
    <3> QED
      BY <1>1, <2>1, <3>1, StepTransition
         DEF Transition, Becomes, HasContext, Handling, Early, Hooks
  <2>3. ASSUME NEW q \in Request, q # r
        PROVE  /\ stage'[q] = "create" => /\ holder # slot'[q]
                                          /\ \A s \in Slot : current[slot'[q]][s] = None
               /\ stage'[q] = "use" \/ HasContext(q)' => holder # None
    BY <2>1, <2>3 DEF HolderInv, HasContext, Handling
  <2>4. stage'[r] = "create" => /\ holder # slot'[r]
                                /\ \A s \in Slot : current[slot'[r]][s] = None
    BY <1>1, <2>2 DEF HolderInv
  <2> QED
    BY <1>1, <2>2, <2>3, <2>4 DEF HolderInv
<1>2. ASSUME NEW r \in Request, NEW s \in Slot, Receive(r, s) PROVE HolderInv'
  <2>1. UNCHANGED <<holder, current>> /\ stage[r] = "new" /\ stage'[r] # "create"
    BY <1>2, AfterHooks DEF Receive, Goes, TypeOK
  <2> QED
    BY <1>1, <1>2, <2>1 DEF Step, Hook
<1>3. ASSUME NEW r \in Request, Create(r) PROVE HolderInv'
  <2>1. /\ stage' = [stage EXCEPT ![r] = "use"] /\ holder' = slot[r]
        /\ UNCHANGED <<server, slot, current>> /\ stage[r] = "create"
    BY <1>3 DEF Create, Goes, hookVars
  <2>2. slot[r] \in Slot /\ slot[r] # None
    BY <2>1, HasSlot
  <2>3. ASSUME NEW q \in Request, stage'[q] = "create"
        PROVE  slot[r] # slot[q] /\ \A s \in Slot : current[slot[q]][s] = None
    <3>1. q # r /\ stage[q] = "create"
      BY <2>1, <2>3 DEF TypeOK
    <3> QED
      BY <2>1, <3>1 DEF SlotInv, Active, HolderInv
  <2> QED
    BY <2>1, <2>2, <2>3 DEF HolderInv
<1>4. ASSUME NEW r \in Request, Use(r) \/ Return(r) PROVE HolderInv'
  <2>1. /\ UNCHANGED <<server, slot, holder>> /\ Step(r)
        /\ stage[r] \in {"use", "handler"} /\ stage'[r] \notin {"create", "use"}
    BY <1>4, AfterHooks DEF Use, Return, Goes, hookVars, TypeOK, Step, Hook, End
  <2>2. holder # None /\ \A q \in Request \ {r} : stage'[q] = stage[q]
    BY <2>1, OthersStay DEF HolderInv, HasContext, Handling
  <2>3. ASSUME NEW l \in Slot, l # holder, NEW s \in Slot PROVE current'[l][s] = current[l][s]
    BY <1>4, <2>3 DEF Use, Return, Set, Holder, TypeOK
  <2>4. ASSUME NEW q \in Request, stage'[q] = "create"
        PROVE  holder # slot[q] /\ \A s \in Slot : current'[slot[q]][s] = None
    <3>1. stage[q] = "create" /\ slot[q] \in Slot
      BY <2>1, <2>2, <2>4, HasSlot
    <3> QED
      BY <2>3, <3>1 DEF HolderInv
  <2> QED
    BY <2>1, <2>2, <2>4 DEF HolderInv
<1>5. CASE UNCHANGED vars
  BY <1>5 DEF vars, hookVars, contextVars, HolderInv, HasContext, Handling
<1>6. ASSUME NEW r \in Request, Step(r), UNCHANGED <<slot, contextVars>>,
             stage[r] \notin {"new", "create", "use", "done"}
      PROVE  HolderInv'
  <2>1. slot'[r] \in Slot
    BY <1>6, HasSlot
  <2> QED
    BY <1>1, <1>6, <2>1 DEF contextVars
<1> QED
  BY <1>2, <1>3, <1>4, <1>5, <1>6, StepOrStutter, ContextSteps

(* A handler's context is its own. *)
LEMMA NextOwnInv ==
  TypeOK /\ StageInv /\ SlotInv /\ HolderInv /\ OwnInv /\ FateInv /\ [Next]_vars => OwnInv'
<1> SUFFICES ASSUME TypeOK, StageInv, SlotInv, HolderInv, OwnInv, FateInv, [Next]_vars
             PROVE  OwnInv'
  OBVIOUS
<1> USE ContextAssumption
<1>1. ASSUME NEW r \in Request, NEW s \in Slot, Receive(r, s) PROVE OwnInv'
  <2>1. /\ UNCHANGED <<server, holder, replaced, fate, seen>> /\ Step(r)
        /\ stage'[r] \in {"decode", "count"} /\ (stage'[r] = "count" => server \notin Early)
    BY <1>1, AfterHooks DEF Receive, Goes, TypeOK, Step, Hook, Early
  <2>2. ASSUME NEW q \in Request, q # r, HasContext(q)
        PROVE  current_context(slot[q])' = current_context(slot[q]) /\ slot'[q] = slot[q]
    <3>1. slot'[q] = slot[q] /\ slot[q] # s /\ slot[q] \in Slot
      BY <1>1, <2>1, <2>2, OthersStay, HasHolder DEF Receive, HasContext, Handling, Active
    <3>2. Holder(slot[q])' = Holder(slot[q]) /\ (server = "sanic" => Holder(slot[q]) = slot[q])
      BY <2>1, <3>1 DEF Holder
    <3>3. current'[Holder(slot[q])] = current[Holder(slot[q])]
      BY <1>1, <3>1, <3>2 DEF Receive, TypeOK
    <3> QED
      BY <3>1, <3>2, <3>3 DEF current_context, Cell
  <2>3. ASSUME NEW q \in Request, q # r PROVE HasContext(q)' <=> HasContext(q)
    BY <2>1, <2>3, OthersStay DEF HasContext, Handling
  <2> QED
    BY <2>1, <2>2, <2>3 DEF OwnInv, Own, HasContext, Handling
<1>2. ASSUME NEW r \in Request, Create(r) PROVE OwnInv'
  <2>1. /\ UNCHANGED <<server, slot, current, fate, seen>> /\ Step(r)
        /\ stage[r] = "create" /\ stage'[r] = "use" /\ holder' = slot[r]
    BY <1>2 DEF Create, Goes, hookVars, TypeOK, Step, Hook
  <2>2. server # "sanic" /\ slot[r] \in Slot /\ \A s \in Slot : current[slot[r]][s] = None
    BY <2>1, HasSlot DEF StageInv, HolderInv
  <2>3. ASSUME NEW q \in Request, HasContext(q)'
        PROVE  q \in replaced' /\ current_context(slot[q])' = None
    <3>1. q # r /\ HasContext(q)
      BY <2>1, <2>3, OthersStay DEF HasContext, Handling
    <3>2. holder # None /\ slot[q] \in Slot
      BY <2>2, <3>1, HasHolder DEF HolderInv
    <3>3. q \in replaced'
      BY <1>2, <3>1, <3>2 DEF Create, Active, HasContext, Handling
    <3> QED
      BY <2>1, <2>2, <3>2, <3>3 DEF current_context, Holder, Cell
  <2>4. replaced \subseteq replaced'
    BY <1>2 DEF Create
  <2> QED
    BY <2>1, <2>3, <2>4 DEF OwnInv, Own
<1>3. ASSUME NEW r \in Request, Use(r) \/ Return(r) PROVE OwnInv'
  <2>1. UNCHANGED <<server, slot, holder, replaced, fate, seen>> /\ Step(r)
        /\ stage[r] \in {"use", "handler"}
    BY <1>3 DEF Use, Return, Goes, hookVars, Step, Hook, End
  <2>2. slot[r] \in Slot /\ Holder(slot[r]) \in Slot
    BY <2>1, HasHolder DEF HasContext, Handling
  <2>3. ASSUME NEW q \in Request, q # r, HasContext(q)'
        PROVE  HasContext(q) /\ current_context(slot[q])' = current_context(slot[q])
    <3>1. HasContext(q)
      BY <2>1, <2>3, OthersStay DEF HasContext, Handling
    <3>2. slot[q] \in Slot /\ slot[q] # slot[r] /\ Holder(slot[q]) \in Slot
      BY <2>1, <2>3, <3>1, HasHolder DEF SlotInv, Active, HasContext, Handling
    <3> QED
      BY <1>3, <2>1, <2>2, <3>1, <3>2 DEF Use, Return, Set, current_context, Holder, Cell, TypeOK
  <2>4. ASSUME fate[r] # "refused", HasContext(r)' PROVE current_context(slot[r])' = r
    <3>1. Use(r)
      BY <1>3, <2>4 DEF Return, Goes, HasContext, Handling, TypeOK
    <3> QED
      BY <2>1, <2>2, <2>4, <3>1 DEF Use, Set, current_context, Holder, Cell, TypeOK
  <2> QED
    BY <2>1, <2>3, <2>4 DEF OwnInv, Own
<1>4. ASSUME NEW r \in Request, Step(r), UNCHANGED <<slot, contextVars>>,
             stage[r] \notin {"new", "create", "use", "done"}
      PROVE  OwnInv'
  <2>1. /\ server' = server /\ UNCHANGED <<slot, holder, current, replaced>>
        /\ \A q \in Request \ {r} : stage'[q] = stage[q] /\ fate'[q] = fate[q] /\ seen'[q] = seen[q]
    BY <1>4, OthersStay DEF contextVars
  <2>2. \A q \in Request : current_context(slot[q])' = current_context(slot[q])
    BY <2>1 DEF current_context, Holder, Cell
  <2>3. (HasContext(r)' => HasContext(r)) /\ (fate'[r] # "refused" => fate[r] # "refused")
    <3>1. Transition(r) /\ stage[r] \notin {"new", "use"} /\ server \in DOMAIN Hooks
      BY <1>4, StepTransition DEF TypeOK
    <3>2. fate'[r] # "refused" => fate[r] # "refused"
      BY <3>1 DEF Transition, Becomes, FateInv
    <3>3. stage'[r] \in Handling => stage[r] \in Handling \/ stage[r] = "count"
      BY <3>1 DEF Transition, Becomes, Handling
    <3>4. stage'[r] = "count" => FALSE
      BY <3>1 DEF Transition, Becomes
    <3>5. stage[r] = "count" /\ stage'[r] \in Handling => server \in Early
      BY <3>1 DEF Transition, Becomes, Handling, Hooks, Early
    <3> QED
      BY <2>1, <3>2, <3>3, <3>4, <3>5 DEF HasContext
  <2>4. fate[r] # "refused" => seen'[r] \subseteq Own(r)
    <3>1. CASE See(r) \/ Get(r)
      <4>1. fate[r] # "refused" =>
              current_context(slot[r]) \in Own(r) /\ seen[r] \subseteq Own(r)
        BY <3>1 DEF See, Get, Goes, OwnInv, HasContext, Handling
      <4>2. None \in Own(r) => {None, "raises"} \subseteq Own(r)
        BY DEF Own
      <4>3. seen'[r] \subseteq seen[r] \cup {current_context(slot[r])}
                             \cup (IF current_context(slot[r]) = None THEN {"raises"} ELSE {})
        BY <3>1 DEF See, Get, TypeOK
      <4> QED
        BY <4>1, <4>2, <4>3
    <3>2. CASE seen' = seen
      BY <3>2 DEF OwnInv
    <3> QED
      BY <1>4, <3>1, <3>2 DEF Step, Hook, End, Receive, Decode, Refuse, Look, Create, Use,
        CountIn, AfterException, AfterRequest, AnsweredBefore, NoResponse, Return, Leave
  <2>5. \A q \in Request \ {r} : HasContext(q)' <=> HasContext(q)
    BY <2>1 DEF HasContext, Handling
  <2> QED
    BY <2>1, <2>2, <2>3, <2>4, <2>5 DEF OwnInv, Own
<1>5. CASE UNCHANGED vars
  BY <1>5 DEF vars, hookVars, contextVars, OwnInv, Own, HasContext, Handling, current_context, Holder, Cell
<1> QED
  BY <1>1, <1>2, <1>3, <1>4, <1>5, StepOrStutter, ContextSteps

(* What goes wrong with a request, and where. *)
LEMMA NextFateInv == TypeOK /\ StageInv /\ FateInv /\ [Next]_vars => FateInv'
<1> SUFFICES ASSUME TypeOK, StageInv, FateInv, [Next]_vars PROVE FateInv'
  OBVIOUS
<1> DEFINE Fits(r) ==
      /\ fate[r] \in {"cancelled", "answered"} => server = "sanic" /\ stage[r] = "done"
      /\ fate[r] = "raised" => server \in {"flask", "django"} /\ stage[r] \in {"raised", "done"}
      /\ fate[r] = "refused" =>
           /\ server # "django" /\ stage[r] \notin {"new", "decode", "count"}
           /\ server = "grpc" => stage[r] = "done"
           /\ server = "rabbitmq" => stage[r] \in {"leave", "done"}
      /\ server = "flask" /\ stage[r] = "raised" => fate[r] \in {"refused", "raised"}
<1>1. ASSUME NEW r \in Request, Step(r) PROVE FateInv'
  <2>1. server' = server /\ server \in DOMAIN Hooks
        /\ \A q \in Request \ {r} : stage'[q] = stage[q] /\ fate'[q] = fate[q]
    BY <1>1, OthersStay DEF TypeOK
  <2>2. Fits(r) /\ fate[r] \in Fate
    BY DEF FateInv, TypeOK
  <2>3. Fits(r)'
    BY <1>1, <2>1, <2>2, StepTransition DEF Transition, Becomes, StageInv, Early, Hooks, Fate
  <2>4. \A q \in Request \ {r} : Fits(q)'
    BY <2>1 DEF FateInv
  <2> QED
    BY <2>3, <2>4 DEF FateInv
<1>2. CASE UNCHANGED vars
  BY <1>2 DEF vars, hookVars, FateInv
<1> QED
  BY <1>1, <1>2, StepOrStutter

(* The counted requests are those between the two hooks. *)
LEMMA NextCountedInv ==
  TypeOK /\ StageInv /\ FateInv /\ CountedInv /\ [Next]_vars => CountedInv'
<1> SUFFICES ASSUME TypeOK, StageInv, FateInv, CountedInv, [Next]_vars PROVE CountedInv'
  OBVIOUS
<1>1. ASSUME NEW r \in Request, Step(r) PROVE CountedInv'
  <2>1. server' = server /\ server \in DOMAIN Hooks
        /\ \A q \in Request \ {r} : /\ stage'[q] = stage[q] /\ fate'[q] = fate[q]
                                    /\ q \in counted' <=> q \in counted
    BY <1>1, OthersStay DEF TypeOK
  <2>2. \A q \in Request \ {r} : IsCounted(q)' <=> IsCounted(q)
    BY <2>1 DEF IsCounted, Handling
  <2>3. r \in counted' <=> IsCounted(r)'
    BY <1>1, <2>1, StepTransition
       DEF Transition, Becomes, CountedInv, IsCounted, Handling, FateInv, StageInv, TypeOK, Fate, Early, Hooks
  <2> QED
    BY <2>1, <2>2, <2>3 DEF CountedInv
<1>2. CASE UNCHANGED vars
  BY <1>2 DEF vars, hookVars, gaugeVars, CountedInv, IsCounted, Handling
<1> QED
  BY <1>1, <1>2, StepOrStutter

(* What a step adds to the requests that are being handled. *)
LEMMA ActiveFinite ==
  ASSUME IsFiniteSet(Active), NEW r \in Request,
         \A q \in Request : q # r => stage'[q] = stage[q]
  PROVE  IsFiniteSet(Active)'
<1>1. Active' \subseteq Active \cup {r}
  BY DEF Active
<1>2. IsFiniteSet(Active \cup {r})
  BY FS_AddElement
<1> QED
  BY <1>1, <1>2, FS_Subset

LEMMA NumberKept ==
  ASSUME NumberInv, UNCHANGED <<server, inprogress, counted>>, IsFiniteSet(Active)',
         NoUpset' => NoUpset
  PROVE  NumberInv'
  BY DEF NumberInv

(* A request that is counted out was counted, or its server looks, or the     *)
(* gauge has become inexact, and then it only sinks.                          *)
LEMMA CountOutNumber ==
  ASSUME TypeOK, NumberInv, NEW r \in Request, CountOut(r), UNCHANGED server,
         IsFiniteSet(Active)', NoUpset' => NoUpset,
         NoUpset' /\ server # "django" => r \in counted
  PROVE  NumberInv'
<1>1. counted' = counted \ {r} /\ Cardinality(counted) \in Nat /\ inprogress \in Int
  BY FS_CardinalityType DEF CountOut, NumberInv, TypeOK
<1>2. CASE r \in counted
  <2>1. IsFiniteSet(counted \ {r}) /\ Cardinality(counted \ {r}) = Cardinality(counted) - 1
    BY <1>2, FS_RemoveElement DEF NumberInv
  <2>2. inprogress' = inprogress - 1
    BY <1>2 DEF CountOut
  <2> QED
    BY <1>1, <2>1, <2>2 DEF NumberInv
<1>3. CASE r \notin counted
  <2>1. counted' = counted
    BY <1>1, <1>3
  <2>2. inprogress' = IF server = "django" THEN inprogress ELSE inprogress - 1
    BY <1>3 DEF CountOut
  <2>3. NoUpset' => inprogress' = Cardinality(counted')
    BY <1>3, <2>1, <2>2 DEF NumberInv
  <2>4. server # "sanic" => inprogress' <= Cardinality(counted')
    <3>1. inprogress' <= inprogress
      BY <1>1, <2>2
    <3>2. inprogress' \in Int
      BY <1>1, <2>2
    <3> QED
      BY <1>1, <2>1, <3>1, <3>2 DEF NumberInv
  <2> QED
    BY <2>1, <2>3, <2>4 DEF NumberInv
<1> QED
  BY <1>2, <1>3

(* The gauge follows the counted requests. *)
LEMMA NextNumberInv ==
  TypeOK /\ StageInv /\ FateInv /\ CountedInv /\ NumberInv /\ [Next]_vars => NumberInv'
<1> SUFFICES ASSUME TypeOK, StageInv, FateInv, CountedInv, NumberInv, [Next]_vars
             PROVE  NumberInv'
  OBVIOUS
<1>1. ASSUME NEW r \in Request, Step(r) PROVE NumberInv'
  <2>1. /\ server' = server /\ server \in DOMAIN Hooks
        /\ \A q \in Request \ {r} : stage'[q] = stage[q] /\ fate'[q] = fate[q]
    BY <1>1, OthersStay DEF TypeOK
  <2>2. IsFiniteSet(Active)'
    BY <2>1, ActiveFinite DEF NumberInv
  <2>3. NoUpset' => NoUpset
    <3>1. fate[r] \in Upset => fate'[r] \in Upset
      BY <1>1, <2>1, StepTransition DEF Transition, Becomes, Upset
    <3> QED
      BY <2>1, <3>1 DEF NoUpset, Upset
  <2>4. CASE UNCHANGED gaugeVars
    BY <2>1, <2>2, <2>3, <2>4, NumberKept DEF gaugeVars
  <2>5. CASE CountIn(r)
    <3>1. inprogress' = inprogress + 1 /\ counted' = counted \cup {r} /\ inprogress \in Int
      BY <2>5 DEF CountIn, TypeOK
    <3>2. r \notin counted
      BY <2>5 DEF CountIn, Goes, CountedInv, IsCounted, Handling
    <3>3. /\ IsFiniteSet(counted \cup {r}) /\ Cardinality(counted) \in Nat
          /\ Cardinality(counted \cup {r}) = Cardinality(counted) + 1
      BY <3>2, FS_AddElement, FS_CardinalityType DEF NumberInv
    <3> QED
      BY <2>1, <2>2, <2>3, <3>1, <3>3 DEF NumberInv
  <2>6. CASE AfterException(r) \/ AfterRequest(r) \/ AnsweredBefore(r) \/ Leave(r)
    <3>1. CountOut(r)
      BY <2>6 DEF AfterException, AfterRequest, AnsweredBefore, Leave
    <3>2. ASSUME NoUpset', server # "django" PROVE r \in counted
      <4>1. fate'[r] \notin Upset /\ fate[r] \in Fate
        BY <2>1, <3>2 DEF NoUpset, Upset, TypeOK
      <4>2. r \in counted <=> IsCounted(r)
        BY DEF CountedInv
      <4>3. CASE AfterException(r)
        <5>1. fate'[r] = IF fate[r] = "well" THEN "raised" ELSE fate[r]
          BY <4>3 DEF AfterException, TypeOK
        <5> QED
          BY <3>2, <4>1, <4>3, <5>1 DEF AfterException, Upset, FateInv, Goes, Fate
      <4>4. CASE AfterRequest(r)
        BY <3>2, <4>1, <4>2, <4>4
           DEF AfterRequest, Goes, Upset, IsCounted, Handling, FateInv, StageInv
      <4>5. CASE Leave(r)
        BY <4>2, <4>5 DEF Leave, Goes, IsCounted, Handling, StageInv
      <4>6. CASE AnsweredBefore(r)
        BY <4>1, <4>6 DEF AnsweredBefore, Upset, TypeOK
      <4> QED
        BY <2>6, <4>3, <4>4, <4>5, <4>6
    <3> QED
      BY <2>1, <2>2, <2>3, <3>1, <3>2, CountOutNumber
  <2> QED
    BY <1>1, <2>4, <2>5, <2>6 DEF Step, Hook, End, Receive, Decode, Refuse, Look, Create, Use,
      See, Get, NoResponse, Return
<1>2. CASE UNCHANGED vars
  BY <1>2, NumberKept DEF vars, hookVars, gaugeVars, NumberInv, NoUpset, Upset, Active
<1> QED
  BY <1>1, <1>2, StepOrStutter

(* The invariant holds throughout. *)
LEMMA ContextsInvariant == Spec => []ContextsInv
<1>1. ContextsInv /\ [Next]_vars => ContextsInv'
  BY NextTypeOK, NextStageInv, NextSlotInv, NextHolderInv, NextOwnInv, NextFateInv,
    NextCountedInv, NextNumberInv DEF ContextsInv
<1> QED
  BY InitContextsInv, <1>1, PTL DEF Spec

(* The contexts, the gauge and the history keep their types.                 *)
THEOREM TypeCorrect == Spec => []TypeOK
<1>1. ContextsInv => TypeOK
  BY DEF ContextsInv
<1> QED
  BY ContextsInvariant, <1>1, PTL

(* For every kind of server, any requests and any threads, a handler finds   *)
(* its own context or none, and none only if a second holder was made while  *)
(* it was being handled (thread.py:11).                                      *)
THEOREM ContextsOwned == Spec => []OwnContext
<1>1. ContextsInv => OwnContext
  BY DEF ContextsInv, OwnInv, OwnContext, Own
<1> QED
  BY ContextsInvariant, <1>1, PTL

(* The gauge is the number of requests between their hooks while nothing     *)
(* goes wrong that the server's hooks do not cater for.                      *)
THEOREM GaugeCounts == Spec => []GaugeExact
<1>1. ContextsInv => GaugeExact
  <2> SUFFICES ASSUME TypeOK, FateInv, CountedInv, NumberInv PROVE GaugeExact
    BY DEF ContextsInv
  <2>1. NoUpset \/ server # "sanic" => counted \subseteq Active
    <3> SUFFICES ASSUME NoUpset \/ server # "sanic", NEW r \in counted PROVE r \in Active
      OBVIOUS
    <3>1. r \in Request /\ IsCounted(r)
      BY DEF CountedInv, TypeOK
    <3> QED
      BY <3>1 DEF IsCounted, Handling, NoUpset, Upset, Active
  <2>2. server # "sanic" => Cardinality(counted) <= Cardinality(Active)
    BY <2>1, FS_Subset DEF NumberInv
  <2>3. Cardinality(counted) \in Nat /\ Cardinality(Active) \in Nat /\ inprogress \in Int
    BY FS_CardinalityType DEF NumberInv, TypeOK
  <2>4. NoUpset => inprogress = Cardinality(counted)
    BY DEF NumberInv
  <2>5. server # "sanic" => inprogress <= Cardinality(counted)
    BY DEF NumberInv
  <2>6. server # "sanic" => inprogress <= Cardinality(Active)
    BY <2>2, <2>3, <2>5
  <2> QED
    BY <2>1, <2>4, <2>6 DEF GaugeExact, NoUpset
<1> QED
  BY ContextsInvariant, <1>1, PTL
=============================================================================
