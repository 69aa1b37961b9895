--------------------------- MODULE RabbitMQClient ---------------------------
(***************************************************************************)
(* rabbitmq/client.py: RabbitMQClient, shared by the threads of a process. *)
(* A thread gets a stub, for which the exchange is declared the first time *)
(* under a lock, and calls it, which publishes one message.  Both take a   *)
(* connection from a pool that blocks while it is empty.                   *)
(***************************************************************************)
EXTENDS Integers, FiniteSets

CONSTANTS
  Thread,      \* the application's threads
  Connection,  \* the connections of the pool: 5 in the code
  Exchange,    \* exchange names
  None,        \* no thread, no connection, no exchange
  Retries,     \* retry_left of the first publish: 3 in the code
  PublishTries \* publishes of one attempt: one and kombu's max_retries, 6 in the code

ASSUME ClientAssumption ==
  /\ None \notin Thread /\ None \notin Connection /\ None \notin Exchange
  /\ Retries \in Nat /\ PublishTries \in Nat \ {0}

VARIABLES
  exchange_by_name,  \* names whose exchange is in _exchange_by_name
  exchange_lock,     \* the thread that holds _exchange_lock
  declared,          \* exchanges the broker knows
  declares,          \* history: declarations of each exchange that went through
  free,              \* the connections in the pool
  held,              \* the connection each thread has taken
  point,             \* control point of each thread
  name,              \* the exchange of each thread's stub, until its call ends
  retry_left,        \* retry_left of each thread's call
  failed,            \* history: publish attempts of each thread's call that raised
  stored             \* history: copies of each thread's call that the broker has got

poolVars  == <<free, held>>
tableVars == <<exchange_by_name, exchange_lock, declared, declares>>
callVars  == <<name, retry_left, failed, stored>>
vars      == <<tableVars, poolVars, point, callVars>>
-----------------------------------------------------------------------------
Point == {"idle", "lookup", "lock", "recheck", "take", "declare", "close", "enter",
          "acquire", "publish", "returned", "raised"}

Init ==
  /\ exchange_by_name = {} /\ exchange_lock = None
  /\ declared \in SUBSET Exchange
  /\ declares = [x \in Exchange |-> 0]
  /\ free = Connection
  /\ held = [t \in Thread |-> None]
  /\ point = [t \in Thread |-> "idle"]
  /\ name = [t \in Thread |-> None]
  /\ retry_left = [t \in Thread |-> Retries]
  /\ failed = [t \in Thread |-> 0]
  /\ stored = [t \in Thread |-> 0]

At(t, from, to) ==
  /\ point[t] = from
  /\ point' = [point EXCEPT ![t] = to]

(* ConnectionPool.acquire(block=True), and the end of its with statement. *)
Acquire(t) ==
  /\ \E c \in free : /\ free' = free \ {c}
                     /\ held' = [held EXCEPT ![t] = c]

Release(t) ==
  /\ free' = free \cup {held[t]}
  /\ held' = [held EXCEPT ![t] = None]
-----------------------------------------------------------------------------
(* get_stub, with the exchange of the instance, for the thread's next call.  *)
GetStub(t, x) ==
  /\ \E p \in {"idle", "returned", "raised"} : At(t, p, "lookup")
  /\ name' = [name EXCEPT ![t] = x]
  /\ retry_left' = [retry_left EXCEPT ![t] = Retries]
  /\ failed' = [failed EXCEPT ![t] = 0]
  /\ stored' = [stored EXCEPT ![t] = 0]
  /\ UNCHANGED <<tableVars, poolVars>>

(* _get_exchange, first without the lock ... *)
Lookup(t) ==
  /\ At(t, "lookup", IF name[t] \in exchange_by_name THEN "acquire" ELSE "lock")
  /\ UNCHANGED <<tableVars, poolVars, callVars>>

Lock(t) ==
  /\ exchange_lock = None
  /\ At(t, "lock", "recheck")
  /\ exchange_lock' = t
  /\ UNCHANGED <<exchange_by_name, declared, declares, poolVars, callVars>>

(* Mutant: the table is not looked up again under the lock. *)
CreatedMeanwhileNever(t) == FALSE

CreatedMeanwhile(t) == name[t] \in exchange_by_name

(* ... then with it. *)
Recheck(t) ==
  /\ At(t, "recheck", IF CreatedMeanwhile(t) THEN "acquire" ELSE "take")
  /\ exchange_lock' = IF CreatedMeanwhile(t) THEN None ELSE exchange_lock
  /\ UNCHANGED <<exchange_by_name, declared, declares, poolVars, callVars>>

(* Mutant: the exchange is entered in the table before it is declared. *)
TakeEntered(t) ==
  /\ At(t, "take", "declare")
  /\ Acquire(t)
  /\ exchange_by_name' = exchange_by_name \cup {name[t]}
  /\ UNCHANGED <<exchange_lock, declared, declares, callVars>>

TakeConnection(t) ==
  /\ At(t, "take", "declare")
  /\ Acquire(t)
  /\ UNCHANGED <<tableVars, callVars>>

Declare(t) ==
  /\ At(t, "declare", "close")
  /\ declared' = declared \cup {name[t]}
  /\ UNCHANGED <<exchange_by_name, exchange_lock, declares, poolVars, callVars>>

(* The channel is closed and the connection given back.                      *)
Close(t) ==
  /\ At(t, "close", "enter")
  /\ declares' = [declares EXCEPT ![name[t]] = @ + 1]
  /\ Release(t)
  /\ UNCHANGED <<exchange_by_name, exchange_lock, declared, callVars>>

(* Mutant: it is declared again without limit, under the lock. *)
LeaveLockAgain(t, from) ==
  /\ At(t, from, "take")
  /\ Release(t)
  /\ UNCHANGED <<exchange_by_name, exchange_lock, declares, callVars>>

(* The with statements give the connection and the lock back, and the table  *)
(* is left as it was.                                                        *)
LeaveLock(t, from) ==
  /\ At(t, from, "raised")
  /\ exchange_lock' = None
  /\ Release(t)
  /\ name' = [name EXCEPT ![t] = None]
  /\ UNCHANGED <<exchange_by_name, declares, retry_left, failed, stored>>

(* The channel cannot be had, or declare() raises: the broker may have        *)
(* declared the exchange all the same.                                       *)
DeclareRaises(t) ==
  /\ LeaveLock(t, "declare")
  /\ declared' \in {declared, declared \cup {name[t]}}

(* The end of a with statement raises after declare() has returned.          *)
CloseRaises(t) ==
  /\ LeaveLock(t, "close")
  /\ UNCHANGED declared

EnterExchange(t) ==
  /\ At(t, "enter", "acquire")
  /\ exchange_by_name' = exchange_by_name \cup {name[t]}
  /\ exchange_lock' = None
  /\ UNCHANGED <<declared, declares, poolVars, callVars>>
-----------------------------------------------------------------------------
(* The stub is called: _publish_with_retry(3, ...), and each next attempt.   *)
AcquireForPublish(t) ==
  /\ At(t, "acquire", "publish")
  /\ Acquire(t)
  /\ UNCHANGED <<tableVars, callVars>>

(* kombu publishes up to PublishTries times in one attempt, and the stub's   *)
(* connections do not confirm: each may or may not reach the broker, whether *)
(* the attempt returns or raises.                                            *)
Reaches(t) == \E n \in 0 .. PublishTries : stored' = [stored EXCEPT ![t] = @ + n]

PublishReturns(t) ==
  /\ At(t, "publish", "returned")
  /\ Reaches(t)
  /\ Release(t)
  /\ name' = [name EXCEPT ![t] = None]
  /\ UNCHANGED <<tableVars, retry_left, failed>>

(* Mutant: the next attempt is made inside the with statement. *)
RetryHolding(t) ==
  /\ At(t, "publish", "acquire")
  /\ UNCHANGED poolVars

Retry(t) ==
  /\ At(t, "publish", "acquire")
  /\ Release(t)

(* Mutants: one attempt too many, one too few. *)
LastAttemptLate(t)  == retry_left[t] < 0
LastAttemptEarly(t) == retry_left[t] <= 1

LastAttempt(t) == retry_left[t] < 1

PublishRaises(t) ==
  /\ Reaches(t)
  /\ failed' = [failed EXCEPT ![t] = @ + 1]
  /\ \/ /\ LastAttempt(t)
        /\ At(t, "publish", "raised")
        /\ Release(t)
        /\ name' = [name EXCEPT ![t] = None]
        /\ UNCHANGED retry_left
     \/ /\ ~LastAttempt(t)
        /\ Retry(t)
        /\ retry_left' = [retry_left EXCEPT ![t] = @ - 1]
        /\ UNCHANGED name
  /\ UNCHANGED tableVars

-----------------------------------------------------------------------------
Running(t) == \/ Lookup(t) \/ Recheck(t) \/ Declare(t) \/ DeclareRaises(t)
              \/ Close(t) \/ CloseRaises(t) \/ EnterExchange(t)
              \/ PublishReturns(t) \/ PublishRaises(t)

Waiting(t) == Lock(t) \/ TakeConnection(t) \/ AcquireForPublish(t)

Next == \E t \in Thread : \/ Running(t) \/ Waiting(t)
                          \/ \E x \in Exchange : GetStub(t, x)

Spec == Init /\ [][Next]_vars

(* Threads go on, and the lock and the pool do not pass one over for ever.   *)
Fairness == \A t \in Thread : WF_vars(Running(t)) /\ SF_vars(Waiting(t))

FairSpec == Spec /\ Fairness
-----------------------------------------------------------------------------
(* Type invariant. *)
TypeOK ==
  /\ exchange_by_name \subseteq Exchange
  /\ exchange_lock \in Thread \cup {None}
  /\ declared \subseteq Exchange /\ declares \in [Exchange -> Nat]
  /\ free \subseteq Connection
  /\ held \in [Thread -> Connection \cup {None}]
  /\ point \in [Thread -> Point]
  /\ name \in [Thread -> Exchange \cup {None}]
  /\ \A t \in Thread : point[t] \notin {"idle", "returned", "raised"} => name[t] \in Exchange
  /\ retry_left \in [Thread -> 0 .. Retries]
  /\ failed \in [Thread -> Nat] /\ stored \in [Thread -> Nat]

(* No message is published to an exchange that the broker does not know,     *)
(* whichever thread declared it, and even after declarations that raised.    *)
DeclaredBeforeUse ==
  \A t \in Thread : point[t] \in {"acquire", "publish"} => name[t] \in declared

(* An exchange is declared once for all threads ("double check it is not     *)
(* created by another thread", line 119): a declaration that raised, in      *)
(* declare() or on the way out, is made again, one that went through never.  *)
DeclaredOnce ==
  /\ \A x \in Exchange : declares[x] <= 1
  /\ \A t \in Thread : point[t] \in {"declare", "close"} => declares[name[t]] = 0

(* A connection is in the pool or with the one thread that has taken it, a   *)
(* thread that declares or publishes has one, and none is lost, however many *)
(* attempts raise.                                                           *)
PoolExclusive ==
  /\ \A c \in Connection : c \in free \/ \E t \in Thread : held[t] = c
  /\ \A t \in Thread :
        /\ held[t] \notin free
        /\ point[t] \in {"declare", "close", "publish"} <=> held[t] # None
        /\ \A u \in Thread \ {t} : held[t] # None => held[t] # held[u]

(* A publish raises when Retries + 1 attempts have raised, and only then,    *)
(* and each of its attempts leaves at most PublishTries copies.              *)
AttemptsAccounted ==
  \A t \in Thread :
    /\ failed[t] <= Retries \/ point[t] = "raised"
    /\ point[t] = "raised" => failed[t] \in {0, Retries + 1}
    /\ stored[t] <= PublishTries * IF point[t] = "returned" THEN failed[t] + 1 ELSE failed[t]

(* Every thread that asks for a stub gets it and its call returns or raises: *)
(* no thread waits for a connection or the lock for ever, with fewer         *)
(* connections than threads.                                                 *)
CallsEnd == \A t \in Thread : point[t] = "lookup" ~> point[t] \in {"returned", "raised"}
=============================================================================
