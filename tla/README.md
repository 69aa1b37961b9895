# A verification of rpc-lib

rpc-lib is the RPC layer of a family of Python services: asynchronous calls over
RabbitMQ, synchronous calls over gRPC with retries and inherited deadlines, a global
configuration that is reloaded while the service runs, and glue for HTTP servers and
Celery. This directory holds TLA+ models of its concurrent parts, the TLC runs that
check them on small instances, and TLAPS proofs of the main properties for all
instances. Paths below are relative to `src/python/rpc_lib/` of the repository.

## The system

| part | source | state | operations | hard because |
|---|---|---|---|---|
| RabbitMQ worker | `rabbitmq/server.py` | channel, `_msg_opr_queue`, `_in_progress`, stop flags, what each executor thread handles | consume, hand to the executor, handle, requeue/ack/reject, stop, reconnect | consumer and executor threads, broker redelivery, crash between requeue and ack |
| RabbitMQ client | `rabbitmq/client.py` | exchange table, lock, pool of 5 connections | get a stub, publish with retries | double-checked lock, bounded pool, publishes whose outcome is unknown |
| gRPC interceptors | `grpc/interceptors/` | per call: retries, timeout, last status; request state | attempt, back off, give up; copy state and trace | deadlines along chains of services, abandoned calls, done-callbacks |
| gRPC server | `grpc_server/` | pool of workers, task context of each handler | take a call, run the handler, answer | bounded pool: services may wait for each other |
| Global config | `config/`, `common/servicer.py` | registered wrapper, its `_flag_config`, flags, routes, servicers | load, publish, register a flag, look a service up | published piece by piece without locks while threads read and register |
| Sanic gRPC calls | `sanic/grpc_client_creator.py`, `grpc/interceptors/flags.py` | per call: captured context, result; per request: its state | attempt, callbacks, retry on the loop, resume | gRPC threads and one event loop |
| Client factories | `grpc/client_factory.py`, `rabbitmq/client_factory.py` | one client per endpoint | get a stub | filled without a lock |
| Servicer registration | `rabbitmq/server.py` (`add_servicer`, `declare_queues`) | queues, table of handlers | add a servicer, declare, start | names of caller and worker come from different places |
| Servers and task contexts | `sanic/`, `flask/`, `django/`, `celery/`, `grpc_server/interceptor.py`, `common/context_holder/` | current context, gauges | set and count per request | threads are used again; hooks may run twice or not at all |
| Pure helpers | `util/`, `common/specialization.py`, `third_party/`, conditions | none that changes | encode, look up | - |

How they interact: every handler runs under a *task context*, held per thread or per
asyncio task (`common/context_holder/`). A gRPC handler's context knows the time that
remains to its caller, and the timeout interceptor of the calls it makes asks for it.
The client factories ask the global config's services manager for the endpoint of a
service. The RabbitMQ client and worker meet only at the broker, which is not part of
the repository: queues with acks, a prefetch count, redelivery, and a retry queue
whose TTL dead-letters into the servicer's queue.

What makes each part correct:

* worker: no call is lost, none is given up early, none starts before its target time,
  a stop waits for running calls and does happen;
* client: no publish to an undeclared exchange, one declaration, exclusive
  connections of which none is lost, a bounded number of attempts, nobody waits for ever;
* gRPC: sub-calls fit into the time of their caller, retries stay bounded, every call
  with a deadline ends and every handler under one returns;
* config: readers outside of a reload see one whole config, lost assignments and failed
  loads are made up for;
* Sanic calls: each attempt carries its caller's context, each call ends and is observed
  once, be it after its caller has gone on; the state that callees return adds up and stays with the request;
* stubs: a stub goes to the endpoint that was looked up, the clients stay few, a call
  that gets to the worker's broker and exchange reaches the servicer that was added for it;
* contexts: a handler acts in the name of its own request, gauges count what runs.

## Modules

| module | models | checked by |
|---|---|---|
| `Broker` | RabbitMQ as the worker uses it (external): copies of messages that are ready, unacked or in the retry queue | with `RabbitMQServer` |
| `RabbitMQServer` | the worker, its executor threads and their faults | `RabbitMQServerMC`, `Server_*.cfg` |
| `AtLeastOnce` | the promise to the callers, as an abstract specification | refinement in `server_threads` and by proof |
| `RabbitMQClient` | stubs, exchange table, pool, publish retries | `Client_threads.cfg` |
| `GrpcCall` | retry and timeout interceptors together with the server's workers | `GrpcCallMC`, `Grpc_*.cfg` |
| `GlobalConfig` | init, loader thread, flags and services managers, lookups | `GlobalConfigMC`, `Config_*.cfg` |
| `SanicCall` | GrpcMethodCaller on an event loop, with the flags interceptor and the request state | `Sanic_*.cfg` |
| `TaskContext` | the hooks of six kinds of servers: context holders and gauges | `Context_hooks.cfg` |
| `ServiceStubs` | the client factories' caches, servicer registration, and the way of a call between the two | `ServiceStubsMC`, `Stubs_factory.cfg` |
| `RabbitMQServerProofs`, `RabbitMQDeliveryProofs` | proofs about the worker, the refinement in the latter | TLAPS |
| `RabbitMQClientProofs`, `GrpcCallProofs`, `GlobalConfigProofs`, `SanicCallProofs`, `TaskContextProofs`, `ServiceStubsProofs` | proofs about the module of that name | TLAPS |

Operators marked "Mutant" in the modules are variants of the definition that follows
them, each with a plausible bug; they are used by no specification and serve to
demonstrate that the properties can fail.

### RabbitMQServer and Broker

The consumer thread's control point `pc` follows kombu's ConsumerMixin loop: connect,
check `should_stop`, `on_iteration` (which decides on the stop and then applies the
operations of `_msg_opr_queue` one at a time), `drain_events`. An executor thread's
`phase` follows `_try_on_message`: the two halves of `_in_progress += 1`, the checks of
`_on_message`, the handler, the operations that are put in the queue in their order,
the two halves of the decrement. A requeue is made in `PublishRetries + 1` attempts, each
of which is up to `PublishTries` publishes by kombu (`retry=True`, `max_retries` 5). A
publish succeeds, succeeds without reaching the broker, or raises, and one that raises may
have stored a copy, the last one included; kombu may give up an attempt after any of them.
When the attempts are used up the exception leaves `on_iteration`: a connection error
reconnects, any other ends the consumer thread. Acks go to the broker only on the session
they were delivered on. Faults are broken connections (which the process notices later),
crashes, restarts, stop requests, publishes of the worker that raise, and a client's
publish that is made twice.

The channel's broken state is split into what the broker knows (`broken`) and what the
process sees (`session`), because `message.channel.connection` is what the code tests
(lines 132, 164, 236) and it is stale. `execute_at` is compared with the clock in its
own unit; a backoff is a small number, hence always in the past, so that `Epoch` is
assumed to lie above every backoff. `BackoffRaises` and `Unruled` let a coordinator's
backoff and `max_retries` raise, which the built-in one's never do; the first ends in a
reject (`refused`), the second outside of the inner `try`, with no operation put.
`ConfirmPublish` is the transport option of the connection that the application passes in.

`lost_update` is a history variable: one thread's store to `_in_progress` has overwritten
another's. After that the counter is wrong for good and a stop may come early or never.
`Orphans` are the deliveries that nobody will settle, because `_on_message` raised outside
of its inner `try`; when they fill the prefetch count (`Clogged`) the worker gets nothing.

### RabbitMQClient

Each thread is at one control point of `_get_exchange` or `_publish_with_retry`; the
unlocked look at the table, the lock, the second look, the declaration with a pooled
connection, the end of its `with` statements and the entry in the table are separate
steps. `declare()` may raise although the broker has the exchange, and the end of a `with`
may raise after `declare()` has returned: both leave the table as it was, and the next
thread declares again. An attempt leaves any number of copies up to `PublishTries`, whether
it returns or raises, since kombu publishes again and `confirm_publish` is False.

### GrpcCall

Services with a bounded number of workers call each other. A thread's `point` runs through
an attempt (skipped by the timeout interceptor, or given a timeout and then sent), its
answer, the retry interceptor's judgement, and the backoff. `left` is the time of the
attempt that is out, `limit` what the server counts for the call that a worker has; both
run with the clock. When `left` reaches 0, or the connection is lost, the caller goes on
while the server may still work for it, with `Gone` in the caller's place, and the server
learns of it some time later (`Notice`, `is_active()`): until then the handler computes
its timeouts from the time it still sees, and between computing and sending its caller may
go. `slip` counts the ticks between the two. Two idealisations: a tick is longer than a
backoff, and longer than a message takes, so that the server's deadline for a call comes
within a tick of the caller's. `Never` stands for "no limit" (the code's threshold is 1E6
seconds).

### GlobalConfig

The loader's `loader` point runs through fetch, the collection of flags, the services
manager's clear, the servicers, the entry of routes one servicer at a time, the
registration of the wrapper, the time stamp and the pause. Readers look a service up:
get the flag, define it when it is missing (which sets the flags of the wrapper they
have read), evaluate, take the route, take the servicer's config. Loads fail at each of
the points where the code raises. Conditions and experiments are left out.

Two history variables say what a lookup may answer: `undisturbed`, that no config was
published during it, and `alone`, that no other thread registered a flag during it and
that its own flag, if registered before, had taken effect. Then the answer is the servicer
that the config's flag names, else the label, else the route (`ExactAnswer`); `PassedOver`
lists the only reasons for which a flag's servicer is not the answer.

### SanicCall

One event loop runs the calls' tasks, gRPC threads run `set_result`. `asyncio.ensure_future`
is called from a foreign thread: it appends to the loop's queue without waking `select`,
so the model separates the loop's decision to select from the select, and lets other
events wake it. The task of a retry has no context of its own, so the context of an
attempt is the one captured when the call was made.

A request state is the set of the calls whose updates it has. A callee returns the state
it was sent with its own update added; the flags callback (`ProcessResult`) replaces the
state of the context by that, on a gRPC thread, before `set_result` runs there. When the
attempt ends before `set_result` is attached (`hasty`), the loop's thread runs
`set_result` at once, beside the flags callback. Setting the result wakes the loop, and
the rest of `set_result`, which observes the metric, is a step of its own (`finishing` says
which thread owes it): the caller may have gone on before. The history variable `overlap` has the
requests that make a call while another one's update is not applied: their updates may
overwrite each other, which is what the code does. For blocking calls the callback runs
in the caller's thread at once, so that nothing can be interleaved; they are not modelled.

### TaskContext

One module for the six kinds of servers, because they differ only in the order of their
hooks (`Hooks`) and in how a request ends: Flask's three signals, Django's middleware
with its mark of counted requests, Sanic's middlewares with a task per request, gRPC's
interceptor with its `finally`, the worker's handler, Celery's two signals. `server` is
chosen once. A `threading.local` is a row of `current`, indexed by the thread that has
made it; it is made without a lock at its first use (`Look`, `Create`). A header may not
decode (`Refuse`): what runs then depends on the server. A handler asks for its holder
twice (`See`, `Get`): if another thread has replaced the holder in between, the second
answer is an AttributeError (`"raises"`). Sanic's response middleware also runs for a request
that an earlier request middleware has answered (`AnsweredBefore`), which is then counted
out without having been counted in. `SERVER_FREE_WORKERS` mirrors the gauge and is left out.

### ServiceStubs

Threads look a servicer up, look at the factory's cache, make a client if there is none,
and take what the cache has by then; the four steps interleave freely, and each but the
look at the cache may raise. The lookup's result is free: a servicer that the services
manager names, or none and the definition's name counts, with any instance configuration or
none, since `GlobalConfig` says what it can be. An empty endpoint is refused only in the
second, deprecated case. The worker's process adds servicers, declares a queue for each,
and serves. `Publish` and `Dispatch` compose the two sides: a call goes to the broker of
its stub's client and the exchange of the caller's config, with the caller's name of the
servicer; the queue is at the worker's broker, bound to the worker's exchange with the
definition's name. A publish may also be lost, with an exception or, being unconfirmed,
without. `Endpoint` has one member for each broker: different addresses of one broker are
not told apart.

## Runs

| run | shows | bounds |
|---|---|---|
| `server_threads` | no call lost, none repeated without a fault, refinement of `AtLeastOnce`, a stop only when idle unless an update was lost | 1 call, 2 threads, 1 fault, 1 retry, 4 copies, 1 publish in each of 2 attempts |
| `server_delay` | target times and retry counts through postponement, all retries and a fault, without confirms, with a coordinator that raises | 1 delayed call, 1 thread, 1 fault, 3 retries, 4 copies, 2 publishes in each of 2 attempts, clock of 2 instants |
| `server_live` | calls settle unless undecodable ones fill the prefetch, a stop waits and happens | 2 calls of which one cannot be decoded, 1 thread (a prefetch of 2), 1 fault, 5 copies |
| `client_threads` | lock, pool, declarations, retries; nobody waits for ever | 3 threads, 1 connection, 2 exchanges, 1 retry, 2 publishes in an attempt |
| `grpc_deadlines` | deadlines, retries, callers that go unnoticed | a ring of 2 services with 1 worker each, 1 client, timeouts of 1 and 2 ticks, 1 lost connection, 1 tick between computing and sending, 1 call waiting for each service |
| `grpc_ring` | calls with a deadline end and handlers under one return, although others wait for ever | the same ring, handlers without timeouts, a second client without a timeout, no retries |
| `config_loads` | one whole config, exact lookups, failed loads are made up for | 1 reader, 2 deployments of 4 kinds of configs |
| `config_live` | lost assignments are made up for | 2 readers that register at once and against reloads, no deployment |
| `sanic_calls` | contexts, request states, one observation, calls end | 2 calls of 1 or 2 requests, 2 attempts counted (a retry is one step of the loop like any other) |
| `contexts` | own contexts, exact gauges, for every kind of server | 3 requests on 2 threads or tasks |
| `stubs` | stubs fit, few clients, calls reach their servicer | 2 threads with 2 stubs each, 2 services, 2 servicers, 3 instances with 2 brokers and 2 exchanges |
| `sanic_table` | *violation*: more retries than the table has for any code | 2 calls, 5 attempts counted |

Why the bounds are enough: the worker's hazards need one redelivery beside one requeued
copy of the same call, handled by two threads at once (four copies leave room for both
and for their duplicates: a run with too few slots deadlocks, which is checked), and one
retry separates "retried", "last retry" and "given up". `server_delay` has the three
retries that the built-in coordinator has for INTERNAL and goes through all four failures;
a backoff that raises is tried on count 2 only. A fault in `server_live` may be that the
undecodable message is published twice: the two copies fill the prefetch of 2, and the run
has that state. Two threads are what the lost update and the double-checked lock need; a
third thread competes for the one pooled connection with a thread that holds the lock. A
ring of two services with one worker each is the smallest that waits for itself. Three
requests on two threads are two at once and one on a thread that was used before; two
threads fill a cache at once, and their second stubs find it filled. The empty endpoint of
`stubs` is its second broker. One reader covers each pair of loader and reader steps, two
readers each pair of registrations. The proofs below remove the bounds for the properties
they cover.

`CHECK_DEADLOCK FALSE` is set in `Grpc_ring.cfg` only: with a client that waits without
a timeout, the two workers may really wait for each other for ever.

### Fairness

* worker: its threads keep running, handlers end, the retry queue's TTL expires, the
  clock advances (weak); a message that can be pushed again and again is some day what
  `drain_events` returns (strong). Publishing and restarting are not assumed.
* client: threads go on (weak); the lock and the pool do not pass a thread over for ever
  (strong): kombu's pool and Python's lock serve waiting threads.
* gRPC: time passes, threads run, idle workers take calls, handlers end (weak).
* config: loader and lookups go on (weak); the cluster's API answers again and again (strong).
* Sanic: loop and gRPC threads go on, to the end of `set_result` too, and other events wake the loop (weak); a server that
  is asked for ever does not fail with a retried code for ever (strong), which is needed
  only because the number of retries is not limited.

## Disagreements found

* `sanic/grpc_client_creator.py:84` never counts a retry: a call whose attempts keep
  failing with a retried code never ends (`sanic_table`), and for the same reason the
  metric described as "Number of retries" observes 0.
* `grpc/interceptors/retry.py:81` stops after one retry more than `max_retries_by_code`
  says; `RetriesBounded`, checked and proved, has the bound of the code: four, where the
  table's largest number is three.

What the code does and the models have, with the property that says how far it goes:

* the duplicate check of `rabbitmq/server.py:50` never finds a duplicate: the servicer
  that is added last has the method (`CallsReachTheirServicer`);
* a call goes to the broker, the exchange and the queue of the name that the caller's
  config has, the worker listens with its own arguments and under the name of the service
  definition: a call by another name, broker or exchange is dropped without an error
  (`CallsReachTheirServicer`);
* undecodable messages are never acked: as many as the prefetch count stop the worker
  (`JobsSettle`, `Clogged`);
* the holder of the threads' contexts is made without a lock: at start-up a request may
  find no context, or an AttributeError (`OwnContext`, `replaced`);
* a task of Celery, or an error handler of Flask or Sanic, whose headers do not decode
  runs in the context of the request before (`OwnContext` excepts `refused`);
* Flask counts a request that raises out twice when the exception is handled, and Sanic
  never counts out a cancelled one, and counts out one that it has not counted in when an
  earlier middleware answers (`GaugeExact`, `Upset`);
* concurrent calls of a request overwrite each other's updates of its state
  (`SequentialUpdatesAddUp`, `overlap`).

Read in the code and not modelled: the lambdas of `sanic/grpc_client_creator.py:93` all
call the last method of the stub.

With several executor threads, `_in_progress` of the worker (`rabbitmq/server.py:119`,
`127`) may lose an update, after which a requested stop may come early or need not
happen: `StopSeesIdle`, checked for two threads and proved for any number, has the lost
update as its only exception; `StopHappens` is checked for one thread.

## Proofs

* `RabbitMQServerProofs`: the type invariant with what the queues and threads hold, and
  the message invariant (every copy, operation and thread carries a retry count that the
  failures have earned, and only once the target time has come). From it: `TypeOK`,
  `DroppedOnlyAfterRetries`, `NeverEarly`, `PostponedOnlyBeforeTarget`. `StopSeesIdle` is
  proved for any number of threads: until an update is lost, `_in_progress` is the number
  of threads that have stored their increment and not their decrement (`CountInv`), because
  a store that overwrites nothing finds the value that its thread has loaded.
* `RabbitMQDeliveryProofs`: four results, each with an invariant that builds on the one
  before it.
  1. `NoJobLost` under `ConfirmPublish` (`NothingLost`), or without it until the first
     fault (`NothingLostWithoutFaults`). `NoJobLost` alone is not inductive: an ack in the
     operation queue could remove the last copy of a call. `OwnerInv` adds that every
     unacked delivery has at most one owner (a backlog entry, a thread or one final
     operation), that each requeue in the queue is followed by the ack of the same
     delivery, that an ack is put in only when the call is settled, replaced or about to
     be replaced by an earlier operation, and that operations of former sessions touch
     nothing. The ownership part needs no assumption; what says that a replacement exists
     is conditional on `Sure`, that publishes are confirmed or nothing has failed.
  2. Every step of the worker is a step of `AtLeastOnce` or a stutter (`AtLeastOnceKept`,
     under `ConfirmPublish`).
  3. `NoRepeatWithoutFaults` (`NoRepeats`), and that no call is both answered and given up
     (`OneCopyOneOutcome`). `Faultless`: every owner belongs to the session in use, one
     copy of a call is live apart from those a requeue has replaced, and a copy that is
     replaced or whose call is settled is owned by somebody who only closes it. A stop, a repeated publish or any
     other fault ends what these theorems say.
  4. No prefetch slot is forgotten (`DeliveriesOwned`), through all faults: what is unacked
     and neither undecodable nor `Unruled` has an owner that will settle it. The exceptions
     are real: a message on which `_on_message` raises outside of its inner `try` stays unacked until the channel
     closes.
* `RabbitMQClientProofs`: `TypeOK`, `PoolExclusive`, `DeclaredBeforeUse`, `DeclaredOnce`,
  `AttemptsAccounted`. The lock is with the thread inside the `with` statement; an
  exchange whose declaration went through is in the table or about to be entered by the one
  thread that holds the lock, while one that raised counts as none; failed attempts and
  retries left add up, and each attempt leaves at most `PublishTries` copies. `SomeThreadGoesOn`:
  although the pool is entered while the lock is held, the threads never all wait, because
  a thread that has a connection waits for nothing and no connection is lost.
* `GrpcCallProofs`: `TypeOK`, `DeadlineInherited`, `RetriesBounded`.
  `DeadlineInherited` needs that a caller which is queued or worked for has its attempt
  out, and is in one place only, and that the time in the queue and at the worker is the
  caller's `left` as long as the caller waits; a handler's own attempt was computed from
  `limit`, and what the clock has taken from that since is `slip`. Of `CallsEnd` the safety
  half is proved: a measure of the retries and steps that are left falls with each step of
  a call and grows with none (`CallsGoForward`), and an attempt never has more time than
  the timeout given with it (`AttemptsAreLimited`).
* `GlobalConfigProofs`: `TypeOK`, `ConfigWhole`, `QuietLookupsExact`. The flags part of
  the invariant says of the loader, and of each reader whose wrapper is still registered,
  that it has looked up the first k definitions and has for each flag the last of those
  (`Gathering`); a flag that is registered meanwhile does no harm to it. The routes part
  (`EnteredInv`) says that while servicers are entered those of the environment come last
  and a service has the servicer entered last; when none is left that gives `Routed`. A
  lookup that is undisturbed has chosen what the config in effect says (`Choice`).
* `SanicCallProofs`: `TypeOK`, `ContextKept`, `ObservedOnce`, `StateStaysWithRequest`,
  `SequentialUpdatesAddUp`. `ObservedOnce` needs that a thread owes an observation only for
  a call whose result it has set, and once (`FinishingInv`). The last one needs that a request without `overlap` has at
  most one call under way, and that this call carries all of the request's state until it
  has been applied.
* `TaskContextProofs`: `TypeOK`, `OwnContext`, `GaugeExact`. `StepTransition` reads the
  way of a request through its server's hooks off the actions once. A thread has one request at a
  time; from `set_current_context` to the end of its handler the cell of its thread has
  its own context, unless its holder was replaced; which requests are counted is a function of server, stage and
  fate (`IsCounted`), and the gauge is their number as long as nothing has upset it.
* `ServiceStubsProofs`: `TypeOK`, `StubFits`, `ClientsBounded`, `CallsReachTheirServicer`.
  The clients made for an endpoint and the threads about to make one are together at most
  the threads, because a thread that has made one never again finds none; the table has
  for each method the last servicer that has it, and no call is handled before the
  servicers are complete. That the broker a call is published to is the one that was looked
  up is `StubFits`.

The assumptions are the named ASSUMEs of the modules; TLC evaluates them in every run.
Two theorems have a hypothesis of their own, without which their property does not
hold: `NothingLost` and `AtLeastOnceKept` that publishes are confirmed, an option of the
connection that the application passes in. Without confirms (`server_delay`) a requeued
call may be lost, which is stated and not ruled out. `SomeThreadGoesOn` needs that there are a thread and a connection.
Every safety and action property of a passing run is stated by a theorem. Only
model-checked, because fairness and ENABLED are out of the prover's reach: `JobsSettle`,
`StopHappens`, the `CallsEnd` of three modules, `HandlersReturn`, `DeployedIsServed` and
`FlagsCatchUp`.

## Not modelled

* Conditions and experiments: a flag's value is a pure function of the request and of
  tables that are filled at import.
* The trailing metadata of the gRPC server and blocking calls of the flags interceptor:
  one thread runs both, in order.
* The choice of an instance among a service's, which is a lookup in a message; channels
  and their options; names and options of queues.
* Exceptions that are no `Exception` (SystemExit, KeyboardInterrupt) in handlers and hooks;
  application middleware other than one that answers before the library's; a Sanic task
  that is cancelled while it awaits a call, after which `set_result` raises.
* Specialization (set once before init), encodings and header strings, metrics that no
  property is about, vendored interceptor helpers, protobuf schemas, packaging and tests.

## Plan

1. `GrpcCall` composed with the request state, for callees that call on.
2. A lookup of `GlobalConfig` in place of `ServiceStubs`' free choice.
3. The safety halves of the other liveness properties, as done for `CallsEnd` of `GrpcCall`.
