---------------------------- MODULE GlobalConfig ----------------------------
(***************************************************************************)
(* config/ and common/servicer.py: the global config, which a loader       *)
(* thread reads from the cluster again and again and publishes piece by    *)
(* piece in the flags and services managers, and the threads that look up  *)
(* the servicer of a service, registering its flag the first time.         *)
(***************************************************************************)
EXTENDS Integers, Sequences

CONSTANTS
  Reader,     \* threads that look services up
  Label,      \* labels that callers ask with
  Service,    \* services; the flag 'servicer_<s>' stands for service s
  Servicer,   \* servicer names
  None,       \* no servicer, no config, no value: the empty string of a flag
  Config,     \* the global configs that an operator may deploy
  EnvConfig,  \* the config in the environment variable GLOBAL_CONFIG
  NoConfig,   \* the empty config that the wrapper is built with at import
  MaxDeploys  \* bound: changes of the deployed config

(***************************************************************************)
(* A config lists flag definitions and, for each servicer it knows, the    *)
(* services it serves.  stamped: the config map carries its 'ts'.  paced:  *)
(* time.sleep accepts the global_config_reload_period_secs that it and the *)
(* environment set.  Conditions and experiments are left out: a flag has   *)
(* one value.                                                              *)
(***************************************************************************)
FlagDef == [flag : Service, type : {"STRING", "OTHER"}, value : Servicer \cup {None}]

ASSUME ConfigAssumption ==
  /\ None \notin Servicer /\ Label \subseteq Servicer \cup {None}
  /\ \A c \in Config \cup {EnvConfig, NoConfig} :
        /\ c.flags \in Seq(FlagDef)
        /\ DOMAIN c.serves \subseteq Servicer
        /\ \A n \in DOMAIN c.serves : c.serves[n] \subseteq Service
        /\ c.stamped \in BOOLEAN /\ c.paced \in BOOLEAN
  /\ NoConfig.serves = <<>>
  /\ MaxDeploys \in Nat

VARIABLES
  cluster,           \* the deployed config, in the config map
  deploys,           \* changes of it so far
  flags,             \* _flags: the services whose flag is registered
  wrapper,           \* modules.global_config_wrapper: its config and its _flag_config
  service_servicer,  \* _service_servicer
  servicers,         \* the config whose servicers are in _servicers
  loader,            \* control point of init, then of the loader thread
  phase,             \* init runs, or the thread's first load, or its loop
  loading,           \* the config being loaded
  todo,              \* the flag definitions that the loader has still to look up
  found,             \* the flags_config that the loader has collected
  left,              \* the servicers whose services are not entered yet: <<1, n>>
                     \* for servicer n of the config, <<2, n>> for one of the environment
  point,             \* control point of each reader
  asked,             \* the service and the label each reader looks up
  mine,              \* the reader's wrapper is still the registered one
  pending,           \* the flag definitions that the reader has still to look up
  collected,         \* the flags_config that the reader has collected
  answer,            \* the servicer name and the config each reader has found
  undisturbed,       \* history: no config was being published during the lookup
  alone              \* history: nor was another thread registering a flag, nor had
                     \* that of the service been registered before without effect

loaderVars == <<loader, phase, loading, todo, found, left>>
readerVars == <<point, asked, mine, pending, collected, answer, undisturbed, alone>>
configVars == <<flags, wrapper, service_servicer, servicers>>
vars == <<cluster, deploys, configVars, loaderVars, readerVars>>
-----------------------------------------------------------------------------
LoaderPoint == {"fetch", "flags", "clear", "servicers", "route", "register", "stamp",
                "pace", "failed", "dead"}
Phase == {"init", "warmup", "loop"}
ReaderPoint == {"idle", "check", "define", "enter", "hold", "apply", "evaluate", "route",
                "config", "done", "raised"}

(* chain(config.flags, env.flags): the environment overrides the config.     *)
Defs(c) == c.flags \o EnvConfig.flags
Routes(c) == ({1} \X DOMAIN c.serves) \cup ({2} \X DOMAIN EnvConfig.serves)

(* The entry of servicer n: the environment's before the config's.           *)
Entry(c, n) == IF n \in DOMAIN EnvConfig.serves THEN EnvConfig
               ELSE IF n \in DOMAIN c.serves THEN c ELSE None

Serves(c, n) == Entry(c, n).serves[n]

NoFlags == <<>>  \* a flags_config without entries

With(config, d) == [s \in DOMAIN config \cup {d.flag} |->
                      IF s = d.flag THEN d.value ELSE config[s]]

(* The body of set_flags_defs' loop: a flag that is not registered is        *)
(* skipped, one whose type differs raises.                                   *)
Skips(d)  == d.flag \notin flags
Raises(d) == d.flag \in flags /\ d.type # "STRING"
Collect(config, d) == IF Skips(d) THEN config ELSE With(config, d)

Value(s) == IF s \in DOMAIN wrapper.flag_config THEN wrapper.flag_config[s] ELSE None

NoAnswer == [name |-> None, config |-> None]

Registering(r) == point[r] \in {"enter", "hold", "apply"}
Missing(s)     == s \in flags /\ s \notin DOMAIN wrapper.flag_config

Publishing == loader \in {"clear", "servicers", "route", "register"}

Init ==
  /\ cluster \in Config /\ deploys = 0
  /\ flags = {}
  /\ wrapper = [config |-> NoConfig, flag_config |-> NoFlags]
  /\ service_servicer = [s \in Service |->
       IF \E n \in DOMAIN EnvConfig.serves : s \in EnvConfig.serves[n]
       THEN CHOOSE n \in DOMAIN EnvConfig.serves : s \in EnvConfig.serves[n]
       ELSE None]
  /\ servicers = NoConfig
  /\ loader = "fetch" /\ phase = "init"
  /\ loading = NoConfig /\ todo = <<>> /\ found = NoFlags /\ left = {}
  /\ point = [r \in Reader |-> "idle"]
  /\ asked = [r \in Reader |-> [service |-> None, label |-> None]]
  /\ mine = [r \in Reader |-> FALSE]
  /\ pending = [r \in Reader |-> <<>>]
  /\ collected = [r \in Reader |-> NoFlags]
  /\ answer = [r \in Reader |-> NoAnswer]
  /\ undisturbed = [r \in Reader |-> FALSE]
  /\ alone = [r \in Reader |-> FALSE]

(* An operator changes the config map. *)
Deploy(c) ==
  /\ deploys < MaxDeploys /\ c # cluster
  /\ cluster' = c
  /\ deploys' = deploys + 1
  /\ UNCHANGED <<configVars, loaderVars, readerVars>>
-----------------------------------------------------------------------------
(* load(): called by init, then by safe_load in the loader thread.           *)

(* init starts the thread; its first load is followed by a pause of one      *)
(* second, the ones after it by the flag's period.                           *)
LoadOver ==
  /\ loader' = IF phase = "loop" THEN "pace" ELSE "fetch"
  /\ phase' = IF phase = "init" THEN "warmup" ELSE "loop"

(* The locals of a load end with it.                                         *)
Dropped == loading' = NoConfig /\ todo' = <<>> /\ found' = NoFlags /\ left' = {}

(* An error leaves init before it starts the thread, in which it is logged.  *)
LoadFails ==
  /\ IF phase = "init" THEN loader' = "failed" /\ UNCHANGED phase ELSE LoadOver
  /\ Dropped

(* init again: _already_initialized is set, and nothing is loaded or started. *)
InitAgain ==
  /\ loader = "failed" /\ phase = "init"
  /\ phase' = "warmup"
  /\ UNCHANGED <<cluster, deploys, configVars, loader, loading, todo, found, left,
                 readerVars>>

(* Mutant: the config map is read once and cached.                           *)
FetchCached ==
  /\ loader = "fetch"
  /\ loader' = "flags"
  /\ loading' = IF phase = "init" THEN cluster ELSE wrapper.config
  /\ todo' = Defs(loading') /\ found' = NoFlags
  /\ UNCHANGED <<cluster, deploys, configVars, phase, left, readerVars>>

(* Mutant: a config that is in place is not loaded again.                    *)
FetchChanged ==
  /\ loader = "fetch"
  /\ IF cluster = wrapper.config
     THEN LoadOver /\ UNCHANGED <<loading, todo, found>>
     ELSE /\ loader' = "flags"
          /\ loading' = cluster
          /\ todo' = Defs(cluster) /\ found' = NoFlags
          /\ UNCHANGED phase
  /\ UNCHANGED <<cluster, deploys, configVars, left, readerVars>>

Fetch ==
  /\ loader = "fetch"
  /\ loader' = "flags"
  /\ loading' = cluster
  /\ todo' = Defs(cluster) /\ found' = NoFlags
  /\ UNCHANGED <<cluster, deploys, configVars, phase, left, readerVars>>

(* The API does not answer, the config does not parse, a flag other than     *)
(* those of the services has another type.                                   *)
FetchFails ==
  /\ loader = "fetch"
  /\ LoadFails
  /\ UNCHANGED <<cluster, deploys, configVars, readerVars>>

(* set_flags_defs of the new wrapper, one definition at a time. *)
CollectFlag ==
  /\ loader = "flags" /\ todo # <<>> /\ ~Raises(Head(todo))
  /\ found' = Collect(found, Head(todo))
  /\ todo' = Tail(todo)
  /\ UNCHANGED <<cluster, deploys, configVars, loader, phase, loading, left, readerVars>>

FlagMismatch ==
  /\ loader = "flags" /\ todo # <<>> /\ Raises(Head(todo))
  /\ LoadFails
  /\ UNCHANGED <<cluster, deploys, configVars, readerVars>>

FlagsCollected ==
  /\ loader = "flags" /\ todo = <<>>
  /\ loader' = "clear"
  /\ undisturbed' = [r \in Reader |-> FALSE]
  /\ UNCHANGED <<cluster, deploys, configVars, phase, loading, todo, found, left, point,
                 asked, mine, pending, collected, answer, alone>>

(* set_servicers empties _service_servicer, replaces _servicers, and enters  *)
(* the services of one servicer after another, in the order of a hash map.   *)
ClearRoutes ==
  /\ loader = "clear"
  /\ loader' = "servicers"
  /\ service_servicer' = [s \in Service |-> None]
  /\ UNCHANGED <<cluster, deploys, flags, wrapper, servicers, phase, loading, todo,
                 found, left, readerVars>>

ReplaceServicers ==
  /\ loader = "servicers"
  /\ loader' = "route"
  /\ servicers' = loading
  /\ left' = Routes(loading)
  /\ UNCHANGED <<cluster, deploys, flags, wrapper, service_servicer, phase, loading,
                 todo, found, readerVars>>

Entering(e) == e \in left /\ \A e2 \in left : e[1] <= e2[1]

EnterRoutes(e) ==
  /\ loader = "route" /\ Entering(e)
  /\ service_servicer' = [s \in Service |->
       IF s \in Serves(loading, e[2]) THEN e[2] ELSE service_servicer[s]]
  /\ left' = left \ {e}
  /\ UNCHANGED <<cluster, deploys, flags, wrapper, servicers, loader, phase, loading,
                 todo, found, readerVars>>

RoutesEntered ==
  /\ loader = "route" /\ left = {}
  /\ loader' = "register"
  /\ UNCHANGED <<cluster, deploys, configVars, phase, loading, todo, found, left,
                 readerVars>>

(* Mutant: the wrapper is registered while it is being built.                *)
RegisterBare ==
  /\ loader = "register"
  /\ loader' = "stamp"
  /\ wrapper' = [config |-> loading, flag_config |-> None]
  /\ mine' = [r \in Reader |-> FALSE]
  /\ UNCHANGED <<cluster, deploys, flags, service_servicer, servicers, phase, loading,
                 todo, found, left, point, asked, pending, collected, answer, undisturbed,
                 alone>>

(* register_global_config_wrapper: readers that hold the old wrapper write   *)
(* to an object nobody reads any more.                                       *)
RegisterWrapper ==
  /\ loader = "register"
  /\ loader' = "stamp"
  /\ wrapper' = [config |-> loading, flag_config |-> found]
  /\ mine' = [r \in Reader |-> FALSE]
  /\ UNCHANGED <<cluster, deploys, flags, service_servicer, servicers, phase, loading,
                 todo, found, left, point, asked, pending, collected, answer, undisturbed,
                 alone>>

(* int(configmap.data['ts']) may raise, after the config is in place.        *)
Stamp ==
  /\ loader = "stamp"
  /\ IF loading.stamped
     THEN LoadOver /\ Dropped
     ELSE LoadFails
  /\ UNCHANGED <<cluster, deploys, configVars, readerVars>>

(* time.sleep(FLAGS.global_config_reload_period_secs), outside safe_load.    *)
Pace ==
  /\ loader = "pace"
  /\ loader' = IF wrapper.config.paced THEN "fetch" ELSE "dead"
  /\ UNCHANGED <<cluster, deploys, configVars, phase, loading, todo, found, left,
                 readerVars>>
-----------------------------------------------------------------------------
(* get_servicer(service, label), by any thread that asks for a stub.         *)

At(r, from, to) ==
  /\ point[r] = from
  /\ point' = [point EXCEPT ![r] = to]

Ask(r, s, l) ==
  /\ phase # "init"
  /\ At(r, "idle", "check")
  /\ asked' = [asked EXCEPT ![r] = [service |-> s, label |-> l]]
  /\ undisturbed' = [undisturbed EXCEPT ![r] = ~Publishing]
  /\ alone' = [alone EXCEPT ![r] = ~Missing(s) /\ \A q \in Reader : ~Registering(q)]
  /\ UNCHANGED <<cluster, deploys, configVars, loaderVars, mine, pending, collected, answer>>

(* The flag is looked up, and defined when it is not registered ...          *)
CheckFlag(r) ==
  /\ At(r, "check", IF asked[r].service \in flags THEN "evaluate" ELSE "define")
  /\ UNCHANGED <<cluster, deploys, configVars, loaderVars, asked, mine, pending, collected,
                 answer, undisturbed, alone>>

(* ... unless another thread has defined it in the meantime.                 *)
DefineFlag(r) ==
  /\ At(r, "define", IF asked[r].service \in flags THEN "raised" ELSE "enter")
  /\ alone' = [q \in Reader |-> alone[q] /\ (q = r \/ asked[r].service \in flags)]
  /\ UNCHANGED <<cluster, deploys, configVars, loaderVars, asked, mine, pending, collected,
                 answer, undisturbed>>

(* Mutant: the wrapper is not told to set its flags again.                   *)
EnterFlagOnly(r) ==
  /\ At(r, "enter", "evaluate")
  /\ flags' = flags \cup {asked[r].service}
  /\ UNCHANGED <<cluster, deploys, wrapper, service_servicer, servicers, loaderVars, asked,
                 mine, pending, collected, answer, undisturbed, alone>>

EnterFlag(r) ==
  /\ At(r, "enter", "hold")
  /\ flags' = flags \cup {asked[r].service}
  /\ UNCHANGED <<cluster, deploys, wrapper, service_servicer, servicers, loaderVars, asked,
                 mine, pending, collected, answer, undisturbed, alone>>

(* The wrapper that is registered now is to set its flags again.             *)
HoldWrapper(r) ==
  /\ At(r, "hold", "apply")
  /\ mine' = [mine EXCEPT ![r] = TRUE]
  /\ pending' = [pending EXCEPT ![r] = Defs(wrapper.config)]
  /\ collected' = [collected EXCEPT ![r] = NoFlags]
  /\ UNCHANGED <<cluster, deploys, configVars, loaderVars, asked, answer, undisturbed,
                 alone>>

ReapplyFlag(r) ==
  /\ point[r] = "apply" /\ pending[r] # <<>> /\ ~Raises(Head(pending[r]))
  /\ collected' = [collected EXCEPT ![r] = Collect(@, Head(pending[r]))]
  /\ pending' = [pending EXCEPT ![r] = Tail(@)]
  /\ UNCHANGED <<cluster, deploys, configVars, loaderVars, point, asked, mine, answer,
                 undisturbed, alone>>

(* Mutant: the flags are set in whatever wrapper is registered by now.       *)
OwnerAny(r) == TRUE

Owner(r) == mine[r]

(* The assignment to _flag_config; a mismatch is logged instead.             *)
FlagsReapplied(r) ==
  /\ At(r, "apply", "evaluate")
  /\ pending[r] # <<>> => Raises(Head(pending[r]))
  /\ wrapper' = IF Owner(r) /\ pending[r] = <<>>
                THEN [wrapper EXCEPT !.flag_config = collected[r]] ELSE wrapper
  /\ mine' = [mine EXCEPT ![r] = FALSE]
  /\ pending' = [pending EXCEPT ![r] = <<>>]
  /\ collected' = [collected EXCEPT ![r] = NoFlags]
  /\ UNCHANGED <<cluster, deploys, flags, service_servicer, servicers, loaderVars, asked,
                 answer, undisturbed, alone>>

Named(r, n) == answer' = [answer EXCEPT ![r].name = n]

(* flag.evaluate() or label or _service_servicer.get(service_name)           *)
EvaluateFlag(r) ==
  /\ \/ /\ Value(asked[r].service) # None
        /\ At(r, "evaluate", "config")
        /\ Named(r, Value(asked[r].service))
     \/ /\ Value(asked[r].service) = None /\ asked[r].label # None
        /\ At(r, "evaluate", "config")
        /\ Named(r, asked[r].label)
     \/ /\ Value(asked[r].service) = None /\ asked[r].label = None
        /\ At(r, "evaluate", "route")
        /\ UNCHANGED answer
  /\ UNCHANGED <<cluster, deploys, configVars, loaderVars, asked, mine, pending, collected,
                 undisturbed, alone>>

FindRoute(r) ==
  /\ LET n == service_servicer[asked[r].service] IN
       /\ At(r, "route", IF n = None THEN "done" ELSE "config")
       /\ Named(r, n)
  /\ UNCHANGED <<cluster, deploys, configVars, loaderVars, asked, mine, pending, collected,
                 undisturbed, alone>>

(* A label that names no servicer is left to the deprecated configuration.   *)
FindConfig(r) ==
  /\ At(r, "config", "done")
  /\ LET n == answer[r].name
         c == Entry(servicers, n) IN
       answer' = [answer EXCEPT ![r] = IF n = asked[r].label /\ c = None THEN NoAnswer
                                       ELSE [name |-> n, config |-> c]]
  /\ UNCHANGED <<cluster, deploys, configVars, loaderVars, asked, mine, pending, collected,
                 undisturbed, alone>>

Leave(r) ==
  /\ \E p \in {"done", "raised"} : At(r, p, "idle")
  /\ answer' = [answer EXCEPT ![r] = NoAnswer]
  /\ undisturbed' = [undisturbed EXCEPT ![r] = FALSE]
  /\ alone' = [alone EXCEPT ![r] = FALSE]
  /\ asked' = [asked EXCEPT ![r] = [service |-> None, label |-> None]]
  /\ UNCHANGED <<cluster, deploys, configVars, loaderVars, mine, pending, collected>>
-----------------------------------------------------------------------------
Loader == \/ InitAgain \/ Fetch \/ FetchFails \/ CollectFlag \/ FlagMismatch \/ FlagsCollected
          \/ ClearRoutes \/ ReplaceServicers \/ RoutesEntered
          \/ \E e \in {1, 2} \X Servicer : EnterRoutes(e)
          \/ RegisterWrapper \/ Stamp \/ Pace

Lookup(r) == \/ CheckFlag(r) \/ DefineFlag(r) \/ EnterFlag(r) \/ HoldWrapper(r) \/ ReapplyFlag(r)
             \/ FlagsReapplied(r) \/ EvaluateFlag(r) \/ FindRoute(r) \/ FindConfig(r)
             \/ Leave(r)

Next == \/ \E c \in Config : Deploy(c)
        \/ Loader
        \/ \E r \in Reader : Lookup(r)
        \/ \E r \in Reader, s \in Service, l \in Label : Ask(r, s, l)

Spec == Init /\ [][Next]_vars

-----------------------------------------------------------------------------
(* init's caller and the scheduler go on; the API of the cluster answers     *)
(* again and again; a lookup, once begun, goes on.                           *)
Fairness == /\ WF_vars(Loader) /\ SF_vars(Fetch)
            /\ \A r \in Reader : WF_vars(Lookup(r))

FairSpec == Spec /\ Fairness
-----------------------------------------------------------------------------
FlagsConfigs == UNION {[known -> Servicer \cup {None}] : known \in SUBSET Service}

AnyConfig == Config \cup {EnvConfig, NoConfig}

(* The type of the state: every piece of the published config and of the    *)
(* lookups is of the kind that the managers store.                           *)
TypeOK ==
  /\ cluster \in Config /\ deploys \in 0 .. MaxDeploys
  /\ flags \subseteq Service
  /\ wrapper.config \in AnyConfig /\ wrapper.flag_config \in FlagsConfigs
  /\ service_servicer \in [Service -> Servicer \cup {None}]
  /\ servicers \in AnyConfig
  /\ loader \in LoaderPoint /\ phase \in Phase /\ loading \in AnyConfig
  /\ todo \in Seq(FlagDef) /\ found \in FlagsConfigs
  /\ left \subseteq {1, 2} \X Servicer
  /\ point \in [Reader -> ReaderPoint]
  /\ asked \in [Reader -> [service : Service \cup {None}, label : Label \cup {None}]]
  /\ mine \in [Reader -> BOOLEAN]
  /\ pending \in [Reader -> Seq(FlagDef)]
  /\ collected \in [Reader -> FlagsConfigs]
  /\ answer \in [Reader -> [name : Servicer \cup {None}, config : AnyConfig \cup {None}]]
  /\ undisturbed \in [Reader -> BOOLEAN]
  /\ alone \in [Reader -> BOOLEAN]

(* The servicers that may be the route of s under config c: those of the     *)
(* environment if any serves s, otherwise those of the config.               *)
Routed(c, s) ==
  LET env  == {n \in DOMAIN EnvConfig.serves : s \in EnvConfig.serves[n]}
      own  == {n \in DOMAIN c.serves \ DOMAIN EnvConfig.serves : s \in c.serves[n]}
      both == IF env # {} THEN env ELSE own
  IN IF both = {} THEN {None} ELSE both

(* The values that c and the environment may give the flag of s: that of the *)
(* last definition, and none when c does not define it.                      *)
LastValue(c, s) ==
  {Defs(c)[i].value : i \in {i \in DOMAIN Defs(c) :
     /\ Defs(c)[i].flag = s /\ Defs(c)[i].type = "STRING"
     /\ \A k \in DOMAIN Defs(c) : k > i => Defs(c)[k].flag # s}}

(* A load takes place as a whole or not at all: while no config is being     *)
(* published, the routes, the servicers and the flags in effect all come     *)
(* from the config of the registered wrapper, even after loads that failed   *)
(* and with threads that set flags of the wrapper in the meantime.           *)
ConfigWhole ==
  Publishing \/
  /\ servicers = wrapper.config
  /\ \A s \in Service : service_servicer[s] \in Routed(wrapper.config, s)
  /\ \A s \in DOMAIN wrapper.flag_config :
        s \in flags /\ wrapper.flag_config[s] \in LastValue(wrapper.config, s)

(* A definition of c has another type than the flag registered for it.       *)
Spoilt(c) == \E i \in DOMAIN Defs(c) : Defs(c)[i].flag \in flags /\ Defs(c)[i].type # "STRING"

(* The flag's servicer, else the label, else the route, and the configuration *)
(* of that servicer; a label without one gives no answer, even when the flag  *)
(* names it.  A servicer that the config's flag names is passed over only if  *)
(* another thread was registering a flag during the lookup, if the flag had   *)
(* been registered before and had not taken effect (a reload was past its     *)
(* definition, or another thread's assignment has lost it), or if a           *)
(* registered flag has another type.                                          *)
PassedOver(r) == \/ LastValue(wrapper.config, asked[r].service) \ {None} = {}
                 \/ ~alone[r] \/ Spoilt(wrapper.config)

ExactAnswer(r) ==
  LET c == wrapper.config
      s == asked[r].service
      l == asked[r].label
      Found(n) == IF n = l /\ Entry(c, n) = None THEN NoAnswer
                  ELSE [name |-> n, config |-> Entry(c, n)]
  IN \/ \E n \in LastValue(c, s) \ {None} : answer[r] = Found(n)
     \/ /\ PassedOver(r)
        /\ \E n \in (IF l # None THEN {l} ELSE Routed(c, s)) : answer[r] = Found(n)

(* A lookup during which no config is published answers from the config in   *)
(* effect alone, as ExactAnswer says.                                        *)
QuietLookupsExact ==
  \A r \in Reader : point[r] = "done" /\ undisturbed[r] => ExactAnswer(r)

Loads(c) == \A i \in DOMAIN Defs(c) : Defs(c)[i].type = "STRING"

(* The config that the cluster has, and that could be loaded, is not the one *)
(* in effect, and the loader goes on.                                        *)
Behind == /\ Loads(cluster) /\ wrapper.config # cluster
          /\ loader \notin {"failed", "dead"}

(* The service never stays behind what is deployed, whatever loads failed    *)
(* before, unless init failed or a bad reload period has ended the loader    *)
(* thread.                                                                   *)
DeployedIsServed == []<>~Behind

Over(c) == cluster # c \/ loader \in {"failed", "dead"}

(* A flag that the deployed config defines takes effect after it has been    *)
(* registered, even when another thread's assignment to _flag_config or a    *)
(* concurrent reload has lost it at first.                                   *)
FlagsCatchUp ==
  \A c \in Config, s \in Service : Loads(c) /\ LastValue(c, s) # {} =>
    (cluster = c /\ s \in flags
       ~> (wrapper.config = c /\ s \in DOMAIN wrapper.flag_config) \/ Over(c))
=============================================================================
