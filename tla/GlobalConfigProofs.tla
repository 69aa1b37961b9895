------------------------- MODULE GlobalConfigProofs -------------------------
(***************************************************************************)
(* Proofs about GlobalConfig, for any readers, services, servicers and     *)
(* configs.                                                                *)
(***************************************************************************)
EXTENDS GlobalConfig, TLAPS

(***************************************************************************)
(* The invariant.  A thread that sets flags has looked up the first k      *)
(* definitions of its config, and for each flag it has, the last of those. *)
(***************************************************************************)
Suffix(q, k, d) == /\ k \in 0..Len(d)
                   /\ Len(q) = Len(d) - k
                   /\ \A i \in 1..Len(q) : q[i] = d[k + i]

LastOf(d, k, s, v) ==
  \E i \in 1..k : /\ d[i].flag = s /\ d[i].type = "STRING" /\ d[i].value = v
                  /\ \A j \in 1..k : j > i => d[j].flag # s

Gathering(known, q, f, c) ==
  \E k \in Nat : /\ Suffix(q, k, Defs(c))
                 /\ \A s \in DOMAIN f : s \in known /\ LastOf(Defs(c), k, s, f[s])

FlagsInv ==
  /\ wrapper \in [config : AnyConfig, flag_config : FlagsConfigs]
  /\ loader = "flags" \/ Publishing => Gathering(flags, todo, found, loading)
  /\ Publishing => todo = <<>>
  /\ \A r \in Reader :
       /\ mine[r] => Gathering(flags, pending[r], collected[r], wrapper.config)
       /\ point[r] # "idle" => asked[r].service \in Service
  /\ Gathering(flags, <<>>, wrapper.flag_config, wrapper.config)

(***************************************************************************)
(* The routes: while they are entered, those of the environment come after *)
(* the others, and a service has the servicer that was entered last for it *)
(* among those that serve it, none if none was.                            *)
(***************************************************************************)
EnvOf(s) == {n \in DOMAIN EnvConfig.serves : s \in EnvConfig.serves[n]}

EnteredInv ==
  LET entered == Routes(loading) \ left IN
  /\ left \subseteq Routes(loading)
  /\ \A e \in left, d \in entered : d[1] <= e[1]
  /\ \A s \in Service :
       LET n == service_servicer[s] IN
       /\ n = None => \A e \in entered : s \notin Serves(loading, e[2])
       /\ n # None => \E e \in entered : e[2] = n /\ s \in Serves(loading, n)
       /\ (\E e \in entered : e[1] = 2 /\ s \in Serves(loading, e[2])) => n \in EnvOf(s)

RoutesOf(c) == \A s \in Service : service_servicer[s] \in Routed(c, s)

RouteInv ==
  /\ loader = "servicers" => \A s \in Service : service_servicer[s] = None
  /\ loader = "route" => servicers = loading /\ EnteredInv
  /\ loader = "register" => servicers = loading /\ RoutesOf(loading)
  /\ ~Publishing => servicers = wrapper.config /\ RoutesOf(wrapper.config)

(***************************************************************************)
(* The lookups: what a lookup has found, and that no config is being       *)
(* published as long as it is undisturbed.                                 *)
(***************************************************************************)
Choice(r) ==
  LET n == answer[r].name
      s == asked[r].service
      l == asked[r].label
  IN \/ n \in LastValue(wrapper.config, s) \ {None}
     \/ /\ PassedOver(r)
        /\ \/ l # None /\ n = l
           \/ l = None /\ n \in Routed(wrapper.config, s) \ {None}

LookupOf(r) ==
  /\ undisturbed[r] => ~Publishing
  /\ point[r] \notin {"config", "done"} => answer[r] = NoAnswer
  /\ point[r] = "route" => asked[r].label = None
  /\ point[r] = "route" /\ undisturbed[r] => PassedOver(r)
  /\ point[r] = "config" /\ undisturbed[r] => Choice(r)

LookupInv == \A r \in Reader : LookupOf(r)

(***************************************************************************)
(* A thread that is alone with its flag: if it was registered before it is *)
(* in effect, and if it is not it will be once the thread has set it.      *)
(***************************************************************************)
Gathered(s, q, f, c) ==
  \E k \in Nat : /\ Suffix(q, k, Defs(c))
                 /\ \A i \in 1..k : Defs(c)[i].flag = s => s \in DOMAIN f

InEffect(s) == s \in DOMAIN wrapper.flag_config \/ LastValue(wrapper.config, s) = {}

AloneWith(r, s) ==
  /\ point[r] = "check" => s \notin flags \/ InEffect(s)
  /\ point[r] \in {"define", "enter"} => s \notin flags
  /\ point[r] \in {"hold", "apply"} => s \in flags
  /\ point[r] = "apply" =>
        mine[r] /\ Gathered(s, pending[r], collected[r], wrapper.config)
  /\ point[r] = "evaluate" => InEffect(s) \/ Spoilt(wrapper.config)
  /\ \A q \in Reader \ {r} : ~Registering(q)

AloneInv ==
  \A r \in Reader : /\ alone[r] => point[r] # "idle"
                    /\ undisturbed[r] /\ alone[r] => AloneWith(r, asked[r].service)

ConfigInv == /\ TypeOK /\ FlagsInv /\ RouteInv /\ LookupInv /\ AloneInv
             /\ QuietLookupsExact

LEMMA DefsType == ASSUME NEW c \in AnyConfig PROVE Defs(c) \in Seq(FlagDef)
<1>1. c.flags \in Seq(FlagDef) /\ EnvConfig.flags \in Seq(FlagDef)
  BY ConfigAssumption DEF AnyConfig
<1> QED
  BY <1>1 DEF Defs

LEMMA RoutesType ==
  ASSUME NEW c \in AnyConfig
  PROVE  Routes(c) \subseteq {1, 2} \X Servicer
  BY ConfigAssumption DEF AnyConfig, Routes

LEMMA NoFlagsType == NoFlags \in FlagsConfigs /\ DOMAIN NoFlags = {}
<1>1. NoFlags \in [{} -> Servicer \cup {None}] /\ DOMAIN NoFlags = {}
  BY DEF NoFlags
<1> QED
  BY <1>1 DEF FlagsConfigs

LEMMA FlagsConfigsType ==
  ASSUME NEW f \in FlagsConfigs
  PROVE  /\ DOMAIN f \subseteq Service /\ f \in [DOMAIN f -> Servicer \cup {None}]
         /\ \A s \in DOMAIN f : f[s] \in Servicer \cup {None}
  BY DEF FlagsConfigs

LEMMA CollectType ==
  ASSUME NEW f \in FlagsConfigs, NEW d \in FlagDef
  PROVE  Collect(f, d) \in FlagsConfigs
<1>1. d.flag \in Service /\ d.value \in Servicer \cup {None}
  BY DEF FlagDef
<1>2. DOMAIN f \cup {d.flag} \subseteq Service
  BY <1>1, FlagsConfigsType
<1>3. With(f, d) \in [DOMAIN f \cup {d.flag} -> Servicer \cup {None}]
  BY <1>1, FlagsConfigsType DEF With
<1>4. With(f, d) \in FlagsConfigs
  BY <1>2, <1>3 DEF FlagsConfigs
<1> QED
  BY <1>4 DEF Collect

(* A config that nothing has been looked up of. *)
LEMMA GatherNone ==
  ASSUME NEW known, NEW c \in AnyConfig
  PROVE  Gathering(known, Defs(c), NoFlags, c)
<1>1. Suffix(Defs(c), 0, Defs(c))
  BY DefsType DEF Suffix
<1> QED
  BY <1>1, NoFlagsType DEF Gathering

(* One more definition is looked up. *)
LEMMA GatherOne ==
  ASSUME NEW c \in AnyConfig, NEW q \in Seq(FlagDef), NEW f, q # <<>>, ~Raises(Head(q)),
         Gathering(flags, q, f, c)
  PROVE  Gathering(flags, Tail(q), Collect(f, Head(q)), c)
<1> DEFINE D == Defs(c)
           d == Head(q)
           g == Collect(f, d)
<1>1. PICK k \in Nat : /\ Suffix(q, k, D)
                       /\ \A s \in DOMAIN f : s \in flags /\ LastOf(D, k, s, f[s])
  BY DEF Gathering
<1>2. D \in Seq(FlagDef)
  BY DefsType
<1> HIDE DEF D
<1>3. Len(q) \in Nat \ {0} /\ Len(Tail(q)) = Len(q) - 1 /\ d = q[1]
      /\ \A i \in 1..Len(Tail(q)) : Tail(q)[i] = q[i + 1]
  OBVIOUS
<1>4. k + 1 \in 0..Len(D) /\ d = D[k + 1]
  BY <1>1, <1>2, <1>3 DEF Suffix
<1>5. Suffix(Tail(q), k + 1, D)
  BY <1>1, <1>2, <1>3, <1>4 DEF Suffix
<1>6. ASSUME NEW s \in DOMAIN g PROVE s \in flags /\ LastOf(D, k + 1, s, g[s])
  <2>1. CASE Skips(d)
    <3>1. g = f
      BY <2>1 DEF Collect
    <3>2. s \in flags /\ LastOf(D, k, s, f[s]) /\ D[k + 1].flag # s
      BY <1>1, <1>4, <1>6, <2>1, <3>1 DEF Skips
    <3> QED
      BY <3>1, <3>2 DEF LastOf
  <2>2. CASE ~Skips(d) /\ s = d.flag
    <3>1. g[s] = d.value /\ s \in flags /\ d.type = "STRING"
      BY <1>6, <2>2 DEF Collect, With, Skips, Raises
    <3> QED
      BY <1>4, <2>2, <3>1 DEF LastOf
  <2>3. CASE ~Skips(d) /\ s # d.flag
    <3>1. s \in DOMAIN f /\ g[s] = f[s]
      BY <1>6, <2>3 DEF Collect, With
    <3>2. s \in flags /\ LastOf(D, k, s, f[s]) /\ D[k + 1].flag # s
      BY <1>1, <1>4, <2>3, <3>1
    <3> QED
      BY <3>1, <3>2 DEF LastOf
  <2> QED
    BY <2>1, <2>2, <2>3
<1> QED
  BY <1>5, <1>6 DEF Gathering, D

(* A flag that is registered meanwhile does no harm. *)
LEMMA GatherMore ==
  ASSUME NEW known, NEW more, known \subseteq more, NEW q, NEW f, NEW c,
         Gathering(known, q, f, c)
  PROVE  Gathering(more, q, f, c)
  BY DEF Gathering

(* What is set when all definitions were looked up. *)
LEMMA GatherAll ==
  ASSUME NEW known, NEW f, NEW c \in AnyConfig, Gathering(known, <<>>, f, c)
  PROVE  \A s \in DOMAIN f : s \in known /\ f[s] \in LastValue(c, s)
<1>1. PICK k \in Nat : /\ Suffix(<<>>, k, Defs(c))
                       /\ \A s \in DOMAIN f : s \in known /\ LastOf(Defs(c), k, s, f[s])
  BY DEF Gathering
<1>2. k = Len(Defs(c)) /\ DOMAIN Defs(c) = 1..k
  BY <1>1, DefsType DEF Suffix
<1> QED
  BY <1>1, <1>2 DEF LastOf, LastValue

(* A flag that was registered all the time is set if the config defines it.   *)
LEMMA GatheredAll ==
  ASSUME NEW s, NEW f, NEW c \in AnyConfig, Gathered(s, <<>>, f, c)
  PROVE  s \in DOMAIN f \/ LastValue(c, s) = {}
<1>1. PICK k \in Nat : /\ Suffix(<<>>, k, Defs(c))
                       /\ \A i \in 1..k : Defs(c)[i].flag = s => s \in DOMAIN f
  BY DEF Gathered
<1>2. DOMAIN Defs(c) = 1..k
  BY <1>1, DefsType DEF Suffix
<1> QED
  BY <1>1, <1>2 DEF LastValue

LEMMA GatheredOne ==
  ASSUME NEW s \in flags, NEW c \in AnyConfig, NEW q \in Seq(FlagDef), NEW f, q # <<>>,
         Gathered(s, q, f, c)
  PROVE  Gathered(s, Tail(q), Collect(f, Head(q)), c)
<1> DEFINE D == Defs(c)
           g == Collect(f, Head(q))
<1>1. PICK k \in Nat : /\ Suffix(q, k, D)
                       /\ \A i \in 1..k : D[i].flag = s => s \in DOMAIN f
  BY DEF Gathered
<1>2. D \in Seq(FlagDef)
  BY DefsType
<1>3. DOMAIN f \subseteq DOMAIN g /\ (Head(q).flag = s => s \in DOMAIN g)
  BY DEF Collect, Skips, With
<1> HIDE DEF D, g
<1>4. Len(q) \in Nat \ {0} /\ Len(Tail(q)) = Len(q) - 1 /\ Head(q) = q[1]
      /\ \A i \in 1..Len(Tail(q)) : Tail(q)[i] = q[i + 1]
  OBVIOUS
<1>5. Head(q) = D[k + 1] /\ Suffix(Tail(q), k + 1, D)
  BY <1>1, <1>2, <1>4 DEF Suffix
<1>6. \A i \in 1..(k + 1) : D[i].flag = s => s \in DOMAIN g
  BY <1>1, <1>3, <1>5
<1> QED
  BY <1>5, <1>6 DEF Gathered, D, g

LEMMA GatheredNone == ASSUME NEW s, NEW c \in AnyConfig PROVE Gathered(s, Defs(c), NoFlags, c)
<1>1. Suffix(Defs(c), 0, Defs(c))
  BY DefsType DEF Suffix
<1> QED
  BY <1>1 DEF Gathered

(* The last definition of a flag gives it one value.                          *)
LEMMA OneValue ==
  ASSUME NEW c \in AnyConfig, NEW s, NEW v \in LastValue(c, s), NEW w \in LastValue(c, s)
  PROVE  v = w
<1>1. DOMAIN Defs(c) = 1..Len(Defs(c)) /\ Len(Defs(c)) \in Nat
  BY DefsType
<1>2. PICK i \in DOMAIN Defs(c) :
        /\ Defs(c)[i].value = v /\ Defs(c)[i].flag = s
        /\ \A k \in DOMAIN Defs(c) : k > i => Defs(c)[k].flag # s
  BY DEF LastValue
<1>3. PICK j \in DOMAIN Defs(c) :
        /\ Defs(c)[j].value = w /\ Defs(c)[j].flag = s
        /\ \A k \in DOMAIN Defs(c) : k > j => Defs(c)[k].flag # s
  BY DEF LastValue
<1>4. ~(i > j) /\ ~(j > i)
  BY <1>2, <1>3
<1> QED
  BY <1>1, <1>2, <1>3, <1>4

(* The servicer that a lookup finds the flag, the label or the route to name. *)
LEMMA ValueType == ASSUME TypeOK, NEW s PROVE Value(s) \in Servicer \cup {None}
<1>1. wrapper.flag_config \in FlagsConfigs
  BY DEF TypeOK
<1> QED
  BY <1>1, FlagsConfigsType DEF Value

LEMMA EntryType ==
  ASSUME NEW c \in AnyConfig, NEW n
  PROVE  Entry(c, n) \in AnyConfig \cup {None}
  BY DEF Entry, AnyConfig

(* Every step keeps the types. *)
LEMMA NextTypeOK == TypeOK /\ FlagsInv /\ [Next]_vars => TypeOK'
<1> SUFFICES ASSUME TypeOK, FlagsInv, [Next]_vars PROVE TypeOK'
  OBVIOUS
<1> USE ConfigAssumption
<1>1. ASSUME NEW c \in Config, Deploy(c) PROVE TypeOK'
  BY <1>1 DEF Deploy, configVars, loaderVars, readerVars, TypeOK, LoaderPoint,
    Phase, ReaderPoint
<1>2. CASE InitAgain
  BY <1>2 DEF InitAgain, configVars, loaderVars, readerVars, TypeOK,
    LoaderPoint, Phase, ReaderPoint
<1>3. CASE Fetch
  <2>1. Defs(cluster) \in Seq(FlagDef) /\ cluster \in AnyConfig
    BY DefsType DEF TypeOK, AnyConfig
  <2> QED
    BY <1>3, <2>1, NoFlagsType DEF Fetch, configVars, readerVars, TypeOK,
      LoaderPoint
<1>4. CASE FetchFails
  BY <1>4, NoFlagsType DEF FetchFails, LoadFails, LoadOver, Dropped,
    configVars, readerVars, TypeOK, LoaderPoint, Phase, AnyConfig
<1>5. CASE CollectFlag
  <2>1. Head(todo) \in FlagDef /\ Tail(todo) \in Seq(FlagDef)
    BY <1>5 DEF CollectFlag, TypeOK
  <2>2. Collect(found, Head(todo)) \in FlagsConfigs
    BY <2>1, CollectType DEF TypeOK
  <2> QED
    BY <1>5, <2>1, <2>2 DEF CollectFlag, configVars, readerVars, TypeOK
<1>6. CASE FlagMismatch
  BY <1>6, NoFlagsType DEF FlagMismatch, LoadFails, LoadOver, Dropped,
    configVars, readerVars, TypeOK, LoaderPoint, Phase, AnyConfig
<1>7. CASE FlagsCollected
  BY <1>7 DEF FlagsCollected, configVars, loaderVars, readerVars, TypeOK,
    LoaderPoint, Phase, ReaderPoint
<1>8. CASE ClearRoutes
  BY <1>8 DEF ClearRoutes, configVars, loaderVars, readerVars, TypeOK,
    LoaderPoint, Phase, ReaderPoint
<1>9. CASE ReplaceServicers
  BY <1>9, RoutesType DEF ReplaceServicers, readerVars, TypeOK, LoaderPoint
<1>10. CASE RoutesEntered
  BY <1>10 DEF RoutesEntered, configVars, loaderVars, readerVars, TypeOK,
    LoaderPoint, Phase, ReaderPoint
<1>11. CASE RegisterWrapper
  BY <1>11 DEF RegisterWrapper, configVars, loaderVars, readerVars, TypeOK,
    LoaderPoint, Phase, ReaderPoint
<1>12. CASE Stamp
  <2>1. loader' \in LoaderPoint /\ phase' \in Phase /\ Dropped
    BY <1>12 DEF Stamp, LoadFails, LoadOver, TypeOK, LoaderPoint, Phase
  <2> QED
    BY <1>12, <2>1, NoFlagsType DEF Stamp, Dropped, configVars, readerVars,
      TypeOK, AnyConfig
<1>13. CASE Pace
  BY <1>13 DEF Pace, configVars, loaderVars, readerVars, TypeOK, LoaderPoint,
    Phase, ReaderPoint
<1>14. ASSUME NEW e \in {1, 2} \X Servicer, EnterRoutes(e) PROVE TypeOK'
  BY <1>14 DEF EnterRoutes, configVars, loaderVars, readerVars, TypeOK,
    LoaderPoint, Phase, ReaderPoint
<1>15. ASSUME NEW r \in Reader, CheckFlag(r) PROVE TypeOK'
  BY <1>15 DEF CheckFlag, At, configVars, loaderVars, readerVars, TypeOK,
    LoaderPoint, Phase, ReaderPoint
<1>16. ASSUME NEW r \in Reader, DefineFlag(r) PROVE TypeOK'
  BY <1>16 DEF DefineFlag, At, configVars, loaderVars, readerVars, TypeOK,
    LoaderPoint, Phase, ReaderPoint
<1>17. ASSUME NEW r \in Reader, EnterFlag(r) PROVE TypeOK'
  BY <1>17 DEF EnterFlag, At, loaderVars, TypeOK, ReaderPoint, FlagsInv
<1>18. ASSUME NEW r \in Reader, HoldWrapper(r) PROVE TypeOK'
  BY <1>18, DefsType, NoFlagsType DEF HoldWrapper, At, configVars, loaderVars,
    TypeOK, ReaderPoint
<1>19. ASSUME NEW r \in Reader, ReapplyFlag(r) PROVE TypeOK'
  <2> DEFINE d == Head(pending[r])
  <2>1. d \in FlagDef /\ Tail(pending[r]) \in Seq(FlagDef)
    BY <1>19 DEF ReapplyFlag, TypeOK
  <2>2. Collect(collected[r], d) \in FlagsConfigs
    BY <2>1, CollectType DEF TypeOK
  <2> HIDE DEF d
  <2>3. collected' = [collected EXCEPT ![r] = Collect(collected[r], d)]
    BY <1>19 DEF ReapplyFlag, d
  <2>4. collected' \in [Reader -> FlagsConfigs] /\ pending' \in [Reader -> Seq(FlagDef)]
    BY <1>19, <2>1, <2>2, <2>3 DEF ReapplyFlag, TypeOK
  <2> QED
    BY <1>19, <2>4 DEF ReapplyFlag, configVars, loaderVars, TypeOK
<1>20. ASSUME NEW r \in Reader, FlagsReapplied(r) PROVE TypeOK'
  <2>1. wrapper'.config \in AnyConfig /\ wrapper'.flag_config \in FlagsConfigs
    BY <1>20 DEF FlagsReapplied, FlagsInv, TypeOK
  <2> QED
    BY <1>20, <2>1, NoFlagsType DEF FlagsReapplied, At, loaderVars, TypeOK,
      ReaderPoint
<1>21. ASSUME NEW r \in Reader, EvaluateFlag(r) PROVE TypeOK'
  <2> DEFINE Answers == [Reader -> [name : Servicer \cup {None}, config : AnyConfig \cup {None}]]
  <2>1. Value(asked[r].service) \in Servicer \cup {None} /\ asked[r].label \in Servicer \cup {None}
    BY ValueType DEF TypeOK
  <2>2. ASSUME NEW n \in Servicer \cup {None}, Named(r, n) PROVE answer' \in Answers
    <3>1. answer[r] \in [name : Servicer \cup {None}, config : AnyConfig \cup {None}]
      BY DEF TypeOK
    <3>2. [answer[r] EXCEPT !.name = n] \in [name : Servicer \cup {None}, config : AnyConfig \cup {None}]
      BY <3>1
    <3> QED
      BY <2>2, <3>2 DEF Named, TypeOK
  <2>3. answer' \in Answers
    BY <1>21, <2>1, <2>2 DEF EvaluateFlag, TypeOK
  <2> QED
    BY <1>21, <2>3 DEF EvaluateFlag, At, configVars, loaderVars, TypeOK,
      ReaderPoint
<1>22. ASSUME NEW r \in Reader, FindRoute(r) PROVE TypeOK'
  <2>1. asked[r].service \in Service
    BY <1>22 DEF FindRoute, At, FlagsInv
  <2> QED
    BY <1>22, <2>1 DEF FindRoute, At, Named, configVars, loaderVars, TypeOK,
      ReaderPoint
<1>23. ASSUME NEW r \in Reader, FindConfig(r) PROVE TypeOK'
  <2>1. Entry(servicers, answer[r].name) \in AnyConfig \cup {None}
    BY EntryType DEF TypeOK
  <2> QED
    BY <1>23, <2>1 DEF FindConfig, At, NoAnswer, configVars, loaderVars,
      TypeOK, ReaderPoint
<1>24. ASSUME NEW r \in Reader, Leave(r) PROVE TypeOK'
  BY <1>24 DEF Leave, At, NoAnswer, configVars, loaderVars, TypeOK, ReaderPoint
<1>25. ASSUME NEW r \in Reader, NEW s \in Service, NEW l \in Label, Ask(r, s, l)
       PROVE  TypeOK'
  BY <1>25 DEF Ask, At, configVars, loaderVars, readerVars, TypeOK,
    LoaderPoint, Phase, ReaderPoint
<1>26. CASE UNCHANGED vars
  BY <1>26 DEF vars, configVars, loaderVars, readerVars, TypeOK, LoaderPoint,
    Phase, ReaderPoint
<1> QED
  BY <1>1, <1>2, <1>3, <1>4, <1>5, <1>6, <1>7, <1>8, <1>9, <1>10, <1>11, <1>12,
    <1>13, <1>14, <1>15, <1>16, <1>17, <1>18, <1>19, <1>20, <1>21, <1>22,
    <1>23, <1>24, <1>25, <1>26 DEF Next, Loader, Lookup

(* Every step keeps what is known of the flags. *)
LEMMA NextFlagsInv == TypeOK /\ FlagsInv /\ [Next]_vars => FlagsInv'
<1> SUFFICES ASSUME TypeOK, FlagsInv, [Next]_vars PROVE FlagsInv'
  OBVIOUS
<1> USE ConfigAssumption
<1>1. ASSUME NEW c \in Config, Deploy(c) PROVE FlagsInv'
  BY <1>1 DEF Deploy, configVars, loaderVars, readerVars, TypeOK, FlagsInv,
    Publishing
<1>2. CASE InitAgain
  BY <1>2 DEF InitAgain, configVars, loaderVars, readerVars, TypeOK, FlagsInv,
    Publishing
<1>3. CASE Fetch
  <2>1. Gathering(flags, Defs(cluster), NoFlags, cluster)
    BY GatherNone DEF TypeOK, AnyConfig
  <2> QED
    BY <1>3, <2>1 DEF Fetch, configVars, readerVars, FlagsInv, Publishing
<1>4. CASE FetchFails
  BY <1>4 DEF FetchFails, LoadFails, LoadOver, Dropped, configVars, loaderVars,
    readerVars, TypeOK, FlagsInv, Publishing
<1>5. CASE CollectFlag
  <2>1. Gathering(flags, Tail(todo), Collect(found, Head(todo)), loading)
    BY <1>5, GatherOne DEF CollectFlag, TypeOK, FlagsInv
  <2> QED
    BY <1>5, <2>1 DEF CollectFlag, configVars, readerVars, FlagsInv, Publishing
<1>6. CASE FlagMismatch
  BY <1>6 DEF FlagMismatch, LoadFails, LoadOver, Dropped, configVars,
    loaderVars, readerVars, TypeOK, FlagsInv, Publishing
<1>7. CASE FlagsCollected
  BY <1>7 DEF FlagsCollected, configVars, loaderVars, readerVars, TypeOK,
    FlagsInv, Publishing
<1>8. CASE ClearRoutes
  BY <1>8 DEF ClearRoutes, configVars, loaderVars, readerVars, TypeOK,
    FlagsInv, Publishing
<1>9. CASE ReplaceServicers
  BY <1>9 DEF ReplaceServicers, configVars, loaderVars, readerVars, TypeOK,
    FlagsInv, Publishing
<1>10. CASE RoutesEntered
  BY <1>10 DEF RoutesEntered, configVars, loaderVars, readerVars, TypeOK,
    FlagsInv, Publishing
<1>11. CASE RegisterWrapper
  <2>1. Gathering(flags, <<>>, found, loading)
    BY <1>11 DEF RegisterWrapper, FlagsInv, Publishing
  <2> QED
    BY <1>11, <2>1 DEF RegisterWrapper, TypeOK, FlagsInv, Publishing
<1>12. CASE Stamp
  BY <1>12 DEF Stamp, LoadFails, LoadOver, Dropped, configVars, loaderVars,
    readerVars, TypeOK, FlagsInv, Publishing
<1>13. CASE Pace
  BY <1>13 DEF Pace, configVars, loaderVars, readerVars, TypeOK, FlagsInv,
    Publishing
<1>14. ASSUME NEW e \in {1, 2} \X Servicer, EnterRoutes(e) PROVE FlagsInv'
  BY <1>14 DEF EnterRoutes, configVars, loaderVars, readerVars, TypeOK,
    FlagsInv, Publishing
<1>15. ASSUME NEW r \in Reader, CheckFlag(r) PROVE FlagsInv'
  BY <1>15 DEF CheckFlag, At, configVars, loaderVars, readerVars, TypeOK,
    FlagsInv, Publishing
<1>16. ASSUME NEW r \in Reader, DefineFlag(r) PROVE FlagsInv'
  BY <1>16 DEF DefineFlag, At, configVars, loaderVars, readerVars, TypeOK,
    FlagsInv, Publishing
<1>17. ASSUME NEW r \in Reader, EnterFlag(r) PROVE FlagsInv'
  <2>1. flags \subseteq flags'
    BY <1>17 DEF EnterFlag
  <2>2. \A q, f, c : Gathering(flags, q, f, c) => Gathering(flags', q, f, c)
    BY <2>1, GatherMore
  <2> QED
    BY <1>17, <2>2 DEF EnterFlag, At, loaderVars, TypeOK, FlagsInv, Publishing
<1>18. ASSUME NEW r \in Reader, HoldWrapper(r) PROVE FlagsInv'
  <2>1. Gathering(flags, Defs(wrapper.config), NoFlags, wrapper.config)
    BY GatherNone DEF TypeOK
  <2> QED
    BY <1>18, <2>1 DEF HoldWrapper, At, configVars, loaderVars, TypeOK,
      FlagsInv, Publishing
<1>19. ASSUME NEW r \in Reader, ReapplyFlag(r) PROVE FlagsInv'
  <2> DEFINE d == Head(pending[r])
  <2>1. mine[r] => Gathering(flags, Tail(pending[r]), Collect(collected[r], d), wrapper.config)
    BY <1>19, GatherOne DEF ReapplyFlag, TypeOK, FlagsInv
  <2> HIDE DEF d
  <2>2. collected' = [collected EXCEPT ![r] = Collect(collected[r], d)]
    BY <1>19 DEF ReapplyFlag, d
  <2> QED
    BY <1>19, <2>1, <2>2 DEF ReapplyFlag, configVars, loaderVars, TypeOK,
      FlagsInv, Publishing
<1>20. ASSUME NEW r \in Reader, FlagsReapplied(r) PROVE FlagsInv'
  <2>1. mine[r] /\ pending[r] = <<>> => Gathering(flags, <<>>, collected[r], wrapper.config)
    BY DEF FlagsInv
  <2>2. wrapper'.config = wrapper.config /\ Gathering(flags, <<>>, wrapper'.flag_config, wrapper.config)
        /\ wrapper' \in [config : AnyConfig, flag_config : FlagsConfigs]
    BY <1>20, <2>1 DEF FlagsReapplied, Owner, TypeOK, FlagsInv
  <2> QED
    BY <1>20, <2>2 DEF FlagsReapplied, At, loaderVars, TypeOK, FlagsInv,
      Publishing
<1>21. ASSUME NEW r \in Reader, EvaluateFlag(r) PROVE FlagsInv'
  BY <1>21 DEF EvaluateFlag, At, Named, configVars, loaderVars, readerVars,
    TypeOK, FlagsInv, Publishing
<1>22. ASSUME NEW r \in Reader, FindRoute(r) PROVE FlagsInv'
  BY <1>22 DEF FindRoute, At, Named, configVars, loaderVars, readerVars,
    TypeOK, FlagsInv, Publishing
<1>23. ASSUME NEW r \in Reader, FindConfig(r) PROVE FlagsInv'
  BY <1>23 DEF FindConfig, At, configVars, loaderVars, readerVars, TypeOK,
    FlagsInv, Publishing
<1>24. ASSUME NEW r \in Reader, Leave(r) PROVE FlagsInv'
  BY <1>24 DEF Leave, At, configVars, loaderVars, readerVars, TypeOK, FlagsInv,
    Publishing
<1>25. ASSUME NEW r \in Reader, NEW s \in Service, NEW l \in Label, Ask(r, s, l)
       PROVE  FlagsInv'
  BY <1>25 DEF Ask, At, configVars, loaderVars, readerVars, TypeOK, FlagsInv,
    Publishing
<1>26. CASE UNCHANGED vars
  BY <1>26 DEF vars, configVars, loaderVars, readerVars, TypeOK, FlagsInv,
    Publishing
<1> QED
  BY <1>1, <1>2, <1>3, <1>4, <1>5, <1>6, <1>7, <1>8, <1>9, <1>10, <1>11, <1>12,
    <1>13, <1>14, <1>15, <1>16, <1>17, <1>18, <1>19, <1>20, <1>21, <1>22,
    <1>23, <1>24, <1>25, <1>26 DEF Next, Loader, Lookup

LEMMA ServesIs ==
  ASSUME NEW c \in AnyConfig, NEW n
  PROVE  /\ n \in DOMAIN EnvConfig.serves => Serves(c, n) = EnvConfig.serves[n]
         /\ n \in DOMAIN c.serves \ DOMAIN EnvConfig.serves => Serves(c, n) = c.serves[n]
  BY DEF Serves, Entry

(* All services are entered. *)
LEMMA RoutesDone == ASSUME TypeOK, EnteredInv, left = {} PROVE RoutesOf(loading)
<1> SUFFICES ASSUME NEW s \in Service
             PROVE service_servicer[s] \in Routed(loading, s)
  BY DEF RoutesOf
<1> DEFINE n == service_servicer[s]
           own == {m \in DOMAIN loading.serves \ DOMAIN EnvConfig.serves : s \in loading.serves[m]}
<1>1. loading \in AnyConfig
  BY DEF TypeOK
<1>2. /\ n = None => \A e \in Routes(loading) : s \notin Serves(loading, e[2])
      /\ n # None => \E e \in Routes(loading) : e[2] = n /\ s \in Serves(loading, n)
      /\ (\E e \in Routes(loading) : e[1] = 2 /\ s \in Serves(loading, e[2])) => n \in EnvOf(s)
  BY DEF EnteredInv
<1>3. CASE EnvOf(s) # {}
  <2>1. PICK m \in DOMAIN EnvConfig.serves : s \in EnvConfig.serves[m]
    BY <1>3 DEF EnvOf
  <2>2. <<2, m>> \in Routes(loading) /\ s \in Serves(loading, m)
    BY <1>1, <2>1, ServesIs DEF Routes
  <2>3. n \in EnvOf(s)
    BY <1>2, <2>2
  <2> QED
    BY <1>3, <2>3 DEF Routed, EnvOf
<1>4. CASE EnvOf(s) = {} /\ n # None
  <2>1. PICK e \in Routes(loading) : e[2] = n /\ s \in Serves(loading, n)
    BY <1>2, <1>4
  <2>2. n \in DOMAIN loading.serves \cup DOMAIN EnvConfig.serves
    BY <2>1 DEF Routes
  <2>3. n \notin DOMAIN EnvConfig.serves
    BY <1>1, <1>4, <2>1, ServesIs DEF EnvOf
  <2>4. n \in own
    BY <1>1, <2>1, <2>2, <2>3, ServesIs
  <2> QED
    BY <1>4, <2>4 DEF Routed, EnvOf
<1>5. CASE EnvOf(s) = {} /\ n = None
  <2>1. ASSUME NEW m \in own PROVE FALSE
    <3>1. <<1, m>> \in Routes(loading) /\ s \in Serves(loading, m)
      BY <1>1, <2>1, ServesIs DEF Routes
    <3> QED
      BY <1>2, <1>5, <3>1
  <2> QED
    BY <1>5, <2>1 DEF Routed, EnvOf
<1> QED
  BY <1>3, <1>4, <1>5

(* The services of one more servicer are entered. *)
LEMMA EnterOne ==
  ASSUME TypeOK, EnteredInv, NEW e \in {1, 2} \X Servicer, EnterRoutes(e)
  PROVE  EnteredInv'
<1> USE ConfigAssumption
<1> DEFINE entered == Routes(loading) \ left
<1>1. /\ e \in left /\ e \in Routes(loading) /\ \A d \in left : e[1] <= d[1]
      /\ left' = left \ {e} /\ loading' = loading
      /\ service_servicer' = [s \in Service |->
           IF s \in Serves(loading, e[2]) THEN e[2] ELSE service_servicer[s]]
  BY DEF EnterRoutes, Entering, EnteredInv
<1>2. (Routes(loading) \ left)' = entered \cup {e}
  BY <1>1 DEF Routes
<1>3. loading \in AnyConfig /\ e[2] \in Servicer /\ e[2] # None /\ e[1] \in {1, 2}
  BY DEF TypeOK
<1>4. \A d1 \in left, d2 \in entered : d2[1] <= d1[1]
  BY DEF EnteredInv
<1>5. \A s : (Serves(loading, s))' = Serves(loading, s)
  BY <1>1 DEF Serves, Entry
<1>6. ASSUME NEW s \in Service
      PROVE  LET n == service_servicer'[s] IN
             /\ n = None => \A d \in entered \cup {e} : s \notin Serves(loading, d[2])
             /\ n # None => \E d \in entered \cup {e} : d[2] = n /\ s \in Serves(loading, n)
             /\ (\E d \in entered \cup {e} : d[1] = 2 /\ s \in Serves(loading, d[2])) => n \in EnvOf(s)
  <2>1. CASE s \notin Serves(loading, e[2])
    <3>1. service_servicer'[s] = service_servicer[s]
      BY <1>1, <2>1
    <3> QED
      BY <2>1, <3>1 DEF EnteredInv
  <2>2. CASE s \in Serves(loading, e[2])
    <3>1. service_servicer'[s] = e[2]
      BY <1>1, <2>2
    <3>2. ASSUME e[1] = 2 PROVE e[2] \in EnvOf(s)
      <4>1. e[2] \in DOMAIN EnvConfig.serves
        BY <1>1, <3>2 DEF Routes
      <4> QED
        BY <1>3, <2>2, <4>1, ServesIs DEF EnvOf
    <3>3. ASSUME NEW d \in entered, d[1] = 2 PROVE e[1] = 2
      BY <1>1, <1>3, <1>4, <3>3
    <3> QED
      BY <1>3, <2>2, <3>1, <3>2, <3>3
  <2> QED
    BY <2>1, <2>2
<1>7. left' \subseteq (Routes(loading))' /\ (Routes(loading))' = Routes(loading)
  BY <1>1 DEF EnteredInv, Routes
<1>8. \A d1 \in left', d2 \in entered \cup {e} : d2[1] <= d1[1]
  BY <1>1, <1>4
<1> QED
  BY <1>1, <1>2, <1>5, <1>6, <1>7, <1>8 DEF EnteredInv

(* No service is entered yet. *)
LEMMA EnterNone ==
  ASSUME left = Routes(loading), \A s \in Service : service_servicer[s] = None
  PROVE  EnteredInv
  BY DEF EnteredInv

LEMMA RoutesStay ==
  ASSUME UNCHANGED <<service_servicer, loading, left>>
  PROVE  /\ EnteredInv => EnteredInv'
         /\ \A c : RoutesOf(c) => RoutesOf(c)'
<1>1. EnteredInv => EnteredInv'
  BY DEF EnteredInv, Routes, Serves, Entry
<1> QED
  BY <1>1 DEF RoutesOf

(* Every step keeps what is known of the routes. *)
LEMMA NextRouteInv == TypeOK /\ FlagsInv /\ RouteInv /\ [Next]_vars => RouteInv'
<1> SUFFICES ASSUME TypeOK, FlagsInv, RouteInv, [Next]_vars PROVE RouteInv'
  OBVIOUS
<1> USE ConfigAssumption
<1>1. ASSUME NEW c \in Config, Deploy(c) PROVE RouteInv'
  <2>1. UNCHANGED <<service_servicer, loading, left, servicers, loader>>
        /\ wrapper'.config = wrapper.config
    BY <1>1 DEF Deploy, configVars, loaderVars, readerVars
  <2> QED
    BY <2>1, RoutesStay DEF RouteInv, Publishing
<1>2. CASE InitAgain
  <2>1. /\ ~Publishing /\ ~Publishing'
        /\ UNCHANGED <<service_servicer, servicers, wrapper>>
    BY <1>2 DEF InitAgain, configVars, loaderVars, readerVars, Publishing
  <2>2. RoutesOf(wrapper.config)'
    BY <2>1 DEF RouteInv, RoutesOf
  <2> QED
    BY <2>1, <2>2 DEF RouteInv, Publishing
<1>3. CASE Fetch
  <2>1. /\ ~Publishing /\ ~Publishing'
        /\ UNCHANGED <<service_servicer, servicers, wrapper>>
    BY <1>3 DEF Fetch, configVars, loaderVars, readerVars, Publishing
  <2>2. RoutesOf(wrapper.config)'
    BY <2>1 DEF RouteInv, RoutesOf
  <2> QED
    BY <2>1, <2>2 DEF RouteInv, Publishing
<1>4. CASE FetchFails
  <2>1. /\ ~Publishing /\ ~Publishing'
        /\ UNCHANGED <<service_servicer, servicers, wrapper>>
    BY <1>4 DEF FetchFails, LoadFails, LoadOver, configVars, loaderVars,
      readerVars, Publishing
  <2>2. RoutesOf(wrapper.config)'
    BY <2>1 DEF RouteInv, RoutesOf
  <2> QED
    BY <2>1, <2>2 DEF RouteInv, Publishing
<1>5. CASE CollectFlag
  <2>1. /\ ~Publishing /\ ~Publishing'
        /\ UNCHANGED <<service_servicer, servicers, wrapper>>
    BY <1>5 DEF CollectFlag, configVars, loaderVars, readerVars, Publishing
  <2>2. RoutesOf(wrapper.config)'
    BY <2>1 DEF RouteInv, RoutesOf
  <2> QED
    BY <2>1, <2>2 DEF RouteInv, Publishing
<1>6. CASE FlagMismatch
  <2>1. /\ ~Publishing /\ ~Publishing'
        /\ UNCHANGED <<service_servicer, servicers, wrapper>>
    BY <1>6 DEF FlagMismatch, LoadFails, LoadOver, configVars, loaderVars,
      readerVars, Publishing
  <2>2. RoutesOf(wrapper.config)'
    BY <2>1 DEF RouteInv, RoutesOf
  <2> QED
    BY <2>1, <2>2 DEF RouteInv, Publishing
<1>7. CASE FlagsCollected
  BY <1>7 DEF FlagsCollected, RouteInv, Publishing
<1>8. CASE ClearRoutes
  BY <1>8 DEF ClearRoutes, RouteInv, Publishing
<1>9. CASE ReplaceServicers
  <2>1. left' = Routes(loading)' /\ \A s \in Service : service_servicer'[s] = None
    BY <1>9 DEF ReplaceServicers, Routes, RouteInv
  <2>2. EnteredInv'
    BY <2>1 DEF EnteredInv
  <2> QED
    BY <1>9, <2>2 DEF ReplaceServicers, RouteInv, Publishing
<1>10. CASE RoutesEntered
  <2>1. RoutesOf(loading)
    BY <1>10, RoutesDone DEF RoutesEntered, RouteInv
  <2>2. RoutesOf(loading)'
    BY <1>10, <2>1 DEF RoutesEntered, configVars, RoutesOf
  <2> QED
    BY <1>10, <2>2 DEF RoutesEntered, configVars, RouteInv, Publishing
<1>11. CASE RegisterWrapper
  <2>1. RoutesOf(loading) /\ servicers = loading
    BY <1>11 DEF RegisterWrapper, RouteInv
  <2>2. /\ wrapper'.config = loading /\ UNCHANGED service_servicer
        /\ \A s \in Service : service_servicer[s] \in Routed(loading, s)
    BY <1>11, <2>1 DEF RegisterWrapper, RoutesOf
  <2> QED
    BY <1>11, <2>1, <2>2 DEF RegisterWrapper, RouteInv, RoutesOf, Publishing
<1>12. CASE Stamp
  <2>1. /\ ~Publishing /\ ~Publishing'
        /\ UNCHANGED <<service_servicer, servicers, wrapper>>
    BY <1>12 DEF Stamp, LoadFails, LoadOver, configVars, loaderVars,
      readerVars, Publishing
  <2>2. RoutesOf(wrapper.config)'
    BY <2>1 DEF RouteInv, RoutesOf
  <2> QED
    BY <2>1, <2>2 DEF RouteInv, Publishing
<1>13. CASE Pace
  <2>1. /\ ~Publishing /\ ~Publishing'
        /\ UNCHANGED <<service_servicer, servicers, wrapper>>
    BY <1>13 DEF Pace, configVars, loaderVars, readerVars, Publishing
  <2>2. RoutesOf(wrapper.config)'
    BY <2>1 DEF RouteInv, RoutesOf
  <2> QED
    BY <2>1, <2>2 DEF RouteInv, Publishing
<1>14. ASSUME NEW e \in {1, 2} \X Servicer, EnterRoutes(e) PROVE RouteInv'
  <2>1. EnteredInv'
    BY <1>14, EnterOne DEF EnterRoutes, RouteInv
  <2> QED
    BY <1>14, <2>1 DEF EnterRoutes, RouteInv, Publishing
<1>15. ASSUME NEW r \in Reader, CheckFlag(r) PROVE RouteInv'
  <2>1. UNCHANGED <<service_servicer, loading, left, servicers, loader>>
        /\ wrapper'.config = wrapper.config
    BY <1>15 DEF CheckFlag, configVars, loaderVars, readerVars
  <2> QED
    BY <2>1, RoutesStay DEF RouteInv, Publishing
<1>16. ASSUME NEW r \in Reader, DefineFlag(r) PROVE RouteInv'
  <2>1. UNCHANGED <<service_servicer, loading, left, servicers, loader>>
        /\ wrapper'.config = wrapper.config
    BY <1>16 DEF DefineFlag, configVars, loaderVars, readerVars
  <2> QED
    BY <2>1, RoutesStay DEF RouteInv, Publishing
<1>17. ASSUME NEW r \in Reader, EnterFlag(r) PROVE RouteInv'
  <2>1. UNCHANGED <<service_servicer, loading, left, servicers, loader>>
        /\ wrapper'.config = wrapper.config
    BY <1>17 DEF EnterFlag, configVars, loaderVars, readerVars
  <2> QED
    BY <2>1, RoutesStay DEF RouteInv, Publishing
<1>18. ASSUME NEW r \in Reader, HoldWrapper(r) PROVE RouteInv'
  <2>1. UNCHANGED <<service_servicer, loading, left, servicers, loader>>
        /\ wrapper'.config = wrapper.config
    BY <1>18 DEF HoldWrapper, configVars, loaderVars, readerVars
  <2> QED
    BY <2>1, RoutesStay DEF RouteInv, Publishing
<1>19. ASSUME NEW r \in Reader, ReapplyFlag(r) PROVE RouteInv'
  <2>1. UNCHANGED <<service_servicer, loading, left, servicers, loader>>
        /\ wrapper'.config = wrapper.config
    BY <1>19 DEF ReapplyFlag, configVars, loaderVars, readerVars
  <2> QED
    BY <2>1, RoutesStay DEF RouteInv, Publishing
<1>20. ASSUME NEW r \in Reader, FlagsReapplied(r) PROVE RouteInv'
  <2>1. UNCHANGED <<service_servicer, loading, left, servicers, loader>>
        /\ wrapper'.config = wrapper.config
    BY <1>20 DEF FlagsReapplied, configVars, loaderVars, readerVars, TypeOK,
      FlagsInv
  <2> QED
    BY <2>1, RoutesStay DEF RouteInv, Publishing
<1>21. ASSUME NEW r \in Reader, EvaluateFlag(r) PROVE RouteInv'
  <2>1. UNCHANGED <<service_servicer, loading, left, servicers, loader>>
        /\ wrapper'.config = wrapper.config
    BY <1>21 DEF EvaluateFlag, configVars, loaderVars, readerVars
  <2> QED
    BY <2>1, RoutesStay DEF RouteInv, Publishing
<1>22. ASSUME NEW r \in Reader, FindRoute(r) PROVE RouteInv'
  <2>1. UNCHANGED <<service_servicer, loading, left, servicers, loader>>
        /\ wrapper'.config = wrapper.config
    BY <1>22 DEF FindRoute, configVars, loaderVars, readerVars
  <2> QED
    BY <2>1, RoutesStay DEF RouteInv, Publishing
<1>23. ASSUME NEW r \in Reader, FindConfig(r) PROVE RouteInv'
  <2>1. UNCHANGED <<service_servicer, loading, left, servicers, loader>>
        /\ wrapper'.config = wrapper.config
    BY <1>23 DEF FindConfig, configVars, loaderVars, readerVars
  <2> QED
    BY <2>1, RoutesStay DEF RouteInv, Publishing
<1>24. ASSUME NEW r \in Reader, Leave(r) PROVE RouteInv'
  <2>1. UNCHANGED <<service_servicer, loading, left, servicers, loader>>
        /\ wrapper'.config = wrapper.config
    BY <1>24 DEF Leave, configVars, loaderVars, readerVars
  <2> QED
    BY <2>1, RoutesStay DEF RouteInv, Publishing
<1>25. ASSUME NEW r \in Reader, NEW s \in Service, NEW l \in Label, Ask(r, s, l)
       PROVE  RouteInv'
  <2>1. UNCHANGED <<service_servicer, loading, left, servicers, loader>>
        /\ wrapper'.config = wrapper.config
    BY <1>25 DEF Ask, configVars, loaderVars, readerVars
  <2> QED
    BY <2>1, RoutesStay DEF RouteInv, Publishing
<1>26. CASE UNCHANGED vars

  <2>1. UNCHANGED <<service_servicer, loading, left, servicers, loader>>
        /\ wrapper'.config = wrapper.config
    BY <1>26 DEF vars, configVars, loaderVars, readerVars
  <2> QED
    BY <2>1, RoutesStay DEF RouteInv, Publishing
<1> QED
  BY <1>1, <1>2, <1>3, <1>4, <1>5, <1>6, <1>7, <1>8, <1>9, <1>10, <1>11, <1>12,
    <1>13, <1>14, <1>15, <1>16, <1>17, <1>18, <1>19, <1>20, <1>21, <1>22,
    <1>23, <1>24, <1>25, <1>26 DEF Next, Loader, Lookup

(* What is known of a lookup stays when other threads register flags.         *)
Beside(q) == /\ UNCHANGED <<asked[q], answer[q], undisturbed[q]>>
             /\ alone'[q] => alone[q]
             /\ wrapper'.config = wrapper.config /\ flags \subseteq flags'

LEMMA PassedOverStays ==
  ASSUME NEW q, Beside(q)
  PROVE  /\ PassedOver(q) => PassedOver(q)'
         /\ Choice(q) => Choice(q)'
         /\ ExactAnswer(q) => ExactAnswer(q)'
<1>1. PassedOver(q) => PassedOver(q)'
  BY DEF Beside, PassedOver, Spoilt
<1> QED
  BY <1>1 DEF Beside, Choice, ExactAnswer

LEMMA LookupStays ==
  ASSUME NEW q, LookupOf(q), Beside(q), point'[q] = point[q], Publishing' = Publishing
  PROVE  LookupOf(q)'
BY PassedOverStays DEF LookupOf, Beside

LEMMA LookupsBeside ==
  ASSUME TypeOK, FlagsInv, NEW r \in Reader,
         Lookup(r) \/ \E s \in Service, l \in Label : Ask(r, s, l),
         NEW q \in Reader \ {r}
  PROVE  Beside(q) /\ point'[q] = point[q] /\ Publishing' = Publishing
BY DEF Lookup, Ask, CheckFlag, DefineFlag, EnterFlag, HoldWrapper, ReapplyFlag, FlagsReapplied,
       EvaluateFlag, FindRoute, FindConfig, Leave, At, Named, Beside, Publishing, TypeOK, FlagsInv,
       configVars, loaderVars

(* Every step keeps what is known of the lookups. *)
LEMMA NextLookupInv ==
  TypeOK /\ FlagsInv /\ RouteInv /\ LookupInv /\ AloneInv /\ [Next]_vars => LookupInv'
<1> SUFFICES ASSUME TypeOK, FlagsInv, RouteInv, LookupInv, AloneInv, [Next]_vars
             PROVE LookupInv'
  OBVIOUS
<1> USE ConfigAssumption
<1>1. ASSUME NEW c \in Config, Deploy(c) PROVE LookupInv'
  BY <1>1 DEF Deploy, configVars, loaderVars, readerVars, TypeOK, LookupInv, LookupOf,
    Publishing, NoAnswer, Choice, PassedOver, Spoilt
<1>2. CASE InitAgain
  BY <1>2 DEF InitAgain, configVars, loaderVars, readerVars, TypeOK, LookupInv, LookupOf,
    Publishing, NoAnswer, Choice, PassedOver, Spoilt
<1>3. CASE Fetch
  BY <1>3 DEF Fetch, configVars, loaderVars, readerVars, TypeOK, LookupInv, LookupOf,
    Publishing, NoAnswer, Choice, PassedOver, Spoilt
<1>4. CASE FetchFails
  BY <1>4 DEF FetchFails, LoadFails, LoadOver, Dropped, configVars, loaderVars,
    readerVars, TypeOK, LookupInv, LookupOf, Publishing, NoAnswer, Choice, PassedOver, Spoilt
<1>5. CASE CollectFlag
  BY <1>5 DEF CollectFlag, configVars, loaderVars, readerVars, TypeOK,
    LookupInv, LookupOf, Publishing, NoAnswer, Choice, PassedOver, Spoilt
<1>6. CASE FlagMismatch
  BY <1>6 DEF FlagMismatch, LoadFails, LoadOver, Dropped, configVars,
    loaderVars, readerVars, TypeOK, LookupInv, LookupOf, Publishing, NoAnswer, Choice, PassedOver, Spoilt
<1>7. CASE FlagsCollected
  BY <1>7 DEF FlagsCollected, configVars, loaderVars, readerVars, TypeOK,
    LookupInv, LookupOf, Publishing, NoAnswer, Choice, PassedOver, Spoilt
<1>8. CASE ClearRoutes
  BY <1>8 DEF ClearRoutes, configVars, loaderVars, readerVars, TypeOK,
    LookupInv, LookupOf, Publishing, NoAnswer, Choice, PassedOver, Spoilt
<1>9. CASE ReplaceServicers
  BY <1>9 DEF ReplaceServicers, configVars, loaderVars, readerVars, TypeOK,
    LookupInv, LookupOf, Publishing, NoAnswer, Choice, PassedOver, Spoilt
<1>10. CASE RoutesEntered
  BY <1>10 DEF RoutesEntered, configVars, loaderVars, readerVars, TypeOK,
    LookupInv, LookupOf, Publishing, NoAnswer, Choice, PassedOver, Spoilt
<1>11. CASE RegisterWrapper
  <2>1. \A r \in Reader : ~undisturbed[r]
    BY <1>11 DEF RegisterWrapper, LookupInv, LookupOf, Publishing
  <2> QED
    BY <1>11, <2>1 DEF RegisterWrapper, LookupInv, LookupOf, Publishing
<1>12. CASE Stamp
  BY <1>12 DEF Stamp, LoadFails, LoadOver, Dropped, configVars, loaderVars,
    readerVars, TypeOK, LookupInv, LookupOf, Publishing, NoAnswer, Choice, PassedOver, Spoilt
<1>13. CASE Pace
  BY <1>13 DEF Pace, configVars, loaderVars, readerVars, TypeOK, LookupInv, LookupOf,
    Publishing, NoAnswer, Choice, PassedOver, Spoilt
<1>14. ASSUME NEW e \in {1, 2} \X Servicer, EnterRoutes(e) PROVE LookupInv'
  BY <1>14 DEF EnterRoutes, configVars, loaderVars, readerVars, TypeOK,
    LookupInv, LookupOf, Publishing, NoAnswer, Choice, PassedOver, Spoilt
<1>15. ASSUME NEW r \in Reader, Lookup(r) PROVE LookupInv'
  <2> SUFFICES LookupOf(r)'
    BY <1>15, LookupsBeside, LookupStays DEF LookupInv
  <2>1. ASSUME point'[r] \notin {"route", "config", "done"},
               answer'[r] = NoAnswer \/ answer'[r] = answer[r],
               point[r] \notin {"config", "done"} \/ answer'[r] = NoAnswer,
               undisturbed'[r] => undisturbed[r], Publishing' = Publishing
        PROVE  LookupOf(r)'
    BY <2>1 DEF LookupInv, LookupOf
  <2>2. Publishing' = Publishing
    BY <1>15 DEF Lookup, CheckFlag, DefineFlag, EnterFlag, HoldWrapper, ReapplyFlag,
       FlagsReapplied, EvaluateFlag, FindRoute, FindConfig, Leave, loaderVars, Publishing
  <2>3. CASE \/ CheckFlag(r) \/ DefineFlag(r) \/ EnterFlag(r) \/ HoldWrapper(r)
             \/ ReapplyFlag(r) \/ FlagsReapplied(r) \/ Leave(r)
    BY <2>1, <2>2, <2>3
       DEF CheckFlag, DefineFlag, EnterFlag, HoldWrapper, ReapplyFlag, FlagsReapplied, Leave, At,
           TypeOK
  <2>4. CASE EvaluateFlag(r)
    <3> DEFINE v == Value(asked[r].service)
               l == asked[r].label
    <3>1. v # None => v \in LastValue(wrapper.config, asked[r].service) \ {None}
      BY GatherAll DEF TypeOK, FlagsInv, Value
    <3>2. undisturbed[r] /\ v = None => PassedOver(r)
      <4> SUFFICES ASSUME undisturbed[r], alone[r], v = None, ~Spoilt(wrapper.config)
                   PROVE  LastValue(wrapper.config, asked[r].service) \ {None} = {}
        BY DEF PassedOver
      <4>1. InEffect(asked[r].service)
        BY <2>4 DEF EvaluateFlag, At, AloneInv, AloneWith
      <4>2. CASE asked[r].service \in DOMAIN wrapper.flag_config
        <5>1. None \in LastValue(wrapper.config, asked[r].service)
          BY <4>2, GatherAll DEF TypeOK, FlagsInv, Value
        <5> QED
          BY <5>1, OneValue DEF TypeOK
      <4> QED
        BY <4>1, <4>2 DEF InEffect
    <3>3. /\ point[r] = "evaluate" /\ UNCHANGED <<asked, undisturbed, alone, flags, wrapper>>
          /\ \/ /\ v # None /\ point' = [point EXCEPT ![r] = "config"]
                /\ answer' = [answer EXCEPT ![r].name = v]
             \/ /\ v = None /\ l # None /\ point' = [point EXCEPT ![r] = "config"]
                /\ answer' = [answer EXCEPT ![r].name = l]
             \/ /\ v = None /\ l = None /\ point' = [point EXCEPT ![r] = "route"]
                /\ answer' = answer
      BY <2>4 DEF EvaluateFlag, At, Named, configVars
    <3> HIDE DEF v
    <3>4. /\ point'[r] = "config" => \/ v # None /\ answer'[r].name = v
                                     \/ v = None /\ l # None /\ answer'[r].name = l
          /\ point'[r] = "route" => v = None /\ l = None /\ answer'[r] = answer[r]
          /\ point'[r] \in {"config", "route"}
      BY <3>3 DEF TypeOK
    <3>5. PassedOver(r)' = PassedOver(r)
      BY <3>3 DEF PassedOver, Spoilt
    <3>6. point'[r] = "config" /\ undisturbed[r] => Choice(r)'
      BY <3>1, <3>2, <3>3, <3>4, <3>5 DEF Choice
    <3> QED
      BY <2>2, <3>2, <3>3, <3>4, <3>5, <3>6 DEF LookupInv, LookupOf
  <2>5. CASE FindRoute(r)
    <3> DEFINE n == service_servicer[asked[r].service]
    <3>1. ~Publishing => n \in Routed(wrapper.config, asked[r].service)
      BY <2>5 DEF FindRoute, At, FlagsInv, RouteInv, RoutesOf
    <3>2. /\ point[r] = "route" /\ UNCHANGED <<asked, undisturbed, alone, flags, wrapper>>
          /\ point' = [point EXCEPT ![r] = IF n = None THEN "done" ELSE "config"]
          /\ answer' = [answer EXCEPT ![r].name = n]
      BY <2>5 DEF FindRoute, At, Named, configVars
    <3> HIDE DEF n
    <3>3. PassedOver(r)' = PassedOver(r)
      BY <3>2 DEF PassedOver, Spoilt
    <3>4. /\ point'[r] = IF n = None THEN "done" ELSE "config"
          /\ answer'[r].name = n
      BY <3>2 DEF TypeOK
    <3> QED
      BY <2>2, <3>1, <3>2, <3>3, <3>4 DEF LookupInv, LookupOf, Choice
  <2>6. CASE FindConfig(r)
    BY <2>2, <2>6 DEF FindConfig, At, TypeOK, LookupInv, LookupOf
  <2> QED
    BY <1>15, <2>3, <2>4, <2>5, <2>6 DEF Lookup
<1>16. ASSUME NEW r \in Reader, NEW s \in Service, NEW l \in Label, Ask(r, s, l)
       PROVE  LookupInv'
  <2>1. LookupOf(r)'
    BY <1>16 DEF Ask, At, loaderVars, TypeOK, LookupInv, LookupOf, Publishing
  <2> QED
    BY <1>16, <2>1, LookupsBeside, LookupStays DEF LookupInv
<1>17. CASE UNCHANGED vars
  BY <1>17 DEF vars, configVars, loaderVars, readerVars, LookupInv, LookupOf, Publishing,
    Choice, PassedOver, Spoilt
<1> QED
  BY <1>1, <1>2, <1>3, <1>4, <1>5, <1>6, <1>7, <1>8, <1>9, <1>10, <1>11, <1>12,
    <1>13, <1>14, <1>15, <1>16, <1>17 DEF Next, Loader

(* A step that leaves the flags, the wrapper and what the threads do alone.   *)
LEMMA AloneStays ==
  ASSUME AloneInv, UNCHANGED <<flags, wrapper, readerVars>>
  PROVE  AloneInv'
BY DEF AloneInv, AloneWith, Gathered, InEffect, Spoilt, Registering, readerVars

(* The steps of the other threads leave it alone as well, unless they set a   *)
(* flag, and then it is not alone.                                            *)
LEMMA AloneBeside ==
  ASSUME TypeOK, AloneInv, NEW r \in Reader, Lookup(r), NEW q \in Reader \ {r},
         alone'[q]
  PROVE  /\ alone[q] /\ point'[q] # "idle"
         /\ undisturbed'[q] => AloneWith(q, asked[q].service)'
<1>1. /\ alone[q] /\ point[q] # "idle"
      /\ undisturbed'[q] = undisturbed[q]
      /\ asked'[q] = asked[q] /\ point'[q] = point[q] /\ mine'[q] = mine[q]
      /\ pending'[q] = pending[q] /\ collected'[q] = collected[q]
  BY DEF Lookup, CheckFlag, DefineFlag, EnterFlag, HoldWrapper, ReapplyFlag, FlagsReapplied,
         EvaluateFlag, FindRoute, FindConfig, Leave, At, TypeOK, AloneInv
<1>2. ASSUME undisturbed[q]
      PROVE  /\ UNCHANGED <<flags, wrapper>> /\ ~Registering(r)'
             /\ \A p \in Reader \ {r} : Registering(p)' = Registering(p)
  <2>1. ~Registering(r) /\ AloneWith(q, asked[q].service)
    BY <1>1, <1>2 DEF AloneInv, AloneWith
  <2>2. ~EnterFlag(r) /\ ~HoldWrapper(r) /\ ~ReapplyFlag(r) /\ ~FlagsReapplied(r)
    BY <2>1 DEF EnterFlag, HoldWrapper, ReapplyFlag, FlagsReapplied, At, Registering
  <2>3. DefineFlag(r) => point'[r] = "raised"
    BY <1>1 DEF DefineFlag, At, TypeOK
  <2> QED
    BY <2>2, <2>3 DEF Lookup, CheckFlag, DefineFlag, EvaluateFlag, FindRoute, FindConfig, Leave,
                      At, Registering, configVars, TypeOK
<1>3. ASSUME undisturbed[q] PROVE AloneWith(q, asked[q].service)'
  <2>1. AloneWith(q, asked[q].service)
    BY <1>1, <1>3 DEF AloneInv
  <2> QED
    BY <1>1, <1>2, <1>3, <2>1 DEF AloneWith, Gathered, InEffect, Spoilt
<1> QED
  BY <1>1, <1>3

(* Every step keeps what is known of the threads that are alone.              *)
LEMMA NextAloneInv ==
  TypeOK /\ FlagsInv /\ LookupInv /\ AloneInv /\ [Next]_vars => AloneInv'
<1> SUFFICES ASSUME TypeOK, FlagsInv, LookupInv, AloneInv, [Next]_vars PROVE AloneInv'
  OBVIOUS
<1>1. CASE (\E c \in Config : Deploy(c)) \/ UNCHANGED vars
  BY <1>1, AloneStays DEF Deploy, configVars, vars
<1>2. CASE Loader
  <2>1. CASE FlagsCollected
    BY <2>1 DEF FlagsCollected, AloneInv
  <2>2. CASE RegisterWrapper
    <3>1. \A r \in Reader : ~undisturbed[r]
      BY <2>2 DEF RegisterWrapper, LookupInv, LookupOf, Publishing
    <3> QED
      BY <2>2, <3>1 DEF RegisterWrapper, AloneInv
  <2>3. CASE ~FlagsCollected /\ ~RegisterWrapper
    BY <1>2, <2>3, AloneStays
       DEF Loader, InitAgain, Fetch, FetchFails, CollectFlag, FlagMismatch, ClearRoutes,
           ReplaceServicers, RoutesEntered, EnterRoutes, Stamp, Pace, configVars
  <2> QED
    BY <2>1, <2>2, <2>3
<1>3. ASSUME NEW r \in Reader, Lookup(r) PROVE AloneInv'
  <2> DEFINE s == asked[r].service
             c == wrapper.config
  <2>1. SUFFICES ASSUME alone'[r]
                 PROVE  /\ point'[r] # "idle"
                        /\ undisturbed'[r] => AloneWith(r, asked[r].service)'
    BY <1>3, <2>1, AloneBeside DEF AloneInv
  <2>2. /\ alone[r] /\ point'[r] # "idle" /\ undisturbed'[r] = undisturbed[r]
        /\ asked'[r] = asked[r] /\ ~Leave(r)
        /\ \A q \in Reader \ {r} : point'[q] = point[q]
    BY <1>3, <2>1 DEF Lookup, CheckFlag, DefineFlag, EnterFlag, HoldWrapper, ReapplyFlag,
           FlagsReapplied, EvaluateFlag, FindRoute, FindConfig, Leave, At, TypeOK, AloneInv
  <2> SUFFICES ASSUME undisturbed[r] PROVE AloneWith(r, s)'
    BY <2>2
  <2>3. AloneWith(r, s) /\ \A q \in Reader \ {r} : ~Registering(q)'
    BY <2>2 DEF AloneInv, AloneWith, Registering
  <2>4. CASE CheckFlag(r)
    BY <2>2, <2>3, <2>4 DEF CheckFlag, At, AloneWith, InEffect, configVars, TypeOK
  <2>5. CASE DefineFlag(r)
    BY <2>2, <2>3, <2>5 DEF DefineFlag, At, AloneWith, InEffect, configVars, TypeOK
  <2>6. CASE EnterFlag(r)
    BY <2>2, <2>3, <2>6 DEF EnterFlag, At, AloneWith, TypeOK
  <2>7. CASE HoldWrapper(r)
    <3>1. Gathered(s, Defs(c), NoFlags, c)
      BY GatheredNone DEF TypeOK
    <3>2. /\ point'[r] = "apply" /\ mine'[r] /\ pending'[r] = Defs(c)
          /\ collected'[r] = NoFlags /\ UNCHANGED <<wrapper, flags>> /\ s \in flags
      BY <2>3, <2>7 DEF HoldWrapper, At, AloneWith, configVars, TypeOK
    <3> QED
      BY <2>2, <2>3, <3>1, <3>2 DEF AloneWith, Gathered
  <2>8. CASE ReapplyFlag(r)
    <3>1. /\ point[r] = "apply" /\ pending[r] # <<>> /\ s \in flags /\ mine[r]
          /\ Gathered(s, pending[r], collected[r], c)
          /\ pending[r] \in Seq(FlagDef)
      BY <2>3, <2>8 DEF ReapplyFlag, AloneWith, TypeOK
    <3>2. Gathered(s, Tail(pending[r]), Collect(collected[r], Head(pending[r])), c)
      BY <3>1, GatheredOne DEF TypeOK
    <3>3. /\ point'[r] = "apply" /\ mine'[r] /\ pending'[r] = Tail(pending[r])
          /\ collected'[r] = Collect(collected[r], Head(pending[r]))
          /\ UNCHANGED <<wrapper, flags>>
      BY <2>8, <3>1 DEF ReapplyFlag, configVars, TypeOK
    <3> QED
      BY <2>2, <2>3, <3>1, <3>2, <3>3 DEF AloneWith, Gathered
  <2>9. CASE FlagsReapplied(r)
    <3>1. /\ point[r] = "apply" /\ mine[r] /\ s \in flags
          /\ Gathered(s, pending[r], collected[r], c) /\ wrapper'.config = c
          /\ point'[r] = "evaluate" /\ flags' = flags
          /\ pending[r] = <<>> => wrapper'.flag_config = collected[r]
      BY <2>3, <2>9 DEF FlagsReapplied, Owner, At, AloneWith, TypeOK, FlagsInv
    <3>2. CASE pending[r] = <<>>
      <4>1. s \in DOMAIN collected[r] \/ LastValue(c, s) = {}
        BY <3>1, <3>2, GatheredAll DEF TypeOK
      <4> QED
        BY <2>2, <2>3, <3>1, <3>2, <4>1 DEF AloneWith, InEffect
    <3>3. CASE pending[r] # <<>>
      <4>1. Raises(Head(pending[r])) /\ pending[r] \in Seq(FlagDef)
        BY <2>9, <3>3 DEF FlagsReapplied, TypeOK
      <4>2. PICK k \in Nat : Suffix(pending[r], k, Defs(c))
        BY <3>1 DEF Gathered
      <4>3. Head(pending[r]) = Defs(c)[k + 1] /\ k + 1 \in DOMAIN Defs(c)
        BY <3>3, <4>1, <4>2, DefsType DEF Suffix, TypeOK
      <4>4. Spoilt(c)
        BY <4>1, <4>3 DEF Spoilt, Raises
      <4> QED
        BY <2>2, <2>3, <3>1, <4>4 DEF AloneWith, Spoilt
    <3> QED
      BY <3>2, <3>3
  <2>10. CASE EvaluateFlag(r) \/ FindRoute(r) \/ FindConfig(r)
    BY <2>2, <2>3, <2>10 DEF EvaluateFlag, FindRoute, FindConfig, At, AloneWith, TypeOK
  <2> QED
    BY <1>3, <2>2, <2>4, <2>5, <2>6, <2>7, <2>8, <2>9, <2>10 DEF Lookup
<1>4. ASSUME NEW r \in Reader, NEW s \in Service, NEW l \in Label, Ask(r, s, l)
      PROVE  AloneInv'
  <2>1. /\ UNCHANGED <<flags, wrapper, mine, pending, collected>> /\ point[r] = "idle"
        /\ point' = [point EXCEPT ![r] = "check"]
        /\ \A q \in Reader \ {r} : /\ alone'[q] = alone[q] /\ asked'[q] = asked[q]
                                    /\ undisturbed'[q] = undisturbed[q]
        /\ asked'[r].service = s
        /\ alone'[r] <=> ~Missing(s) /\ \A q \in Reader : ~Registering(q)
        /\ point'[r] = "check" /\ \A q \in Reader \ {r} : point'[q] = point[q]
    BY <1>4 DEF Ask, At, configVars, TypeOK
  <2>2. /\ ~Registering(r)'
        /\ \A q \in Reader \ {r} : Registering(q)' <=> Registering(q)
    BY <2>1 DEF Registering
  <2>3. ASSUME alone'[r] PROVE AloneWith(r, asked[r].service)'
    BY <2>1, <2>2, <2>3 DEF AloneWith, InEffect, Missing, TypeOK
  <2>4. ASSUME NEW q \in Reader \ {r}, alone[q], undisturbed[q]
        PROVE  AloneWith(q, asked[q].service)'
    <3>1. AloneWith(q, asked[q].service) /\ point'[q] = point[q]
      BY <2>1, <2>4 DEF AloneInv, TypeOK
    <3> QED
      BY <2>1, <2>2, <3>1 DEF AloneWith, Gathered, InEffect, Spoilt
  <2> QED
    BY <2>1, <2>3, <2>4 DEF AloneInv, TypeOK
<1> QED
  BY <1>1, <1>2, <1>3, <1>4 DEF Next

(* A lookup answers from the config in effect. *)
LEMMA NextQuietLookups ==
  TypeOK /\ FlagsInv /\ RouteInv /\ LookupInv /\ QuietLookupsExact /\ [Next]_vars => QuietLookupsExact'
<1> SUFFICES ASSUME TypeOK, FlagsInv, RouteInv, LookupInv, QuietLookupsExact, [Next]_vars
             PROVE QuietLookupsExact'
  OBVIOUS
<1> USE ConfigAssumption
<1>1. ASSUME UNCHANGED <<flags, wrapper, point, asked, answer, alone>>,
             \A q \in Reader : undisturbed'[q] => undisturbed[q]
      PROVE  QuietLookupsExact'
  BY <1>1 DEF QuietLookupsExact, ExactAnswer, PassedOver, Spoilt
<1>2. CASE (\E c \in Config : Deploy(c)) \/ UNCHANGED vars
  BY <1>1, <1>2 DEF Deploy, vars, configVars, readerVars
<1>3. CASE Loader
  <2>1. CASE RegisterWrapper
    BY <2>1 DEF RegisterWrapper, LookupInv, LookupOf, Publishing, QuietLookupsExact
  <2>2. CASE ~RegisterWrapper
    BY <1>1, <1>3, <2>2
       DEF Loader, InitAgain, Fetch, FetchFails, CollectFlag, FlagMismatch, FlagsCollected,
           ClearRoutes, ReplaceServicers, RoutesEntered, EnterRoutes, Stamp, Pace, configVars,
           readerVars
  <2> QED
    BY <2>1, <2>2
<1>4. ASSUME NEW r \in Reader,
             Lookup(r) \/ \E s \in Service, l \in Label : Ask(r, s, l),
             point'[r] = "done" /\ undisturbed'[r] => ExactAnswer(r)'
      PROVE  QuietLookupsExact'
  BY <1>4, LookupsBeside, PassedOverStays DEF QuietLookupsExact, Beside
<1>5. ASSUME NEW r \in Reader, Lookup(r), ~FindRoute(r), ~FindConfig(r) PROVE QuietLookupsExact'
  <2>1. point'[r] # "done"
    BY <1>5 DEF Lookup, CheckFlag, DefineFlag, EnterFlag, HoldWrapper, ReapplyFlag,
       FlagsReapplied, EvaluateFlag, Leave, At, TypeOK
  <2> QED
    BY <1>4, <1>5, <2>1
<1>6. ASSUME NEW r \in Reader, FindRoute(r) PROVE QuietLookupsExact'
  <2> DEFINE n == service_servicer[asked[r].service]
  <2>1. ~Publishing => n \in Routed(wrapper.config, asked[r].service)
    BY <1>6 DEF FindRoute, At, FlagsInv, RouteInv, RoutesOf
  <2>2. /\ point[r] = "route" /\ UNCHANGED <<asked, undisturbed, alone, flags, wrapper, loader>>
        /\ point' = [point EXCEPT ![r] = IF n = None THEN "done" ELSE "config"]
        /\ answer' = [answer EXCEPT ![r].name = n]
    BY <1>6 DEF FindRoute, At, Named, configVars, loaderVars
  <2>3. /\ answer[r] = NoAnswer /\ asked[r].label = None
        /\ undisturbed[r] => ~Publishing /\ PassedOver(r)
    BY <2>2 DEF LookupInv, LookupOf
  <2> HIDE DEF n
  <2>4. n = None => answer'[r] = NoAnswer
    BY <2>2, <2>3 DEF TypeOK, NoAnswer
  <2>5. PassedOver(r)' = PassedOver(r)
    BY <2>2 DEF PassedOver, Spoilt
  <2>6. point'[r] = "done" => n = None
    BY <2>2 DEF TypeOK
  <2>7. Entry(wrapper.config, None) = None
    BY DEF Entry, TypeOK, AnyConfig
  <2>8. n = None /\ undisturbed[r] => ExactAnswer(r)'
    BY <2>1, <2>2, <2>3, <2>4, <2>5, <2>7 DEF ExactAnswer
  <2> QED
    BY <1>4, <1>6, <2>2, <2>6, <2>8 DEF Lookup
<1>7. ASSUME NEW r \in Reader, FindConfig(r) PROVE QuietLookupsExact'
  <2> DEFINE n == answer[r].name
             c == Entry(wrapper.config, n)
  <2>1. undisturbed[r] => Choice(r) /\ servicers = wrapper.config
    BY <1>7 DEF FindConfig, At, LookupInv, LookupOf, RouteInv
  <2>2. /\ point' = [point EXCEPT ![r] = "done"] /\ UNCHANGED <<asked, undisturbed, alone, flags, wrapper>>
        /\ undisturbed[r] =>
             answer' = [answer EXCEPT ![r] = IF n = asked[r].label /\ c = None THEN NoAnswer
                                             ELSE [name |-> n, config |-> c]]
        /\ \A q \in Reader : q # r => answer'[q] = answer[q]
    BY <1>7, <2>1 DEF FindConfig, At, configVars, TypeOK
  <2>3. undisturbed[r] => answer'[r] = IF n = asked[r].label /\ c = None THEN NoAnswer
                                       ELSE [name |-> n, config |-> c]
    BY <2>2 DEF TypeOK
  <2>4. PassedOver(r)' = PassedOver(r)
    BY <2>2 DEF PassedOver, Spoilt
  <2>5. undisturbed[r] => ExactAnswer(r)'
    BY <2>1, <2>2, <2>3, <2>4 DEF ExactAnswer, Choice
  <2> QED
    BY <1>4, <1>7, <2>2, <2>5 DEF Lookup
<1>8. ASSUME NEW r \in Reader, NEW s \in Service, NEW l \in Label, Ask(r, s, l)
      PROVE  QuietLookupsExact'
  <2>1. point'[r] # "done"
    BY <1>8 DEF Ask, At, TypeOK
  <2> QED
    BY <1>4, <1>8, <2>1
<1> QED
  BY <1>2, <1>3, <1>5, <1>6, <1>7, <1>8 DEF Next

LEMMA InitConfigInv == Init => ConfigInv
<1> SUFFICES ASSUME Init PROVE ConfigInv
  OBVIOUS
<1> USE ConfigAssumption
<1>1. \A s \in Service : service_servicer[s] \in Routed(NoConfig, s)
  <2> SUFFICES ASSUME NEW s \in Service PROVE service_servicer[s] \in Routed(NoConfig, s)
    OBVIOUS
  <2>1. service_servicer[s] = IF EnvOf(s) # {} THEN CHOOSE n \in EnvOf(s) : TRUE ELSE None
    BY DEF Init, EnvOf
  <2>2. {n \in DOMAIN NoConfig.serves \ DOMAIN EnvConfig.serves : s \in NoConfig.serves[n]} = {}
    OBVIOUS
  <2> QED
    BY <2>1, <2>2 DEF Routed, EnvOf
<1>2. TypeOK
  <2>1. service_servicer \in [Service -> Servicer \cup {None}]
    BY DEF Init
  <2> QED
    BY <2>1, NoFlagsType DEF Init, NoAnswer, TypeOK, LoaderPoint, Phase,
      ReaderPoint, AnyConfig
<1>3. FlagsInv
  <2>1. Gathering(flags, <<>>, NoFlags, NoConfig)
    <3>1. NoConfig \in AnyConfig /\ Defs(NoConfig) \in Seq(FlagDef)
      BY DefsType DEF AnyConfig
    <3>2. Suffix(<<>>, Len(Defs(NoConfig)), Defs(NoConfig))
      BY <3>1 DEF Suffix
    <3> QED
      BY <3>1, <3>2, NoFlagsType DEF Gathering
  <2> QED
    BY <2>1, NoFlagsType DEF Init, FlagsInv, Publishing, AnyConfig
<1>4. RouteInv
  BY <1>1 DEF Init, RouteInv, RoutesOf, Publishing
<1>5. LookupInv /\ AloneInv /\ QuietLookupsExact
  BY DEF Init, LookupInv, LookupOf, AloneInv, QuietLookupsExact, Publishing
<1> QED
  BY <1>2, <1>3, <1>4, <1>5 DEF ConfigInv

LEMMA ConfigInvariant == Spec => []ConfigInv
<1>1. ConfigInv /\ [Next]_vars => ConfigInv'
  BY NextTypeOK, NextFlagsInv, NextRouteInv, NextLookupInv, NextAloneInv,
     NextQuietLookups
    DEF ConfigInv
<1> QED
  BY InitConfigInv, <1>1, PTL DEF Spec

(* Every piece of the published config and of the lookups is of the kind that *)
(* the managers store.                                                        *)
THEOREM TypeCorrect == Spec => []TypeOK
<1>1. ConfigInv => TypeOK
  BY DEF ConfigInv
<1> QED
  BY <1>1, ConfigInvariant, PTL

(* Whenever no config is being published, the servicers, the routes and the   *)
(* flags in effect all come from the config of the registered wrapper, with   *)
(* whatever loads have failed and flags were set again.                       *)
THEOREM ConfigsWhole == Spec => []ConfigWhole
<1>1. ConfigInv => ConfigWhole
  BY GatherAll DEF ConfigInv, TypeOK, FlagsInv, RouteInv, RoutesOf, ConfigWhole
<1> QED
  BY <1>1, ConfigInvariant, PTL

(* A lookup during which no config is published answers from the config in    *)
(* effect alone, and passes over the servicer of the config's flag only for   *)
(* the reasons that QuietLookupsExact names.                                  *)
THEOREM LookupsExact == Spec => []QuietLookupsExact
<1>1. ConfigInv => QuietLookupsExact
  BY DEF ConfigInv
<1> QED
  BY <1>1, ConfigInvariant, PTL
=============================================================================
