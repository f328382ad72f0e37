--------------------------- MODULE Configuration ---------------------------
(***************************************************************************)
(* pkg/pool/config.go: ConfigBuilder, whose Build hands out the config it  *)
(* goes on working on, and what Validate and WithDefaults make of a        *)
(* config.                                                                 *)
(*                                                                         *)
(* Limits and defaults are scaled down; each pointer to a Config is a      *)
(* number.  Handlers, interceptors and PreAlloc, which no check reads, and *)
(* the texts of errors are left out.                                       *)
(***************************************************************************)
EXTENDS Integers, FiniteSets

CONSTANTS Builders,    \* the builders there can be
          FirstBuilder,\* NewConfigBuilder
          Settings,    \* what a user may set: pairs of a field and a value
          Defaults,    \* NewConfig
          Most,        \* the largest valid value of each field that has one
          MaxConfigs   \* bound: how many configs are made

Fields  == {"WorkerCount", "QueueSize", "ObjectPoolSize", "TaskTimeout",
            "ShutdownTimeout", "MetricsInterval", "EnableMetrics"}
Configs == 1 .. MaxConfigs
Nowhere == 0

(* The smallest value that counts as set.                                  *)
Least(f) == IF f = "ObjectPoolSize" THEN 0 ELSE 1

ASSUME ConfigurationAssumption ==
    /\ FirstBuilder \in Builders
    /\ Settings \subseteq Fields \X Int
    /\ Defaults \in [Fields -> Int]
    /\ DOMAIN Most \subseteq Fields
    /\ MaxConfigs \in Nat \ {0}

VARIABLES
    heap,     \* the configs, by pointer; NoConfig if not made yet
    config,   \* ConfigBuilder.config of each builder; Nowhere before it is made
    given,    \* history: configs Build, BuildUnsafe or Copy gave to the user
    lent      \* history: builders that gave their config and go on with it

configVars == <<heap, config, given, lent>>

NoConfig == [f \in {} |-> 0]

ConfigInit ==
    /\ heap = [p \in Configs |-> IF p = 1 THEN Defaults ELSE NoConfig]
    /\ config = [b \in Builders |-> IF b = FirstBuilder THEN 1 ELSE Nowhere]
    /\ given = {} /\ lent = {}

Free == {p \in Configs : heap[p] = NoConfig}
Fresh == CHOOSE p \in Free : TRUE
Made(b) == config[b] # Nowhere
-----------------------------------------------------------------------------
(* The first check that fails ends Validate: what is left is the same.     *)
Validate(c) ==
    /\ \A f \in Fields \ {"EnableMetrics", "MetricsInterval"} : Least(f) <= c[f]
    /\ c["EnableMetrics"] = 1 => Least("MetricsInterval") <= c["MetricsInterval"]
    /\ \A f \in DOMAIN Most : c[f] <= Most[f]
    /\ c["WorkerCount"] <= c["QueueSize"]

(* EnableMetrics is no number and has no default to fall back on.          *)
WithDefaults(c) ==
    [f \in Fields |-> IF f # "EnableMetrics" /\ c[f] < Least(f) THEN Defaults[f]
                                                               ELSE c[f]]
-----------------------------------------------------------------------------
(* WithWorkerCount and the others.                                         *)
Set(b, f, v) ==
    /\ Made(b)
    /\ heap' = [heap EXCEPT ![config[b]][f] = v]
    /\ UNCHANGED <<config, given, lent>>

(* Build, if the config is valid, or BuildUnsafe: the user and the builder *)
(* now have the same config.                                               *)
Give(b) ==
    /\ given' = given \cup {config[b]}
    /\ lent' = lent \cup {b}
    /\ UNCHANGED <<heap, config>>

Build(b) == Made(b) /\ Validate(heap[config[b]]) /\ Give(b)

BuildUnsafe(b) == Made(b) /\ Give(b)

(* Variant: Reset writes the defaults into the config it has.              *)
ResetInPlace(b) ==
    /\ Made(b)
    /\ heap' = [heap EXCEPT ![config[b]] = Defaults]
    /\ lent' = lent \ {b}
    /\ UNCHANGED <<config, given>>

Reset(b) ==
    /\ Made(b) /\ Free # {}
    /\ heap' = [heap EXCEPT ![Fresh] = Defaults]
    /\ config' = [config EXCEPT ![b] = Fresh]
    /\ lent' = lent \ {b}
    /\ UNCHANGED given

Clone(b, c) ==
    /\ Made(b) /\ ~Made(c) /\ Free # {}
    /\ heap' = [heap EXCEPT ![Fresh] = heap[config[b]]]
    /\ config' = [config EXCEPT ![c] = Fresh]
    /\ UNCHANGED <<given, lent>>

Copy(p) ==
    /\ p \in given /\ Free # {}
    /\ heap' = [heap EXCEPT ![Fresh] = heap[p]]
    /\ given' = given \cup {Fresh}
    /\ UNCHANGED <<config, lent>>

(* WithDefaults, called on a config the user has.                          *)
FillIn(p) ==
    /\ p \in given
    /\ heap' = [heap EXCEPT ![p] = WithDefaults(@)]
    /\ UNCHANGED <<config, given, lent>>

ConfigNext ==
    \/ \E b \in Builders :
          \/ \E s \in Settings : Set(b, s[1], s[2])
          \/ Build(b) \/ BuildUnsafe(b) \/ Reset(b)
          \/ \E c \in Builders : Clone(b, c)
    \/ \E p \in Configs : Copy(p) \/ FillIn(p)

ConfigSpec == ConfigInit /\ [][ConfigNext]_configVars
-----------------------------------------------------------------------------
(* A config the user holds is changed behind their back by the builder     *)
(* that gave it only until that builder is reset, and by no other builder: *)
(* configs made by Reset, Clone and Copy are shared with nobody.           *)
ConfigsAreNotShared ==
    \A b \in Builders : Made(b) =>
        /\ b \notin lent => config[b] \notin given
        /\ \A c \in Builders \ {b} : config[c] # config[b]
=============================================================================
