------------------------------ MODULE HostBuild ------------------------------
(***************************************************************************)
(* Builder.Build: newHost of service/host.go, with addModule, newHostedModule  *)
(* and initModuleConfig of module.go, roles.go and builder.go.  It runs on one *)
(* goroutine; what makes its order open is the range over the map of forks.   *)
(* viper, which reads the configuration, is external (v1.7.0).              *)
(***************************************************************************)
EXTENDS Naturals, Sequences, SequencesExt

CONSTANTS
    ModuleNames,    \* names of modules
    ForkNames,      \* keys below "forks" in a module's configuration
    RoleNames,
    Values,         \* values of configuration keys
    Inputs          \* the builders and configurations looked at

(* The configuration keys of a module that its listener and its registration   *)
(* use, and one that initModuleConfig gives a default.                      *)
Keys == {"listen_addr", "register_addr", "enable_tls"}

(* The fork name of a module that is no fork. *)
NoFork == ""

Absent == "absent"
Null == "null"

(* The zero value of h.tlsConfig, which nothing sets. *)
NoTLS == "false"

KeyValues == [Keys -> Values \cup {Absent, NoTLS}]

(* The configuration of a module is absent or null, or it has keys and forks;   *)
(* and so has a fork, but for the forks.  A section of forks may be something  *)
(* else than a map of configurations: it does not decode then.               *)
ForkConfigs == [is : {Absent, Null}] \cup [is : {"map"}, keys : KeyValues]
ModuleConfigs ==
    [is : {Absent}]
        \cup [is : {"map"}, keys : KeyValues, forks : [ForkNames -> ForkConfigs], decodes : BOOLEAN]

(* WithModuleName and WithRole. *)
ModuleOptions ==
    [option : {"name"}, arg : ModuleNames] \cup [option : {"role"}, arg : RoleNames \cup {""}]

(* What a ModuleProvider's Create does. *)
Creates == {"ok", "error", "reads config"}

moduleInfos == [provider : Creates, default : ModuleNames, options : Seq(ModuleOptions)]

(* A Builder, the roles flag (if it is given) and those of the configuration file, whether the  *)
(* file has a section "modules", and what is there.                         *)
InputType ==
    [infos : Seq(moduleInfos), flagRoles : {<<>>} \cup {<<roles>> : roles \in SUBSET RoleNames},
     fileRoles : SUBSET RoleNames,
     section : BOOLEAN, configs : [ModuleNames -> ModuleConfigs]]

ASSUME InputsAssumption ==
    /\ Inputs \subseteq InputType
    /\ {Absent, Null, "map"} \cap (Values \cup {NoTLS}) = {}
    /\ "" \notin ForkNames \cup RoleNames

VARIABLES
    input,
    pc,             \* where newHost is
    next,           \* the index of the moduleInfo that is added next
    forksLeft,      \* the forks of this one that the range has still to come to
    modules         \* h.modules

buildVars == <<input, pc, next, forksLeft, modules>>

Ended == {"built", "failed", "panicked"}

(* A hosted module: its info, its fork name, its configuration. *)
hostedModules == [info : Nat, fork : ForkNames \cup {NoFork}, config : KeyValues]

BuildTypeOK ==
    /\ input \in Inputs
    /\ pc \in {"config", "logging", "etcd", "modules"} \cup Ended
    /\ next \in 1..(Len(input.infos) + 1)
    /\ forksLeft \subseteq ForkNames
    /\ modules \in Seq(hostedModules)

BuildInit(x) ==
    /\ input = x
    /\ pc = "config"
    /\ next = 1
    /\ forksLeft = {}
    /\ modules = <<>>
-----------------------------------------------------------------------------
(* The options of a module.                                                 *)

WithRole(o, role) == IF role = "" THEN o ELSE [o EXCEPT !.roles = @ \cup {role}]

(* What an option does. *)
Applied(option, o) ==
    IF option.option = "name" THEN [o EXCEPT !.moduleName = option.arg] ELSE WithRole(o, option.arg)

(* The options in order: the last name counts, roles add up. *)
moduleOptions(info) ==
    LET after[i \in 0..Len(info.options)] ==
            IF i = 0 THEN [moduleName |-> info.default, roles |-> {}]
            ELSE Applied(info.options[i], after[i - 1])
    IN after[Len(info.options)]

NameOf(k) == moduleOptions(input.infos[k]).moduleName

(* The roles of the host: the flag if it is given, else those of the file.    *)
HostRoles == IF input.flagRoles = <<>> THEN input.fileRoles ELSE input.flagRoles[1]

Support(roles, others) == roles = {} \/ others = {} \/ roles \cap others # {}

Supported(k) == Support(HostRoles, moduleOptions(input.infos[k]).roles)

ConfigOf(k) == input.configs[NameOf(k)]

(* The names that addModule ranges over. *)
ForksOf(k) == {f \in ForkNames : ConfigOf(k).forks[f].is # Absent}
-----------------------------------------------------------------------------
(* newHostedModule.                                                         *)

(* Create comes first, when the module has no configuration yet: it panics if  *)
(* it reads one.  core.Sub("modules") is nil without that section, and Sub of  *)
(* a fork is nil if the fork is null: both are then used.                   *)
Outcome(k, fork) ==
    CASE input.infos[k].provider = "error" -> "failed"
      [] input.infos[k].provider = "reads config" -> "panicked"
      [] input.infos[k].provider = "ok" ->
            IF ~input.section THEN "panicked"
            ELSE IF ConfigOf(k).is = Absent THEN "failed"
            ELSE IF fork # NoFork /\ ConfigOf(k).forks[fork].is = Null THEN "panicked"
            ELSE "ok"

(* Mutated Inherited: the keys of the module override those of its fork.      *)
InheritedOver(own, base) == [key \in Keys |-> IF base[key] = Absent THEN own[key] ELSE base[key]]

(* What a fork does not set it has from its module. *)
Inherited(own, base) == [key \in Keys |-> IF own[key] = Absent THEN base[key] ELSE own[key]]

WithTLS(config) ==
    [config EXCEPT !["enable_tls"] = IF @ = Absent THEN NoTLS ELSE @]

initModuleConfig(k, fork) ==
    WithTLS(IF fork = NoFork THEN ConfigOf(k).keys
            ELSE Inherited(ConfigOf(k).forks[fork].keys, ConfigOf(k).keys))

newHostedModule(k, fork) == [info |-> k, fork |-> fork, config |-> initModuleConfig(k, fork)]
-----------------------------------------------------------------------------
(* newHost.                                                                 *)

(* setupConfig, setupLogging and setupEtcd: files, flags and the etcd client.  *)
(* Each may fail, and nothing that was set up before is undone then.        *)
Setup ==
    /\ \/ pc = "config" /\ pc' = "logging"
       \/ pc = "logging" /\ pc' = "etcd"
       \/ pc = "etcd" /\ pc' = "modules"
    /\ UNCHANGED <<input, next, forksLeft, modules>>

SetupFails ==
    /\ pc \in {"config", "logging", "etcd"}
    /\ pc' = "failed"
    /\ UNCHANGED <<input, next, forksLeft, modules>>

AtModule == pc = "modules" /\ forksLeft = {} /\ next <= Len(input.infos)

(* The module is appended before its forks are decoded, which may fail. *)
addSupported ==
    /\ modules' = Append(modules, newHostedModule(next, NoFork))
    /\ IF ConfigOf(next).decodes
       THEN /\ forksLeft' = ForksOf(next)
            /\ next' = IF ForksOf(next) = {} THEN next + 1 ELSE next
            /\ UNCHANGED pc
       ELSE pc' = "failed" /\ UNCHANGED <<next, forksLeft>>

(* Mutated addModule: the roles are looked at first. *)
addModuleLater ==
    /\ AtModule
    /\ IF ~Supported(next)
       THEN next' = next + 1 /\ UNCHANGED <<pc, forksLeft, modules>>
       ELSE IF Outcome(next, NoFork) # "ok"
       THEN pc' = Outcome(next, NoFork) /\ UNCHANGED <<next, forksLeft, modules>>
       ELSE addSupported
    /\ UNCHANGED input

(* addModule, up to its loop.  The module is created and configured before its  *)
(* roles are looked at.                                                     *)
addModule ==
    /\ AtModule
    /\ IF Outcome(next, NoFork) # "ok"
       THEN pc' = Outcome(next, NoFork) /\ UNCHANGED <<next, forksLeft, modules>>
       ELSE IF ~Supported(next)
       THEN next' = next + 1 /\ UNCHANGED <<pc, forksLeft, modules>>
       ELSE addSupported
    /\ UNCHANGED input

(* One turn of its loop over the forks, in any order. *)
addFork(f) ==
    /\ pc = "modules"
    /\ f \in forksLeft
    /\ IF Outcome(next, f) # "ok"
       THEN pc' = Outcome(next, f) /\ UNCHANGED <<next, forksLeft, modules>>
       ELSE /\ modules' = Append(modules, newHostedModule(next, f))
            /\ forksLeft' = forksLeft \ {f}
            /\ next' = IF forksLeft = {f} THEN next + 1 ELSE next
            /\ UNCHANGED pc
    /\ UNCHANGED input

Built ==
    /\ pc = "modules"
    /\ next > Len(input.infos)
    /\ pc' = "built"
    /\ UNCHANGED <<input, next, forksLeft, modules>>

Build ==
    \/ Setup
    \/ SetupFails
    \/ addModule
    \/ \E f \in ForkNames : addFork(f)
    \/ Built

BuildSpec == (\E x \in Inputs : BuildInit(x)) /\ [][Build]_buildVars
-----------------------------------------------------------------------------
(* Properties.                                                              *)

(* Which modules the k-th moduleInfo stands for: none if it has roles, the host   *)
(* has roles, and they share none.                                          *)
Wanted(k) ==
    LET roles == {o.arg : o \in {o \in Range(input.infos[k].options) : o.option = "role"}} \ {""}
    IN IF roles # {} /\ HostRoles # {} /\ roles \cap HostRoles = {} THEN {}
       ELSE {NoFork} \cup ForksOf(k)

(* The host serves each module that its roles allow, and each fork of it, once; *)
(* modules in the order of the builder, forks behind their module; and each     *)
(* has its own values, else those of its module, whatever order the map of    *)
(* forks is ranged over in.                                                 *)
ServedAsConfigured ==
    pc = "built" =>
        /\ \A k \in 1..Len(input.infos), f \in ForkNames \cup {NoFork} :
             Cardinality({i \in DOMAIN modules : modules[i].info = k /\ modules[i].fork = f})
                = IF f \in Wanted(k) THEN 1 ELSE 0
        /\ \A i, j \in DOMAIN modules : i < j =>
             /\ modules[i].info <= modules[j].info
             /\ modules[j].fork = NoFork => modules[i].info < modules[j].info
        /\ \A i \in DOMAIN modules :
             LET m == modules[i]
                 base == ConfigOf(m.info).keys
                 own == IF m.fork = NoFork THEN base ELSE ConfigOf(m.info).forks[m.fork].keys
             IN \A key \in Keys :
                  m.config[key] = CASE own[key] # Absent -> own[key]
                                    [] own[key] = Absent /\ base[key] # Absent -> base[key]
                                    [] OTHER -> IF key = "enable_tls" THEN NoTLS ELSE Absent

(* What is wrong with no module or fork of the k-th moduleInfo. *)
Sound(k) ==
    /\ input.infos[k].provider = "ok"
    /\ input.section
    /\ ConfigOf(k).is # Absent
    /\ Supported(k) =>
        /\ ConfigOf(k).decodes
        /\ \A f \in ForksOf(k) : ConfigOf(k).forks[f].is # Null

(* A host is only built if nothing is wrong with any module, also with those     *)
(* that its roles exclude: each is created, and must be configured (the error   *)
(* of module.go:166), and the forks of each that they do not exclude must      *)
(* decode (host.go:147).  Without that, Build returns an error or panics,      *)
(* however many modules have been added before.  The other way round, it does  *)
(* not panic, nor fail once it has added a module, without such a cause.       *)
BuildsAllOrNothing ==
    LET sound == \A k \in 1..Len(input.infos) : Sound(k)
    IN /\ pc = "built" => sound
       /\ pc = "panicked" \/ (pc = "failed" /\ modules # <<>>) => ~sound
=============================================================================
