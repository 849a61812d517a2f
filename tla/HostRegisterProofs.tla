-------------------------- MODULE HostRegisterProofs --------------------------
(***************************************************************************)
(* Which hosts are built and where their modules are found, for any builders,  *)
(* configurations and roles, and any number of processes one after the other.  *)
(***************************************************************************)
EXTENDS HostRegister, FiniteSetTheorems, WellFoundedInduction, TLAPS

Basics(k) ==
    /\ input.infos[k].provider = "ok"
    /\ input.section
    /\ ConfigOf(k).is # Absent

(* What has been looked at when newHost is at module next: the modules before it, *)
(* and of its own forks those that the range has come to.                   *)
BuildInv ==
    /\ input \in Inputs
    /\ next \in Nat \ {0}
    /\ next <= Len(input.infos) + 1
    /\ pc \in {"config", "logging", "etcd"} => next = 1 /\ forksLeft = {} /\ modules = <<>>
    /\ pc = "modules" =>
        /\ \A k \in 1..(next - 1) : Sound(k)
        /\ forksLeft # {} =>
            /\ next <= Len(input.infos)
            /\ Basics(next)
            /\ Supported(next)
            /\ ConfigOf(next).decodes
            /\ forksLeft \subseteq ForksOf(next)
            /\ \A f \in ForksOf(next) \ forksLeft : ConfigOf(next).forks[f].is # Null
    /\ BuildsAllOrNothing
-----------------------------------------------------------------------------
(* What the inputs are made of. *)
LEMMA InputTypes ==
    ASSUME input \in Inputs
    PROVE  /\ Len(input.infos) \in Nat
           /\ \A k \in 1..Len(input.infos) : input.infos[k].provider \in Creates
<1>1. input.infos \in Seq(moduleInfos)
  BY InputsAssumption DEF InputType
<1>2. \A k \in 1..Len(input.infos) : input.infos[k] \in moduleInfos
  BY <1>1
<1> QED
  BY <1>1, <1>2 DEF moduleInfos

(* When newHostedModule succeeds. *)
LEMMA OutcomeCases ==
    ASSUME input \in Inputs, NEW k \in 1..Len(input.infos), NEW f \in ForkNames \cup {NoFork}
    PROVE  /\ Outcome(k, f) \in {"ok", "failed", "panicked"}
           /\ Outcome(k, f) = "ok" <=>
                Basics(k) /\ (f # NoFork => ConfigOf(k).forks[f].is # Null)
<1>1. input.infos[k].provider \in {"ok", "error", "reads config"}
  BY InputTypes DEF Creates
<1> QED
  BY <1>1 DEF Outcome, Basics

(* The names of forks are not empty. *)
LEMMA ForkNamed == \A f \in ForkNames : f # NoFork
  BY InputsAssumption, Zenon DEF NoFork

LEMMA BuildInvInit == ASSUME NEW x \in Inputs, BuildInit(x) PROVE BuildInv
<1>1. input \in Inputs /\ Len(input.infos) \in Nat
  BY InputTypes DEF BuildInit
<1> QED
  BY <1>1 DEF BuildInit, BuildInv, BuildsAllOrNothing
-----------------------------------------------------------------------------
(* What is read from the input does not change. *)
LEMMA SameInput ==
    ASSUME UNCHANGED input
    PROVE  \A k : /\ (Sound(k))' <=> Sound(k)
                  /\ (Supported(k))' <=> Supported(k)
                  /\ (Basics(k))' <=> Basics(k)
                  /\ (ForksOf(k))' = ForksOf(k)
                  /\ (ConfigOf(k))' = ConfigOf(k)
  BY DEF Sound, Supported, HostRoles, ForksOf, ConfigOf, NameOf, Basics

(* A module that is not sound makes Sound fail for the whole builder. *)
LEMMA FailureHasCause ==
    ASSUME BuildInv, NEW k \in 1..Len(input.infos), NEW f \in ForkNames \cup {NoFork},
           f # NoFork => Supported(k) /\ f \in ForksOf(k),
           Outcome(k, f) # "ok"
    PROVE  ~Sound(k)
  BY OutcomeCases DEF BuildInv, Sound, Basics

LEMMA addModuleKeeps == ASSUME BuildInv, addModule PROVE BuildInv'
<1> USE DEF BuildInv
<1>1. /\ pc = "modules" /\ forksLeft = {} /\ next \in 1..Len(input.infos)
      /\ Len(input.infos) \in Nat /\ input' = input
  <2>1. /\ pc = "modules" /\ forksLeft = {} /\ next <= Len(input.infos) /\ input' = input
    BY DEF addModule, AtModule
  <2>2. input \in Inputs /\ next \in Nat \ {0}
    OBVIOUS
  <2> QED
    BY <2>1, <2>2, InputTypes
<1>2. \A k : /\ (Sound(k))' <=> Sound(k)
             /\ (Supported(k))' <=> Supported(k)
             /\ (Basics(k))' <=> Basics(k)
             /\ (ForksOf(k))' = ForksOf(k)
             /\ (ConfigOf(k))' = ConfigOf(k)
  BY <1>1, SameInput
<1>3. CASE Outcome(next, NoFork) # "ok"
  <2>1. ~Sound(next)
    BY <1>1, <1>3, FailureHasCause
  <2>2. pc' \in {"failed", "panicked"} /\ next' = next
    BY <1>1, <1>3, OutcomeCases DEF addModule
  <2> QED
    BY <1>1, <1>2, <2>1, <2>2 DEF BuildsAllOrNothing
<1>4. CASE Outcome(next, NoFork) = "ok"
  <2>1. Basics(next)
    BY <1>1, <1>4, OutcomeCases
  <2>2. CASE ~Supported(next)
    <3>1. Sound(next)
      BY <2>1, <2>2 DEF Sound, Basics
    <3>2. next' = next + 1 /\ pc' = "modules" /\ forksLeft' = {}
      BY <1>1, <1>4, <2>2 DEF addModule
    <3> QED
      BY <1>1, <1>2, <3>1, <3>2 DEF BuildsAllOrNothing
  <2>3. CASE Supported(next) /\ ~ConfigOf(next).decodes
    <3>1. ~Sound(next)
      BY <2>3 DEF Sound
    <3>2. pc' = "failed" /\ next' = next
      BY <1>1, <1>4, <2>3 DEF addModule, addSupported
    <3> QED
      BY <1>1, <1>2, <3>1, <3>2 DEF BuildsAllOrNothing
  <2>4. CASE Supported(next) /\ ConfigOf(next).decodes
    <3>1. /\ pc' = "modules" /\ forksLeft' = ForksOf(next)
          /\ next' = IF ForksOf(next) = {} THEN next + 1 ELSE next
      BY <1>1, <1>4, <2>4 DEF addModule, addSupported
    <3>2. CASE ForksOf(next) = {}
      <4>1. Sound(next)
        BY <2>1, <2>4, <3>2 DEF Sound, Basics
      <4> QED
        BY <1>1, <1>2, <3>1, <3>2, <4>1 DEF BuildsAllOrNothing
    <3>3. CASE ForksOf(next) # {}
      <4>1. next' = next /\ forksLeft' = ForksOf(next)
        BY <3>1, <3>3
      <4> QED
        BY <1>1, <1>2, <2>1, <2>4, <3>1, <4>1 DEF BuildsAllOrNothing
    <3> QED
      BY <3>2, <3>3
  <2> QED
    BY <2>2, <2>3, <2>4
<1> QED
  BY <1>3, <1>4

LEMMA addForkKeeps == ASSUME BuildInv, NEW f \in ForkNames, addFork(f) PROVE BuildInv'
<1>1. /\ pc = "modules" /\ f \in forksLeft /\ next \in 1..Len(input.infos)
      /\ Len(input.infos) \in Nat /\ next \in Nat /\ input' = input
  <2>1. pc = "modules" /\ f \in forksLeft /\ input' = input
    BY DEF addFork
  <2>2. forksLeft # {}
    BY <2>1
  <2>3. input \in Inputs /\ next \in Nat \ {0}
    BY DEF BuildInv
  <2>4. next <= Len(input.infos)
    BY <2>1, <2>2 DEF BuildInv
  <2>5. Len(input.infos) \in Nat
    BY <2>3, InputTypes
  <2>6. next \in 1..Len(input.infos)
    BY <2>3, <2>4, <2>5
  <2> QED
    BY <2>1, <2>3, <2>5, <2>6
<1>2. \A k : /\ (Sound(k))' <=> Sound(k)
             /\ (Supported(k))' <=> Supported(k)
             /\ (Basics(k))' <=> Basics(k)
             /\ (ForksOf(k))' = ForksOf(k)
             /\ (ConfigOf(k))' = ConfigOf(k)
  BY <1>1, SameInput
<1>3. CASE Outcome(next, f) # "ok"
  <2>1. ~Sound(next)
    BY <1>1, <1>3, FailureHasCause DEF BuildInv
  <2>2. pc' \in {"failed", "panicked"} /\ next' = next
    BY <1>1, <1>3, OutcomeCases DEF addFork, BuildInv
  <2> QED
    BY <1>1, <1>2, <2>1, <2>2 DEF BuildInv, BuildsAllOrNothing
<1>4. CASE Outcome(next, f) = "ok"
  <2>1. ConfigOf(next).forks[f].is # Null
    BY <1>1, <1>4, OutcomeCases, ForkNamed DEF BuildInv
  <2>2. /\ pc' = "modules" /\ forksLeft' = forksLeft \ {f}
        /\ next' = IF forksLeft = {f} THEN next + 1 ELSE next
    BY <1>1, <1>4 DEF addFork
  <2>3. CASE forksLeft = {f}
    <3>1. Sound(next)
      BY <1>1, <2>1, <2>3 DEF Sound, Basics, BuildInv
    <3>2. next' = next + 1 /\ pc' = "modules" /\ forksLeft' = {}
      BY <2>2, <2>3
    <3>3. \A k \in 1..(next' - 1) : (Sound(k))'
      <4>1. \A k \in 1..(next - 1) : Sound(k)
        BY <1>1 DEF BuildInv
      <4>2. \A k \in 1..(next' - 1) : k \in 1..(next - 1) \/ k = next
        BY <1>1, <3>2
      <4> QED
        BY <1>2, <3>1, <4>1, <4>2
    <3>4. input' \in Inputs /\ next' \in Nat \ {0} /\ next' <= Len(input'.infos) + 1
      BY <1>1, <3>2 DEF BuildInv
    <3> QED
      BY <3>2, <3>3, <3>4 DEF BuildInv, BuildsAllOrNothing
  <2>4. CASE forksLeft # {f}
    <3>1. next' = next
      BY <2>2, <2>4
    <3>2. /\ forksLeft' # {} /\ forksLeft' \subseteq ForksOf(next)
          /\ \A g \in ForksOf(next) \ forksLeft' : ConfigOf(next).forks[g].is # Null
      BY <1>1, <2>1, <2>2, <2>4 DEF BuildInv
    <3> QED
      BY <1>1, <1>2, <2>2, <3>1, <3>2 DEF BuildInv, BuildsAllOrNothing
  <2> QED
    BY <2>3, <2>4
<1> QED
  BY <1>3, <1>4

LEMMA BuildKeeps == ASSUME BuildInv, Build PROVE BuildInv'
<1>1. input \in Inputs /\ Len(input.infos) \in Nat
  BY InputTypes DEF BuildInv
<1>2. CASE Setup \/ SetupFails
  <2>1. UNCHANGED <<input, next, forksLeft, modules>> /\ next = 1 /\ forksLeft = {}
        /\ modules = <<>> /\ pc' \in {"logging", "etcd", "modules", "failed"}
    BY <1>2 DEF Setup, SetupFails, BuildInv
  <2> QED
    BY <1>1, <2>1 DEF BuildInv, BuildsAllOrNothing
<1>3. CASE Built
  <2>1. UNCHANGED <<input, next, forksLeft, modules>> /\ pc' = "built"
    BY <1>3 DEF Built
  <2>2. \A k \in 1..Len(input.infos) : Sound(k)
    BY <1>1, <1>3 DEF Built, BuildInv
  <2>3. \A k : (Sound(k))' <=> Sound(k)
    BY <2>1, SameInput
  <2> QED
    BY <1>1, <2>1, <2>2, <2>3 DEF BuildInv, BuildsAllOrNothing
<1> QED
  BY <1>2, <1>3, addModuleKeeps, addForkKeeps DEF Build
-----------------------------------------------------------------------------
(* An address that is registered under the lease of the session stays until that *)
(* lease ends; a module that serves has put its own.                        *)
RegisterInv ==
    /\ process \in Nat \ {0}
    /\ session \in {NoLease, process}
    /\ NoLease \notin leases
    /\ life \in {"building", "down"} => mstate = <<>>
    /\ session \in leases =>
        \A i \in DOMAIN mstate : mstate[i] = "serving" => Entry(i, session) \in store

LEMMA RegisterInvFound == RegisterInv => FoundWhileServing
  BY DEF RegisterInv, FoundWhileServing, Entry

(* The names and addresses of modules do not change while they are served. *)
LEMMA SameEntries ==
    ASSUME UNCHANGED <<input, modules, process, session>>
    PROVE  \A i : (Entry(i, session))' = Entry(i, session)
  BY DEF Entry, Name, NameOf, RegisterAddr, ListenAddr

LEMMA GotoEffect ==
    ASSUME NEW i \in DOMAIN mstate, NEW state, Goto(i, state)
    PROVE  /\ DOMAIN mstate' = DOMAIN mstate
           /\ \A j \in DOMAIN mstate : j # i => mstate'[j] = mstate[j]
           /\ mstate'[i] = state
  BY DEF Goto

LEMMA RegisterInvStep ==
    ASSUME RegisterInv, [Next]_vars
    PROVE  RegisterInv'
<1> USE DEF RegisterInv, NoLease
<1>1. CASE BuildStep
  BY <1>1 DEF BuildStep, processVars, etcdVars
<1>2. CASE Serve
  BY <1>2 DEF Serve
<1>3. CASE Return \/ Exit
  <2>1. UNCHANGED <<input, modules, process, session, leases, store>>
    BY <1>3 DEF Return, Exit, buildVars, etcdVars
  <2> QED
    BY <1>3, <2>1, SameEntries DEF Return, Exit
<1>4. CASE Restart
  BY <1>4 DEF Restart, etcdVars
<1>5. ASSUME NEW i \in DOMAIN mstate, Listen(i) \/ End(i)
      PROVE  RegisterInv'
  <2>1. UNCHANGED <<input, modules, process, life, session, leases, store>>
    BY <1>5 DEF Listen, End, buildVars, etcdVars
  <2>2. life \notin {"building", "down"}
    BY <1>5 DEF Listen, End, Running
  <2>3. Goto(i, "ended") \/ Goto(i, "listening")
    BY <1>5 DEF Listen, End
  <2>4. DOMAIN mstate' = DOMAIN mstate
        /\ \A j \in DOMAIN mstate : mstate'[j] = "serving" => mstate[j] = "serving"
    BY <2>3, GotoEffect
  <2> QED
    BY <2>1, <2>2, <2>4, SameEntries
<1>6. ASSUME NEW i \in DOMAIN mstate, Register(i)
      PROVE  RegisterInv'
  <2>1. UNCHANGED <<input, modules, process, life, session, leases>>
    BY <1>6 DEF Register, buildVars
  <2>2. life \notin {"building", "down"}
    BY <1>6 DEF Register, Running
  <2>3. CASE session \notin leases
    BY <2>1, <2>2, <2>3
  <2>4. CASE session \in leases
    <3>1. Goto(i, "serving") /\ Put(i)
      BY <1>6, <2>4 DEF Register
    <3>2. DOMAIN mstate' = DOMAIN mstate
          /\ \A j \in DOMAIN mstate : j # i => mstate'[j] = mstate[j]
      BY <3>1, GotoEffect
    <3>3. ASSUME NEW j \in DOMAIN mstate, Entry(j, session) \in store \/ j = i
          PROVE  Entry(j, session) \in store'
      <4>1. CASE Name(j) = Name(i) /\ RegisterAddr(j) = RegisterAddr(i)
        BY <3>1, <4>1 DEF Put, Entry
      <4>2. CASE ~ (Name(j) = Name(i) /\ RegisterAddr(j) = RegisterAddr(i))
        BY <3>1, <3>3, <4>2 DEF Put, Entry
      <4> QED
        BY <4>1, <4>2
    <3> QED
      BY <2>1, <2>2, <2>4, <3>2, <3>3, SameEntries
  <2> QED
    BY <2>3, <2>4
<1>7. ASSUME NEW p \in Processes, LeaseEnds(p)
      PROVE  RegisterInv'
  <2>1. UNCHANGED <<input, modules, process, life, session, mstate>>
    BY <1>7 DEF LeaseEnds, buildVars, processVars
  <2>2. leases' = leases \ {p} /\ store' = {e \in store : e.lease # p}
    BY <1>7 DEF LeaseEnds
  <2>3. \A i : Entry(i, session).lease = session
    BY DEF Entry
  <2> QED
    BY <2>1, <2>2, <2>3, SameEntries
<1>8. CASE UNCHANGED vars
  BY <1>8, SameEntries DEF vars, buildVars, processVars, etcdVars
<1> QED
  BY <1>1, <1>2, <1>3, <1>4, <1>5, <1>6, <1>7, <1>8 DEF Next
-----------------------------------------------------------------------------
(* The options of a module, for any number of them.                         *)

(* Induction, as a fact about a set. *)
LEMMA NatSet ==
    ASSUME NEW T, 0 \in T, \A k \in Nat : k \in T => k + 1 \in T
    PROVE  \A k \in Nat : k \in T
<1>1. SUFFICES ASSUME Nat \ T # {} PROVE FALSE
  OBVIOUS
<1>2. PICK x \in Nat \ T : \A y \in Nat \ T : ~ (<<y, x>> \in OpToRel(<, Nat))
  <2>1. Nat \ T \in SUBSET Nat
    OBVIOUS
  <2> QED
    BY <1>1, <2>1, WFMin, NatLessThanWellFounded
<1>3. ASSUME NEW y \in Nat \ T, y < x
      PROVE  FALSE
  <2>1. <<y, x>> \in OpToRel(<, Nat)
    BY <1>3, Zenon DEF OpToRel
  <2> QED
    BY <1>2, <2>1, Zenon
<1>4. x # 0 /\ x - 1 \in Nat /\ x - 1 \notin Nat \ T /\ (x - 1) + 1 = x
  BY <1>3
<1> QED
  BY <1>2, <1>4

After(info) ==
    CHOOSE after :
        after = [i \in 0..Len(info.options) |->
                    IF i = 0 THEN [moduleName |-> info.default, roles |-> {}]
                    ELSE Applied(info.options[i], after[i - 1])]

LEMMA OptionSteps ==
    ASSUME NEW info, Len(info.options) \in Nat
    PROVE  /\ moduleOptions(info) = After(info)[Len(info.options)]
           /\ After(info)[0] = [moduleName |-> info.default, roles |-> {}]
           /\ \A i \in 1..Len(info.options) :
                After(info)[i] = Applied(info.options[i], After(info)[i - 1])
<1> DEFINE n == Len(info.options)
           none == [moduleName |-> info.default, roles |-> {}]
           IsAfter(g, k) ==
               g = [i \in 0..k |-> IF i = 0 THEN none ELSE Applied(info.options[i], g[i - 1])]
           T == {k \in Nat : \E g : IsAfter(g, k)}
<1> HIDE DEF none
<1>1. 0 \in T
  <2>1. IsAfter([i \in 0..0 |-> none], 0)
    OBVIOUS
  <2> QED
    BY <2>1
<1>2. ASSUME NEW k \in Nat, k \in T
      PROVE  k + 1 \in T
  <2>1. PICK g : IsAfter(g, k)
    BY <1>2
  <2> DEFINE h == [i \in 0..(k + 1) |->
                      IF i = k + 1 THEN Applied(info.options[k + 1], g[k]) ELSE g[i]]
  <2>2. \A i \in 0..k : g[i] = IF i = 0 THEN none ELSE Applied(info.options[i], g[i - 1])
    BY <2>1
  <2>3. ASSUME NEW i \in 0..(k + 1), i # 0
        PROVE  h[i] = Applied(info.options[i], h[i - 1])
    <3>1. h[i - 1] = g[i - 1]
      BY <2>3
    <3>2. h[i] = IF i = k + 1 THEN Applied(info.options[k + 1], g[k]) ELSE g[i]
      OBVIOUS
    <3> HIDE DEF h
    <3>3. CASE i = k + 1
      <4>1. i - 1 = k
        BY <3>3
      <4> QED
        BY <3>1, <3>2, <3>3, <4>1, Zenon
    <3>4. CASE i # k + 1
      <4>1. i \in 0..k
        BY <3>4
      <4> QED
        BY <2>2, <2>3, <3>1, <3>2, <3>4, <4>1, Zenon
    <3> QED
      BY <3>3, <3>4
  <2>4. h[0] = none /\ h = [i \in 0..(k + 1) |-> h[i]]
    BY <2>2
  <2> HIDE DEF h
  <2>5. IsAfter(h, k + 1)
    BY <2>3, <2>4
  <2> QED
    BY <2>5
<1>3. n \in T
  <2> HIDE DEF T
  <2> QED
    BY <1>1, <1>2, NatSet
<1>4. IsAfter(After(info), n)
  BY <1>3 DEF After, none
<1>5. \A i \in 0..n :
        After(info)[i] = IF i = 0 THEN none ELSE Applied(info.options[i], After(info)[i - 1])
  BY <1>4
<1>6. moduleOptions(info) = After(info)[n]
  BY DEF moduleOptions, After
<1>7. 0 \in 0..n /\ \A i \in 1..n : i \in 0..n /\ i # 0
  OBVIOUS
<1> HIDE DEF n
<1>8. After(info)[0] = none
  BY <1>5, <1>7, Zenon
<1>9. \A i \in 1..n : After(info)[i] = Applied(info.options[i], After(info)[i - 1])
  BY <1>5, <1>7, Zenon
<1> QED
  BY <1>6, <1>8, <1>9, Zenon DEF none, n

(* The roles among options. *)
RolesIn(options) ==
    {o.arg : o \in {o \in Range(options) : o.option = "role"}} \ {""}

(* A module has a name, and the roles that its options give it. *)
LEMMA OptionsMeant ==
    ASSUME NEW info \in moduleInfos
    PROVE  /\ moduleOptions(info).moduleName \in ModuleNames
           /\ moduleOptions(info).roles = RolesIn(info.options)
<1> DEFINE n == Len(info.options)
           opts == info.options
           Upto(k) == {opts[i].arg : i \in {i \in 1..k : opts[i].option = "role"}} \ {""}
           Good(k) ==
               \E name \in ModuleNames : After(info)[k] = [moduleName |-> name, roles |-> Upto(k)]
           T == {k \in Nat : k <= n => Good(k)}
<1>1. /\ n \in Nat /\ info.default \in ModuleNames
      /\ \A i \in 1..n : opts[i] \in ModuleOptions
      /\ DOMAIN opts = 1..n
  BY DEF moduleInfos
<1>2. \A i \in 1..n : \/ opts[i].option = "name" /\ opts[i].arg \in ModuleNames
                      \/ opts[i].option = "role"
  BY <1>1 DEF ModuleOptions
<1>3. /\ moduleOptions(info) = After(info)[n]
      /\ After(info)[0] = [moduleName |-> info.default, roles |-> {}]
      /\ \A i \in 1..n : After(info)[i] = Applied(opts[i], After(info)[i - 1])
  BY <1>1, OptionSteps
<1> HIDE DEF n, opts
<1>4. 0 \in T
  <2>1. Upto(0) = {}
    OBVIOUS
  <2> QED
    BY <1>1, <1>3, <2>1
<1> HIDE DEF Upto, Good
<1>5. ASSUME NEW k \in Nat, k \in T
      PROVE  k + 1 \in T
  <2>1. SUFFICES ASSUME k + 1 <= n PROVE Good(k + 1)
    OBVIOUS
  <2>2. k + 1 \in 1..n /\ (k + 1) - 1 = k /\ k <= n
    BY <1>1, <2>1
  <2>3. Good(k)
    BY <1>5, <2>2
  <2>4. PICK name \in ModuleNames : After(info)[k] = [moduleName |-> name, roles |-> Upto(k)]
    BY <2>3 DEF Good
  <2> DEFINE x == opts[k + 1]
  <2>5. After(info)[k + 1] = Applied(x, [moduleName |-> name, roles |-> Upto(k)])
    BY <1>3, <2>2, <2>4
  <2>6. Upto(k + 1) = Upto(k) \cup (IF x.option = "role" THEN {x.arg} \ {""} ELSE {})
    <3>1. \A i \in 1..(k + 1) : i \in 1..k \/ i = k + 1
      OBVIOUS
    <3>2. 1..k \subseteq 1..(k + 1) /\ k + 1 \in 1..(k + 1)
      OBVIOUS
    <3> QED
      BY <3>1, <3>2 DEF Upto
  <2>7. (x.option = "name" /\ x.arg \in ModuleNames) \/ (x.option = "role" /\ x.option # "name")
    BY <1>2, <2>2
  <2> HIDE DEF x
  <2>8. CASE x.option = "name"
    <3>1. After(info)[k + 1] = [moduleName |-> x.arg, roles |-> Upto(k)]
      BY <2>5, <2>8 DEF Applied
    <3>2. Upto(k + 1) = Upto(k)
      BY <2>6, <2>8
    <3> QED
      BY <2>7, <2>8, <3>1, <3>2 DEF Good
  <2>9. CASE x.option = "role"
    <3>1. CASE x.arg = ""
      BY <2>4, <2>5, <2>6, <2>9, <3>1 DEF Applied, WithRole, Good
    <3>2. CASE x.arg # ""
      <4> DEFINE o == [moduleName |-> name, roles |-> Upto(k)]
      <4>1. Applied(x, o) = [o EXCEPT !.roles = @ \cup {x.arg}]
        BY <2>7, <2>9, <3>2, Zenon DEF Applied, WithRole
      <4>2. Applied(x, o) = [moduleName |-> name, roles |-> Upto(k) \cup {x.arg}]
        BY <4>1
      <4>3. Upto(k + 1) = Upto(k) \cup {x.arg}
        BY <2>6, <2>9, <3>2, Zenon
      <4> QED
        BY <2>4, <2>5, <4>2, <4>3, Zenon DEF Good
    <3> QED
      BY <3>1, <3>2
  <2> QED
    BY <2>7, <2>8, <2>9
<1> HIDE DEF T
<1>6. \A k \in Nat : k \in T
  BY <1>4, <1>5, NatSet
<1>7. Good(n)
  BY <1>1, <1>6 DEF T
<1>8. Upto(n) = RolesIn(opts)
  BY <1>1 DEF RolesIn, Range, Upto
<1>9. PICK name \in ModuleNames : After(info)[n] = [moduleName |-> name, roles |-> Upto(n)]
  BY <1>7, Zenon DEF Good
<1> QED
  BY <1>3, <1>8, <1>9 DEF opts
-----------------------------------------------------------------------------
(* Which modules there are.                                                 *)

AllForks == ForkNames \cup {NoFork}

(* What newHost has added when it is at module next. *)
Done(k, f) ==
    /\ k < next \/ (k = next /\ forksLeft # {} /\ f \notin forksLeft)
    /\ f \in Wanted(k)

Made ==
    \A i \in DOMAIN modules :
        /\ modules[i].info \in 1..Len(input.infos)
        /\ modules[i].fork \in AllForks
        /\ modules[i] = newHostedModule(modules[i].info, modules[i].fork)

Has(k, f) == \E i \in DOMAIN modules : modules[i].info = k /\ modules[i].fork = f

InOrder ==
    \A i, j \in DOMAIN modules : i < j =>
        /\ modules[i].info <= modules[j].info
        /\ modules[j].fork = NoFork => modules[i].info < modules[j].info
        /\ modules[i].info = modules[j].info => modules[i].fork # modules[j].fork

(* The modules are those that newHost has come to and the host wants, in order;  *)
(* if it has failed, at forks that do not decode, there may be one more.      *)
ModulesInv ==
    /\ modules \in Seq(hostedModules)
    /\ Made
    /\ pc # "failed" => \A k \in 1..Len(input.infos), f \in AllForks : Has(k, f) <=> Done(k, f)
    /\ InOrder
    /\ pc = "built" => next = Len(input.infos) + 1 /\ forksLeft = {}

LEMMA InputParts ==
    ASSUME input \in Inputs
    PROVE  /\ \A k \in 1..Len(input.infos) : input.infos[k] \in moduleInfos /\ k \in Nat
           /\ input.configs \in [ModuleNames -> ModuleConfigs]
<1>1. input.infos \in Seq(moduleInfos) /\ input.configs \in [ModuleNames -> ModuleConfigs]
  BY InputsAssumption DEF InputType
<1>2. \A k \in 1..Len(input.infos) : k \in Nat
  BY InputTypes
<1> QED
  BY <1>1, <1>2

(* The roles of the options decide what a builder's module is wanted for. *)
LEMMA WantedIs ==
    ASSUME input \in Inputs, NEW k \in 1..Len(input.infos)
    PROVE  Wanted(k) = IF Supported(k) THEN {NoFork} \cup ForksOf(k) ELSE {}
<1>1. input.infos[k] \in moduleInfos
  BY InputParts
<1>2. moduleOptions(input.infos[k]).roles = RolesIn(input.infos[k].options)
  BY <1>1, OptionsMeant
<1> DEFINE roles == RolesIn(input.infos[k].options)
<1>3. Wanted(k) = IF roles # {} /\ HostRoles # {} /\ roles \cap HostRoles = {} THEN {}
                  ELSE {NoFork} \cup ForksOf(k)
  BY Zenon DEF Wanted, RolesIn
<1>4. Supported(k) <=> HostRoles = {} \/ roles = {} \/ HostRoles \cap roles # {}
  BY <1>2, Zenon DEF Supported, Support
<1>5. HostRoles \cap roles = roles \cap HostRoles
  OBVIOUS
<1> HIDE DEF roles
<1> QED
  BY <1>3, <1>4, <1>5

(* What is read from the input does not change. *)
LEMMA SameWanted ==
    ASSUME UNCHANGED input
    PROVE  \A k : /\ (Wanted(k))' = Wanted(k)
                  /\ \A f : (newHostedModule(k, f))' = newHostedModule(k, f)
  BY DEF Wanted, HostRoles, ForksOf, ConfigOf, NameOf, newHostedModule, initModuleConfig

(* The fields of a hosted module. *)
LEMMA NewModule ==
    ASSUME NEW k, NEW f
    PROVE  newHostedModule(k, f).info = k /\ newHostedModule(k, f).fork = f
  BY DEF newHostedModule

(* What Append does. *)
LEMMA AppendIs ==
    ASSUME NEW S, NEW s, NEW x, s \in Seq(S), x \in S
    PROVE  /\ Append(s, x) \in Seq(S)
           /\ Len(s) \in Nat /\ DOMAIN s = 1..Len(s)
           /\ DOMAIN Append(s, x) = 1..(Len(s) + 1)
           /\ Append(s, x)[Len(s) + 1] = x
           /\ \A i \in 1..Len(s) : Append(s, x)[i] = s[i]
<1>1. Append(s, x) \in Seq(S) /\ Len(s) \in Nat /\ DOMAIN s = 1..Len(s)
  OBVIOUS
<1>2. Len(Append(s, x)) = Len(s) + 1 /\ Append(s, x)[Len(s) + 1] = x
  OBVIOUS
<1>3. \A i \in 1..Len(s) : Append(s, x)[i] = s[i]
  OBVIOUS
<1> QED
  BY <1>1, <1>2, <1>3

LEMMA AppendModule ==
    ASSUME NEW s \in Seq(hostedModules), NEW x \in hostedModules
    PROVE  /\ Append(s, x) \in Seq(hostedModules)
           /\ Len(s) \in Nat /\ DOMAIN s = 1..Len(s)
           /\ DOMAIN Append(s, x) = 1..(Len(s) + 1)
           /\ Append(s, x)[Len(s) + 1] = x
           /\ \A i \in 1..Len(s) : Append(s, x)[i] = s[i]
  BY AppendIs

LEMMA Places ==
    ASSUME NEW n \in Nat
    PROVE  /\ \A i \in 1..n : i \in 1..(n + 1)
           /\ n + 1 \in 1..(n + 1)
           /\ \A i \in 1..(n + 1) : i \in 1..n \/ i = n + 1
           /\ \A i, j \in 1..(n + 1) : i < j => i \in 1..n
  OBVIOUS

(* A module that is added behind those of the builder's modules before its own,  *)
(* or behind other modules of its own.                                      *)
LEMMA Added ==
    ASSUME ModulesInv, input \in Inputs, UNCHANGED input,
           NEW k \in 1..Len(input.infos), NEW f \in AllForks,
           newHostedModule(k, f) \in hostedModules,
           modules' = Append(modules, newHostedModule(k, f)),
           \A i \in DOMAIN modules :
              /\ modules[i].info <= k
              /\ f = NoFork => modules[i].info < k
              /\ modules[i].info = k => modules[i].fork # f
    PROVE  /\ modules' \in Seq(hostedModules)
           /\ Made'
           /\ InOrder'
           /\ \A l, g : Has(l, g)' <=> Has(l, g) \/ (l = k /\ g = f)
<1> DEFINE m == newHostedModule(k, f)
           n == Len(modules)
<1>1. modules \in Seq(hostedModules) /\ m \in hostedModules /\ modules' = Append(modules, m)
  BY Zenon DEF ModulesInv
<1> HIDE DEF m
<1>2. /\ n \in Nat /\ DOMAIN modules = 1..n
      /\ DOMAIN modules' = 1..(n + 1)
      /\ modules'[n + 1] = m
      /\ \A i \in 1..n : modules'[i] = modules[i] /\ i \in 1..(n + 1)
      /\ n + 1 \in 1..(n + 1)
      /\ \A i \in 1..(n + 1) : i \in 1..n \/ i = n + 1
      /\ modules' \in Seq(hostedModules)
  <2>1. /\ Append(modules, m) \in Seq(hostedModules)
        /\ n \in Nat /\ DOMAIN modules = 1..n
        /\ DOMAIN Append(modules, m) = 1..(n + 1)
        /\ Append(modules, m)[n + 1] = m
        /\ \A i \in 1..n : Append(modules, m)[i] = modules[i]
    <3> HIDE DEF n
    <3>1. modules \in Seq(hostedModules)
      BY <1>1
    <3>2. m \in hostedModules
      BY <1>1
    <3>3. /\ Append(modules, m) \in Seq(hostedModules)
          /\ Len(modules) \in Nat /\ DOMAIN modules = 1..Len(modules)
          /\ DOMAIN Append(modules, m) = 1..(Len(modules) + 1)
          /\ Append(modules, m)[Len(modules) + 1] = m
          /\ \A i \in 1..Len(modules) : Append(modules, m)[i] = modules[i]
      BY <3>1, <3>2, AppendModule, Zenon
    <3> QED
      BY <3>3, Zenon DEF n
  <2> HIDE DEF n
  <2> QED
    BY <1>1, <2>1, Places, Zenon
<1>3. m.info = k /\ m.fork = f
  BY NewModule DEF m
<1> HIDE DEF n
<1>4. Made'
  <2>1. \A l, g : (newHostedModule(l, g))' = newHostedModule(l, g)
    BY SameWanted
  <2>2. ASSUME NEW i \in DOMAIN modules'
        PROVE  /\ modules'[i].info \in 1..Len(input.infos)
               /\ modules'[i].fork \in AllForks
               /\ modules'[i] = newHostedModule(modules'[i].info, modules'[i].fork)
    <3>1. CASE i \in 1..n
      BY <1>1, <1>2, <3>1, Zenon DEF ModulesInv, Made
    <3>2. CASE i = n + 1
      BY <1>2, <1>3, <3>2, Zenon DEF m
    <3> QED
      BY <1>2, <2>2, <3>1, <3>2, Zenon
  <2>3. DOMAIN (modules') = (DOMAIN modules)' /\ AllForks' = AllForks
    BY DEF AllForks
  <2> QED
    BY <2>1, <2>2, <2>3, Zenon DEF Made
<1>5. InOrder'
  <2>1. SUFFICES ASSUME NEW i \in 1..(n + 1), NEW j \in 1..(n + 1), i < j
                 PROVE  /\ modules'[i].info <= modules'[j].info
                        /\ modules'[j].fork = NoFork => modules'[i].info < modules'[j].info
                        /\ modules'[i].info = modules'[j].info => modules'[i].fork # modules'[j].fork
    BY <1>2, Zenon DEF InOrder
  <2>2. i \in 1..n
    BY <1>2, <2>1, Places, Zenon
  <2>3. CASE j \in 1..n
    <3>1. modules'[i] = modules[i] /\ modules'[j] = modules[j]
      BY <1>2, <2>2, <2>3, Zenon
    <3>2. /\ modules[i].info <= modules[j].info
          /\ modules[j].fork = NoFork => modules[i].info < modules[j].info
          /\ modules[i].info = modules[j].info => modules[i].fork # modules[j].fork
      BY <1>2, <2>1, <2>2, <2>3, Zenon DEF ModulesInv, InOrder
    <3> QED
      BY <3>1, <3>2, Zenon
  <2>4. CASE j = n + 1
    <3>1. modules[i].info <= k /\ (f = NoFork => modules[i].info < k)
          /\ (modules[i].info = k => modules[i].fork # f)
      BY <1>2, <2>2, Zenon
    <3>2. modules'[i] = modules[i] /\ modules'[j].info = k /\ modules'[j].fork = f
      BY <1>2, <1>3, <2>2, <2>4, Zenon
    <3> QED
      BY <3>1, <3>2, Zenon
  <2> QED
    BY <1>2, <2>3, <2>4
<1>6. ASSUME NEW l, NEW g
      PROVE  Has(l, g)' <=> Has(l, g) \/ (l = k /\ g = f)
  BY <1>1, <1>2, <1>3, Zenon DEF Has
<1> QED
  BY <1>2, <1>4, <1>5, <1>6, Zenon
(* What there is to be read for a module that can be made. *)
LEMMA KeysThere ==
    ASSUME input \in Inputs, NEW k \in 1..Len(input.infos), NEW f \in AllForks,
           Basics(k), f # NoFork => f \in ForksOf(k) /\ ConfigOf(k).forks[f].is # Null
    PROVE  /\ ConfigOf(k).keys \in KeyValues
           /\ f # NoFork => ConfigOf(k).forks[f].keys \in KeyValues
<1>1. NameOf(k) \in ModuleNames
  BY InputParts, OptionsMeant DEF NameOf
<1>2. ConfigOf(k) \in ModuleConfigs
  <2>1. input.configs \in [ModuleNames -> ModuleConfigs]
    BY InputParts, Zenon
  <2> QED
    BY <1>1, <2>1, Zenon DEF ConfigOf
<1> DEFINE c == ConfigOf(k)
<1>3. c \in [is : {"map"}, keys : KeyValues, forks : [ForkNames -> ForkConfigs],
              decodes : BOOLEAN]
  BY <1>2 DEF ModuleConfigs, Basics
<1>4. ASSUME f # NoFork
      PROVE  c.forks[f].keys \in KeyValues
  <2>1. f \in ForkNames /\ c.forks[f].is # Absent /\ c.forks[f].is # Null
    BY <1>4, Zenon DEF ForksOf
  <2> HIDE DEF c
  <2>2. c.forks[f] \in ForkConfigs
    BY <1>3, <2>1
  <2> QED
    BY <2>1, <2>2 DEF ForkConfigs
<1> QED
  BY <1>3, <1>4

(* The configuration of a module or of a fork. *)
LEMMA ConfigMeant ==
    ASSUME input \in Inputs, NEW k \in 1..Len(input.infos), NEW f \in AllForks,
           Basics(k), f # NoFork => f \in ForksOf(k) /\ ConfigOf(k).forks[f].is # Null,
           NEW base, base = ConfigOf(k).keys,
           NEW own, own = IF f = NoFork THEN base ELSE ConfigOf(k).forks[f].keys
    PROVE  /\ initModuleConfig(k, f) \in KeyValues
           /\ \A key \in Keys :
                initModuleConfig(k, f)[key] =
                    CASE own[key] # Absent -> own[key]
                      [] own[key] = Absent /\ base[key] # Absent -> base[key]
                      [] OTHER -> IF key = "enable_tls" THEN NoTLS ELSE Absent
<1>1. base \in KeyValues /\ own \in KeyValues
  BY KeysThere
<1> DEFINE read == IF f = NoFork THEN base ELSE Inherited(own, base)
<1>2. initModuleConfig(k, f) = WithTLS(read)
  BY DEF initModuleConfig
<1>3. read \in KeyValues /\ \A key \in Keys : read[key] = IF own[key] = Absent THEN base[key] ELSE own[key]
  BY <1>1 DEF Inherited, KeyValues
<1> HIDE DEF read
<1>4. WithTLS(read) \in KeyValues
  BY <1>3 DEF WithTLS, KeyValues
<1>5. \A key \in Keys : WithTLS(read)[key] = IF key = "enable_tls" /\ read[key] = Absent THEN NoTLS
                                             ELSE read[key]
  BY <1>3 DEF WithTLS, KeyValues
<1> QED
  BY <1>2, <1>3, <1>4, <1>5

LEMMA ModuleTyped ==
    ASSUME input \in Inputs, NEW k \in 1..Len(input.infos), NEW f \in AllForks,
           Outcome(k, f) = "ok", f # NoFork => f \in ForksOf(k)
    PROVE  newHostedModule(k, f) \in hostedModules
<1>1. Basics(k) /\ (f # NoFork => ConfigOf(k).forks[f].is # Null)
  BY OutcomeCases DEF AllForks
<1>2. initModuleConfig(k, f) \in KeyValues
  BY <1>1, ConfigMeant
<1>3. k \in Nat
  BY InputParts, Zenon
<1> QED
  BY <1>2, <1>3 DEF newHostedModule, hostedModules, AllForks
-----------------------------------------------------------------------------
(* Where the modules are that newHost has added. *)
LEMMA Behind ==
    ASSUME ModulesInv, pc # "failed", NEW i \in DOMAIN modules
    PROVE  Done(modules[i].info, modules[i].fork)
<1>1. modules[i].info \in 1..Len(input.infos) /\ modules[i].fork \in AllForks
  BY Zenon DEF ModulesInv, Made
<1>2. Has(modules[i].info, modules[i].fork)
  BY Zenon DEF Has
<1>3. ASSUME NEW k \in 1..Len(input.infos), NEW f \in AllForks, Has(k, f)
      PROVE  Done(k, f)
  BY <1>3 DEF ModulesInv
<1> QED
  BY <1>1, <1>2, <1>3, Zenon

LEMMA ModulesStart ==
    ASSUME input \in Inputs, modules = <<>>, next = 1, forksLeft = {}, pc # "built"
    PROVE  ModulesInv
<1>1. DOMAIN modules = {} /\ modules \in Seq(hostedModules)
  OBVIOUS
<1>2. \A k \in 1..Len(input.infos), f \in AllForks : ~Done(k, f)
  BY InputTypes DEF Done
<1> QED
  BY <1>1, <1>2 DEF ModulesInv, Made, Has, InOrder

(* A step that adds no module and comes to no other one that the host wants. *)
LEMMA ModulesSame ==
    ASSUME ModulesInv, UNCHANGED <<input, modules>>,
           \A k \in 1..Len(input.infos), f \in AllForks : Done(k, f)' <=> Done(k, f),
           pc' = "built" => next' = Len(input.infos) + 1 /\ forksLeft' = {},
           pc = "failed" => pc' = "failed"
    PROVE  ModulesInv'
<1>1. /\ \A k : (Wanted(k))' = Wanted(k)
      /\ \A k, f : (newHostedModule(k, f))' = newHostedModule(k, f)
  BY SameWanted, Zenon
<1>2. Made'
  BY <1>1, Zenon DEF ModulesInv, Made
<1>3. InOrder'
  <2>1. InOrder
    BY Zenon DEF ModulesInv
  <2>2. modules' = modules
    OBVIOUS
  <2> QED
    BY <2>1, <2>2, Zenon DEF InOrder
<1>4. \A k, f : Has(k, f)' <=> Has(k, f)
  BY Zenon DEF Has
<1>5. modules' \in Seq(hostedModules)
  BY Zenon DEF ModulesInv
<1>6. pc' # "failed" => \A k \in 1..Len(input'.infos), f \in AllForks : Has(k, f)' <=> Done(k, f)'
  BY <1>4, Zenon DEF ModulesInv
<1> QED
  BY <1>2, <1>3, <1>5, <1>6, Zenon DEF ModulesInv

LEMMA addModuleModules ==
    ASSUME BuildInv, ModulesInv, addModule
    PROVE  ModulesInv'
<1>1. /\ pc = "modules" /\ forksLeft = {} /\ next \in 1..Len(input.infos)
      /\ next \in Nat /\ input \in Inputs /\ input' = input
      /\ \A k \in 1..Len(input.infos) : k \in Nat
  <2>1. /\ pc = "modules" /\ forksLeft = {} /\ next <= Len(input.infos) /\ input' = input
    BY DEF addModule, AtModule
  <2>2. input \in Inputs /\ next \in Nat \ {0}
    BY DEF BuildInv
  <2> QED
    BY <2>1, <2>2, InputTypes
<1>2. \A k : (Wanted(k))' = Wanted(k)
  BY <1>1, SameWanted
<1>3. Wanted(next) = IF Supported(next) THEN {NoFork} \cup ForksOf(next) ELSE {}
  BY <1>1, WantedIs
<1>4. ASSUME Outcome(next, NoFork) # "ok"
      PROVE  ModulesInv'
  <2>1. UNCHANGED <<input, modules, next, forksLeft>> /\ pc' \in {"failed", "panicked"}
    BY <1>1, <1>4, OutcomeCases DEF addModule
  <2>2. \A k, f : Done(k, f)' <=> Done(k, f)
    BY <1>2, <2>1 DEF Done
  <2> QED
    BY <1>1, <2>1, <2>2, ModulesSame
<1>5. ASSUME Outcome(next, NoFork) = "ok", ~Supported(next)
      PROVE  ModulesInv'
  <2>1. UNCHANGED <<input, modules, pc, forksLeft>> /\ next' = next + 1
    BY <1>1, <1>5 DEF addModule
  <2>2. \A k \in 1..Len(input.infos), f \in AllForks : Done(k, f)' <=> Done(k, f)
    BY <1>1, <1>2, <1>3, <1>5, <2>1 DEF Done
  <2> QED
    BY <1>1, <2>1, <2>2, ModulesSame
<1>6. ASSUME Outcome(next, NoFork) = "ok", Supported(next)
      PROVE  ModulesInv'
  <2>1. modules' = Append(modules, newHostedModule(next, NoFork))
    BY <1>6, Zenon DEF addModule, addSupported
  <2>2. ASSUME NEW i \in DOMAIN modules
        PROVE  modules[i].info <= next /\ modules[i].info < next
    <3>1. Done(modules[i].info, modules[i].fork)
      BY <1>1, Behind
    <3>2. modules[i].info \in Nat
      BY <1>1 DEF ModulesInv, Made
    <3> QED
      BY <1>1, <3>1, <3>2 DEF Done
  <2>3. newHostedModule(next, NoFork) \in hostedModules /\ NoFork \in AllForks
    BY <1>1, <1>6, ModuleTyped DEF AllForks
  <2>4. /\ modules' \in Seq(hostedModules)
        /\ Made' /\ InOrder'
        /\ \A l, g : Has(l, g)' <=> Has(l, g) \/ (l = next /\ g = NoFork)
    <3>1. \A i \in DOMAIN modules :
             /\ modules[i].info <= next /\ modules[i].info < next
             /\ modules[i].info = next => modules[i].fork # NoFork
      BY <1>1, <2>2
    <3> QED
      BY <1>1, <2>1, <2>3, <3>1, Added
  <2>5. CASE ~ConfigOf(next).decodes
    <3>1. pc' = "failed"
      BY <1>6, <2>5, Zenon DEF addModule, addSupported
    <3> QED
      BY <2>4, <3>1, Zenon DEF ModulesInv
  <2>6. CASE ConfigOf(next).decodes
    <3>1. /\ UNCHANGED <<input, pc>>
          /\ forksLeft' = ForksOf(next)
          /\ next' = IF ForksOf(next) = {} THEN next + 1 ELSE next
      BY <1>1, <1>6, <2>6, Zenon DEF addModule, addSupported
    <3>2. ASSUME NEW k \in 1..Len(input.infos), NEW f \in AllForks
          PROVE  Done(k, f)' <=> Done(k, f) \/ (k = next /\ f = NoFork)
      <4>1. NoFork \notin ForksOf(next)
        BY ForkNamed DEF ForksOf
      <4>2. CASE ForksOf(next) = {}
        BY <1>1, <1>2, <1>3, <1>6, <3>1, <4>2 DEF Done
      <4>3. CASE ForksOf(next) # {}
        BY <1>1, <1>2, <1>3, <1>6, <3>1, <4>1, <4>3 DEF Done
      <4> QED
        BY <4>2, <4>3
    <3>3. pc # "failed" /\ pc' # "built"
      BY <1>1, <3>1
    <3>4. \A k \in 1..Len(input'.infos), f \in AllForks : Has(k, f)' <=> Done(k, f)'
      BY <2>4, <3>1, <3>2, <3>3, Zenon DEF ModulesInv
    <3> QED
      BY <2>4, <3>3, <3>4, Zenon DEF ModulesInv
  <2> QED
    BY <2>5, <2>6
<1> QED
  BY <1>4, <1>5, <1>6

LEMMA addForkModules ==
    ASSUME BuildInv, ModulesInv, NEW f \in ForkNames, addFork(f)
    PROVE  ModulesInv'
<1>1. /\ pc = "modules" /\ f \in forksLeft /\ next \in 1..Len(input.infos)
      /\ next \in Nat /\ input \in Inputs /\ input' = input
      /\ Supported(next) /\ forksLeft \subseteq ForksOf(next)
      /\ f \in AllForks /\ f # NoFork
      /\ \A k \in 1..Len(input.infos) : k \in Nat
  <2>1. pc = "modules" /\ f \in forksLeft /\ input' = input
    BY DEF addFork
  <2>2. /\ input \in Inputs /\ next \in Nat \ {0} /\ next <= Len(input.infos)
        /\ Supported(next) /\ forksLeft \subseteq ForksOf(next)
    BY <2>1 DEF BuildInv
  <2> QED
    BY <2>1, <2>2, InputTypes, ForkNamed DEF AllForks
<1>2. \A k : (Wanted(k))' = Wanted(k)
  BY <1>1, SameWanted
<1>3. Wanted(next) = {NoFork} \cup ForksOf(next)
  BY <1>1, WantedIs
<1>4. ASSUME Outcome(next, f) # "ok"
      PROVE  ModulesInv'
  <2>1. UNCHANGED <<input, modules, next, forksLeft>> /\ pc' \in {"failed", "panicked"}
    BY <1>1, <1>4, OutcomeCases DEF addFork
  <2>2. \A k, g : Done(k, g)' <=> Done(k, g)
    BY <1>2, <2>1 DEF Done
  <2> QED
    BY <1>1, <2>1, <2>2, ModulesSame
<1>5. ASSUME Outcome(next, f) = "ok"
      PROVE  ModulesInv'
  <2>1. /\ UNCHANGED <<input, pc>>
        /\ modules' = Append(modules, newHostedModule(next, f))
        /\ forksLeft' = forksLeft \ {f}
        /\ next' = IF forksLeft = {f} THEN next + 1 ELSE next
    BY <1>1, <1>5, Zenon DEF addFork
  <2>2. ASSUME NEW i \in DOMAIN modules
        PROVE  modules[i].info <= next /\ (modules[i].info = next => modules[i].fork # f)
    <3>1. Done(modules[i].info, modules[i].fork)
      BY <1>1, Behind
    <3>2. modules[i].info \in Nat
      BY <1>1 DEF ModulesInv, Made
    <3> QED
      BY <1>1, <3>1, <3>2 DEF Done
  <2>3. newHostedModule(next, f) \in hostedModules
    BY <1>1, <1>5, ModuleTyped
  <2>4. /\ modules' \in Seq(hostedModules)
        /\ Made' /\ InOrder'
        /\ \A l, g : Has(l, g)' <=> Has(l, g) \/ (l = next /\ g = f)
    <3>1. \A i \in DOMAIN modules :
             /\ modules[i].info <= next /\ (f = NoFork => modules[i].info < next)
             /\ modules[i].info = next => modules[i].fork # f
      BY <1>1, <2>2
    <3> QED
      BY <1>1, <2>1, <2>3, <3>1, Added
  <2>5. ASSUME NEW k \in 1..Len(input.infos), NEW g \in AllForks
        PROVE  Done(k, g)' <=> Done(k, g) \/ (k = next /\ g = f)
    <3>1. CASE forksLeft = {f}
      BY <1>1, <1>2, <1>3, <2>1, <3>1 DEF Done
    <3>2. CASE forksLeft # {f}
      BY <1>1, <1>2, <1>3, <2>1, <3>2 DEF Done
    <3> QED
      BY <3>1, <3>2
  <2>6. pc # "failed" /\ pc' # "built"
    BY <1>1, <2>1
  <2>7. \A k \in 1..Len(input'.infos), g \in AllForks : Has(k, g)' <=> Done(k, g)'
    BY <2>1, <2>4, <2>5, <2>6, Zenon DEF ModulesInv
  <2> QED
    BY <2>4, <2>6, <2>7, Zenon DEF ModulesInv
<1> QED
  BY <1>4, <1>5

(* Until it is told otherwise by Restart, the host is built in the order of its   *)
(* builder.                                                                 *)
LEMMA ModulesInvStep ==
    ASSUME BuildInv, ModulesInv, [Next]_vars
    PROVE  ModulesInv'
<1> USE DEF BuildInv
<1>1. CASE BuildStep
  <2>1. CASE addModule
    BY <2>1, addModuleModules
  <2>2. ASSUME NEW f \in ForkNames, addFork(f)
        PROVE  ModulesInv'
    BY <2>2, addForkModules
  <2>3. ASSUME Setup \/ SetupFails
        PROVE  ModulesInv'
    <3>1. UNCHANGED <<input, modules, next, forksLeft>> /\ pc' # "built" /\ pc # "failed"
      BY <2>3 DEF Setup, SetupFails
    <3>2. \A k, f : Done(k, f)' <=> Done(k, f)
      BY <3>1, SameWanted DEF Done
    <3> QED
      BY <3>1, <3>2, ModulesSame
  <2>4. ASSUME Built
        PROVE  ModulesInv'
    <3>1. UNCHANGED <<input, modules, next, forksLeft>> /\ pc = "modules" /\ next > Len(input.infos)
      BY <2>4 DEF Built
    <3>2. \A k, f : Done(k, f)' <=> Done(k, f)
      BY <3>1, SameWanted DEF Done
    <3>3. next' = Len(input.infos) + 1 /\ forksLeft' = {}
      BY <3>1, InputTypes
    <3> QED
      BY <3>1, <3>2, <3>3, ModulesSame
  <2> QED
    BY <1>1, <2>1, <2>2, <2>3, <2>4 DEF BuildStep, Build
<1>2. CASE Restart
  <2>1. (input \in Inputs /\ modules = <<>> /\ next = 1 /\ forksLeft = {} /\ pc # "built")'
    BY <1>2 DEF Restart
  <2>2. (input \in Inputs /\ modules = <<>> /\ next = 1 /\ forksLeft = {} /\ pc # "built" => ModulesInv)'
    BY ModulesStart, PTL
  <2> QED
    BY <2>1, <2>2, Zenon
<1>3. CASE UNCHANGED buildVars
  <2>1. UNCHANGED <<input, pc, next, forksLeft, modules>>
    BY <1>3 DEF buildVars
  <2>2. \A k, f : Done(k, f)' <=> Done(k, f)
    BY <2>1, SameWanted DEF Done
  <2>3. pc' = "built" => next' = Len(input.infos) + 1 /\ forksLeft' = {}
    BY <2>1 DEF ModulesInv
  <2> QED
    BY <2>1, <2>2, <2>3, ModulesSame
<1> QED
  BY <1>1, <1>2, <1>3 DEF Next, vars, Serve, Return, Exit, Listen, Register, End, LeaseEnds

(* When newHost is done, all that is wanted is there, once. *)
LEMMA ServedWhenBuilt ==
    ASSUME BuildInv, ModulesInv, pc = "built"
    PROVE  ServedAsConfigured
<1>1. /\ input \in Inputs /\ next = Len(input.infos) + 1 /\ forksLeft = {}
      /\ \A k \in 1..Len(input.infos) : Sound(k)
      /\ \A k \in 1..Len(input.infos) : k \in Nat /\ k < next
  <2>1. /\ input \in Inputs /\ next = Len(input.infos) + 1 /\ forksLeft = {}
        /\ \A k \in 1..Len(input.infos) : Sound(k)
    BY DEF BuildInv, ModulesInv, BuildsAllOrNothing
  <2> QED
    BY <2>1, InputTypes
<1>2. ASSUME NEW k \in 1..Len(input.infos), NEW f \in AllForks
      PROVE  Has(k, f) <=> f \in Wanted(k)
  BY <1>1 DEF ModulesInv, Done
<1> DEFINE Those(k, f) == {i \in DOMAIN modules : modules[i].info = k /\ modules[i].fork = f}
<1>3. ASSUME NEW k \in 1..Len(input.infos), NEW f \in AllForks
      PROVE  Cardinality(Those(k, f)) = IF f \in Wanted(k) THEN 1 ELSE 0
  <2>1. ASSUME NEW i \in Those(k, f), NEW j \in Those(k, f)
        PROVE  i = j
    <3>1. i \in Nat /\ j \in Nat
      BY DEF ModulesInv
    <3>2. ~(i < j) /\ ~(j < i)
      BY <2>1, Zenon DEF ModulesInv, InOrder
    <3> QED
      BY <3>1, <3>2
  <2>2. CASE f \in Wanted(k)
    <3>1. PICK i \in DOMAIN modules : modules[i].info = k /\ modules[i].fork = f
      BY <1>2, <2>2, Zenon DEF Has
    <3>2. Those(k, f) = {i}
      BY <2>1, <3>1
    <3> HIDE DEF Those
    <3> QED
      BY <2>2, <3>2, FS_Singleton
  <2>3. CASE f \notin Wanted(k)
    <3>1. Those(k, f) = {}
      BY <1>2, <2>3 DEF Has
    <3> HIDE DEF Those
    <3> QED
      BY <2>3, <3>1, FS_EmptySet
  <2> QED
    BY <2>2, <2>3
<1>4. ASSUME NEW i \in DOMAIN modules
      PROVE  LET m == modules[i]
                 base == ConfigOf(m.info).keys
                 own == IF m.fork = NoFork THEN base ELSE ConfigOf(m.info).forks[m.fork].keys
             IN \A key \in Keys :
                  m.config[key] = CASE own[key] # Absent -> own[key]
                                    [] own[key] = Absent /\ base[key] # Absent -> base[key]
                                    [] OTHER -> IF key = "enable_tls" THEN NoTLS ELSE Absent
  <2> DEFINE k == modules[i].info
             f == modules[i].fork
             base == ConfigOf(k).keys
             own == IF f = NoFork THEN base ELSE ConfigOf(k).forks[f].keys
  <2>1. /\ k \in 1..Len(input.infos) /\ f \in AllForks
        /\ modules[i] = newHostedModule(k, f)
    BY Zenon DEF ModulesInv, Made
  <2>2. modules[i].config = initModuleConfig(k, f)
    BY <2>1 DEF newHostedModule
  <2>3. Has(k, f)
    BY Zenon DEF Has
  <2> HIDE DEF k, f
  <2>4. f \in Wanted(k) /\ Sound(k)
    BY <1>1, <1>2, <2>1, <2>3
  <2>5. Supported(k) /\ (f # NoFork => f \in ForksOf(k))
    BY <1>1, <2>1, <2>4, WantedIs
  <2>6. Basics(k) /\ (f # NoFork => f \in ForksOf(k) /\ ConfigOf(k).forks[f].is # Null)
    BY <2>4, <2>5 DEF Sound, Basics
  <2>7. \A key \in Keys :
           initModuleConfig(k, f)[key] = CASE own[key] # Absent -> own[key]
                                           [] own[key] = Absent /\ base[key] # Absent -> base[key]
                                           [] OTHER -> IF key = "enable_tls" THEN NoTLS ELSE Absent
    <3> HIDE DEF base, own
    <3>1. base = ConfigOf(k).keys /\ own = IF f = NoFork THEN base ELSE ConfigOf(k).forks[f].keys
      BY Zenon DEF base, own
    <3> QED
      BY <1>1, <2>1, <2>6, <3>1, ConfigMeant
  <2> QED
    BY <2>2, <2>7, Zenon DEF k, f
<1>5. \A i, j \in DOMAIN modules : i < j =>
         /\ modules[i].info <= modules[j].info
         /\ modules[j].fork = NoFork => modules[i].info < modules[j].info
  BY Zenon DEF ModulesInv, InOrder
<1> QED
  BY <1>3, <1>4, <1>5, Zenon DEF ServedAsConfigured, AllForks
-----------------------------------------------------------------------------
LEMMA BuildInvStep ==
    ASSUME BuildInv, [Next]_vars
    PROVE  BuildInv'
<1>1. CASE BuildStep
  BY <1>1, BuildKeeps DEF BuildStep
<1>2. CASE Restart
  <2>1. input' = input /\ pc' = "config" /\ next' = 1 /\ forksLeft' = {} /\ modules' = <<>>
    BY <1>2 DEF Restart
  <2>2. input \in Inputs /\ Len(input.infos) \in Nat
    BY InputTypes DEF BuildInv
  <2> QED
    BY <2>1, <2>2 DEF BuildInv, BuildsAllOrNothing
<1>3. CASE UNCHANGED buildVars
  <2>1. UNCHANGED <<input, pc, next, forksLeft, modules>>
    BY <1>3 DEF buildVars
  <2> QED
    BY <2>1 DEF BuildInv, BuildsAllOrNothing, Sound, Supported, HostRoles, ForksOf, ConfigOf,
                NameOf, Basics
<1> QED
  BY <1>1, <1>2, <1>3 DEF Next, vars, Serve, Return, Exit, Listen, Register, End, LeaseEnds
-----------------------------------------------------------------------------
(* The types of HostRegister, and whose an address is.                      *)

(* What newHost leaves to do for a module is a set of its forks. *)
LEMMA BuildTyped ==
    ASSUME BuildInv, BuildTypeOK, Build
    PROVE  /\ pc' \in {"config", "logging", "etcd", "modules"} \cup Ended
           /\ forksLeft' \subseteq ForkNames
<1>1. CASE Setup \/ SetupFails \/ Built
  BY <1>1 DEF Setup, SetupFails, Built, BuildTypeOK, Ended
<1>2. CASE addModule
  <2>1. next \in 1..Len(input.infos) /\ input \in Inputs
    BY <1>2, InputTypes DEF addModule, AtModule, BuildInv
  <2>2. Outcome(next, NoFork) \in {"ok", "failed", "panicked"}
    BY <2>1, OutcomeCases
  <2>3. ForksOf(next) \subseteq ForkNames
    BY DEF ForksOf
  <2> QED
    BY <1>2, <2>2, <2>3 DEF addModule, addSupported, BuildTypeOK, Ended
<1>3. ASSUME NEW f \in ForkNames, addFork(f)
      PROVE  /\ pc' \in {"config", "logging", "etcd", "modules"} \cup Ended
             /\ forksLeft' \subseteq ForkNames
  <2>1. next \in 1..Len(input.infos) /\ input \in Inputs
    <3>1. pc = "modules" /\ forksLeft # {}
      BY <1>3 DEF addFork
    <3> QED
      BY <3>1, InputTypes DEF BuildInv
  <2>2. Outcome(next, f) \in {"ok", "failed", "panicked"}
    BY <2>1, OutcomeCases
  <2> QED
    BY <1>3, <2>2 DEF addFork, BuildTypeOK, Ended
<1> QED
  BY <1>1, <1>2, <1>3 DEF Build

LEMMA BuildTypeStep ==
    ASSUME BuildInv, BuildInv', ModulesInv', BuildTypeOK, [Next]_vars
    PROVE  BuildTypeOK'
<1>1. /\ pc' \in {"config", "logging", "etcd", "modules"} \cup Ended
      /\ forksLeft' \subseteq ForkNames
  <2>1. CASE BuildStep
    BY <2>1, BuildTyped DEF BuildStep
  <2>2. CASE Restart
    BY <2>2 DEF Restart
  <2>3. CASE UNCHANGED buildVars
    BY <2>3 DEF buildVars, BuildTypeOK
  <2> QED
    BY <2>1, <2>2, <2>3 DEF Next, vars, Serve, Return, Exit, Listen, Register, End, LeaseEnds
<1>2. input' \in Inputs /\ modules' \in Seq(hostedModules)
  BY DEF BuildInv, ModulesInv
<1>3. next' \in 1..(Len(input'.infos) + 1)
  <2>1. next' \in Nat \ {0} /\ next' <= Len(input'.infos) + 1
    BY DEF BuildInv
  <2>2. Len(input'.infos) \in Nat
    <3>1. input' = input
      BY DEF Next, vars, buildVars, BuildStep, Build, Setup, SetupFails, addModule, addSupported, addFork,
             Built, Serve,
             Return, Exit, Restart, Listen, Register, End, LeaseEnds
    <3> QED
      BY <3>1, InputTypes DEF BuildInv
  <2> QED
    BY <2>1, <2>2
<1> QED
  BY <1>1, <1>2, <1>3 DEF BuildTypeOK

(* An address is in etcd under a lease that lives, that of the process that put it there. *)
Leased == \A e \in store : e.by = e.lease /\ e.lease \in leases

(* The part of TypeOK that is about processes and etcd. *)
ProcessTypeOK ==
    /\ process \in Processes
    /\ life \in {"building", "serving", "returned", "down"}
    /\ session \in {NoLease, process}
    /\ mstate \in [DOMAIN modules -> MStates] \cup {<<>>}
    /\ leases \subseteq Processes

Entries == [name : ModuleNames, addr : Values \cup {Absent, NoTLS}, lease : Processes, by : Processes]

StoreInv ==
    /\ store \subseteq Entries
    /\ Leased
    /\ \A d, e \in store : d.name = e.name /\ d.addr = e.addr => d = e

LEMMA ProcessTypeStep ==
    ASSUME RegisterInv, ProcessTypeOK, [Next]_vars
    PROVE  ProcessTypeOK'
<1> USE DEF ProcessTypeOK
<1>1. CASE BuildStep
  <2>1. mstate = <<>> /\ UNCHANGED <<process, life, session, mstate, leases>>
    BY <1>1 DEF BuildStep, RegisterInv, processVars, etcdVars
  <2> QED
    BY <2>1
<1>2. CASE Serve
  <2>1. UNCHANGED <<modules, process>> /\ life' = "serving"
        /\ mstate' = [i \in DOMAIN modules |-> "spawned"]
        /\ session' \in {session, process} /\ leases' \subseteq leases \cup {process}
    BY <1>2 DEF Serve, buildVars
  <2> QED
    BY <2>1 DEF MStates
<1>3. CASE Return \/ Exit
  <2>1. UNCHANGED <<modules, process, session, leases>> /\ life' \in {"returned", "down"}
        /\ mstate' \in {mstate, <<>>}
    BY <1>3 DEF Return, Exit, buildVars, etcdVars
  <2> QED
    BY <2>1
<1>4. CASE Restart
  <2>1. process \in Nat /\ process < MaxProcesses /\ process' = process + 1 /\ life' = "building"
        /\ session' = NoLease /\ mstate' = <<>> /\ UNCHANGED leases
    BY <1>4 DEF Restart, RegisterInv, etcdVars
  <2>2. process' \in Processes
    BY <2>1, MaxProcessesAssumption DEF Processes
  <2> QED
    BY <2>1, <2>2
<1>5. ASSUME NEW i \in DOMAIN mstate, Listen(i) \/ Register(i) \/ End(i)
      PROVE  ProcessTypeOK'
  <2>1. UNCHANGED <<modules, process, life, session, leases>>
    BY <1>5 DEF Listen, Register, End, buildVars, etcdVars
  <2>2. PICK state \in MStates : Goto(i, state)
    BY <1>5 DEF Listen, Register, End, MStates
  <2>3. mstate' \in [DOMAIN modules -> MStates]
    BY <2>2 DEF Goto
  <2> QED
    BY <2>1, <2>3
<1>6. ASSUME NEW p \in Processes, LeaseEnds(p)
      PROVE  ProcessTypeOK'
  BY <1>6 DEF LeaseEnds, buildVars, processVars
<1>7. CASE UNCHANGED vars
  BY <1>7 DEF vars, buildVars, processVars, etcdVars
<1> QED
  BY <1>1, <1>2, <1>3, <1>4, <1>5, <1>6, <1>7 DEF Next

LEMMA StoreStep ==
    ASSUME BuildInv, ModulesInv, RegisterInv, ProcessTypeOK, StoreInv, [Next]_vars
    PROVE  StoreInv'
<1>1. CASE UNCHANGED store /\ leases \subseteq leases'
  BY <1>1 DEF StoreInv, Leased
<1>2. ASSUME NEW p \in Processes, LeaseEnds(p)
      PROVE  StoreInv'
  BY <1>2 DEF StoreInv, Leased, LeaseEnds
<1>3. ASSUME NEW i \in DOMAIN mstate, Register(i), session \in leases, session # NoLease
      PROVE  StoreInv'
  <2>1. Put(i) /\ UNCHANGED leases
    BY <1>3 DEF Register
  <2>2. session = process /\ process \in Processes
    BY <1>3 DEF ProcessTypeOK
  <2>3. i \in DOMAIN modules
    BY <1>3 DEF ProcessTypeOK
  <2>4. modules[i].info \in 1..Len(input.infos) /\ modules[i] \in hostedModules
    BY <2>3 DEF ModulesInv, Made
  <2>5. Name(i) \in ModuleNames
    BY <2>4, InputParts, OptionsMeant DEF Name, NameOf, BuildInv
  <2>6. RegisterAddr(i) \in Values \cup {Absent, NoTLS}
    BY <2>4 DEF RegisterAddr, ListenAddr, hostedModules, KeyValues, Keys
  <2>7. Entry(i, session) \in Entries
    BY <2>2, <2>5, <2>6 DEF Entry, Entries
  <2>8. /\ Entry(i, session).by = session /\ Entry(i, session).lease = session
        /\ Entry(i, session).name = Name(i) /\ Entry(i, session).addr = RegisterAddr(i)
    BY <2>2 DEF Entry
  <2> QED
    BY <1>3, <2>1, <2>7, <2>8 DEF Put, StoreInv, Leased
<1> QED
  BY <1>1, <1>2, <1>3 DEF Next, BuildStep, Serve, Return, Exit, Restart, Listen, Register, End, vars,
     etcdVars, RegisterInv

(* Build succeeds only if nothing is wrong with any module of the builder, and     *)
(* panics, or fails behind the first module, only if something is (forks that do *)
(* not decode included), with any number of modules and forks, in any order.    *)
THEOREM AllOrNothing == Spec => []BuildsAllOrNothing
<1>1. Init => BuildInv
  BY BuildInvInit DEF Init
<1>2. BuildInv /\ [Next]_vars => BuildInv'
  BY BuildInvStep
<1>3. BuildInv => BuildsAllOrNothing
  BY DEF BuildInv
<1> QED
  BY <1>1, <1>2, <1>3, PTL DEF Spec

(* A host that is built serves just the modules that its roles allow and their     *)
(* forks, each once and with the right configuration, for any number of modules,  *)
(* options, roles and forks, whatever the order is that the forks are ranged over  *)
(* in, and also after a restart.                                            *)
THEOREM Served == Spec => []ServedAsConfigured
<1>1. Init => BuildInv /\ ModulesInv
  <2>1. ASSUME NEW x \in Inputs, BuildInit(x)
        PROVE  BuildInv /\ ModulesInv
    <3>1. input \in Inputs /\ modules = <<>> /\ next = 1 /\ forksLeft = {} /\ pc # "built"
      BY <2>1 DEF BuildInit
    <3> QED
      BY <2>1, <3>1, BuildInvInit, ModulesStart
  <2> QED
    BY <2>1 DEF Init
<1>2. BuildInv /\ ModulesInv /\ [Next]_vars => (BuildInv /\ ModulesInv)'
  BY BuildInvStep, ModulesInvStep
<1>3. BuildInv /\ ModulesInv => ServedAsConfigured
  BY ServedWhenBuilt DEF ServedAsConfigured
<1> QED
  BY <1>1, <1>2, <1>3, PTL DEF Spec

(* While a module serves and the lease of the session lives its address is in     *)
(* etcd, for any number of processes, leases that end late, and modules that    *)
(* share an address.                                                        *)
THEOREM Found == Spec => []FoundWhileServing
<1>1. Init => RegisterInv
  BY DEF Init, Start, RegisterInv, NoLease
<1>2. RegisterInv /\ [Next]_vars => RegisterInv'
  BY RegisterInvStep
<1>3. RegisterInv => FoundWhileServing
  BY RegisterInvFound
<1> QED
  BY <1>1, <1>2, <1>3, PTL DEF Spec

HostInv ==
    BuildInv /\ ModulesInv /\ RegisterInv /\ BuildTypeOK /\ ProcessTypeOK /\ StoreInv

LEMMA HostInvAlways == Spec => []HostInv
<1>1. Init => HostInv
  <2>1. SUFFICES ASSUME NEW x \in Inputs, BuildInit(x), Start(1), leases = {}, store = {}
                 PROVE  HostInv
    BY DEF Init
  <2>2. BuildInv
    BY <2>1, BuildInvInit
  <2>3. input \in Inputs /\ modules = <<>> /\ next = 1 /\ forksLeft = {} /\ pc = "config"
    BY <2>1 DEF BuildInit
  <2>4. ModulesInv
    BY <2>3, ModulesStart
  <2>5. RegisterInv
    BY <2>1 DEF Start, RegisterInv, NoLease
  <2>6. BuildTypeOK
    <3>1. next \in 1..(Len(input.infos) + 1)
      BY <2>3, InputTypes
    <3> QED
      BY <2>3, <3>1 DEF BuildTypeOK
  <2>7. ProcessTypeOK
    BY <2>1, MaxProcessesAssumption DEF Start, ProcessTypeOK, Processes
  <2>8. StoreInv
    BY <2>1 DEF StoreInv, Leased
  <2> QED
    BY <2>2, <2>4, <2>5, <2>6, <2>7, <2>8 DEF HostInv
<1>2. HostInv /\ [Next]_vars => HostInv'
  BY BuildInvStep, ModulesInvStep, RegisterInvStep, BuildTypeStep, ProcessTypeStep, StoreStep DEF HostInv
<1> QED
  BY <1>1, <1>2, PTL DEF Spec

(* The state of newHost, the processes and etcd is well typed, and etcd has one     *)
(* entry for an address of a service, for all builders and any number of        *)
(* processes.                                                               *)
THEOREM TypeCorrect == Spec => []TypeOK
<1>1. HostInv => TypeOK
  BY DEF HostInv, TypeOK, ProcessTypeOK, StoreInv, Leased, Entries
<1> QED
  BY <1>1, HostInvAlways, PTL

(* An address never outlives the lease of the process that put it into etcd        *)
(* (the safety half of AddressesLeave), and no process puts one under the lease of    *)
(* another, however processes, late registrations and leases interleave.       *)
THEOREM OwnLease == Spec => []Leased
<1>1. HostInv => Leased
  BY DEF HostInv, StoreInv
<1> QED
  BY <1>1, HostInvAlways, PTL
=============================================================================
