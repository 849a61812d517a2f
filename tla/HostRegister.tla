----------------------------- MODULE HostRegister ----------------------------
(***************************************************************************)
(* The life of a program's processes, one after the other on one machine: each *)
(* builds a host (HostBuild), makes an etcd session, serves its modules and      *)
(* registers them under the lease of the session (prepare and RegisterModule of *)
(* service/host.go, work.go:85-134), and ends, at any time.  Nothing in the code *)
(* closes the session or deletes an address.  etcd and its leases are external. *)
(***************************************************************************)
EXTENDS HostBuild, FiniteSets

CONSTANTS
    MaxProcesses    \* bound: processes of the program

ASSUME MaxProcessesAssumption == MaxProcesses \in Nat \ {0}

VARIABLES
    process,        \* the number of the current process
    life,           \* where it is
    session,        \* the lease of its session, NoLease if it has none
    mstate,         \* [DOMAIN modules -> MStates] where Serve of each module is
    leases,         \* etcd's leases
    store           \* etcd: the addresses, with their lease and who put them

processVars == <<process, life, session, mstate>>
etcdVars == <<leases, store>>
vars == <<buildVars, processVars, etcdVars>>

NoLease == 0
Processes == 1..MaxProcesses
MStates == {"spawned", "listening", "serving", "ended"}

TypeOK ==
    /\ BuildTypeOK
    /\ process \in Processes
    /\ life \in {"building", "serving", "returned", "down"}
    /\ session \in {NoLease, process}
    /\ mstate \in [DOMAIN modules -> MStates] \cup {<<>>}
    /\ leases \subseteq Processes
    /\ store \subseteq [name : ModuleNames, addr : Values \cup {Absent, NoTLS}, lease : Processes, by : Processes]
    /\ \A e \in store : e.lease \in leases
    /\ \A d, e \in store : d.name = e.name /\ d.addr = e.addr => d = e

Start(p) ==
    /\ process = p
    /\ life = "building"
    /\ session = NoLease
    /\ mstate = <<>>

Init ==
    /\ \E x \in Inputs : BuildInit(x)
    /\ Start(1)
    /\ leases = {}
    /\ store = {}
-----------------------------------------------------------------------------
(* The process.                                                             *)

BuildStep ==
    /\ life = "building"
    /\ Build
    /\ UNCHANGED <<processVars, etcdVars>>

(* prepare, and serveModule.  There is a session if etcd and its session are     *)
(* enabled (internal.IsETCDEnabled, IsETCDSessionEnabled).                  *)
Serve ==
    /\ life = "building"
    /\ pc = "built"
    /\ life' = "serving"
    /\ mstate' = [i \in DOMAIN modules |-> "spawned"]
    /\ \/ session' = process /\ leases' = leases \cup {process}
       \/ UNCHANGED <<session, leases>>
    /\ UNCHANGED <<buildVars, process, store>>

(* The host takes the error of a module or a signal, cancels the context of the   *)
(* modules, and Serve returns; modules may go on after that (HostServe).         *)
Return ==
    /\ life = "serving"
    /\ life' = "returned"
    /\ UNCHANGED <<buildVars, process, session, mstate, etcdVars>>

(* The program exits, or crashes, or the machine does. *)
Exit ==
    /\ life # "down"
    /\ life' = "down"
    /\ mstate' = <<>>
    /\ UNCHANGED <<buildVars, process, session, etcdVars>>

Restart ==
    /\ life = "down"
    /\ process < MaxProcesses
    /\ process' = process + 1
    /\ life' = "building"
    /\ session' = NoLease
    /\ pc' = "config"
    /\ next' = 1
    /\ forksLeft' = {}
    /\ modules' = <<>>
    /\ UNCHANGED <<input, mstate, etcdVars>>
-----------------------------------------------------------------------------
(* A module.                                                                *)

ListenAddr(i) == modules[i].config["listen_addr"]

RegisterAddr(i) ==
    IF modules[i].config["register_addr"] # Absent THEN modules[i].config["register_addr"]
    ELSE ListenAddr(i)

Name(i) == NameOf(modules[i].info)

Running == life \in {"serving", "returned"}

Goto(i, state) == mstate' = [mstate EXCEPT ![i] = state]

Taken(addr) ==
    \E j \in DOMAIN modules : mstate[j] \in {"listening", "serving"} /\ ListenAddr(j) = addr

(* net.Listen takes any free port if there is no address, and fails if another    *)
(* module has the address.                                                  *)
Listen(i) ==
    /\ Running
    /\ mstate[i] = "spawned"
    /\ Goto(i, IF ListenAddr(i) # Absent /\ Taken(ListenAddr(i)) THEN "ended" ELSE "listening")
    /\ UNCHANGED <<buildVars, process, life, session, etcdVars>>

Entry(i, lease) == [name |-> Name(i), addr |-> RegisterAddr(i), lease |-> lease, by |-> process]

(* Mutated Put: an address that is there is left as it is. *)
PutIfAbsent(i) ==
    store' = IF \E e \in store : e.name = Name(i) /\ e.addr = RegisterAddr(i) THEN store
             ELSE store \cup {Entry(i, session)}

(* Mutated Put: the lease is forgotten. *)
PutForever(i) ==
    store' = {e \in store : e.name # Name(i) \/ e.addr # RegisterAddr(i)}
                \cup {Entry(i, NoLease)}

(* EtcdResolver.Update: a Put with the lease, over what is there. *)
Put(i) ==
    store' = {e \in store : e.name # Name(i) \/ e.addr # RegisterAddr(i)}
                \cup {Entry(i, session)}

(* RegisterModule does nothing without a session.  It does not look at the       *)
(* context of the module, and with a lost lease it fails.                   *)
Register(i) ==
    /\ Running
    /\ mstate[i] = "listening"
    /\ IF session = NoLease THEN Goto(i, "serving") /\ UNCHANGED store
       ELSE IF session \in leases THEN Goto(i, "serving") /\ Put(i)
       ELSE Goto(i, "ended") /\ UNCHANGED store
    /\ UNCHANGED <<buildVars, process, life, session, leases>>

(* The module ends: its context is done, or it or its server fails.  Its address  *)
(* stays.                                                                   *)
End(i) ==
    /\ Running
    /\ mstate[i] # "ended"
    /\ Goto(i, "ended")
    /\ UNCHANGED <<buildVars, process, life, session, etcdVars>>
-----------------------------------------------------------------------------
(* etcd.  A lease ends some time after its process, or before: the keep-alive     *)
(* may not get through for as long as the TTL.  Nobody looks at session.Done(). *)
LeaseEnds(p) ==
    /\ p \in leases
    /\ leases' = leases \ {p}
    /\ store' = {e \in store : e.lease # p}
    /\ UNCHANGED <<buildVars, processVars>>

Dead(p) == p < process \/ (p = process /\ life = "down")

Next ==
    \/ BuildStep
    \/ Serve
    \/ Return
    \/ Exit
    \/ Restart
    \/ \E i \in DOMAIN mstate : Listen(i) \/ Register(i) \/ End(i)
    \/ \E p \in Processes : LeaseEnds(p)

Spec == Init /\ [][Next]_vars

(* Leases that nobody keeps alive end. *)
FairSpec == Spec /\ \A p \in Processes : WF_vars(Dead(p) /\ LeaseEnds(p))
-----------------------------------------------------------------------------
(* Properties.                                                              *)

(* "RegisterAddress is address others can find this module" (modules/      *)
(* config.go:6): while a module serves and the lease of its session lives, its address  *)
(* is in etcd, even if an earlier process had put it there and its lease ends   *)
(* only now.                                                                *)
FoundWhileServing ==
    session \in leases =>
        \A i \in DOMAIN mstate :
            mstate[i] = "serving" =>
                \E e \in store : e.name = Name(i) /\ e.addr = RegisterAddr(i)

(* A process that has ended, in whatever way and however late its modules        *)
(* registered, leaves no address behind for ever.                           *)
AddressesLeave ==
    \A p \in Processes : Dead(p) ~> \A e \in store : e.by # p
=============================================================================
