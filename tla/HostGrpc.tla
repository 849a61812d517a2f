------------------------------ MODULE HostGrpc -------------------------------
(***************************************************************************)
(* A host (HostServe) one of whose modules is a grpc module seen from inside  *)
(* (GrpcModule).  They share the context and the logger; what the host sees    *)
(* of the grpc module is mpc[Grpc], kept in step with its program counter.  The *)
(* other modules stay what HostServe says a module is.                      *)
(***************************************************************************)
EXTENDS HostServe, Sequences

CONSTANTS
    Grpc,           \* the grpc module among Modules
    Kinds,          \* bound: the kinds of handler looked at
    MaxCalls        \* bound: RPCs in progress at one time

ASSUME GrpcAssumption ==
    /\ Grpc \in Modules
    /\ Kinds \subseteq SUBSET {"server", "closer"}
    /\ MaxCalls \in Nat

VARIABLES
    gpc, kind, session, handlerPc, serverPc, stopperPc, errorc, result, gcancelled, calls, quit,
    conns, stopped, timedOut, closed

G == INSTANCE GrpcModule WITH pc <- gpc, cancelled <- gcancelled, hostCancelled <- cancelled

(* The grpc module's own state, but for the context it derives from the host's. *)
grpcVars == <<gpc, kind, session, handlerPc, serverPc, stopperPc, errorc, result, calls, quit,
              conns, stopped, timedOut, closed>>

systemVars == <<vars, grpcVars, gcancelled>>

(* The state of the grpc module's goroutine as the host sees it while it is in    *)
(* module.Serve.                                                            *)
Seen(gp) ==
    CASE gp = "create" -> "entered"
      [] gp \in {"handler", "config", "listen", "run", "register", "select"} -> "serving"
      [] gp \in {"shutdown", "stopping", "closing", "close", "join"} -> "stopping"
      [] gp \in G!Ended -> "failing"

SystemInit == Init /\ G!Init /\ kind \in Kinds
-----------------------------------------------------------------------------
HostPart ==
    /\ HostStep \/ Signal
    /\ gcancelled' = (gcancelled \/ cancelled')
    /\ UNCHANGED grpcVars

OtherPart(m) ==
    /\ m # Grpc
    /\ Routine(m) \/ ModuleReturns(m) \/ ModuleFails(m) \/ ModulePanics(m)
    /\ UNCHANGED <<grpcVars, gcancelled>>

(* The goroutine around module.Serve. *)
EntryPart ==
    /\ Start(Grpc) \/ Enter(Grpc) \/ Report(Grpc) \/ Leave(Grpc)
    /\ UNCHANGED <<grpcVars, gcancelled>>

(* module.Serve itself. *)
ServePart ==
    /\ mpc[Grpc] \in {"entered", "serving", "stopping"}
    /\ G!ModuleStep
    /\ mpc' = [mpc EXCEPT ![Grpc] = Seen(gpc')]
    /\ loggerPanics' = IF gpc' = "panicked" THEN loggerPanics \cup {Grpc} ELSE loggerPanics
    /\ UNCHANGED <<pc, by, present, running, woken, errors, notified, signals, crashed>>

(* Its goroutines and its clients, which may go on when it has ended.        *)
BackgroundPart ==
    /\ \/ G!HandlerStep
       \/ G!ServerStep
       \/ G!StopperStep
       \/ G!ListenerFails
       \/ G!StartCall
       \/ G!EndCall
    /\ UNCHANGED vars

SystemNext ==
    /\ ~crashed
    /\ \/ HostPart
       \/ \E m \in Modules : OtherPart(m)
       \/ EntryPart
       \/ ServePart
       \/ BackgroundPart

SystemSpec == SystemInit /\ [][SystemNext]_systemVars
-----------------------------------------------------------------------------
(* Properties.                                                              *)

(* A grpc module is what the host takes a module for: whatever it does, the      *)
(* host sees a behaviour of HostServe, where SignalWaits and CrashNeedsLate    *)
(* are proved for every set of modules.                                     *)
ImplementsHost == Spec

(* From the signal to the client: when host.Serve has returned after a signal    *)
(* that found the module's goroutine running, the module has ended without a   *)
(* panic and what NothingOutlivesServe says holds: the grpc server accepts     *)
(* nothing, the RPCs that were in progress have been answered or the graceful *)
(* stop timed out, and a handler was closed, once, unless Serve returned early. *)
SignalStopsServer ==
    pc = "returned" /\ by = "signal" /\ Grpc \in present =>
        /\ gpc = "returned"
        /\ G!NothingOutlivesServe
=============================================================================
