------------------------------ MODULE HostServe ------------------------------
(***************************************************************************)
(* host.Serve of service/host.go and the goroutines it starts, one for each   *)
(* module.  Host and goroutines share the context of the modules, the channel *)
(* errorc, the WaitGroup moduleRunnings and, without a lock, the field        *)
(* h.logger, which cleanup sets to nil.  What module.Serve does inside is in  *)
(* GrpcModule; here it is an interface: it asks the host for its logger when   *)
(* it starts, may do so again until it ends (modules/basework/work.go:66, 155  *)
(* and 174, and RegisterModule, host.go:303), and ends with nil, an error or a *)
(* panic.                                                                   *)
(***************************************************************************)
EXTENDS Naturals, FiniteSets

CONSTANTS
    Modules,        \* h.modules
    ErrorCap,       \* capacity of errorc, 128 in the code
    MaxSignals      \* bound: signals sent to the process

ASSUME HostAssumption ==
    /\ IsFiniteSet(Modules)
    /\ ErrorCap \in Nat \ {0}
    /\ MaxSignals \in Nat

VARIABLES
    pc,             \* where host.Serve is
    by,             \* history: what ended the select
    mpc,            \* [Modules -> MPCs] where the goroutine of a module is
    cancelled,      \* moduleContext is done
    running,        \* the counter of moduleRunnings
    woken,          \* the host's Wait has been woken
    errors,         \* number of errors in errorc
    notified,       \* signal.Notify has been called
    signals,        \* signals sent so far
    logger,         \* h.logger is not nil
    crashed,        \* a panic nobody recovers has ended the process
    present,        \* history: the modules that had called Add when the select ended
    loggerPanics    \* history: the modules whose Serve panicked on the nil logger

hostVars == <<pc, by, present>>
vars == <<pc, by, mpc, cancelled, running, woken, errors, notified, signals, logger, crashed,
          present, loggerPanics>>

PCs == {"prepare", "spawn", "select", "blocked", "signalled", "wait", "waiting", "cleanup",
        "returned"}
MPCs == {"none", "spawned", "named", "entered", "serving", "stopping", "failing", "leaving",
         "left"}

(* The goroutines between moduleRunnings.Add and Done, and those before it.  *)
Inside == {m \in Modules : mpc[m] \in {"entered", "serving", "stopping", "failing", "leaving"}}
Late == {m \in Modules : mpc[m] \in {"none", "spawned", "named"}}

TypeOK ==
    /\ pc \in PCs
    /\ by \in {"none", "failure", "signal", "error"}
    /\ mpc \in [Modules -> MPCs]
    /\ cancelled \in BOOLEAN
    /\ running = Cardinality(Inside)
    /\ woken \in BOOLEAN
    /\ errors \in 0..ErrorCap
    /\ notified \in BOOLEAN
    /\ signals \in 0..MaxSignals
    /\ logger \in BOOLEAN
    /\ crashed \in BOOLEAN
    /\ present \subseteq Modules
    /\ loggerPanics \subseteq Modules

Init ==
    /\ pc = "prepare"
    /\ by = "none"
    /\ mpc = [m \in Modules |-> "none"]
    /\ cancelled = FALSE
    /\ running = 0
    /\ woken = FALSE
    /\ errors = 0
    /\ notified = FALSE
    /\ signals = 0
    /\ logger = TRUE
    /\ crashed = FALSE
    /\ present = {}
    /\ loggerPanics = {}
-----------------------------------------------------------------------------
(* The host.                                                                *)

(* The configuration of the session, or etcd, may fail. *)
PrepareFails ==
    /\ pc = "prepare"
    /\ pc' = "cleanup"
    /\ by' = "failure"
    /\ UNCHANGED <<mpc, cancelled, running, woken, errors, notified, signals, logger, crashed,
                   present, loggerPanics>>

Prepare ==
    /\ pc = "prepare"
    /\ pc' = "spawn"
    /\ notified' = TRUE
    /\ UNCHANGED <<by, mpc, cancelled, running, woken, errors, signals, logger, crashed, present,
                   loggerPanics>>

serveModule ==
    /\ pc = "spawn"
    /\ pc' = "select"
    /\ mpc' = [m \in Modules |-> "spawned"]
    /\ UNCHANGED <<by, cancelled, running, woken, errors, notified, signals, logger, crashed,
                   present, loggerPanics>>

(* The select finds nothing to receive.  Only from here on is there a         *)
(* receiver for a signal.  Its third case, ctx.Done, cannot happen: ctx is    *)
(* cancelled by Serve alone, after the select.                              *)
Block ==
    /\ pc = "select"
    /\ errors = 0
    /\ pc' = "blocked"
    /\ UNCHANGED <<by, mpc, cancelled, running, woken, errors, notified, signals, logger,
                   crashed, present, loggerPanics>>

Selected(case) ==
    /\ by' = case
    /\ present' = Modules \ Late

TakeError ==
    /\ pc \in {"select", "blocked"}
    /\ errors > 0
    /\ errors' = errors - 1
    /\ Selected("error")
    /\ cancelled' = TRUE
    /\ pc' = "cleanup"
    /\ UNCHANGED <<mpc, running, woken, notified, signals, logger, crashed, loggerPanics>>

(* The runtime sends a signal without blocking to signalc, which has no       *)
(* buffer: it is dropped if the host is not blocked in its select.          *)
Signal ==
    /\ notified
    /\ signals < MaxSignals
    /\ signals' = signals + 1
    /\ IF pc = "blocked" /\ errors = 0
       THEN pc' = "signalled" /\ Selected("signal")
       ELSE UNCHANGED hostVars
    /\ UNCHANGED <<mpc, cancelled, running, woken, errors, notified, logger, crashed,
                   loggerPanics>>

(* Mutated Cancel: Wait is forgotten. *)
CancelOnly ==
    /\ pc = "signalled"
    /\ cancelled' = TRUE
    /\ pc' = "cleanup"
    /\ UNCHANGED <<by, mpc, running, woken, errors, notified, signals, logger, crashed, present,
                   loggerPanics>>

Cancel ==
    /\ pc = "signalled"
    /\ cancelled' = TRUE
    /\ pc' = "wait"
    /\ UNCHANGED <<by, mpc, running, woken, errors, notified, signals, logger, crashed, present,
                   loggerPanics>>

(* moduleRunnings.Wait. *)
Wait ==
    /\ pc = "wait"
    /\ pc' = IF running = 0 THEN "cleanup" ELSE "waiting"
    /\ UNCHANGED <<by, mpc, cancelled, running, woken, errors, notified, signals, logger,
                   crashed, present, loggerPanics>>

(* ... which panics if the WaitGroup is in use again when it wakes.  The       *)
(* deferred cleanup runs, and the process ends.                             *)
Wake ==
    /\ pc = "waiting"
    /\ woken
    /\ pc' = "cleanup"
    /\ crashed' = (running # 0)
    /\ UNCHANGED <<by, mpc, cancelled, running, woken, errors, notified, signals, logger, present,
                   loggerPanics>>

(* The deferred functions of Serve: cancel both contexts, and cleanup. *)
Cleanup ==
    /\ pc = "cleanup"
    /\ pc' = "returned"
    /\ cancelled' = TRUE
    /\ logger' = FALSE
    /\ UNCHANGED <<by, mpc, running, woken, errors, notified, signals, crashed, present,
                   loggerPanics>>
-----------------------------------------------------------------------------
(* The goroutine of a module.                                               *)

Goto(m, from, to) ==
    /\ mpc[m] = from
    /\ mpc' = [mpc EXCEPT ![m] = to]

(* It first reads h.logger; nothing has been deferred yet that would recover  *)
(* the panic on a nil logger.                                               *)
Start(m) ==
    /\ Goto(m, "spawned", "named")
    /\ crashed' = ~logger
    /\ UNCHANGED <<hostVars, cancelled, running, woken, errors, notified, signals, logger,
                   loggerPanics>>

(* moduleRunnings.Add, by the goroutine itself. *)
Enter(m) ==
    /\ Goto(m, "named", "entered")
    /\ running' = running + 1
    /\ UNCHANGED <<hostVars, cancelled, woken, errors, notified, signals, logger, crashed,
                   loggerPanics>>

(* Mutated AskLogger: the deferred function does not recover. *)
AskLoggerCrash(m, from, to) ==
    /\ crashed' = ~logger
    /\ Goto(m, from, IF logger THEN to ELSE "failing")
    /\ loggerPanics' = IF logger THEN loggerPanics ELSE loggerPanics \cup {m}

(* The module calls host.Logger().  On a nil logger it panics, and the panic   *)
(* ends its Serve.                                                          *)
AskLogger(m, from, to) ==
    /\ Goto(m, from, IF logger THEN to ELSE "failing")
    /\ loggerPanics' = IF logger THEN loggerPanics ELSE loggerPanics \cup {m}
    /\ UNCHANGED crashed

ModuleServe(m) ==
    /\ AskLogger(m, "entered", "serving")
    /\ UNCHANGED <<hostVars, cancelled, running, woken, errors, notified, signals, logger>>

(* The module ends by itself, without having anything to shut down ...       *)
ModuleReturns(m) ==
    /\ \E to \in {"leaving", "failing"} : Goto(m, "serving", to)
    /\ UNCHANGED <<hostVars, cancelled, running, woken, errors, notified, signals, logger,
                   crashed, loggerPanics>>

(* ... or shuts down, because of an error of its own ... *)
ModuleFails(m) ==
    /\ ~cancelled
    /\ Goto(m, "serving", "stopping")
    /\ UNCHANGED <<hostVars, cancelled, running, woken, errors, notified, signals, logger,
                   crashed, loggerPanics>>

(* ... or because its context is done. *)
ModuleObeys(m) ==
    /\ cancelled
    /\ Goto(m, "serving", "stopping")
    /\ UNCHANGED <<hostVars, cancelled, running, woken, errors, notified, signals, logger,
                   crashed, loggerPanics>>

(* The shutdown ends.  Serve returns the error, or that of the context.      *)
ModuleStops(m) ==
    /\ Goto(m, "stopping", "failing")
    /\ UNCHANGED <<hostVars, cancelled, running, woken, errors, notified, signals, logger,
                   crashed, loggerPanics>>

(* Once the host has no logger, a module that asks for it again panics.      *)
ModulePanics(m) ==
    /\ ~logger
    /\ \E from \in {"serving", "stopping"} : AskLogger(m, from, "failing")
    /\ UNCHANGED <<hostVars, cancelled, running, woken, errors, notified, signals, logger>>

(* Mutated nonblockingError: it blocks. *)
BlockingError == errors < ErrorCap /\ errors' = errors + 1

(* Mutated nonblockingError: the channel has no buffer. *)
UnbufferedError == errors' = IF pc = "blocked" THEN 1 ELSE errors

(* Mutated nonblockingError: the capacity is not looked at. *)
UnboundedError == errors' = errors + 1

(* nonblockingError: errorc takes the error, or it is dropped. *)
nonblockingError == errors' = IF errors < ErrorCap THEN errors + 1 ELSE errors

(* Also where a recovered panic is reported. *)
Report(m) ==
    /\ Goto(m, "failing", "leaving")
    /\ nonblockingError
    /\ UNCHANGED <<hostVars, cancelled, running, woken, notified, signals, logger, crashed,
                   loggerPanics>>

(* moduleRunnings.Done. *)
Leave(m) ==
    /\ Goto(m, "leaving", "left")
    /\ running' = running - 1
    /\ woken' = (woken \/ (running = 1 /\ pc = "waiting"))
    /\ UNCHANGED <<hostVars, cancelled, errors, notified, signals, logger, crashed, loggerPanics>>
-----------------------------------------------------------------------------
HostStep ==
    \/ PrepareFails
    \/ Prepare
    \/ serveModule
    \/ Block
    \/ TakeError
    \/ Cancel
    \/ Wait
    \/ Wake
    \/ Cleanup

(* What a goroutine does without being asked by the module's own logic. *)
Routine(m) ==
    \/ Start(m)
    \/ Enter(m)
    \/ ModuleServe(m)
    \/ ModuleObeys(m)
    \/ ModuleStops(m)
    \/ Report(m)
    \/ Leave(m)

Next ==
    /\ ~crashed
    /\ \/ HostStep
       \/ Signal
       \/ \E m \in Modules :
            \/ Routine(m)
            \/ ModuleReturns(m)
            \/ ModuleFails(m)
            \/ ModulePanics(m)

Spec == Init /\ [][Next]_vars

(* Goroutines are scheduled, and a module obeys its context (GrpcModule shows  *)
(* that the modules of modules/basework do).  Nothing says that a module ends  *)
(* by itself or that a signal is sent.                                      *)
FairSpec ==
    /\ Spec
    /\ WF_vars(~crashed /\ HostStep)
    /\ \A m \in Modules : WF_vars(~crashed /\ Routine(m))
-----------------------------------------------------------------------------
(* Properties.                                                              *)

(* After a signal, host.Serve goes on past Wait only when every module that    *)
(* was running when the signal came has ended its Serve, whatever other        *)
(* modules still start in the meantime (host.go:239-243); and each of them can *)
(* use the host's logger until it has, cleanup does not take it away before.   *)
SignalWaitsForPresent ==
    by = "signal" =>
        /\ pc \in {"cleanup", "returned"} => present \cap Inside = {}
        /\ present \cap loggerPanics = {}

(* The process only crashes if a module's goroutine was so late that it had    *)
(* not called Add when the select ended: no order of failures, panics and     *)
(* signals does it otherwise.                                               *)
CrashNeedsLateModule == crashed => present # Modules

(* No failure of a module is missed, even if errorc is full or a signal comes  *)
(* first, and no signal that has reached the select: Serve returns.          *)
ServeEnds ==
    (pc = "signalled" \/ \E m \in Modules : mpc[m] = "failing")
        ~> (pc = "returned" \/ crashed)

(* When Serve returns, on any path, every module ends in the end. *)
ModulesEnd == \A m \in Modules : pc = "returned" ~> (mpc[m] \in {"none", "left"} \/ crashed)

InServe == {m \in Modules : mpc[m] \in {"serving", "stopping"}}

(* "waiting modules exit" (host.go:251), logged before Serve returns: no module *)
(* is still in its Serve when host.Serve has returned.  After a failed module  *)
(* the code does not wait at all; after a signal a module may call Add when    *)
(* Wait has already seen zero.                                              *)
WaitsForModules == pc = "returned" => InServe = {}
=============================================================================
