------------------------------ MODULE GrpcModule ------------------------------
(***************************************************************************)
(* Serve of the grpc module (modules/basework/work.go): the routine that      *)
(* creates the handler, listens, registers the address and waits; the         *)
(* goroutine of the handler's own Serve; the goroutine of the grpc server;    *)
(* and the one that stops the server gracefully while a timer runs.  The host  *)
(* is an environment that cancels the context and, some time after, sets its   *)
(* logger to nil (HostServe).  The grpc server is external, modelled as        *)
(* google.golang.org/grpc v1.29.1 behaves for this use.                     *)
(***************************************************************************)
EXTENDS Naturals, Sequences

CONSTANTS
    MaxCalls        \* bound: RPCs in progress at one time

ASSUME MaxCallsAssumption == MaxCalls \in Nat

VARIABLES
    kind,           \* which of ModuleServer and ModuleCloser the handler implements
    session,        \* the host has an etcd session
    pc,             \* where module.Serve is
    handlerPc,      \* the goroutine of the handler's Serve
    serverPc,       \* the goroutine of grpc.Server.Serve
    stopperPc,      \* the goroutine of GracefulStop
    errorc,         \* the errors in the channel, by where they come from
    result,         \* what Serve returned
    hostCancelled,  \* the host has cancelled the context it passed
    cancelled,      \* the context derived from it is done
    logger,         \* the host has a logger
    calls,          \* RPCs in progress
    quit,           \* the server has been told to stop
    conns,          \* the server's connections
    stopped,        \* the server's "done" event
    timedOut,       \* history: the graceful stop took too long
    closed          \* history: how many times Close was called

hostVars == <<kind, session, hostCancelled, logger>>
serverVars == <<calls, quit, conns, stopped>>
vars == <<hostVars, serverVars, pc, handlerPc, serverPc, stopperPc, errorc, result, cancelled,
          timedOut, closed>>

(* The capacity of errorc, at least one for each of its senders. *)
ErrorPlaces == 16

Sources == {"handler", "server", "register"}
Ended == {"returned", "panicked"}
PCs == {"create", "handler", "config", "listen", "run", "register", "select", "shutdown",
        "stopping", "closing", "close", "join"} \cup Ended

TypeOK ==
    /\ kind \subseteq {"server", "closer"}
    /\ pc \in PCs
    /\ handlerPc \in {"none", "serving", "failed", "left"}
    /\ serverPc \in {"none", "spawned", "accepting", "draining", "failed", "left"}
    /\ stopperPc \in {"none", "spawned", "waiting", "left"}
    /\ errorc \in Seq(Sources)
    /\ Len(errorc) <= ErrorPlaces
    /\ result \in {"none", "early", "context"} \cup Sources
    /\ {session, hostCancelled, cancelled, logger, quit, stopped, timedOut}
            \subseteq BOOLEAN
    /\ calls \in 0..MaxCalls
    /\ conns \in {"none", "open", "gone"}
    /\ closed \in 0..1

Init ==
    /\ kind \in SUBSET {"server", "closer"}
    /\ session \in BOOLEAN
    /\ pc = "create"
    /\ handlerPc = "none"
    /\ serverPc = "none"
    /\ stopperPc = "none"
    /\ errorc = <<>>
    /\ result = "none"
    /\ hostCancelled = FALSE
    /\ cancelled = FALSE
    /\ logger = TRUE
    /\ calls = 0
    /\ quit = FALSE
    /\ conns = "none"
    /\ stopped = FALSE
    /\ timedOut = FALSE
    /\ closed = 0
-----------------------------------------------------------------------------
(* The host.                                                                *)

HostCancels ==
    /\ ~hostCancelled
    /\ hostCancelled' = TRUE
    /\ cancelled' = TRUE
    /\ UNCHANGED <<kind, session, logger, serverVars, pc, handlerPc, serverPc, stopperPc, errorc, result,
                   timedOut, closed>>

(* cleanup, which comes after the contexts are cancelled and, on the error      *)
(* path of host.Serve, does not wait for the modules.                       *)
HostCleansUp ==
    /\ hostCancelled
    /\ logger
    /\ logger' = FALSE
    /\ UNCHANGED <<kind, session, hostCancelled, serverVars, pc, handlerPc, serverPc, stopperPc,
                   errorc, result, cancelled, timedOut, closed>>
-----------------------------------------------------------------------------
(* module.Serve.                                                            *)

Goto(from, to) == pc = from /\ pc' = to

(* The end of Serve: its context is cancelled. *)
Return(r) ==
    /\ pc' = "returned"
    /\ result' = r
    /\ cancelled' = TRUE

(* The host's methods panic once it has no logger: Logger itself, and             *)
(* RegisterModule, which logs that it does nothing without a session.  The     *)
(* host's goroutine recovers.                                               *)
PanicsWithoutLogger ==
    /\ ~logger
    /\ pc \in {"create", "shutdown", "closing"} \/ (pc = "register" /\ ~session)
    /\ pc' = "panicked"
    /\ cancelled' = TRUE
    /\ UNCHANGED <<hostVars, serverVars, handlerPc, serverPc, stopperPc, errorc, result, timedOut,
                   closed>>

(* The logger, the handler, the configuration and the listener ...            *)
SetUp ==
    /\ \/ logger /\ Goto("create", "handler")
       \/ Goto("handler", "config")
       \/ Goto("config", "listen")
       \/ Goto("listen", "run")
    /\ UNCHANGED <<hostVars, serverVars, handlerPc, serverPc, stopperPc, errorc, result,
                   cancelled, timedOut, closed>>

(* ... which may fail.  A handler that was created is not closed then.        *)
SetUpFails ==
    /\ pc \in {"handler", "config", "listen"}
    /\ Return("early")
    /\ UNCHANGED <<hostVars, serverVars, handlerPc, serverPc, stopperPc, errorc, timedOut, closed>>

Spawn ==
    /\ Goto("run", "register")
    /\ handlerPc' = IF "server" \in kind THEN "serving" ELSE "none"
    /\ serverPc' = "spawned"
    /\ UNCHANGED <<hostVars, serverVars, stopperPc, errorc, result, cancelled, timedOut, closed>>

(* errorc <- err. *)
SendError(source) ==
    /\ Len(errorc) < ErrorPlaces
    /\ errorc' = Append(errorc, source)

(* host.RegisterModule, with a context of its own: also when ctx is done.      *)
Register ==
    /\ Goto("register", "select")
    /\ \/ (session \/ logger) /\ UNCHANGED errorc
       \/ session /\ SendError("register")
    /\ UNCHANGED <<hostVars, serverVars, handlerPc, serverPc, stopperPc, result, cancelled,
                   timedOut, closed>>

(* The select.  When the context is done and there is an error, either may be  *)
(* taken.  The module's own cancel follows.                                 *)
Select ==
    /\ Goto("select", "shutdown")
    /\ \/ /\ cancelled
          /\ result' = "context"
          /\ UNCHANGED errorc
       \/ /\ errorc # <<>>
          /\ result' = Head(errorc)
          /\ errorc' = Tail(errorc)
    /\ cancelled' = TRUE
    /\ UNCHANGED <<hostVars, serverVars, handlerPc, serverPc, stopperPc, timedOut, closed>>

(* shutdown: start the graceful stop and the timer. *)
Shutdown ==
    /\ logger
    /\ Goto("shutdown", "stopping")
    /\ stopperPc' = "spawned"
    /\ UNCHANGED <<hostVars, serverVars, handlerPc, serverPc, errorc, result, cancelled,
                   timedOut, closed>>

(* Mutated Drained: the result of the graceful stop is not waited for. *)
NotDrained ==
    /\ Goto("stopping", "closing")
    /\ UNCHANGED <<hostVars, serverVars, handlerPc, serverPc, stopperPc, errorc, result,
                   cancelled, timedOut, closed>>

Drained ==
    /\ stopperPc = "left"
    /\ Goto("stopping", "closing")
    /\ UNCHANGED <<hostVars, serverVars, handlerPc, serverPc, stopperPc, errorc, result,
                   cancelled, timedOut, closed>>

(* Mutated StopTimeout: the server is not stopped. *)
TimeoutOnly ==
    /\ Goto("stopping", "closing")
    /\ timedOut' = TRUE
    /\ UNCHANGED <<hostVars, serverVars, handlerPc, serverPc, stopperPc, errorc, result,
                   cancelled, closed>>

(* defaultShutdownTimeout: server.Stop drops the connections, and does not      *)
(* wait for the handlers of the RPCs.                                       *)
StopTimeout ==
    /\ Goto("stopping", "closing")
    /\ timedOut' = TRUE
    /\ quit' = TRUE
    /\ conns' = "gone"
    /\ stopped' = TRUE
    /\ UNCHANGED <<hostVars, calls, handlerPc, serverPc, stopperPc, errorc, result, cancelled,
                   closed>>

(* closeServer. *)
CloseServer ==
    /\ logger
    /\ pc = "closing"
    /\ IF "closer" \in kind THEN pc' = "close" /\ closed' = closed + 1
       ELSE pc' = "join" /\ UNCHANGED closed
    /\ UNCHANGED <<hostVars, serverVars, handlerPc, serverPc, stopperPc, errorc, result,
                   cancelled, timedOut>>

CloseReturns ==
    /\ Goto("close", "join")
    /\ UNCHANGED <<hostVars, serverVars, handlerPc, serverPc, stopperPc, errorc, result,
                   cancelled, timedOut, closed>>

(* Mutated Join: running.Wait is forgotten. *)
JoinNot ==
    /\ Goto("join", "returned")
    /\ UNCHANGED <<hostVars, serverVars, handlerPc, serverPc, stopperPc, errorc, result,
                   cancelled, timedOut, closed>>

(* Mutated Join: after an error the module listens once more. *)
JoinRetries ==
    /\ handlerPc \in {"none", "left"}
    /\ serverPc = "left"
    /\ Goto("join", IF result = "context" THEN "returned" ELSE "listen")
    /\ UNCHANGED <<hostVars, serverVars, handlerPc, serverPc, stopperPc, errorc, result,
                   cancelled, timedOut, closed>>

(* running.Wait. *)
Join ==
    /\ handlerPc \in {"none", "left"}
    /\ serverPc = "left"
    /\ Goto("join", "returned")
    /\ UNCHANGED <<hostVars, serverVars, handlerPc, serverPc, stopperPc, errorc, result,
                   cancelled, timedOut, closed>>
-----------------------------------------------------------------------------
(* The handler's own Serve, external: it may end at any time, with an error or *)
(* without.                                                                 *)
HandlerEnds ==
    /\ handlerPc = "serving"
    /\ handlerPc' \in {"failed", "left"}
    /\ UNCHANGED <<hostVars, serverVars, pc, serverPc, stopperPc, errorc, result, cancelled,
                   timedOut, closed>>

HandlerReports ==
    /\ handlerPc = "failed"
    /\ handlerPc' = "left"
    /\ SendError("handler")
    /\ UNCHANGED <<hostVars, serverVars, pc, serverPc, stopperPc, result, cancelled, timedOut,
                   closed>>
-----------------------------------------------------------------------------
(* grpc.Server.Serve, external.  Called after a stop it fails; otherwise it     *)
(* accepts until the listener fails or the server is told to quit, and returns *)
(* without an error when the stop is done.                                  *)
ServerStarts ==
    /\ serverPc = "spawned"
    /\ IF quit THEN serverPc' = "failed" /\ UNCHANGED conns
       ELSE serverPc' = "accepting" /\ conns' = "open"
    /\ UNCHANGED <<hostVars, calls, quit, stopped, pc, handlerPc, stopperPc, errorc, result,
                   cancelled, timedOut, closed>>

ListenerFails ==
    /\ serverPc = "accepting"
    /\ ~quit
    /\ serverPc' = "failed"
    /\ UNCHANGED <<hostVars, serverVars, pc, handlerPc, stopperPc, errorc, result, cancelled,
                   timedOut, closed>>

ServerQuits ==
    /\ serverPc = "accepting"
    /\ quit
    /\ serverPc' = "draining"
    /\ UNCHANGED <<hostVars, serverVars, pc, handlerPc, stopperPc, errorc, result, cancelled,
                   timedOut, closed>>

ServerLeaves ==
    /\ serverPc = "draining"
    /\ stopped
    /\ serverPc' = "left"
    /\ UNCHANGED <<hostVars, serverVars, pc, handlerPc, stopperPc, errorc, result, cancelled,
                   timedOut, closed>>

ServerReports ==
    /\ serverPc = "failed"
    /\ serverPc' = "left"
    /\ SendError("server")
    /\ UNCHANGED <<hostVars, serverVars, pc, handlerPc, stopperPc, result, cancelled, timedOut,
                   closed>>

(* RPCs.  A connection that was accepted takes new ones when the listener has    *)
(* failed, and also when a graceful stop has begun, until its client has heard *)
(* of it.                                                                   *)
StartCall ==
    /\ conns = "open"
    /\ calls < MaxCalls
    /\ calls' = calls + 1
    /\ UNCHANGED <<hostVars, quit, conns, stopped, pc, handlerPc, serverPc, stopperPc, errorc,
                   result, cancelled, timedOut, closed>>

EndCall ==
    /\ calls > 0
    /\ calls' = calls - 1
    /\ UNCHANGED <<hostVars, quit, conns, stopped, pc, handlerPc, serverPc, stopperPc, errorc,
                   result, cancelled, timedOut, closed>>
-----------------------------------------------------------------------------
(* GracefulStop, external, in a goroutine of shutdown.                      *)

StopBegins ==
    /\ stopperPc = "spawned"
    /\ stopperPc' = "waiting"
    /\ quit' = TRUE
    /\ UNCHANGED <<hostVars, calls, conns, stopped, pc, handlerPc, serverPc, errorc, result,
                   cancelled, timedOut, closed>>

(* The server has left its accept loop, and the connections are gone: their     *)
(* calls have ended, or Stop has dropped them.  close(done) follows.        *)
StopEnds ==
    /\ stopperPc = "waiting"
    /\ serverPc # "accepting"
    /\ calls = 0 \/ conns = "gone"
    /\ stopperPc' = "left"
    /\ conns' = "gone"
    /\ stopped' = TRUE
    /\ UNCHANGED <<hostVars, calls, quit, pc, handlerPc, serverPc, errorc, result,
                   cancelled, timedOut, closed>>
-----------------------------------------------------------------------------
ModuleStep ==
    \/ PanicsWithoutLogger
    \/ SetUp
    \/ SetUpFails
    \/ Spawn
    \/ Register
    \/ Select
    \/ Shutdown
    \/ Drained
    \/ StopTimeout
    \/ CloseServer
    \/ CloseReturns
    \/ Join

HandlerStep == HandlerEnds \/ HandlerReports

ServerStep ==
    \/ ServerStarts
    \/ ServerQuits
    \/ ServerLeaves
    \/ ServerReports

StopperStep == StopBegins \/ StopEnds

Next ==
    \/ HostCancels
    \/ HostCleansUp
    \/ ModuleStep
    \/ HandlerStep
    \/ ServerStep
    \/ StopperStep
    \/ ListenerFails
    \/ StartCall
    \/ EndCall

Spec == Init /\ [][Next]_vars

(* Goroutines are scheduled; the timer fires; creating the handler, registering *)
(* with etcd and Close return; and the handler's Serve obeys its context.  An   *)
(* RPC need not end.                                                        *)
FairSpec ==
    /\ Spec
    /\ WF_vars(ModuleStep)
    /\ WF_vars(HandlerReports)
    /\ WF_vars(cancelled /\ HandlerEnds)
    /\ WF_vars(ServerStep)
    /\ WF_vars(StopperStep)
-----------------------------------------------------------------------------
(* Properties.                                                              *)

(* The goroutines that Serve waits for. *)
Counted ==
    \/ serverPc \in {"spawned", "accepting", "draining", "failed"}
    \/ handlerPc \in {"serving", "failed"}

(* ... and that of GracefulStop, which it leaves behind when the timer fires.  *)
Running == Counted \/ stopperPc \in {"spawned", "waiting"}

(* When Serve returns, none of the four goroutines runs and no RPC is in         *)
(* progress; if the graceful stop timed out, its goroutine and RPCs may be     *)
(* left, but the handler's and the server's goroutines are not, and the        *)
(* connections are gone.  A handler that has a Close has been closed, once;    *)
(* one that was created before an early return (work.go:78, 89) has not.  A     *)
(* Serve that panics leaves everything as it is, and is not spoken of here.   *)
NothingOutlivesServe ==
    pc = "returned" =>
        /\ ~Counted
        /\ (~Running /\ calls = 0) \/ (timedOut /\ conns = "gone")
        /\ "closer" \in kind => closed = IF result = "early" THEN 0 ELSE 1

(* The handler is closed when no RPC uses it any more, unless the graceful      *)
(* stop timed out; and no new RPC can start then, as the connections are gone. *)
CloseAfterCalls ==
    pc = "close" =>
        /\ calls = 0 \/ timedOut
        /\ conns = "gone"

(* Serve ends after the host cancels the context, even if some RPC never does;  *)
(* and a failed handler or server ends Serve, and with it the other one: the   *)
(* module does not live on with half of its goroutines.                     *)
ServeEnds ==
    (hostCancelled \/ handlerPc = "failed" \/ serverPc = "failed") ~> pc \in Ended
=============================================================================
