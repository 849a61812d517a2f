--------------------------- MODULE GrpcModuleProofs ---------------------------
(***************************************************************************)
(* What holds when Serve of the grpc module returns and when it closes the     *)
(* handler, for any number of RPCs.  The graceful stop is the argument: once   *)
(* its goroutine has left, the server has quit and has neither RPCs nor         *)
(* connections, and a server that has quit accepts none.                     *)
(***************************************************************************)
EXTENDS GrpcModule, TLAPS

Early == {"create", "handler", "config", "listen", "run"}
Up == {"register", "select", "shutdown"}
Down == {"closing", "close", "join"}
Returned == pc = "returned" /\ result # "early"

Unspawned == pc \in Early \/ (pc = "returned" /\ result = "early")

(* Before Spawn, and after an early return, there is nothing to stop. *)
EarlyInv ==
    Unspawned => /\ handlerPc = "none" /\ serverPc = "none" /\ stopperPc = "none"
                 /\ conns = "none" /\ calls = 0 /\ closed = 0

(* An early return is one. *)
ResultInv ==
    /\ errorc \in Seq(Sources)
    /\ pc \in {"shutdown", "stopping"} \cup Down => result # "early"

(* Only shutdown stops the server, and then its connections go, and do not come    *)
(* back.                                                                    *)
StopInv ==
    /\ pc \in Early \cup Up => stopperPc = "none" /\ ~quit
    /\ timedOut => conns = "gone"
    /\ conns = "gone" => quit /\ (calls = 0 \/ timedOut)
    /\ stopperPc \in {"waiting", "left"} => quit
    /\ stopperPc = "left" => conns = "gone"

DownInv ==
    pc \in Down \/ Returned =>
        /\ conns = "gone"
        /\ stopperPc = "left" \/ timedOut

CloseInv ==
    /\ pc \in Early \cup Up \cup {"stopping", "closing"} => closed = 0
    /\ pc \in {"close", "join"} \/ Returned => ("closer" \in kind => closed = 1)

JoinInv == Returned => serverPc = "left" /\ handlerPc \in {"none", "left"}

Inv ==
    /\ EarlyInv
    /\ ResultInv
    /\ StopInv
    /\ DownInv
    /\ CloseInv
    /\ JoinInv

LEMMA InvInit == Init => Inv
  BY DEF Init, Inv, EarlyInv, ResultInv, Unspawned, StopInv, DownInv, CloseInv, JoinInv, Early, Up, Down, Returned
-----------------------------------------------------------------------------
(* What is taken out of the channel has been sent. *)
LEMMA SendErrorSource ==
    ASSUME errorc \in Seq(Sources), NEW source \in Sources, SendError(source)
    PROVE  errorc' \in Seq(Sources)
  BY DEF SendError

LEMMA ResultKeeps == ASSUME ResultInv, [Next]_vars PROVE ResultInv'
<1> USE DEF ResultInv, Down, Goto
<1>1. CASE ModuleStep
  <2>1. CASE Select
    <3>1. CASE result' = "context" /\ UNCHANGED errorc
      BY <2>1, <3>1 DEF Select
    <3>2. CASE errorc # <<>> /\ result' = Head(errorc) /\ errorc' = Tail(errorc)
      <4>1. Head(errorc) \in Sources /\ Tail(errorc) \in Seq(Sources)
        BY <3>2
      <4> QED
        BY <2>1, <3>2, <4>1 DEF Select, Sources
    <3> QED
      BY <2>1, <3>1, <3>2 DEF Select
  <2>2. CASE Register
    <3>1. errorc' \in Seq(Sources)
      BY <2>2, SendErrorSource DEF Register, Sources
    <3> QED
      BY <2>2, <3>1 DEF Register
  <2>3. CASE PanicsWithoutLogger \/ SetUp \/ SetUpFails \/ Spawn \/ Shutdown
    BY <2>3 DEF PanicsWithoutLogger, SetUp, SetUpFails, Return, Spawn, Shutdown
  <2>4. CASE Drained \/ StopTimeout \/ CloseServer \/ CloseReturns \/ Join
    BY <2>4 DEF Drained, StopTimeout, CloseServer, CloseReturns, Join
  <2> QED
    BY <1>1, <2>1, <2>2, <2>3, <2>4 DEF ModuleStep
<1>2. CASE HandlerStep \/ ServerStep
  <2>1. errorc' \in Seq(Sources)
    BY <1>2, SendErrorSource
       DEF HandlerStep, HandlerEnds, HandlerReports, ServerStep, ServerStarts, ServerQuits,
           ServerLeaves, ServerReports, Sources
  <2>2. UNCHANGED <<pc, result>>
    BY <1>2 DEF HandlerStep, HandlerEnds, HandlerReports, ServerStep, ServerStarts, ServerQuits,
           ServerLeaves, ServerReports
  <2> QED
    BY <2>1, <2>2
<1>3. CASE HostCancels \/ HostCleansUp \/ StopperStep \/ ListenerFails \/ StartCall \/ EndCall
  BY <1>3 DEF HostCancels, HostCleansUp, StopperStep, StopBegins, StopEnds, ListenerFails,
              StartCall, EndCall
<1>4. CASE UNCHANGED vars
  BY <1>4 DEF vars
<1> QED
  BY <1>1, <1>2, <1>3, <1>4 DEF Next

OtherInv == EarlyInv /\ StopInv /\ DownInv /\ CloseInv /\ JoinInv

(* The routine of Serve. *)
LEMMA ModuleStepKeeps == ASSUME Inv, ModuleStep PROVE OtherInv'
<1> USE DEF Inv, OtherInv, EarlyInv, Unspawned, StopInv, DownInv, CloseInv, JoinInv, Early, Up,
            Down, Returned, hostVars, serverVars, Goto
<1>1. CASE PanicsWithoutLogger
  BY <1>1 DEF PanicsWithoutLogger
<1>2. CASE SetUp
  BY <1>2 DEF SetUp
<1>3. CASE SetUpFails
  BY <1>3 DEF SetUpFails, Return
<1>4. CASE Spawn
  BY <1>4 DEF Spawn
<1>5. CASE Register
  BY <1>5 DEF Register
<1>6. CASE Select
  BY <1>6 DEF Select
<1>7. CASE Shutdown
  BY <1>7 DEF Shutdown
<1>8. CASE Drained
  BY <1>8 DEF Drained
<1>9. CASE StopTimeout
  BY <1>9 DEF StopTimeout
<1>10. CASE CloseServer
  BY <1>10 DEF CloseServer
<1>11. CASE CloseReturns
  BY <1>11 DEF CloseReturns
<1>12. CASE Join
  BY <1>12 DEF Join, ResultInv
<1> QED
  BY <1>1, <1>2, <1>3, <1>4, <1>5, <1>6, <1>7, <1>8, <1>9, <1>10, <1>11, <1>12 DEF ModuleStep

(* The goroutines that Serve has started.  None of them moves Serve, and none   *)
(* that has left comes back.                                                *)
LEMMA GoroutineKeeps ==
    ASSUME Inv, HandlerStep \/ ServerStep \/ StopperStep \/ ListenerFails
    PROVE  OtherInv'
<1> USE DEF Inv, OtherInv, EarlyInv, Unspawned, StopInv, DownInv, CloseInv, JoinInv, Early, Up,
            Down, Returned, hostVars, serverVars
<1>1. CASE HandlerStep
  BY <1>1 DEF HandlerStep, HandlerEnds, HandlerReports
<1>2. CASE ServerStep
  BY <1>2 DEF ServerStep, ServerStarts, ServerQuits, ServerLeaves, ServerReports
<1>3. CASE StopperStep
  <2>1. CASE StopBegins
    BY <2>1 DEF StopBegins
  <2>2. CASE StopEnds
    BY <2>2 DEF StopEnds
  <2> QED
    BY <1>3, <2>1, <2>2 DEF StopperStep
<1>4. CASE ListenerFails
  BY <1>4 DEF ListenerFails
<1> QED
  BY <1>1, <1>2, <1>3, <1>4

LEMMA InvStep == Inv /\ [Next]_vars => Inv'
<1> SUFFICES ASSUME Inv, [Next]_vars PROVE OtherInv'
  BY ResultKeeps DEF Inv, OtherInv
<1> USE DEF Inv, OtherInv, EarlyInv, Unspawned, StopInv, DownInv, CloseInv, JoinInv, Early, Up,
            Down, Returned, hostVars, serverVars
<1>1. CASE HostCancels \/ HostCleansUp
  BY <1>1 DEF HostCancels, HostCleansUp
<1>2. CASE StartCall
  BY <1>2 DEF StartCall
<1>3. CASE EndCall
  BY <1>3 DEF EndCall
<1>4. CASE UNCHANGED vars
  BY <1>4 DEF vars
<1> QED
  BY <1>1, <1>2, <1>3, <1>4, ModuleStepKeeps, GoroutineKeeps DEF Next

LEMMA InvAlways == Spec => []Inv
  BY InvInit, InvStep, PTL DEF Spec
-----------------------------------------------------------------------------
(* The types, which need CloseInv: Close is called once.  The channel takes no    *)
(* more errors than it has places.                                          *)
LEMMA SendErrorType ==
    ASSUME TypeOK, NEW source \in Sources, SendError(source)
    PROVE  errorc' \in Seq(Sources) /\ Len(errorc') <= ErrorPlaces
  BY DEF TypeOK, SendError, ErrorPlaces

LEMMA ModuleStepType == ASSUME TypeOK, Inv, ModuleStep PROVE TypeOK'
<1> USE DEF TypeOK, hostVars, serverVars, Goto, PCs, Ended
<1>1. CASE PanicsWithoutLogger
  BY <1>1 DEF PanicsWithoutLogger
<1>2. CASE SetUp
  BY <1>2 DEF SetUp
<1>3. CASE SetUpFails
  BY <1>3 DEF SetUpFails, Return
<1>4. CASE Spawn
  BY <1>4 DEF Spawn
<1>5. CASE Register
  <2>1. errorc' \in Seq(Sources) /\ Len(errorc') <= ErrorPlaces
    BY <1>5, SendErrorType DEF Register, Sources
  <2> QED
    BY <1>5, <2>1 DEF Register
<1>6. CASE Select
  <2>1. /\ errorc' \in Seq(Sources) /\ Len(errorc') <= ErrorPlaces
        /\ result' \in {"context"} \cup Sources
    <3>1. CASE errorc' = errorc /\ result' = "context"
      BY <3>1
    <3>2. CASE errorc # <<>> /\ result' = Head(errorc) /\ errorc' = Tail(errorc)
      <4>1. /\ Head(errorc) \in Sources
            /\ Tail(errorc) \in Seq(Sources) /\ Len(Tail(errorc)) <= Len(errorc)
        BY <3>2
      <4> QED
        BY <3>2, <4>1 DEF ErrorPlaces
    <3> QED
      BY <1>6, <3>1, <3>2 DEF Select
  <2> QED
    BY <1>6, <2>1 DEF Select
<1>7. CASE Shutdown \/ Drained \/ CloseReturns \/ Join
  <2>1. /\ pc' \in PCs /\ stopperPc' \in {"none", "spawned", "waiting", "left"}
        /\ UNCHANGED <<hostVars, serverVars, handlerPc, serverPc, errorc, result, cancelled,
                       timedOut, closed>>
    BY <1>7 DEF Shutdown, Drained, CloseReturns, Join
  <2> QED
    BY <2>1
<1>8. CASE CloseServer
  BY <1>8 DEF CloseServer, Inv, CloseInv
<1>9. CASE StopTimeout
  BY <1>9 DEF StopTimeout
<1> QED
  BY <1>1, <1>2, <1>3, <1>4, <1>5, <1>6, <1>7, <1>8, <1>9 DEF ModuleStep

(* The variables keep their types: Close is called at most once, and no more       *)
(* errors are sent than the channel holds.                                  *)
THEOREM TypeCorrect == Spec => []TypeOK
<1>1. Init => TypeOK
  <2> SUFFICES ASSUME Init PROVE TypeOK
    OBVIOUS
  <2>1. errorc \in Seq(Sources) /\ Len(errorc) <= ErrorPlaces
    BY DEF Init, ErrorPlaces
  <2>2. calls \in 0..MaxCalls /\ closed \in 0..1
    BY MaxCallsAssumption DEF Init
  <2>3. /\ {session, hostCancelled, cancelled, logger, quit, stopped, timedOut}
              \subseteq BOOLEAN
        /\ kind \subseteq {"server", "closer"}
    BY DEF Init
  <2>4. pc \in PCs /\ result \in {"none", "early", "context"} \cup Sources
    BY DEF Init, PCs
  <2> QED
    BY <2>1, <2>2, <2>3, <2>4 DEF Init, TypeOK
<1>2. TypeOK /\ Inv /\ [Next]_vars => TypeOK'
  <2> SUFFICES ASSUME TypeOK, Inv, [Next]_vars PROVE TypeOK'
    OBVIOUS
  <2> USE MaxCallsAssumption DEF TypeOK, hostVars, serverVars
  <2>1. CASE HostCancels \/ HostCleansUp
    BY <2>1 DEF HostCancels, HostCleansUp
  <2>2. CASE HandlerStep \/ ServerReports
    <3>1. errorc' \in Seq(Sources) /\ Len(errorc') <= ErrorPlaces
      BY <2>2, SendErrorType DEF HandlerStep, HandlerEnds, HandlerReports, ServerReports, Sources
    <3> QED
      BY <2>2, <3>1 DEF HandlerStep, HandlerEnds, HandlerReports, ServerReports
  <2>3. CASE ServerStarts \/ ServerQuits \/ ServerLeaves \/ StopperStep \/ ListenerFails
    BY <2>3 DEF ServerStarts, ServerQuits, ServerLeaves, StopperStep, StopBegins, StopEnds,
                ListenerFails
  <2>4. CASE StartCall
    BY <2>4 DEF StartCall
  <2>5. CASE EndCall
    BY <2>5 DEF EndCall
  <2>6. CASE UNCHANGED vars
    BY <2>6 DEF vars
  <2> QED
    BY <2>1, <2>2, <2>3, <2>4, <2>5, <2>6, ModuleStepType DEF Next, ServerStep
<1> QED
  BY <1>1, <1>2, InvAlways, PTL DEF Spec
-----------------------------------------------------------------------------
(* When Serve returns (work.go:151), the handler's and the server's goroutines    *)
(* have ended; the goroutine of GracefulStop has ended and no RPC is left, or   *)
(* the graceful stop timed out and the connections are gone (work.go:185-188);  *)
(* and a handler that has a Close has been closed, once, unless Serve returned  *)
(* early, which starts nothing and closes nothing.  Whatever failed first and  *)
(* however late the host's logger goes away; a Serve that panics is no return. *)
THEOREM Nothing == Spec => []NothingOutlivesServe
<1>1. Inv => NothingOutlivesServe
  <2> SUFFICES ASSUME Inv, pc = "returned"
               PROVE  /\ ~Counted
                      /\ (~Running /\ calls = 0) \/ (timedOut /\ conns = "gone")
                      /\ "closer" \in kind => closed = IF result = "early" THEN 0 ELSE 1
    BY DEF NothingOutlivesServe
  <2>1. CASE result = "early"
    BY <2>1 DEF Inv, EarlyInv, Unspawned, StopInv, Counted, Running
  <2>2. CASE result # "early"
    BY <2>2 DEF Inv, StopInv, DownInv, CloseInv, JoinInv, Returned, Counted, Running
  <2> QED
    BY <2>1, <2>2
<1> QED
  BY <1>1, InvAlways, PTL

(* closeServer comes when no RPC uses the handler any more, or the graceful stop *)
(* timed out, and no RPC can start then: the connections are gone.           *)
THEOREM CloseLast == Spec => []CloseAfterCalls
<1>1. Inv => CloseAfterCalls
  BY DEF Inv, StopInv, DownInv, Down, CloseAfterCalls
<1> QED
  BY <1>1, InvAlways, PTL
=============================================================================
