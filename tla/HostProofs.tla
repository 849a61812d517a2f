------------------------------ MODULE HostProofs ------------------------------
(***************************************************************************)
(* What a shutdown of host.Serve waits for and what can crash the process,   *)
(* for any finite set of modules, any capacity of errorc and any number of    *)
(* signals; that a grpc module implements what HostServe takes a module for;   *)
(* and so that a signal stops the server of a grpc module, for any number of  *)
(* RPCs.  The theorems up to CrashNeedsLate are about HostServe alone.       *)
(***************************************************************************)
EXTENDS HostGrpc, FiniteSetTheorems, TLAPS

(* No goroutine of a module runs before serveModule. *)
NoneYet == pc \in {"prepare", "spawn"} => \A m \in Modules : mpc[m] = "none"

TypeInv == TypeOK /\ NoneYet

(* Before the select ends nothing is present; Wait follows a signal only; and  *)
(* a Wait can only be woken when it has begun.                              *)
HostPhase ==
    /\ by = "none" <=> pc \in {"prepare", "spawn", "select", "blocked"}
    /\ by = "none" => present = {}
    /\ pc \in {"signalled", "wait", "waiting"} => by = "signal"
    /\ woken => pc \in {"waiting", "cleanup", "returned"}

(* The logger is there until cleanup has run, and only its absence makes a     *)
(* module panic.                                                            *)
LoggerLife ==
    /\ pc # "returned" => logger
    /\ logger => loggerPanics = {}

(* A module that was present when the select ended never calls Add again, so    *)
(* that the counter's being zero once is enough.                            *)
PresentDone ==
    /\ present \cap Late = {}
    /\ by = "signal" /\ (woken \/ pc \in {"cleanup", "returned"}) => present \cap Inside = {}

WaitInv ==
    /\ HostPhase
    /\ LoggerLife
    /\ PresentDone
    /\ SignalWaitsForPresent
    /\ CrashNeedsLateModule
-----------------------------------------------------------------------------
(* Inside is finite, and empty exactly when the counter is zero. *)
LEMMA InsideFinite ==
    /\ IsFiniteSet(Inside)
    /\ Cardinality(Inside) \in Nat
    /\ Cardinality(Inside) = 0 <=> Inside = {}
<1>1. IsFiniteSet(Inside)
  BY HostAssumption, FS_Subset DEF HostAssumption, Inside
<1> QED
  BY <1>1, FS_CardinalityType, FS_EmptySet

(* Steps that leave the goroutines where they are. *)
LEMMA SameInside == mpc' = mpc => Inside' = Inside /\ Late' = Late
  BY DEF Inside, Late

(* A step of one goroutine. *)
LEMMA GotoEffect ==
    ASSUME TypeOK, NEW m \in Modules, NEW from \in MPCs, NEW to \in MPCs, Goto(m, from, to)
    PROVE  /\ mpc' \in [Modules -> MPCs]
           /\ mpc[m] = from /\ mpc'[m] = to
           /\ \A k \in Modules : k # m => mpc'[k] = mpc[k]
  BY DEF Goto, TypeOK

(* Going on inside, or before Add, the set of those inside does not change. *)
LEMMA GotoSame ==
    ASSUME TypeOK, NEW m \in Modules, NEW from \in MPCs, NEW to \in MPCs, Goto(m, from, to),
           \/ /\ from \in {"entered", "serving", "stopping", "failing", "leaving"}
              /\ to \in {"entered", "serving", "stopping", "failing", "leaving"}
           \/ from = "spawned" /\ to = "named"
    PROVE  Inside' = Inside /\ Late' = Late
<1>1. /\ mpc[m] = from /\ mpc'[m] = to
      /\ \A k \in Modules : k # m => mpc'[k] = mpc[k]
  BY GotoEffect
<1>2. \A k \in Modules : (k \in Inside <=> k \in Inside') /\ (k \in Late <=> k \in Late')
  BY <1>1 DEF Inside, Late
<1> QED
  BY <1>2 DEF Inside, Late

LEMMA EnterEffect ==
    ASSUME TypeOK, NEW m \in Modules, Goto(m, "named", "entered")
    PROVE  /\ m \notin Inside /\ m \in Late
           /\ Inside' = Inside \cup {m} /\ Late' = Late \ {m}
<1>1. /\ mpc[m] = "named" /\ mpc'[m] = "entered"
      /\ \A k \in Modules : k # m => mpc'[k] = mpc[k]
  BY GotoEffect DEF MPCs
<1>2. \A k \in Modules : /\ k \in Inside' <=> k \in Inside \cup {m}
                         /\ k \in Late' <=> k \in Late \ {m}
  BY <1>1 DEF Inside, Late
<1> QED
  BY <1>1, <1>2 DEF Inside, Late

LEMMA LeaveEffect ==
    ASSUME TypeOK, NEW m \in Modules, Goto(m, "leaving", "left")
    PROVE  /\ m \in Inside
           /\ Inside' = Inside \ {m} /\ Late' = Late
<1>1. /\ mpc[m] = "leaving" /\ mpc'[m] = "left"
      /\ \A k \in Modules : k # m => mpc'[k] = mpc[k]
  BY GotoEffect DEF MPCs
<1>2. \A k \in Modules : /\ k \in Inside' <=> k \in Inside \ {m}
                         /\ k \in Late' <=> k \in Late
  BY <1>1 DEF Inside, Late
<1> QED
  BY <1>1, <1>2 DEF Inside, Late

(* What a module does between Add and Done. *)
Interior(m) ==
    \/ ModuleServe(m) \/ ModuleReturns(m) \/ ModuleFails(m)
    \/ ModuleObeys(m) \/ ModuleStops(m) \/ ModulePanics(m) \/ Report(m)

LEMMA InteriorEffect ==
    ASSUME TypeOK, NEW m \in Modules, Interior(m)
    PROVE  /\ mpc' \in [Modules -> MPCs]
           /\ Inside' = Inside /\ Late' = Late
           /\ m \in Inside /\ mpc[m] # "none"
           /\ UNCHANGED <<hostVars, cancelled, running, woken, notified, signals, logger, crashed>>
           /\ errors' \in 0..ErrorCap
           /\ \/ loggerPanics' = loggerPanics
              \/ ~logger /\ loggerPanics' = loggerPanics \cup {m}
<1> DEFINE Between == {"entered", "serving", "stopping", "failing", "leaving"}
<1>1. PICK from \in Between, to \in Between : Goto(m, from, to)
  BY DEF Interior, ModuleServe, ModuleReturns, ModuleFails, ModuleObeys, ModuleStops,
         ModulePanics, Report, AskLogger
<1>2. from \in MPCs /\ to \in MPCs
  BY DEF MPCs
<1>3. Inside' = Inside /\ Late' = Late
  BY <1>1, <1>2, GotoSame
<1>4. mpc' \in [Modules -> MPCs] /\ mpc[m] = from
  BY <1>1, <1>2, GotoEffect
<1>5. UNCHANGED <<hostVars, cancelled, running, woken, notified, signals, logger, crashed>>
  BY DEF Interior, ModuleServe, ModuleReturns, ModuleFails, ModuleObeys, ModuleStops,
         ModulePanics, Report, AskLogger
<1>6. errors' \in 0..ErrorCap
  <2>1. errors' = errors \/ nonblockingError
    BY DEF Interior, ModuleServe, ModuleReturns, ModuleFails, ModuleObeys, ModuleStops,
         ModulePanics, Report
  <2> QED
    BY <2>1, HostAssumption DEF HostAssumption, nonblockingError, TypeOK
<1>7. \/ loggerPanics' = loggerPanics
      \/ ~logger /\ loggerPanics' = loggerPanics \cup {m}
  BY DEF Interior, ModuleServe, ModuleReturns, ModuleFails, ModuleObeys, ModuleStops,
         ModulePanics, Report, AskLogger
<1> QED
  BY <1>3, <1>4, <1>5, <1>6, <1>7 DEF Inside
-----------------------------------------------------------------------------
(* Types. *)

(* The steps that leave all goroutines of modules alone. *)
HostOnly == PrepareFails \/ Prepare \/ Block \/ TakeError \/ Signal \/ Cancel \/ Wait \/ Wake
                \/ Cleanup

(* Every step is one of these. *)
LEMMA NextCases ==
    ASSUME Next
    PROVE  \/ HostOnly
           \/ serveModule
           \/ \E m \in Modules : Start(m) \/ Enter(m) \/ Interior(m) \/ Leave(m)
  BY DEF Next, HostStep, Routine, HostOnly, Interior

LEMMA TypeInit == Init => TypeInv
<1> SUFFICES ASSUME Init PROVE TypeInv
  OBVIOUS
<1>1. Inside = {}
  BY DEF Init, Inside
<1>2. running = Cardinality(Inside)
  BY <1>1, FS_EmptySet DEF Init
<1>3. errors \in 0..ErrorCap /\ signals \in 0..MaxSignals
  BY HostAssumption DEF HostAssumption, Init
<1>4. mpc \in [Modules -> MPCs] /\ NoneYet
  BY DEF Init, MPCs, NoneYet
<1> QED
  BY <1>2, <1>3, <1>4 DEF Init, TypeInv, TypeOK, PCs

LEMMA TypeStep == TypeInv /\ [Next]_vars => TypeInv'
<1> SUFFICES ASSUME TypeInv, [Next]_vars PROVE TypeInv'
  OBVIOUS
<1> USE DEF TypeInv
<1>1. CASE HostOnly
  <2>1. mpc' = mpc /\ running' = running
    BY <1>1 DEF HostOnly, PrepareFails, Prepare, Block, TakeError, Signal, Cancel, Wait, Wake,
                Cleanup
  <2>2. running' = Cardinality(Inside')
    BY <2>1, SameInside DEF TypeOK
  <2>3. pc' \in PCs /\ by' \in {"none", "failure", "signal", "error"} /\ present' \subseteq Modules
    BY <1>1 DEF HostOnly, PrepareFails, Prepare, Block, TakeError, Signal, Cancel, Wait, Wake,
                Cleanup, hostVars, Selected, TypeOK, PCs
  <2>4. /\ cancelled' \in BOOLEAN /\ woken' \in BOOLEAN /\ notified' \in BOOLEAN
        /\ logger' \in BOOLEAN /\ crashed' \in BOOLEAN
    BY <1>1 DEF HostOnly, PrepareFails, Prepare, Block, TakeError, Signal, Cancel, Wait, Wake,
                Cleanup, TypeOK
  <2>5. errors' \in 0..ErrorCap /\ signals' \in 0..MaxSignals /\ loggerPanics' \subseteq Modules
    BY <1>1, HostAssumption
       DEF HostAssumption, HostOnly, PrepareFails, Prepare, Block, TakeError, Signal, Cancel, Wait,
           Wake, Cleanup, TypeOK
  <2>6. NoneYet'
    BY <1>1, <2>1 DEF HostOnly, PrepareFails, Prepare, Block, TakeError, Signal, Cancel, Wait, Wake,
                Cleanup, hostVars, NoneYet
  <2> QED
    BY <2>1, <2>2, <2>3, <2>4, <2>5, <2>6 DEF TypeOK
<1>2. CASE serveModule
  <2>1. Inside = {} /\ Inside' = {}
    BY <1>2 DEF serveModule, NoneYet, Inside
  <2>2. running' = Cardinality(Inside')
    BY <1>2, <2>1 DEF serveModule, TypeOK
  <2> QED
    BY <1>2, <2>2 DEF serveModule, TypeOK, NoneYet, PCs, MPCs
<1>3. ASSUME NEW m \in Modules, Start(m) PROVE TypeInv'
  <2>1. Goto(m, "spawned", "named")
    BY <1>3 DEF Start
  <2>2. mpc' \in [Modules -> MPCs] /\ mpc[m] = "spawned" /\ Inside' = Inside
    BY <2>1, GotoEffect, GotoSame DEF MPCs
  <2> QED
    BY <1>3, <2>2 DEF Start, hostVars, TypeOK, NoneYet
<1>4. ASSUME NEW m \in Modules, Enter(m) PROVE TypeInv'
  <2>1. Goto(m, "named", "entered")
    BY <1>4 DEF Enter
  <2>2. mpc' \in [Modules -> MPCs] /\ mpc[m] = "named"
    BY <2>1, GotoEffect DEF MPCs
  <2>3. running' = Cardinality(Inside')
    BY <1>4, <2>1, EnterEffect, InsideFinite, FS_AddElement DEF Enter, TypeOK
  <2> QED
    BY <1>4, <2>2, <2>3 DEF Enter, hostVars, TypeOK, NoneYet
<1>5. ASSUME NEW m \in Modules, Interior(m) PROVE TypeInv'
  BY <1>5, InteriorEffect DEF hostVars, TypeOK, NoneYet
<1>6. ASSUME NEW m \in Modules, Leave(m) PROVE TypeInv'
  <2>1. Goto(m, "leaving", "left")
    BY <1>6 DEF Leave
  <2>2. mpc' \in [Modules -> MPCs] /\ mpc[m] = "leaving"
    BY <2>1, GotoEffect DEF MPCs
  <2>3. running' = Cardinality(Inside')
    BY <1>6, <2>1, LeaveEffect, InsideFinite, FS_RemoveElement DEF Leave, TypeOK
  <2>4. woken' \in BOOLEAN
    BY <1>6 DEF Leave, TypeOK
  <2> QED
    BY <1>6, <2>2, <2>3, <2>4 DEF Leave, hostVars, TypeOK, NoneYet
<1>7. CASE UNCHANGED vars
  BY <1>7, SameInside DEF vars, TypeOK, NoneYet
<1> QED
  BY <1>1, <1>2, <1>3, <1>4, <1>5, <1>6, <1>7, NextCases

LEMMA TypeInvariant == Spec => []TypeInv
  BY TypeInit, TypeStep, PTL DEF Spec

(* The state of the host is well typed, and the counter of the WaitGroup is the *)
(* number of goroutines between Add and Done.                               *)
THEOREM TypeCorrect == Spec => []TypeOK
<1>1. TypeInv => TypeOK
  BY DEF TypeInv
<1> QED
  BY <1>1, TypeInvariant, PTL
-----------------------------------------------------------------------------
(* Waiting. *)

LEMMA WaitInit == Init => WaitInv
  BY DEF Init, WaitInv, HostPhase, LoggerLife, PresentDone, SignalWaitsForPresent,
         CrashNeedsLateModule

(* Steps of the host and signals. *)
LEMMA WaitHost ==
    ASSUME TypeInv, WaitInv, ~crashed, HostOnly
    PROVE  WaitInv'
<1> USE DEF WaitInv, HostPhase, LoggerLife, PresentDone, SignalWaitsForPresent,
            CrashNeedsLateModule
<1>1. Inside' = Inside /\ Late' = Late
  BY SameInside DEF HostOnly, PrepareFails, Prepare, Block, TakeError, Signal, Cancel, Wait, Wake,
                    Cleanup
<1>2. CASE PrepareFails \/ Prepare \/ Block \/ Cancel
  BY <1>1, <1>2 DEF PrepareFails, Prepare, Block, Cancel
<1>3. CASE TakeError
  BY <1>1, <1>3 DEF TakeError, Selected
<1>4. CASE Signal
  <2>1. CASE pc = "blocked" /\ errors = 0
    BY <1>1, <1>4, <2>1 DEF Signal, Selected
  <2>2. CASE ~(pc = "blocked" /\ errors = 0)
    BY <1>1, <1>4, <2>2 DEF Signal, hostVars
  <2> QED
    BY <2>1, <2>2
<1>5. CASE Wait
  <2>1. running = 0 => Inside = {}
    BY InsideFinite DEF TypeInv, TypeOK
  <2>2. ~woken
    BY <1>5 DEF Wait
  <2> QED
    BY <1>1, <1>5, <2>1, <2>2 DEF Wait
<1>6. CASE Wake
  <2>1. present \cap Inside = {}
    BY <1>6 DEF Wake
  <2>2. running # 0 => \E m \in Modules : m \notin present
    BY <2>1, InsideFinite DEF TypeInv, TypeOK, Inside
  <2> QED
    BY <1>1, <1>6, <2>1, <2>2 DEF Wake
<1>7. CASE Cleanup
  BY <1>1, <1>7 DEF Cleanup
<1> QED
  BY <1>2, <1>3, <1>4, <1>5, <1>6, <1>7 DEF HostOnly

(* Steps of the goroutine of a module. *)
LEMMA WaitModule ==
    ASSUME TypeInv, WaitInv, ~crashed, NEW m \in Modules,
           Start(m) \/ Enter(m) \/ Interior(m) \/ Leave(m)
    PROVE  WaitInv'
<1> USE DEF WaitInv, HostPhase, LoggerLife, PresentDone, SignalWaitsForPresent,
            CrashNeedsLateModule
<1>1. CASE Start(m)
  <2>1. Inside' = Inside /\ Late' = Late /\ m \in Late
    BY <1>1, GotoSame, GotoEffect DEF Start, TypeInv, MPCs, Late
  <2>2. m \notin present
    BY <2>1
  <2> QED
    BY <1>1, <2>1, <2>2 DEF Start, hostVars
<1>2. CASE Enter(m)
  <2>1. m \in Late /\ Inside' = Inside \cup {m} /\ Late' = Late \ {m}
    BY <1>2, EnterEffect DEF Enter, TypeInv
  <2>2. m \notin present
    BY <2>1
  <2> QED
    BY <1>2, <2>1, <2>2 DEF Enter, hostVars
<1>3. CASE Interior(m)
  <2>1. /\ Inside' = Inside /\ Late' = Late /\ m \in Inside
        /\ UNCHANGED <<hostVars, woken, logger, crashed>>
        /\ \/ loggerPanics' = loggerPanics
           \/ ~logger /\ loggerPanics' = loggerPanics \cup {m}
    BY <1>3, InteriorEffect DEF TypeInv
  <2>2. by = "signal" /\ ~logger => m \notin present
    BY <2>1
  <2> QED
    BY <2>1, <2>2 DEF hostVars
<1>4. CASE Leave(m)
  <2>1. m \in Inside /\ Inside' = Inside \ {m} /\ Late' = Late
    BY <1>4, LeaveEffect DEF Leave, TypeInv
  <2>2. running = 1 => Inside' = {}
    <3>1. IsFiniteSet(Inside) /\ running = Cardinality(Inside)
      BY InsideFinite DEF TypeInv, TypeOK
    <3>2. /\ IsFiniteSet(Inside \ {m})
          /\ Cardinality(Inside \ {m}) = Cardinality(Inside) - 1
      BY <2>1, <3>1, FS_RemoveElement
    <3>3. running = 1 => Cardinality(Inside \ {m}) = 0
      BY <3>1, <3>2
    <3> QED
      BY <2>1, <3>2, <3>3, FS_EmptySet
  <2>3. UNCHANGED <<hostVars, logger, crashed, loggerPanics>>
    BY <1>4 DEF Leave
  <2>4. woken' => woken \/ (running = 1 /\ pc = "waiting")
    BY <1>4 DEF Leave
  <2> QED
    BY <2>1, <2>2, <2>3, <2>4 DEF hostVars
<1> QED
  BY <1>1, <1>2, <1>3, <1>4

LEMMA WaitStep == TypeInv /\ WaitInv /\ [Next]_vars => WaitInv'
<1> SUFFICES ASSUME TypeInv, WaitInv, [Next]_vars PROVE WaitInv'
  OBVIOUS
<1>1. CASE UNCHANGED vars
  BY <1>1, SameInside
     DEF vars, WaitInv, HostPhase, LoggerLife, PresentDone, SignalWaitsForPresent,
         CrashNeedsLateModule
<1>2. CASE Next
  <2>1. ~crashed
    BY <1>2 DEF Next
  <2>2. CASE serveModule
    <3>1. present = {} /\ present' = {}
      BY <2>2 DEF serveModule, WaitInv, HostPhase
    <3> QED
      BY <2>1, <2>2, <3>1
         DEF serveModule, WaitInv, HostPhase, LoggerLife, PresentDone, SignalWaitsForPresent,
             CrashNeedsLateModule
  <2> QED
    BY <1>2, <2>1, <2>2, NextCases, WaitHost, WaitModule
<1> QED
  BY <1>1, <1>2

LEMMA WaitInvariant == Spec => []WaitInv
  BY WaitInit, WaitStep, TypeInvariant, PTL DEF Spec

(* host.Serve does not go on past Wait while a module runs that was running      *)
(* when the signal came, and none of these loses the logger before it ends.    *)
THEOREM SignalWaits == Spec => []SignalWaitsForPresent
<1>1. WaitInv => SignalWaitsForPresent
  BY DEF WaitInv
<1> QED
  BY <1>1, WaitInvariant, PTL

(* A crash of the process needs a goroutine that had not reached Add. *)
THEOREM CrashNeedsLate == Spec => []CrashNeedsLateModule
<1>1. WaitInv => CrashNeedsLateModule
  BY DEF WaitInv
<1> QED
  BY <1>1, WaitInvariant, PTL
-----------------------------------------------------------------------------
(* The host with a grpc module.                                             *)

(* How the goroutine that the host sees and the inside of its Serve go together. *)
Coupled ==
    /\ mpc \in [Modules -> MPCs]
    /\ gpc \in G!PCs
    /\ pc \in {"prepare", "spawn"} => mpc[Grpc] = "none"
    /\ mpc[Grpc] \in {"none", "spawned", "named"} => gpc = "create"
    /\ mpc[Grpc] \in {"entered", "serving", "stopping"} => mpc[Grpc] = Seen(gpc)

(* What Seen makes of each step of module.Serve. *)
LEMMA SeenAs ==
    /\ Seen("create") = "entered"
    /\ \A gp \in {"handler", "config", "listen", "run", "register", "select"} :
         Seen(gp) = "serving"
    /\ \A gp \in {"shutdown", "stopping", "closing", "close", "join"} : Seen(gp) = "stopping"
    /\ \A gp \in {"returned", "panicked"} : Seen(gp) = "failing"
  BY DEF Seen, G!Ended

LEMMA SeenType == \A gp \in G!PCs : Seen(gp) \in MPCs
  BY SeenAs DEF G!PCs, G!Ended, MPCs

LEMMA CoupledInit == SystemInit => Coupled
  BY GrpcAssumption DEF SystemInit, Init, G!Init, Coupled, MPCs, G!PCs, GrpcAssumption

(* Each step of module.Serve, by where it starts and ends. *)
LEMMA ServeSteps ==
    ASSUME Coupled, ServePart
    PROVE  /\ UNCHANGED <<pc, by, present, running, woken, errors, notified, signals, crashed,
                          cancelled, logger>>
           /\ mpc[Grpc] = Seen(gpc) /\ gpc' \in G!PCs
           /\ \/ /\ ~logger /\ gpc' = "panicked"
                 /\ gpc \in {"create", "register", "shutdown", "closing"}
              \/ logger /\ gpc = "create" /\ gpc' = "handler"
              \/ /\ Seen(gpc) = "serving" /\ gpc' # "panicked"
                 /\ Seen(gpc') \in {"serving", "stopping", "failing"}
              \/ /\ Seen(gpc) = "stopping" /\ gpc' # "panicked"
                 /\ Seen(gpc') \in {"stopping", "failing"}
<1>1. mpc[Grpc] = Seen(gpc) /\ UNCHANGED <<pc, by, present, running, woken, errors, notified,
                                           signals, crashed>>
  BY DEF ServePart, Coupled
<1>2. CASE G!PanicsWithoutLogger
  BY <1>1, <1>2 DEF G!PanicsWithoutLogger, G!hostVars, G!PCs, G!Ended
<1>3. CASE G!SetUp
  BY <1>1, <1>3, SeenAs DEF G!SetUp, G!Goto, G!hostVars, G!PCs
<1>4. CASE G!SetUpFails
  BY <1>1, <1>4, SeenAs DEF G!SetUpFails, G!Return, G!hostVars, G!PCs, G!Ended
<1>5. CASE G!Spawn
  BY <1>1, <1>5, SeenAs DEF G!Spawn, G!Goto, G!hostVars, G!PCs
<1>6. CASE G!Register
  BY <1>1, <1>6, SeenAs DEF G!Register, G!Goto, G!hostVars, G!PCs
<1>7. CASE G!Select
  BY <1>1, <1>7, SeenAs DEF G!Select, G!Goto, G!hostVars, G!PCs
<1>8. CASE G!Shutdown
  BY <1>1, <1>8, SeenAs DEF G!Shutdown, G!Goto, G!hostVars, G!PCs
<1>9. CASE G!Drained
  BY <1>1, <1>9, SeenAs DEF G!Drained, G!Goto, G!hostVars, G!PCs
<1>10. CASE G!StopTimeout
  BY <1>1, <1>10, SeenAs DEF G!StopTimeout, G!Goto, G!hostVars, G!PCs
<1>11. CASE G!CloseServer
  BY <1>1, <1>11, SeenAs DEF G!CloseServer, G!Goto, G!hostVars, G!PCs
<1>12. CASE G!CloseReturns
  BY <1>1, <1>12, SeenAs DEF G!CloseReturns, G!Goto, G!hostVars, G!PCs
<1>13. CASE G!Join
  BY <1>1, <1>13, SeenAs DEF G!Join, G!Goto, G!hostVars, G!PCs, G!Ended
<1> QED
  BY <1>2, <1>3, <1>4, <1>5, <1>6, <1>7, <1>8, <1>9, <1>10, <1>11, <1>12, <1>13
     DEF ServePart, G!ModuleStep
-----------------------------------------------------------------------------
(* ServePart is a step of the module that HostServe knows, or the host sees none. *)
LEMMA ServePartSeen ==
    ASSUME Coupled, ServePart
    PROVE  \/ UNCHANGED vars
           \/ ModuleServe(Grpc) \/ ModuleReturns(Grpc) \/ ModuleFails(Grpc)
           \/ ModuleObeys(Grpc) \/ ModuleStops(Grpc) \/ ModulePanics(Grpc)
<1> USE GrpcAssumption DEF GrpcAssumption
<1>1. /\ UNCHANGED <<pc, by, present, running, woken, errors, notified, signals, crashed,
                     cancelled, logger>>
      /\ mpc[Grpc] = Seen(gpc)
      /\ mpc' = [mpc EXCEPT ![Grpc] = Seen(gpc')]
      /\ loggerPanics' = IF gpc' = "panicked" THEN loggerPanics \cup {Grpc} ELSE loggerPanics
  BY ServeSteps DEF ServePart
<1>2. CASE ~logger /\ gpc' = "panicked" /\ gpc \in {"create", "register", "shutdown", "closing"}
  <2>1. Seen(gpc') = "failing" /\ Seen(gpc) \in {"entered", "serving", "stopping"}
    BY <1>2, SeenAs
  <2>2. Goto(Grpc, Seen(gpc), "failing")
    BY <1>1, <2>1 DEF Goto
  <2>3. CASE Seen(gpc) = "entered"
    BY <1>1, <1>2, <2>2, <2>3 DEF ModuleServe, AskLogger, hostVars
  <2>4. CASE Seen(gpc) \in {"serving", "stopping"}
    BY <1>1, <1>2, <2>2, <2>4 DEF ModulePanics, AskLogger, hostVars
  <2> QED
    BY <2>1, <2>3, <2>4
<1>3. CASE logger /\ gpc = "create" /\ gpc' = "handler"
  <2>1. Seen(gpc') = "serving" /\ Seen(gpc) = "entered"
    BY <1>3, SeenAs
  <2> QED
    BY <1>1, <1>3, <2>1 DEF ModuleServe, AskLogger, Goto, hostVars
<1>4. CASE Seen(gpc') = Seen(gpc) /\ gpc' # "panicked"
  BY <1>1, <1>4 DEF vars, Coupled
<1>5. CASE Seen(gpc) = "serving" /\ Seen(gpc') \in {"stopping", "failing"} /\ gpc' # "panicked"
  <2>1. Goto(Grpc, "serving", Seen(gpc'))
    BY <1>1, <1>5 DEF Goto
  <2> QED
    BY <1>1, <1>5, <2>1 DEF ModuleReturns, ModuleFails, ModuleObeys, hostVars
<1>6. CASE Seen(gpc) = "stopping" /\ Seen(gpc') = "failing" /\ gpc' # "panicked"
  BY <1>1, <1>6 DEF ModuleStops, Goto, hostVars
<1> QED
  BY <1>2, <1>3, <1>4, <1>5, <1>6, ServeSteps

(* Every step of the system is a step of the host's specification, or hidden. *)
LEMMA StepSimulation ==
    ASSUME Coupled, [SystemNext]_systemVars
    PROVE  [Next]_vars
<1> USE GrpcAssumption DEF GrpcAssumption
<1>1. CASE HostPart /\ ~crashed
  BY <1>1 DEF HostPart, Next
<1>2. ASSUME NEW m \in Modules, OtherPart(m), ~crashed
      PROVE  Next
  BY <1>2 DEF OtherPart, Next
<1>3. CASE EntryPart /\ ~crashed
  BY <1>3 DEF EntryPart, Next, Routine
<1>4. CASE ServePart /\ ~crashed
  BY <1>4, ServePartSeen DEF Next, Routine
<1>5. CASE BackgroundPart
  BY <1>5 DEF BackgroundPart
<1>6. CASE UNCHANGED systemVars
  BY <1>6 DEF systemVars
<1> QED
  BY <1>1, <1>2, <1>3, <1>4, <1>5, <1>6 DEF SystemNext
-----------------------------------------------------------------------------
(* A step of another goroutine than the grpc module's. *)
LEMMA OtherKeeps ==
    ASSUME Coupled, NEW m \in Modules, m # Grpc, OtherPart(m)
    PROVE  mpc' \in [Modules -> MPCs] /\ mpc'[Grpc] = mpc[Grpc] /\ UNCHANGED <<pc, gpc>>
<1>1. PICK from \in MPCs, to \in MPCs : Goto(m, from, to)
  BY DEF OtherPart, Routine, Start, Enter, ModuleServe, ModuleReturns, ModuleFails, ModuleObeys,
         ModuleStops, ModulePanics, Report, Leave, AskLogger, MPCs
<1>2. UNCHANGED <<pc, gpc>>
  BY DEF OtherPart, Routine, Start, Enter, ModuleServe, ModuleReturns, ModuleFails, ModuleObeys,
         ModuleStops, ModulePanics, Report, Leave, hostVars, grpcVars
<1> QED
  BY <1>1, <1>2, GrpcAssumption DEF Goto, Coupled, GrpcAssumption

LEMMA CoupledStep ==
    ASSUME Coupled, [SystemNext]_systemVars
    PROVE  Coupled'
<1> USE GrpcAssumption DEF GrpcAssumption
<1> USE DEF Coupled
<1>1. CASE HostPart
  <2>1. gpc' = gpc
    BY <1>1 DEF HostPart, grpcVars
  <2>2. CASE serveModule
    BY <2>1, <2>2 DEF serveModule, MPCs
  <2>3. CASE ~serveModule
    <3>1. mpc' = mpc
      BY <1>1, <2>3 DEF HostPart, HostStep, PrepareFails, Prepare, Block, TakeError, Cancel, Wait,
                        Wake, Cleanup, Signal
    <3>2. pc' \in {"prepare", "spawn"} => pc \in {"prepare", "spawn"}
      BY <1>1, <2>3 DEF HostPart, HostStep, PrepareFails, Prepare, Block, TakeError, Cancel, Wait,
                        Wake, Cleanup, Signal, hostVars
    <3> QED
      BY <2>1, <3>1, <3>2
  <2> QED
    BY <2>2, <2>3
<1>2. ASSUME NEW m \in Modules, OtherPart(m)
      PROVE  Coupled'
  <2>1. m # Grpc
    BY <1>2 DEF OtherPart
  <2> QED
    BY <1>2, <2>1, OtherKeeps
<1>3. CASE EntryPart
  <2>1. UNCHANGED <<gpc, pc>>
    BY <1>3 DEF EntryPart, grpcVars, Start, Enter, Report, Leave, hostVars
  <2>2. \/ Goto(Grpc, "spawned", "named") \/ Goto(Grpc, "named", "entered")
        \/ Goto(Grpc, "failing", "leaving") \/ Goto(Grpc, "leaving", "left")
    BY <1>3 DEF EntryPart, Start, Enter, Report, Leave
  <2> QED
    BY <2>1, <2>2, SeenAs DEF Goto, MPCs
<1>4. CASE ServePart
  <2>1. pc' = pc /\ gpc' \in G!PCs /\ mpc' = [mpc EXCEPT ![Grpc] = Seen(gpc')]
    BY <1>4, ServeSteps DEF ServePart
  <2>2. Seen(gpc') \in {"serving", "stopping", "failing"}
    BY <1>4, ServeSteps, SeenAs
  <2>3. mpc[Grpc] # "none"
    BY <1>4 DEF ServePart
  <2> QED
    BY <2>1, <2>2, <2>3, SeenType
<1>5. CASE BackgroundPart
  <2>1. UNCHANGED <<pc, mpc>>
    BY <1>5 DEF BackgroundPart, vars
  <2>2. gpc' = gpc
    BY <1>5 DEF BackgroundPart, G!HandlerStep, G!HandlerEnds, G!HandlerReports, G!ServerStep,
                G!ServerStarts, G!ServerQuits, G!ServerLeaves, G!ServerReports, G!StopperStep,
                G!StopBegins, G!StopEnds, G!ListenerFails, G!StartCall, G!EndCall
  <2> QED
    BY <2>1, <2>2
<1>6. CASE UNCHANGED systemVars
  BY <1>6 DEF systemVars, vars, grpcVars
<1> QED
  BY <1>1, <1>2, <1>3, <1>4, <1>5, <1>6 DEF SystemNext
-----------------------------------------------------------------------------
(* A host with a grpc module behaves as HostServe says, whatever the goroutines,  *)
(* the clients and the handler of the grpc module do.                       *)
THEOREM Implements == SystemSpec => ImplementsHost
<1>1. SystemInit => Init
  BY DEF SystemInit
<1>2. SystemInit => Coupled
  BY CoupledInit
<1>3. Coupled /\ [SystemNext]_systemVars => Coupled'
  BY CoupledStep
<1>4. Coupled /\ [SystemNext]_systemVars => [Next]_vars
  BY StepSimulation
<1> QED
  BY <1>1, <1>2, <1>3, <1>4, PTL DEF SystemSpec, ImplementsHost, Spec

(* So a host with a grpc module waits, after a signal, for each module that was    *)
(* running when it came, and none of these loses its logger while it shuts down. *)
THEOREM SystemSignalWaits == SystemSpec => []SignalWaitsForPresent
  BY Implements, SignalWaits DEF ImplementsHost
-----------------------------------------------------------------------------
(* From the signal to the server.  What was proved of the grpc module by itself   *)
(* holds in the system, although the host may cancel and clean up in one step.  *)
GP == INSTANCE GrpcModuleProofs WITH pc <- gpc, cancelled <- gcancelled, hostCancelled <- cancelled

(* G, of HostGrpc, and GP are two names for the same steps. *)
BackgroundStep ==
    \/ G!HandlerStep \/ G!ServerStep \/ G!StopperStep
    \/ G!ListenerFails \/ G!StartCall \/ G!EndCall

LEMMA SameSteps ==
    /\ G!ModuleStep => GP!ModuleStep
    /\ BackgroundStep => GP!HandlerStep \/ GP!ServerStep \/ GP!StopperStep
                          \/ GP!ListenerFails \/ GP!StartCall \/ GP!EndCall
<1> USE DEF G!hostVars, GP!hostVars, G!serverVars, GP!serverVars, G!Goto, GP!Goto, G!Return,
            GP!Return, G!SendError, GP!SendError, G!ErrorPlaces, GP!ErrorPlaces
<1>1. ASSUME G!ModuleStep
      PROVE  GP!ModuleStep
  BY <1>1 DEF G!ModuleStep, GP!ModuleStep, G!PanicsWithoutLogger, GP!PanicsWithoutLogger,
              G!SetUp, GP!SetUp, G!SetUpFails, GP!SetUpFails, G!Spawn, GP!Spawn, G!Register,
              GP!Register, G!Select, GP!Select, G!Shutdown, GP!Shutdown, G!Drained, GP!Drained,
              G!StopTimeout, GP!StopTimeout, G!CloseServer, GP!CloseServer, G!CloseReturns,
              GP!CloseReturns, G!Join, GP!Join
<1>2. ASSUME BackgroundStep
      PROVE  \/ GP!HandlerStep \/ GP!ServerStep \/ GP!StopperStep
             \/ GP!ListenerFails \/ GP!StartCall \/ GP!EndCall
  BY <1>2 DEF BackgroundStep, G!HandlerStep, GP!HandlerStep, G!HandlerEnds, GP!HandlerEnds, G!HandlerReports,
              GP!HandlerReports, G!ServerStep, GP!ServerStep, G!ServerStarts, GP!ServerStarts,
              G!ServerQuits, GP!ServerQuits, G!ServerLeaves, GP!ServerLeaves, G!ServerReports,
              GP!ServerReports, G!StopperStep, GP!StopperStep, G!StopBegins, GP!StopBegins,
              G!StopEnds, GP!StopEnds, G!ListenerFails, GP!ListenerFails, G!StartCall,
              GP!StartCall, G!EndCall, GP!EndCall
<1> QED
  BY <1>1, <1>2

LEMMA InsideFacts ==
    /\ GP!Init => GP!Inv
    /\ GP!Inv /\ [GP!Next]_GP!vars => GP!Inv'
  BY GrpcAssumption, GP!InvInit, GP!InvStep DEF GrpcAssumption, GP!MaxCallsAssumption

(* The grpc module's invariant is about nothing that the host shares. *)
LEMMA InsideKept == ASSUME GP!Inv, UNCHANGED grpcVars PROVE GP!Inv'
  BY DEF grpcVars, GP!Inv, GP!EarlyInv, GP!ResultInv, GP!StopInv, GP!DownInv, GP!CloseInv,
         GP!JoinInv, GP!Early, GP!Up, GP!Down, GP!Returned, GP!Unspawned

LEMMA InsideStep ==
    ASSUME GP!Inv, [SystemNext]_systemVars
    PROVE  GP!Inv'
<1>1. CASE HostPart \/ EntryPart \/ \E m \in Modules : OtherPart(m)
  BY <1>1, InsideKept DEF HostPart, EntryPart, OtherPart
<1>2. CASE ServePart
  <2>1. G!ModuleStep
    BY <1>2 DEF ServePart
  <2> QED
    BY <2>1, SameSteps, InsideFacts DEF GP!Next
<1>3. CASE BackgroundPart
  <2>1. BackgroundStep
    BY <1>3 DEF BackgroundPart, BackgroundStep
  <2> QED
    BY <2>1, SameSteps, InsideFacts DEF GP!Next
<1>4. CASE UNCHANGED systemVars
  BY <1>4, InsideKept DEF systemVars
<1> QED
  BY <1>1, <1>2, <1>3, <1>4 DEF SystemNext

(* The host sees the end of Serve as it was. *)
EndInv ==
    /\ mpc[Grpc] \in {"failing", "leaving", "left"} => gpc \in G!Ended
    /\ gpc = "panicked" => Grpc \in loggerPanics

LEMMA EndInit == SystemInit => EndInv
  BY GrpcAssumption DEF SystemInit, Init, G!Init, EndInv, GrpcAssumption

LEMMA EndStep ==
    ASSUME Coupled, EndInv, [SystemNext]_systemVars
    PROVE  EndInv'
<1> USE GrpcAssumption DEF GrpcAssumption, EndInv
<1>1. CASE HostPart
  <2>1. UNCHANGED <<gpc, loggerPanics>>
    BY <1>1 DEF HostPart, grpcVars, HostStep, PrepareFails, Prepare, serveModule, Block,
                TakeError, Cancel, Wait, Wake, Cleanup, Signal
  <2>2. mpc' = mpc \/ mpc'[Grpc] = "spawned"
    BY <1>1 DEF HostPart, HostStep, PrepareFails, Prepare, serveModule, Block,
                TakeError, Cancel, Wait, Wake, Cleanup, Signal
  <2> QED
    BY <2>1, <2>2
<1>2. ASSUME NEW m \in Modules, OtherPart(m)
      PROVE  EndInv'
  <2>1. m # Grpc
    BY <1>2 DEF OtherPart
  <2>2. loggerPanics \subseteq loggerPanics'
    BY <1>2 DEF OtherPart, Routine, Start, Enter, ModuleServe, ModuleReturns, ModuleFails,
                ModuleObeys, ModuleStops, ModulePanics, Report, Leave, AskLogger
  <2> QED
    BY <1>2, <2>1, <2>2, OtherKeeps
<1>3. CASE EntryPart
  <2>1. UNCHANGED <<gpc, loggerPanics>>
    BY <1>3 DEF EntryPart, grpcVars, Start, Enter, Report, Leave
  <2>2. \/ Goto(Grpc, "spawned", "named") \/ Goto(Grpc, "named", "entered")
        \/ Goto(Grpc, "failing", "leaving") \/ Goto(Grpc, "leaving", "left")
    BY <1>3 DEF EntryPart, Start, Enter, Report, Leave
  <2> QED
    BY <2>1, <2>2 DEF Goto, Coupled
<1>4. CASE ServePart
  <2>1. gpc' \in G!PCs /\ mpc'[Grpc] = Seen(gpc')
    BY <1>4, ServeSteps DEF ServePart, Coupled
  <2>2. loggerPanics' = IF gpc' = "panicked" THEN loggerPanics \cup {Grpc} ELSE loggerPanics
    BY <1>4 DEF ServePart
  <2>3. gpc' \notin G!Ended => Seen(gpc') \notin {"failing", "leaving", "left"}
    BY <2>1, SeenAs DEF G!PCs
  <2> QED
    BY <2>1, <2>2, <2>3
<1>5. CASE BackgroundPart
  <2>1. gpc' = gpc
    BY <1>5 DEF BackgroundPart, G!HandlerStep, G!HandlerEnds, G!HandlerReports, G!ServerStep,
                G!ServerStarts, G!ServerQuits, G!ServerLeaves, G!ServerReports, G!StopperStep,
                G!StopBegins, G!StopEnds, G!ListenerFails, G!StartCall, G!EndCall
  <2> QED
    BY <1>5, <2>1 DEF BackgroundPart, vars
<1>6. CASE UNCHANGED systemVars
  BY <1>6 DEF systemVars, vars, grpcVars
<1> QED
  BY <1>1, <1>2, <1>3, <1>4, <1>5, <1>6 DEF SystemNext

(* A signal that finds the grpc module running stops its server: when host.Serve  *)
(* has returned (host.go:241) the module has waited for its goroutines and closed  *)
(* its handler, as far as NothingOutlivesServe says.  The host's part and the     *)
(* module's part meet here.                                                  *)
THEOREM SignalStops == SystemSpec => []SignalStopsServer
<1>1. SystemInit => Coupled /\ EndInv /\ GP!Inv
  BY CoupledInit, EndInit, InsideFacts DEF SystemInit, G!Init, GP!Init
<1>2. Coupled /\ EndInv /\ GP!Inv /\ [SystemNext]_systemVars => (Coupled /\ EndInv /\ GP!Inv)'
  BY CoupledStep, EndStep, InsideStep
<1>3. Coupled /\ EndInv /\ GP!Inv /\ WaitInv => SignalStopsServer
  <2> SUFFICES ASSUME Coupled, EndInv, GP!Inv, WaitInv,
                      pc = "returned", by = "signal", Grpc \in present
               PROVE  gpc = "returned" /\ G!NothingOutlivesServe
    BY DEF SignalStopsServer
  <2>1. mpc[Grpc] = "left"
    BY GrpcAssumption DEF GrpcAssumption, Coupled, WaitInv, PresentDone, Inside, Late, MPCs
  <2>2. Grpc \notin loggerPanics
    BY DEF WaitInv, SignalWaitsForPresent
  <2>3. gpc = "returned"
    BY <2>1, <2>2 DEF EndInv, G!Ended
  <2>4. G!NothingOutlivesServe
    <3>1. CASE result = "early"
      BY <3>1 DEF GP!Inv, GP!EarlyInv, GP!Unspawned, G!NothingOutlivesServe, G!Counted, G!Running
    <3>2. CASE result # "early"
      BY <3>2 DEF GP!Inv, GP!StopInv, GP!DownInv, GP!CloseInv, GP!JoinInv, GP!Returned,
                  G!NothingOutlivesServe, G!Counted, G!Running
    <3> QED
      BY <3>1, <3>2
  <2> QED
    BY <2>3, <2>4
<1> QED
  BY <1>1, <1>2, <1>3, Implements, WaitInvariant, PTL DEF SystemSpec, ImplementsHost
=============================================================================
