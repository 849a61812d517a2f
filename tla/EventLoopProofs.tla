--------------------------- MODULE EventLoopProofs ---------------------------
(***************************************************************************)
(* Proofs about EventLoop for any number of goroutines, events, names and    *)
(* registrations: the type invariant; mutual exclusion of the workers over   *)
(* the batch; that no event is served by a dispatcher older than the last    *)
(* registration that had returned when the event was posted; that none is    *)
(* lost or doubled; that the exit drains what was posted before it; that     *)
(* only a refresh changes the order; and that the loop implements            *)
(* EventMailbox.                                                            *)
(***************************************************************************)
EXTENDS EventLoop, SequenceTheorems, TLAPS

(* The entries of an extended buffer. *)
LEMMA AppendEntries ==
    ASSUME NEW S, NEW s \in Seq(S), NEW e \in S
    PROVE  /\ Len(Append(s, e)) = Len(s) + 1
           /\ Append(s, e)[Len(s) + 1] = e
           /\ \A i \in 1..Len(s) : Append(s, e)[i] = s[i]
  OBVIOUS

LEMMA ConcatEntries ==
    ASSUME NEW S, NEW s \in Seq(S), NEW t \in Seq(S)
    PROVE  /\ Len(s \o t) = Len(s) + Len(t)
           /\ \A i \in 1..Len(s) : (s \o t)[i] = s[i]
           /\ \A i \in 1..Len(s \o t) : i > Len(s) =>
                i - Len(s) \in 1..Len(t) /\ (s \o t)[i] = t[i - Len(s)]
  OBVIOUS

-----------------------------------------------------------------------------
(* Types.                                                                   *)

LEMMA InitType == Init => TypeOK
<1> SUFFICES ASSUME Init PROVE TypeOK
  OBVIOUS
<1>1. dispatchers \in Seq(Tables) /\ Len(dispatchers) \in 1..(MaxChanges + 1)
  <2>1. PICK t \in Tables : dispatchers = <<t>>
    BY DEF Init
  <2>2. <<t>> \in Seq(Tables) /\ Len(<<t>>) = 1
    BY <2>1
  <2> QED
    BY <2>1, <2>2, ConstantsAssumption
<1>2. workMutex \in Gens /\ gen \in Gens
  BY ConstantsAssumption DEF Init, Gens, MaxGen
<1> QED
  BY <1>1, <1>2 DEF Init, TypeOK, WorkerPCs

LEMMA ItemFacts ==
    /\ Clients \subseteq Items /\ Refresh \in Items /\ Exit \in Items
    /\ Callers \subseteq Clients
    /\ Refresh \notin Clients /\ Exit \notin Clients /\ Refresh # Exit
  BY ConstantsAssumption DEF Items, Clients, Events

LEMMA GenFacts ==
    /\ MaxGen \in Nat /\ Gens \subseteq Nat /\ 0 \in Gens
    /\ \A g \in Gens : g < MaxGen => g + 1 \in Gens
  BY ConstantsAssumption DEF Gens, MaxGen

(* What every use of pushEvent does to the types. *)
LEMMA PushType ==
    ASSUME TypeOK, NEW item \in Items, Push(item)
    PROVE  /\ workBufferPut' \in Seq(Items)
           /\ workBufferGet' \in Seq(Items)
           /\ workMutex' \in Gens
  BY DEF TypeOK, Push

LEMMA TypeStep == TypeOK /\ [Next]_vars => TypeOK'
<1> SUFFICES ASSUME TypeOK, [Next]_vars PROVE TypeOK'
  OBVIOUS
<1> USE DEF TypeOK, WorkerPCs
<1>1. ASSUME NEW c \in Clients, PushClient(c)
      PROVE  /\ dispatchers' \in Seq(Tables) /\ Len(dispatchers)' \in 1..(MaxChanges + 1)
             /\ since' \in [Clients -> Nat] /\ posted' \in Seq(Clients)
             /\ callPC' \in [Clients -> {"idle", "waiting", "answered", "gaveup", "done"}]
             /\ workBufferPut' \in Seq(Items) /\ workBufferGet' \in Seq(Items)
             /\ workMutex' \in Gens
  <2>1. workBufferPut' \in Seq(Items) /\ workBufferGet' \in Seq(Items) /\ workMutex' \in Gens
    BY <1>1, PushType, ItemFacts DEF PushClient
  <2>2. Settled \in Nat
    BY DEF Settled
  <2>3. UNCHANGED dispatchers
    BY <1>1 DEF PushClient, registerVars
  <2>4. since' \in [Clients -> Nat] /\ posted' \in Seq(Clients)
    BY <1>1, <2>2 DEF PushClient
  <2>5. callPC' \in [Clients -> {"idle", "waiting", "answered", "gaveup", "done"}]
    BY <1>1 DEF PushClient
  <2> QED
    BY <2>1, <2>3, <2>4, <2>5
<1>2. ASSUME NEW c \in Clients, Post(c) PROVE TypeOK'
  BY <1>1, <1>2 DEF Post, PushClient, registerVars, serveVars, responseVars, historyVars
<1>3. ASSUME NEW g \in Gens, NEW c \in Callers, CallFromCallback(g, c) PROVE TypeOK'
  BY <1>1, <1>3, ItemFacts
     DEF CallFromCallback, PushClient, registerVars, serveVars, responseVars, historyVars
<1>4. ASSUME NEW c \in Callers, Caller(c) PROVE TypeOK'
  <2>1. PICK pc \in {"gaveup", "answered"} : Return(c, pc)
    BY <1>4 DEF Caller, GiveUp, ReadResponse
  <2>2. workerPC' \in [Gens -> WorkerPCs]
    BY <2>1 DEF Return
  <2> QED
    BY <2>1, <2>2, ItemFacts
       DEF Return, registerVars, bufferVars, serveVars, responseVars, historyVars
<1>5. ASSUME NEW c \in Callers, RespondLater(c) PROVE TypeOK'
  BY <1>5 DEF RespondLater, registerVars, bufferVars, serveVars, workerVars, callVars, historyVars
<1>6. ASSUME NEW n \in Names, NEW h \in Handlers, BeginChange(n, h) PROVE TypeOK'
  <2>1. [dispatchers[Len(dispatchers)] EXCEPT ![n] = h] \in Tables
    BY DEF Tables
  <2>2. dispatchers' \in Seq(Tables) /\ Len(dispatchers') \in 1..(MaxChanges + 1)
    BY <1>6, <2>1, ConstantsAssumption DEF BeginChange
  <2> QED
    BY <1>6, <2>2
       DEF BeginChange, bufferVars, serveVars, workerVars, callVars, responseVars, historyVars
<1>7. ASSUME EndChange PROVE TypeOK'
  <2>1. PICK flag \in BOOLEAN : EndChangeRacy(flag)
    BY <1>7 DEF EndChange, FlagSeen
  <2>2. workBufferPut' \in Seq(Items) /\ workBufferGet' \in Seq(Items) /\ workMutex' \in Gens
    BY <2>1, PushType, ItemFacts DEF EndChangeRacy, bufferVars
  <2> QED
    BY <2>1, <2>2
       DEF EndChangeRacy, serveVars, workerVars, callVars, responseVars, historyVars
<1>8. ASSUME ServeStart PROVE TypeOK'
  BY <1>8 DEF ServeStart, registerVars, bufferVars, workerVars, callVars, responseVars, historyVars
<1>9. ASSUME ServeClone PROVE TypeOK'
  <2>1. gen + 1 \in Gens
    BY <1>9, GenFacts DEF ServeClone
  <2>2. /\ gen' \in Gens
        /\ workerPC' \in [Gens -> WorkerPCs]
        /\ index' \in [Gens -> Nat]
        /\ dispatcher' \in [Gens -> Nat]
        /\ servePC' = "select"
    BY <1>9, <2>1 DEF ServeClone
  <2> QED
    BY <1>9, <2>2 DEF ServeClone, registerVars, bufferVars, callVars, responseVars, historyVars
<1>10. ASSUME ServeRefreshed \/ ServeCtxDone PROVE TypeOK'
  BY <1>10 DEF ServeRefreshed, ServeCtxDone, registerVars, bufferVars, workerVars, callVars,
               responseVars, historyVars
<1>11. ASSUME ServePushExit PROVE TypeOK'
  <2>1. workBufferPut' \in Seq(Items) /\ workBufferGet' \in Seq(Items) /\ workMutex' \in Gens
    BY <1>11, PushType, ItemFacts DEF ServePushExit
  <2>2. beforeExit' \subseteq Clients
    BY <1>11, SMTT(30) DEF ServePushExit
  <2> QED
    BY <1>11, <2>1, <2>2 DEF ServePushExit, registerVars, workerVars, callVars, responseVars
<1>12. ASSUME NEW g \in Gens, Swap(g) \/ FinishBatch(g) PROVE TypeOK'
  <2>1. CASE Swap(g)
    BY <2>1 DEF Swap, registerVars, serveVars, callVars, responseVars, historyVars
  <2>2. CASE FinishBatch(g)
    <3>1. <<>> \in Seq(Items)
      OBVIOUS
    <3> QED
      BY <2>2, <3>1 DEF FinishBatch, registerVars, serveVars, callVars, responseVars, historyVars
  <2> QED
    BY <1>12, <2>1, <2>2
<1>13. ASSUME NEW g \in Gens, NEW c \in Clients, NotExists(g, c) \/ StartCallback(g, c)
       PROVE  TypeOK'
  <2>1. /\ index' \in [Gens -> Nat]
        /\ servedBy' \in [Clients -> Nat]
        /\ UNCHANGED <<dispatcher, registerVars, bufferVars, serveVars, callVars, retained,
                       requeued, beforeExit>>
    <3>1. Take(g, c)
      BY <1>13 DEF NotExists, StartCallback
    <3>2. dispatcher[g] \in Nat /\ index[g] + 1 \in Nat
      OBVIOUS
    <3> QED
      BY <3>1, <3>2 DEF Take
  <2>2. workerPC' \in [Gens -> WorkerPCs] /\ responseFlag' \subseteq Callers
    BY <1>13 DEF NotExists, StartCallback
  <2> QED
    BY <2>1, <2>2 DEF registerVars, bufferVars, serveVars, callVars
<1>14. ASSUME NEW g \in Gens, FinishCallback(g) PROVE TypeOK'
  BY <1>14 DEF FinishCallback, registerVars, bufferVars, serveVars, callVars, historyVars
<1>15. ASSUME NEW g \in Gens, TakeExit(g) \/ Unlock(g) PROVE TypeOK'
  BY <1>15, GenFacts DEF TakeExit, Unlock, registerVars, bufferVars, serveVars, callVars, responseVars,
                         historyVars
<1>16. ASSUME NEW g \in Gens, TakeRefresh(g) PROVE TypeOK'
  <2>1. Remainder(g) \in Seq(Items)
    BY <1>16, SMTT(60) DEF TakeRefresh, RefreshWith, AtItem, Remainder
  <2>2. workBufferPut \o Remainder(g) \in Seq(Items) /\ <<>> \in Seq(Items)
    BY <2>1
  <2>3. requeued' \subseteq Clients
    BY <1>16 DEF TakeRefresh, RefreshWith
  <2> QED
    BY <1>16, <2>2, <2>3 DEF TakeRefresh, RefreshWith, registerVars, serveVars, callVars,
                             responseVars
<1>17. ASSUME UNCHANGED vars PROVE TypeOK'
  BY <1>17 DEF vars, registerVars, bufferVars, serveVars, workerVars, callVars, responseVars, historyVars
<1> QED
  BY <1>2, <1>3, <1>4, <1>5, <1>6, <1>7, <1>8, <1>9, <1>10, <1>11, <1>12, <1>13, <1>14, <1>15,
     <1>16, <1>17 DEF Next, Worker, Server

(* Every variable keeps its type. *)
THEOREM TypeCorrect == Spec => []TypeOK
  BY InitType, TypeStep, PTL DEF Spec
-----------------------------------------------------------------------------
(* One worker at a time.  Only the worker Serve started last works on events; *)
(* Serve starts another one only after that one has cancelled, and the new   *)
(* one cannot swap the buffers before the old one has released workMutex.    *)

Working(g) == workerPC[g] \in {"swap", "run", "callback", "nested"}

OnlyLastWorks ==
    /\ servePC = "idle" => gen = 0
    /\ servePC # "idle" => workStartFlag
    /\ workerPC[0] = "none"
    /\ \A g \in Gens : g > gen => workerPC[g] = "none"
    /\ \A g \in Gens : Working(g) => g = gen
    /\ servePC = "clone" => ~Working(gen)

MutexHeld ==
    /\ \A g \in Gens : workerPC[g] = "unlock" => workMutex = g
    /\ workMutex # 0 => \A g \in Gens : workerPC[g] \notin {"run", "callback", "nested"}

(* The exit event is the last thing Serve pushes. *)
ExitIsLast ==
    servePC # "returned" =>
        /\ \A i \in 1..Len(workBufferPut) : workBufferPut[i] # Exit
        /\ \A i \in 1..Len(workBufferGet) : workBufferGet[i] # Exit
        /\ \A g \in Gens : workerPC[g] # "exited"

BatchBounds ==
    /\ workerPC[gen] \in {"none", "swap", "unlock", "refreshed"} => workBufferGet = <<>>
    /\ workerPC[gen] \in {"run", "callback", "nested"} => index[gen] <= Len(workBufferGet)

WorkersInv == OnlyLastWorks /\ MutexHeld /\ ExitIsLast /\ BatchBounds

LEMMA WorkersInit == Init => WorkersInv
  BY GenFacts DEF Init, WorkersInv, OnlyLastWorks, MutexHeld, ExitIsLast, BatchBounds, Working

LEMMA PushWorkers ==
    ASSUME TypeOK, WorkersInv, NEW item \in Items \ {Exit}, Push(item)
    PROVE  /\ workMutex = 0 /\ UNCHANGED <<workMutex, workBufferGet>>
           /\ servePC # "returned" =>
                \A i \in 1..Len(workBufferPut') : workBufferPut'[i] # Exit
<1>1. workMutex = 0 /\ UNCHANGED <<workMutex, workBufferGet>>
  BY DEF Push
<1>2. workBufferPut \in Seq(Items) /\ workBufferPut' = Append(workBufferPut, item)
  BY DEF TypeOK, Push
<1>3. /\ Len(workBufferPut') = Len(workBufferPut) + 1
      /\ workBufferPut'[Len(workBufferPut) + 1] = item
      /\ \A i \in 1..Len(workBufferPut) : workBufferPut'[i] = workBufferPut[i]
  BY <1>2, AppendEntries
<1> QED
  BY <1>1, <1>2, <1>3 DEF WorkersInv, ExitIsLast

(* The entries that a refresh puts back. *)
LEMMA RemainderEntries ==
    ASSUME TypeOK, NEW g \in Gens, index[g] + 1 \in 1..Len(workBufferGet)
    PROVE  /\ Remainder(g) \in Seq(Items)
           /\ Len(Remainder(g)) = Len(workBufferGet) - index[g] - 1
           /\ \A j \in 1..Len(Remainder(g)) :
                /\ j + index[g] + 1 \in 1..Len(workBufferGet)
                /\ Remainder(g)[j] = workBufferGet[j + index[g] + 1]
<1>1. PICK k \in Nat, n \in Nat :
        /\ k = index[g] /\ n = Len(workBufferGet) /\ k + 1 \in 1..n
        /\ workBufferGet \in Seq(Items)
  BY DEF TypeOK
<1>2. /\ SubSeq(workBufferGet, k + 2, n) \in Seq(Items)
      /\ Len(SubSeq(workBufferGet, k + 2, n)) = n - k - 1
      /\ \A j \in 1..(n - k - 1) : SubSeq(workBufferGet, k + 2, n)[j] = workBufferGet[j + k + 1]
  <2>1. \A i \in (k + 2)..n : i \in 1..n
    BY <1>1
  <2>2. \A i \in (k + 2)..n : workBufferGet[i] \in Items
    BY <1>1, <2>1
  <2>3. k + 2 \in Int /\ n \in Int
    BY <1>1
  <2> DEFINE rest == SubSeq(workBufferGet, k + 2, n)
  <2>4. rest \in Seq(Items)
    BY <2>2, <2>3, SubSeqProperties
  <2>5. Len(rest) = IF k + 2 <= n THEN n - (k + 2) + 1 ELSE 0
    BY <2>2, <2>3, SubSeqProperties
  <2>6. \A j \in 1..(n - (k + 2) + 1) : rest[j] = workBufferGet[(k + 2) + j - 1]
    BY <2>2, <2>3, SubSeqProperties
  <2> HIDE DEF rest
  <2>7. k \in Int /\ n \in Int /\ k + 1 <= n
    BY <1>1
  <2>8. Len(rest) = n - k - 1
    BY <2>5, <2>7
  <2>9. ASSUME NEW j \in 1..(n - k - 1)
        PROVE  rest[j] = workBufferGet[j + k + 1]
    <3>1. j \in 1..(n - (k + 2) + 1) /\ (k + 2) + j - 1 = j + k + 1
      BY <2>7, <2>9
    <3> QED
      BY <2>6, <3>1
  <2>10. \A j \in 1..(n - k - 1) : rest[j] = workBufferGet[j + k + 1]
    BY <2>9
  <2> USE DEF rest
  <2> QED
    BY <2>4, <2>8, <2>10
<1>3. \A j \in 1..(n - k - 1) : j + k + 1 \in 1..n
  <2>1. k \in Nat /\ n \in Nat
    BY <1>1
  <2> QED
    BY <2>1
<1> QED
  BY <1>1, <1>2, <1>3 DEF Remainder

LEMMA WorkersStep == TypeOK /\ WorkersInv /\ [Next]_vars => WorkersInv'
<1> SUFFICES ASSUME TypeOK, WorkersInv, [Next]_vars PROVE WorkersInv'
  OBVIOUS
<1> USE GenFacts DEF TypeOK, WorkerPCs, WorkersInv, OnlyLastWorks, MutexHeld, ExitIsLast,
                     BatchBounds, Working
<1>1. ASSUME NEW c \in Clients, PushClient(c)
      PROVE  /\ UNCHANGED <<workMutex, workBufferGet, serveVars, index>>
             /\ workMutex = 0
             /\ servePC # "returned" =>
                    \A i \in 1..Len(workBufferPut') : workBufferPut'[i] # Exit
  BY <1>1, PushWorkers, ItemFacts DEF PushClient
<1>2. ASSUME NEW c \in Clients, Post(c) PROVE WorkersInv'
  BY <1>1, <1>2 DEF Post, serveVars
<1>3. ASSUME NEW g \in Gens, NEW c \in Callers, CallFromCallback(g, c) PROVE WorkersInv'
  <2>1. PushClient(c)
    BY <1>3 DEF CallFromCallback
  <2>2. /\ UNCHANGED <<workMutex, workBufferGet, serveVars, index>>
        /\ workMutex = 0
        /\ servePC # "returned" =>
               \A i \in 1..Len(workBufferPut') : workBufferPut'[i] # Exit
    BY <2>1, <1>1, ItemFacts
  <2> QED
    BY <1>3, <2>2 DEF CallFromCallback, serveVars
<1>4. ASSUME NEW c \in Callers, Caller(c) PROVE WorkersInv'
  <2>1. PICK pc : Return(c, pc)
    BY <1>4 DEF Caller, GiveUp, ReadResponse
  <2> QED
    BY <2>1 DEF Return, bufferVars, serveVars
<1>5. ASSUME NEW c \in Callers, RespondLater(c) PROVE WorkersInv'
  BY <1>5 DEF RespondLater, bufferVars, serveVars, workerVars
<1>6. ASSUME NEW n \in Names, NEW h \in Handlers, BeginChange(n, h) PROVE WorkersInv'
  BY <1>6 DEF BeginChange, bufferVars, serveVars, workerVars
<1>7. ASSUME EndChange PROVE WorkersInv'
  <2>1. PICK flag \in BOOLEAN : EndChangeRacy(flag)
    BY <1>7 DEF EndChange, FlagSeen
  <2>2. CASE flag
    <3>1. Push(Refresh)
      BY <2>1, <2>2 DEF EndChangeRacy
    <3> QED
      BY <2>1, <3>1, PushWorkers, ItemFacts DEF EndChangeRacy, serveVars, workerVars
  <2>3. CASE ~flag
    BY <2>1, <2>3 DEF EndChangeRacy, bufferVars, serveVars, workerVars
  <2> QED
    BY <2>2, <2>3
<1>8. ASSUME ServeStart PROVE WorkersInv'
  BY <1>8 DEF ServeStart, bufferVars, workerVars
<1>9. ASSUME ServeClone PROVE WorkersInv'
  <2>1. gen + 1 \in Gens /\ gen \in Nat
    BY <1>9 DEF ServeClone
  <2>2. workBufferGet = <<>>
    BY <1>9 DEF ServeClone
  <2>3. workerPC' = [workerPC EXCEPT ![gen + 1] = "swap"] /\ gen' = gen + 1 /\ servePC' = "select"
    BY <1>9 DEF ServeClone
  <2>4. UNCHANGED <<workStartFlag, workBufferPut, workBufferGet, workMutex>>
    BY <1>9 DEF ServeClone, bufferVars
  <2>5. workStartFlag
    BY <1>9 DEF ServeClone
  <2>6. OnlyLastWorks'
    <3>1. servePC' # "idle" /\ workStartFlag' /\ servePC' # "clone"
      BY <2>3, <2>4, <2>5
    <3>2. workerPC'[0] = "none"
      BY <2>1, <2>3
    <3>3. \A h \in Gens : h > gen' => workerPC'[h] = "none"
      BY <2>1, <2>3
    <3>4. ~Working(gen)
      BY <1>9 DEF ServeClone
    <3>5. ASSUME NEW h \in Gens, h # gen + 1 PROVE ~Working(h)'
      BY <2>3, <3>4, <3>5
    <3> QED
      BY <2>3, <3>1, <3>2, <3>3, <3>5, SMTT(60)
  <2>7. MutexHeld' /\ ExitIsLast'
    BY <1>9, <2>1, <2>3, <2>4, SMTT(60) DEF ServeClone
  <2>8. BatchBounds'
    BY <2>1, <2>2, <2>3, <2>4
  <2> QED
    BY <2>6, <2>7, <2>8
<1>10. ASSUME ServeRefreshed \/ ServeCtxDone PROVE WorkersInv'
  BY <1>10 DEF ServeRefreshed, ServeCtxDone, Cancelled, bufferVars, workerVars
<1>11. ASSUME ServePushExit PROVE WorkersInv'
  BY <1>11 DEF ServePushExit, Push, workerVars
<1>12. ASSUME NEW g \in Gens, Swap(g) PROVE WorkersInv'
  <2>1. /\ g = gen /\ workerPC[gen] = "swap" /\ workBufferGet = <<>> /\ workMutex = 0
        /\ workBufferGet' = workBufferPut /\ workBufferPut' = <<>> /\ index'[gen] = 0
        /\ workerPC' = [workerPC EXCEPT ![gen] = "run"]
        /\ UNCHANGED <<workMutex, workStartFlag, servePC, gen>>
    BY <1>12 DEF Swap, serveVars
  <2>2. OnlyLastWorks' /\ MutexHeld'
    BY <2>1
  <2>3. ExitIsLast'
    BY <2>1
  <2>4. BatchBounds'
    BY <2>1
  <2> QED
    BY <2>2, <2>3, <2>4
<1>13. ASSUME NEW g \in Gens, FinishBatch(g) PROVE WorkersInv'
  <2>1. /\ g = gen /\ workerPC[gen] = "run" /\ workBufferGet' = <<>>
        /\ workerPC' = [workerPC EXCEPT ![gen] = "swap"]
        /\ UNCHANGED <<workBufferPut, workMutex, workStartFlag, servePC, gen, index>>
    BY <1>13 DEF FinishBatch, serveVars
  <2>2. OnlyLastWorks' /\ MutexHeld'
    BY <2>1
  <2>3. ExitIsLast'
    BY <2>1
  <2>4. BatchBounds'
    BY <2>1
  <2> QED
    BY <2>2, <2>3, <2>4
<1>14. ASSUME NEW g \in Gens, NEW c \in Clients, NotExists(g, c) \/ StartCallback(g, c)
       PROVE  WorkersInv'
  <2>1. /\ workerPC[g] = "run" /\ index[g] < Len(workBufferGet)
        /\ index' = [index EXCEPT ![g] = @ + 1]
        /\ UNCHANGED <<workBufferPut, workBufferGet, workMutex, workStartFlag, servePC, gen>>
    BY <1>14 DEF NotExists, StartCallback, Take, AtItem, bufferVars, serveVars
  <2>2. workerPC' \in {workerPC, [workerPC EXCEPT ![g] = "callback"]}
    BY <1>14 DEF NotExists, StartCallback
  <2>3. g = gen
    BY <2>1
  <2>4. index'[gen] <= Len(workBufferGet)
    <3>1. index[g] \in Nat /\ Len(workBufferGet) \in Nat /\ index'[g] = index[g] + 1
      BY <2>1
    <3> HIDE DEF TypeOK, WorkersInv
    <3> QED
      BY <2>1, <2>3, <3>1
  <2>5. OnlyLastWorks'
    BY <2>1, <2>2, <2>3, SMTT(30)
  <2>7. ExitIsLast'
    BY <2>1, <2>2, SMTT(60)
  <2>6. MutexHeld' /\ BatchBounds'
    BY <2>1, <2>2, <2>3, <2>4, SMTT(60)
  <2> QED
    BY <2>5, <2>6, <2>7
<1>15. ASSUME NEW g \in Gens, FinishCallback(g) PROVE WorkersInv'
  BY <1>15 DEF FinishCallback, bufferVars, serveVars
<1>16. ASSUME NEW g \in Gens, TakeExit(g) PROVE WorkersInv'
  <2>1. /\ g = gen /\ servePC = "returned"
        /\ workerPC[g] = "run" /\ g # 0
        /\ workerPC' = [workerPC EXCEPT ![g] = "exited"]
        /\ UNCHANGED <<workBufferPut, workBufferGet, workMutex, workStartFlag, servePC, gen, index>>
    <3>1. AtItem(g, Exit)
      BY <1>16 DEF TakeExit
    <3>2. index[g] + 1 \in 1..Len(workBufferGet)
      <4>1. index[g] \in Nat /\ Len(workBufferGet) \in Nat
        OBVIOUS
      <4> HIDE DEF TypeOK, WorkersInv
      <4>2. index[g] < Len(workBufferGet)
        BY <3>1 DEF AtItem
      <4> QED
        BY <4>1, <4>2
    <3>3. /\ workerPC[g] = "run" /\ workBufferGet[index[g] + 1] = Exit
          /\ workerPC' = [workerPC EXCEPT ![g] = "exited"]
          /\ UNCHANGED <<workBufferPut, workBufferGet, workMutex, workStartFlag, servePC, gen, index>>
      <4> HIDE DEF TypeOK, WorkersInv
      <4> QED
        BY <1>16, <3>1 DEF TakeExit, AtItem, bufferVars, serveVars
    <3>4. servePC = "returned"
      BY <3>2, <3>3
    <3>5. g = gen /\ g # 0
      BY <3>3
    <3> QED
      BY <3>3, <3>4, <3>5
  <2>2. OnlyLastWorks'
    BY <2>1
  <2>3. ExitIsLast'
    BY <2>1
  <2>4. MutexHeld' /\ BatchBounds'
    BY <2>1
  <2> QED
    BY <2>2, <2>3, <2>4
<1>17. ASSUME NEW g \in Gens, TakeRefresh(g) PROVE WorkersInv'
  <2>1. /\ g = gen /\ g # 0 /\ workMutex = 0 /\ workMutex' = g
        /\ workerPC' = [workerPC EXCEPT ![g] = "unlock"]
        /\ workBufferGet' = <<>>
        /\ UNCHANGED <<workStartFlag, servePC, gen, index>>
    BY <1>17 DEF TakeRefresh, RefreshWith, AtItem, serveVars
  <2>2. OnlyLastWorks' /\ BatchBounds'
    BY <2>1
  <2>3. MutexHeld'
    BY <2>1
  <2>4. ASSUME servePC # "returned", NEW i \in 1..Len(workBufferPut') PROVE workBufferPut'[i] # Exit
    <3>1. /\ workBufferPut' = workBufferPut \o Remainder(g)
          /\ index[g] + 1 \in 1..Len(workBufferGet)
      BY <1>17 DEF TakeRefresh, RefreshWith, AtItem
    <3>2. /\ Remainder(g) \in Seq(Items)
          /\ \A j \in 1..Len(Remainder(g)) :
                /\ j + index[g] + 1 \in 1..Len(workBufferGet)
                /\ Remainder(g)[j] = workBufferGet[j + index[g] + 1]
      BY <3>1, RemainderEntries
    <3>3. CASE i <= Len(workBufferPut)
      BY <2>4, <3>1, <3>2, <3>3, ConcatEntries
    <3>4. CASE i > Len(workBufferPut)
      <4> DEFINE j == i - Len(workBufferPut)
      <4>1. j \in 1..Len(Remainder(g)) /\ workBufferPut'[i] = Remainder(g)[j]
        <5>1. workBufferPut \in Seq(Items) /\ i \in 1..Len(workBufferPut \o Remainder(g))
          BY <2>4, <3>1
        <5> HIDE DEF TypeOK, WorkersInv
        <5> QED
          BY <3>1, <3>2, <3>4, <5>1, ConcatEntries
      <4> HIDE DEF j
      <4>2. workBufferPut'[i] = workBufferGet[j + index[g] + 1]
        BY <3>2, <4>1
      <4>3. j + index[g] + 1 \in 1..Len(workBufferGet)
        BY <3>2, <4>1
      <4> QED
        BY <2>4, <4>2, <4>3
    <3> QED
      BY <3>3, <3>4
  <2> QED
    BY <2>1, <2>2, <2>3, <2>4
<1>18. ASSUME NEW g \in Gens, Unlock(g) PROVE WorkersInv'
  BY <1>18 DEF Unlock, serveVars
<1>19. ASSUME UNCHANGED vars PROVE WorkersInv'
  BY <1>19 DEF vars, bufferVars, serveVars, workerVars
<1> QED
  BY <1>2, <1>3, <1>4, <1>5, <1>6, <1>7, <1>8, <1>9, <1>10, <1>11, <1>12, <1>13, <1>14, <1>15,
     <1>16, <1>17, <1>18, <1>19 DEF Next, Worker, Server

(* Two workers never use the batch at the same time. *)
THEOREM OneWorker == Spec => []OneWorkerInBatch
<1>1. TypeOK /\ WorkersInv => OneWorkerInBatch
  BY GenFacts DEF TypeOK, WorkersInv, OnlyLastWorks, MutexHeld, Working, OneWorkerInBatch, UsesBatch
<1>2. Init => TypeOK /\ WorkersInv
  BY InitType, WorkersInit
<1>3. TypeOK /\ WorkersInv /\ [Next]_vars => (TypeOK /\ WorkersInv)'
  BY TypeStep, WorkersStep
<1> QED
  BY <1>1, <1>2, <1>3, PTL DEF Spec
-----------------------------------------------------------------------------
(* Fresh dispatch.  If the clone of the working worker is older than a        *)
(* registration that has returned, a refresh is waiting; and every waiting   *)
(* event that needs a newer clone stands behind a refresh, so that this       *)
(* worker ends before it gets there.                                        *)

RefreshInBatch == \E q \in 1..Len(workBufferGet) : q > index[gen] /\ workBufferGet[q] = Refresh

RefreshWritten == \E q \in 1..Len(workBufferPut) : workBufferPut[q] = Refresh

FreshBatch ==
    \A p \in 1..Len(workBufferGet) :
        p > index[gen] /\ workBufferGet[p] \in Clients =>
            \/ since[workBufferGet[p]] <= dispatcher[gen]
            \/ \E q \in 1..Len(workBufferGet) :
                    index[gen] < q /\ q < p /\ workBufferGet[q] = Refresh

FreshWritten ==
    \A p \in 1..Len(workBufferPut) :
        workBufferPut[p] \in Clients =>
            \/ since[workBufferPut[p]] <= dispatcher[gen]
            \/ RefreshInBatch
            \/ \E q \in 1..Len(workBufferPut) : q < p /\ workBufferPut[q] = Refresh

FreshBuffers ==
    Working(gen) =>
        /\ Settled > dispatcher[gen] => RefreshInBatch \/ RefreshWritten
        /\ FreshBatch
        /\ FreshWritten

(* What is in a buffer or served has been posted. *)
PostedInv ==
    /\ \A i \in 1..Len(workBufferPut) :
            workBufferPut[i] \in Clients => callPC[workBufferPut[i]] # "idle"
    /\ \A i \in 1..Len(workBufferGet) :
            workBufferGet[i] \in Clients => callPC[workBufferGet[i]] # "idle"
    /\ \A c \in Clients : callPC[c] = "idle" => servedBy[c] = 0
    /\ \A c \in Clients : since[c] <= Len(dispatchers)

FreshInv == PostedInv /\ FreshBuffers /\ FreshDispatch

LEMMA FreshInit == Init => FreshInv
<1> SUFFICES ASSUME Init PROVE FreshInv
  OBVIOUS
<1>1. Len(dispatchers) \in Nat
  BY InitType DEF TypeOK
<1> QED
  BY <1>1, GenFacts DEF Init, FreshInv, PostedInv, FreshBuffers, FreshDispatch, Working

(* The steps that touch neither buffer nor dispatcher. *)
LEMMA FreshKept ==
    ASSUME FreshInv, UNCHANGED <<workBufferPut, workBufferGet, gen, index, dispatcher,
                                 dispatchers, dispatchMutex, since, servedBy>>,
           Working(gen)' => Working(gen),
           \A c \in Clients : callPC'[c] = "idle" => callPC[c] = "idle"
    PROVE  FreshInv'
<1>1. PostedInv' /\ FreshDispatch'
  BY DEF FreshInv, PostedInv, FreshDispatch
<1>2. FreshBuffers'
  BY DEF FreshInv, FreshBuffers, FreshBatch, FreshWritten, RefreshInBatch, RefreshWritten, Settled
<1> QED
  BY <1>1, <1>2 DEF FreshInv

(* A push of something that is no client. *)
LEMMA FreshPush ==
    ASSUME TypeOK, FreshInv, NEW item \in {Refresh, Exit}, Push(item),
           UNCHANGED <<gen, index, dispatcher, dispatchers, since, servedBy, callPC, workerPC>>,
           item = Refresh \/ UNCHANGED dispatchMutex
    PROVE  FreshInv'
<1> DEFINE n == Len(workBufferPut)
<1>1. /\ Len(workBufferPut') = n + 1 /\ n \in Nat
      /\ workBufferPut'[n + 1] = item
      /\ \A i \in 1..n : workBufferPut'[i] = workBufferPut[i]
  BY AppendEntries, ItemFacts DEF Push, TypeOK
<1>2. workBufferGet' = workBufferGet
  BY DEF Push
<1> HIDE DEF n
<1>3. \A i \in 1..(n + 1) : i \in 1..n \/ i = n + 1
  BY <1>1
<1>4. PostedInv' /\ FreshDispatch'
  BY <1>1, <1>2, <1>3, ItemFacts DEF FreshInv, PostedInv, FreshDispatch, n
<1>5. ASSUME Working(gen) PROVE FreshBuffers'
  <2>1. RefreshInBatch' = RefreshInBatch
    BY <1>2 DEF RefreshInBatch
  <2>2. RefreshWritten => RefreshWritten'
    BY <1>1 DEF RefreshWritten, n
  <2>3. (Settled > dispatcher[gen] => RefreshInBatch \/ RefreshWritten)'
    <3>1. CASE item = Refresh
      <4>1. RefreshWritten'
        BY <1>1, <3>1 DEF RefreshWritten
      <4> QED
        BY <4>1
    <3>2. CASE UNCHANGED dispatchMutex
      <4>1. UNCHANGED <<Settled, dispatcher, gen>>
        BY <3>2 DEF Settled
      <4> QED
        BY <1>5, <2>1, <2>2, <4>1 DEF FreshInv, FreshBuffers
    <3> QED
      BY <3>1, <3>2
  <2>4. FreshBatch'
    BY <1>2, <1>5 DEF FreshInv, FreshBuffers, FreshBatch
  <2>5. FreshWritten'
    BY <1>1, <1>3, <1>5, <2>1, ItemFacts DEF FreshInv, FreshBuffers, FreshWritten, n
  <2> QED
    BY <2>3, <2>4, <2>5 DEF FreshBuffers
<1>6. ASSUME ~Working(gen) PROVE FreshBuffers'
  BY <1>6 DEF FreshBuffers, Working
<1> QED
  BY <1>4, <1>5, <1>6 DEF FreshInv

(* A post. *)
LEMMA FreshPost ==
    ASSUME TypeOK, FreshInv, NEW c \in Clients, PushClient(c), Working(gen)' => Working(gen)
    PROVE  FreshInv'
<1> DEFINE n == Len(workBufferPut)
<1>1. /\ Len(workBufferPut') = n + 1 /\ n \in Nat
      /\ workBufferPut'[n + 1] = c
      /\ \A i \in 1..n : workBufferPut'[i] = workBufferPut[i]
  BY AppendEntries, ItemFacts DEF PushClient, Push, TypeOK
<1>2. UNCHANGED <<workBufferGet, dispatchers, dispatchMutex, gen, index, dispatcher, servedBy>>
  BY DEF PushClient, Push, registerVars, serveVars, historyVars
<1>3. /\ callPC[c] = "idle" /\ callPC'[c] # "idle" /\ since'[c] = Settled
      /\ \A d \in Clients \ {c} : callPC'[d] = callPC[d] /\ since'[d] = since[d]
  BY DEF PushClient, TypeOK
<1> HIDE DEF n
<1>4. \A i \in 1..(n + 1) : i \in 1..n \/ i = n + 1
  BY <1>1
<1>5. Settled \in Nat /\ Settled <= Len(dispatchers)
  BY DEF Settled, TypeOK
<1>6. PostedInv' /\ FreshDispatch'
  <2>1. servedBy[c] = 0
    BY <1>3 DEF FreshInv, PostedInv
  <2>2. \A d \in Clients : since'[d] <= Len(dispatchers')
    BY <1>2, <1>3, <1>5 DEF FreshInv, PostedInv
  <2>3. \A d \in Clients : callPC'[d] = "idle" => servedBy'[d] = 0
    BY <1>2, <1>3 DEF FreshInv, PostedInv
  <2>4. \A i \in 1..Len(workBufferGet') :
            workBufferGet'[i] \in Clients => callPC'[workBufferGet'[i]] # "idle"
    BY <1>2, <1>3 DEF FreshInv, PostedInv
  <2>5. \A i \in 1..Len(workBufferPut') :
            workBufferPut'[i] \in Clients => callPC'[workBufferPut'[i]] # "idle"
    BY <1>1, <1>3, <1>4 DEF FreshInv, PostedInv, n
  <2>6. FreshDispatch'
    BY <1>2, <1>3, <2>1 DEF FreshInv, FreshDispatch
  <2> QED
    BY <2>2, <2>3, <2>4, <2>5, <2>6 DEF PostedInv
<1>7. /\ \A i \in 1..n : workBufferPut[i] # c
      /\ \A i \in 1..Len(workBufferGet) : workBufferGet[i] # c
  BY <1>3 DEF FreshInv, PostedInv, n
<1>8. ASSUME Working(gen) PROVE FreshBuffers'
  <2>1. RefreshInBatch' = RefreshInBatch
    BY <1>2 DEF RefreshInBatch
  <2>2. RefreshWritten => \E q \in 1..Len(workBufferPut') : q < n + 1 /\ workBufferPut'[q] = Refresh
    BY <1>1 DEF RefreshWritten, n
  <2>3. (Settled > dispatcher[gen] => RefreshInBatch \/ RefreshWritten)'
    BY <1>2, <1>8, <2>1, <2>2 DEF FreshInv, FreshBuffers, RefreshWritten, Settled
  <2>4. FreshBatch'
    BY <1>2, <1>3, <1>7, <1>8 DEF FreshInv, FreshBuffers, FreshBatch
  <2>5. ASSUME NEW p \in 1..n, workBufferPut'[p] \in Clients
        PROVE  \/ since'[workBufferPut'[p]] <= dispatcher'[gen']
               \/ RefreshInBatch'
               \/ \E q \in 1..Len(workBufferPut') : q < p /\ workBufferPut'[q] = Refresh
    BY <1>1, <1>2, <1>3, <1>7, <1>8, <2>1, <2>5 DEF FreshInv, FreshBuffers, FreshWritten, n
  <2>6. \/ since'[c] <= dispatcher'[gen']
        \/ RefreshInBatch'
        \/ \E q \in 1..Len(workBufferPut') : q < n + 1 /\ workBufferPut'[q] = Refresh
    <3>1. dispatcher[gen] \in Nat
      BY DEF TypeOK
    <3> QED
      BY <1>2, <1>3, <1>5, <1>8, <2>1, <2>2, <3>1 DEF FreshInv, FreshBuffers
  <2>7. FreshWritten'
    BY <1>1, <1>4, <2>5, <2>6 DEF FreshWritten
  <2> QED
    BY <2>3, <2>4, <2>7 DEF FreshBuffers
<1>9. ASSUME ~Working(gen) PROVE FreshBuffers'
  BY <1>9 DEF FreshBuffers
<1> QED
  BY <1>6, <1>8, <1>9 DEF FreshInv

(* A worker takes an event: none that needs a newer clone. *)
LEMMA FreshTake ==
    ASSUME TypeOK, WorkersInv, FreshInv, NEW g \in Gens, NEW c \in Clients, Take(g, c),
           Working(gen)' => Working(gen)
    PROVE  FreshInv'
<1> DEFINE k == index[gen]
           n == Len(workBufferGet)
<1>1. g = gen /\ Working(gen)
  BY DEF Take, AtItem, WorkersInv, OnlyLastWorks, Working
<1>2. /\ k \in Nat /\ n \in Nat /\ k + 1 \in 1..n /\ workBufferGet[k + 1] = c
      /\ index'[gen] = k + 1
      /\ servedBy' = [servedBy EXCEPT ![c] = dispatcher[gen]]
  BY <1>1 DEF Take, AtItem, TypeOK
<1>3. UNCHANGED <<workBufferPut, workBufferGet, gen, dispatcher, dispatchers, dispatchMutex,
                  since, callPC>>
  BY DEF Take, registerVars, bufferVars, serveVars, callVars
<1> HIDE DEF k, n
<1>4. since[c] <= dispatcher[gen]
  <2>1. ~\E q \in 1..n : k < q /\ q < k + 1 /\ workBufferGet[q] = Refresh
    BY <1>2
  <2> QED
    BY <1>1, <1>2, <2>1 DEF FreshInv, FreshBuffers, FreshBatch, k, n
<1>5. FreshDispatch'
  BY <1>2, <1>3, <1>4 DEF FreshInv, FreshDispatch, TypeOK
<1>6. PostedInv'
  BY <1>2, <1>3, ItemFacts DEF FreshInv, PostedInv, TypeOK, n
<1>7. RefreshInBatch' = RefreshInBatch
  <2>1. workBufferGet[k + 1] # Refresh
    BY <1>2, ItemFacts
  <2>2. \A q \in 1..n : q > k + 1 <=> q > k /\ q # k + 1
    BY <1>2
  <2> QED
    BY <1>2, <1>3, <2>1, <2>2 DEF RefreshInBatch, k, n
<1>8. FreshBatch'
  <2> SUFFICES ASSUME NEW p \in 1..n, p > k + 1, workBufferGet[p] \in Clients
               PROVE  \/ since[workBufferGet[p]] <= dispatcher[gen]
                      \/ \E q \in 1..n : k + 1 < q /\ q < p /\ workBufferGet[q] = Refresh
    BY <1>2, <1>3 DEF FreshBatch, n
  <2>1. CASE since[workBufferGet[p]] <= dispatcher[gen]
    BY <2>1
  <2>2. CASE \E q \in 1..n : k < q /\ q < p /\ workBufferGet[q] = Refresh
    <3>1. PICK q \in 1..n : k < q /\ q < p /\ workBufferGet[q] = Refresh
      BY <2>2
    <3>2. q # k + 1
      BY <1>2, <3>1, ItemFacts
    <3>3. k + 1 < q
      BY <1>2, <3>1, <3>2
    <3> QED
      BY <3>1, <3>3
  <2>3. p > k
    BY <1>2
  <2> QED
    BY <1>1, <2>1, <2>2, <2>3 DEF FreshInv, FreshBuffers, FreshBatch, k, n
<1>9. FreshBuffers'
  <2>1. UNCHANGED <<Settled, RefreshWritten>>
    BY <1>3 DEF Settled, RefreshWritten
  <2>2. (Settled > dispatcher[gen] => RefreshInBatch \/ RefreshWritten)'
    BY <1>1, <1>3, <1>7, <2>1 DEF FreshInv, FreshBuffers
  <2>3. FreshWritten'
    BY <1>1, <1>3, <1>7 DEF FreshInv, FreshBuffers, FreshWritten
  <2> QED
    BY <1>8, <2>2, <2>3 DEF FreshBuffers
<1> QED
  BY <1>5, <1>6, <1>9 DEF FreshInv

(* A worker takes a refresh, and has done its work. *)
LEMMA FreshRefresh ==
    ASSUME TypeOK, WorkersInv, FreshInv, NEW g \in Gens, TakeRefresh(g)
    PROVE  FreshInv'
<1>1. /\ workerPC[g] = "run" /\ index[g] + 1 \in 1..Len(workBufferGet)
      /\ workBufferPut' = workBufferPut \o Remainder(g)
      /\ workBufferGet' = <<>>
      /\ workerPC' = [workerPC EXCEPT ![g] = "unlock"]
      /\ UNCHANGED <<gen, dispatchers, since, servedBy, callPC>>
  BY SMTT(60) DEF TakeRefresh, RefreshWith, AtItem, TypeOK, registerVars, serveVars, callVars
<1>2. ~Working(gen)'
  BY <1>1 DEF WorkersInv, OnlyLastWorks, Working, TypeOK
<1>3. ASSUME NEW i \in 1..Len(workBufferPut'), workBufferPut'[i] \in Clients
      PROVE  callPC[workBufferPut'[i]] # "idle"
  <2>1. workBufferPut \in Seq(Items) /\ Remainder(g) \in Seq(Items)
    BY <1>1, RemainderEntries DEF TypeOK
  <2>2. CASE i <= Len(workBufferPut)
    <3>1. i \in 1..Len(workBufferPut) /\ workBufferPut'[i] = workBufferPut[i]
      BY <1>1, <2>1, <2>2, ConcatEntries
    <3> QED
      BY <1>3, <3>1 DEF FreshInv, PostedInv
  <2>3. CASE i > Len(workBufferPut)
    <3>1. PICK j \in 1..Len(Remainder(g)) : workBufferPut'[i] = Remainder(g)[j]
      BY <1>1, <2>1, <2>3, ConcatEntries
    <3>2. PICK m \in 1..Len(workBufferGet) : workBufferPut'[i] = workBufferGet[m]
      BY <1>1, <3>1, RemainderEntries
    <3> QED
      BY <1>3, <3>2 DEF FreshInv, PostedInv
  <2> QED
    BY <2>1, <2>2, <2>3
<1>4. PostedInv' /\ FreshDispatch'
  BY <1>1, <1>3 DEF FreshInv, PostedInv, FreshDispatch
<1> QED
  BY <1>2, <1>4 DEF FreshInv, FreshBuffers

LEMMA FreshStep == TypeOK /\ TypeOK' /\ WorkersInv /\ FreshInv /\ [Next]_vars => FreshInv'
<1> SUFFICES ASSUME TypeOK, TypeOK', WorkersInv, FreshInv, [Next]_vars PROVE FreshInv'
  OBVIOUS
<1>1. ASSUME NEW c \in Clients, Post(c) PROVE FreshInv'
  BY <1>1, FreshPost DEF Post, PushClient, serveVars, Working
<1>2. ASSUME NEW g \in Gens, NEW c \in Callers, CallFromCallback(g, c) PROVE FreshInv'
  <2>1. PushClient(c) /\ workerPC[g] = "callback"
    BY <1>2 DEF CallFromCallback
  <2>2. Working(gen)
    BY <2>1 DEF WorkersInv, OnlyLastWorks, Working
  <2> QED
    BY <2>1, <2>2, FreshPost, ItemFacts
<1>3. ASSUME NEW c \in Callers, Caller(c) PROVE FreshInv'
  <2>1. PICK pc \in {"gaveup", "answered"} : Return(c, pc)
    BY <1>3 DEF Caller, GiveUp, ReadResponse
  <2>2. workerPC' = workerPC \/ \E g \in Gens : /\ workerPC[g] = "nested"
                                               /\ workerPC' = [workerPC EXCEPT ![g] = "callback"]
    BY <2>1 DEF Return
  <2>3. Working(gen)' => Working(gen)
    BY <2>1, <2>2 DEF Return, serveVars, Working, TypeOK
  <2>4. \A d \in Clients : callPC'[d] = "idle" => callPC[d] = "idle"
    BY <2>1 DEF Return, TypeOK
  <2> QED
    BY <2>1, <2>3, <2>4, FreshKept DEF Return, registerVars, bufferVars, serveVars, historyVars
<1>4. ASSUME NEW c \in Callers, RespondLater(c) PROVE FreshInv'
  BY <1>4, FreshKept
     DEF RespondLater, registerVars, bufferVars, serveVars, workerVars, callVars, historyVars, Working
<1>5. ASSUME NEW n \in Names, NEW h \in Handlers, BeginChange(n, h) PROVE FreshInv'
  <2>1. /\ Len(dispatchers') = Len(dispatchers) + 1 /\ Len(dispatchers) \in Nat
        /\ ~dispatchMutex /\ dispatchMutex'
        /\ UNCHANGED <<workBufferPut, workBufferGet, gen, index, dispatcher, workerPC, since,
                       servedBy, callPC>>
    BY <1>5 DEF BeginChange, TypeOK, bufferVars, serveVars, workerVars, callVars, historyVars
  <2>2. Settled' = Settled
    BY <2>1 DEF Settled
  <2>3. PostedInv' /\ FreshDispatch'
    <3>1. \A c \in Clients : since[c] \in Nat /\ since[c] <= Len(dispatchers)
      BY DEF FreshInv, PostedInv, TypeOK
    <3>2. \A c \in Clients : since'[c] <= Len(dispatchers')
      BY <2>1, <3>1
    <3>3. FreshDispatch'
      BY <2>1 DEF FreshInv, FreshDispatch
    <3> QED
      BY <2>1, <3>2, <3>3 DEF FreshInv, PostedInv
  <2>4. FreshBuffers'
    BY <2>1, <2>2 DEF FreshInv, FreshBuffers, FreshBatch, FreshWritten, RefreshInBatch,
                      RefreshWritten, Working
  <2> QED
    BY <2>3, <2>4 DEF FreshInv
<1>6. ASSUME EndChange PROVE FreshInv'
  <2>1. PICK flag \in FlagSeen : EndChangeRacy(flag)
    BY <1>6 DEF EndChange
  <2>2. UNCHANGED <<gen, index, dispatcher, dispatchers, since, servedBy, callPC, workerPC>>
    BY <2>1 DEF EndChangeRacy, serveVars, workerVars, callVars, historyVars
  <2>3. CASE flag
    <3>1. Push(Refresh)
      BY <2>1, <2>3 DEF EndChangeRacy
    <3> QED
      BY <2>2, <3>1, FreshPush
  <2>4. CASE ~flag
    <3>1. ~Working(gen)
      BY <2>4, GenFacts DEF FlagSeen, WorkersInv, OnlyLastWorks, Working, TypeOK
    <3>2. UNCHANGED bufferVars
      BY <2>1, <2>4 DEF EndChangeRacy
    <3>3. PostedInv' /\ FreshDispatch'
      BY <2>2, <3>2 DEF FreshInv, PostedInv, FreshDispatch, bufferVars
    <3> QED
      BY <2>2, <3>1, <3>3 DEF FreshInv, FreshBuffers, Working
  <2> QED
    BY <2>3, <2>4
<1>7. ASSUME ServeStart \/ ServeRefreshed \/ ServeCtxDone PROVE FreshInv'
  BY <1>7, FreshKept
     DEF ServeStart, ServeRefreshed, ServeCtxDone, registerVars, bufferVars, workerVars, callVars,
         historyVars, Working
<1>8. ASSUME ServeClone PROVE FreshInv'
  <2>1. /\ gen' = gen + 1 /\ gen' \in Gens /\ ~dispatchMutex
        /\ dispatcher'[gen'] = Len(dispatchers) /\ Len(dispatchers) \in Nat
        /\ UNCHANGED <<workBufferPut, workBufferGet, dispatchers, dispatchMutex, since, servedBy,
                       callPC>>
    BY <1>8 DEF ServeClone, TypeOK, registerVars, bufferVars, callVars, historyVars
  <2>2. PostedInv' /\ FreshDispatch'
    BY <2>1 DEF FreshInv, PostedInv, FreshDispatch
  <2>3. FreshBuffers'
    BY <2>1 DEF FreshInv, PostedInv, FreshBuffers, FreshBatch, FreshWritten, Settled
  <2> QED
    BY <2>2, <2>3 DEF FreshInv
<1>9. ASSUME ServePushExit PROVE FreshInv'
  <2>1. Push(Exit) /\ UNCHANGED <<gen, index, dispatcher, dispatchers, since, servedBy, callPC,
                                  workerPC, dispatchMutex>>
    BY <1>9 DEF ServePushExit, registerVars, workerVars, callVars
  <2> QED
    BY <2>1, FreshPush
<1>10. ASSUME NEW g \in Gens, Swap(g) PROVE FreshInv'
  <2>1. /\ g = gen /\ Working(gen) /\ workBufferGet = <<>>
        /\ workBufferGet' = workBufferPut /\ workBufferPut' = <<>>
        /\ index'[gen] = 0
        /\ UNCHANGED <<gen, dispatcher, dispatchers, dispatchMutex, since, servedBy, callPC>>
    BY <1>10 DEF Swap, WorkersInv, OnlyLastWorks, BatchBounds, Working, TypeOK, registerVars,
                 serveVars, callVars, historyVars
  <2>2. PostedInv' /\ FreshDispatch'
    BY <2>1 DEF FreshInv, PostedInv, FreshDispatch
  <2>3. ~RefreshInBatch
    BY <2>1 DEF RefreshInBatch
  <2>4. RefreshWritten => RefreshInBatch'
    BY <2>1 DEF RefreshWritten, RefreshInBatch
  <2>5. FreshBuffers'
    BY <2>1, <2>3, <2>4 DEF FreshInv, FreshBuffers, FreshBatch, FreshWritten, Settled
  <2> QED
    BY <2>2, <2>5 DEF FreshInv
<1>11. ASSUME NEW g \in Gens, FinishBatch(g) PROVE FreshInv'
  <2>1. /\ g = gen /\ Working(gen) /\ index[gen] = Len(workBufferGet)
        /\ workBufferGet' = <<>>
        /\ UNCHANGED <<workBufferPut, gen, dispatcher, dispatchers, dispatchMutex, since, servedBy,
                       callPC>>
    BY <1>11 DEF FinishBatch, WorkersInv, OnlyLastWorks, Working, TypeOK, registerVars,
                 serveVars, callVars, historyVars
  <2>2. ~RefreshInBatch
    BY <2>1 DEF RefreshInBatch
  <2>3. PostedInv' /\ FreshDispatch'
    BY <2>1 DEF FreshInv, PostedInv, FreshDispatch
  <2>4. FreshBuffers'
    BY <2>1, <2>2 DEF FreshInv, FreshBuffers, FreshBatch, FreshWritten, RefreshWritten, Settled
  <2> QED
    BY <2>3, <2>4 DEF FreshInv
<1>12. ASSUME NEW g \in Gens, NEW c \in Clients, NotExists(g, c) \/ StartCallback(g, c)
       PROVE  FreshInv'
  <2>1. Take(g, c)
    BY <1>12 DEF NotExists, StartCallback
  <2>2. Working(gen)
    BY <2>1 DEF Take, AtItem, WorkersInv, OnlyLastWorks, Working
  <2> QED
    BY <2>1, <2>2, FreshTake
<1>13. ASSUME NEW g \in Gens, FinishCallback(g) PROVE FreshInv'
  <2>1. Working(gen)
    BY <1>13 DEF FinishCallback, WorkersInv, OnlyLastWorks, Working
  <2> QED
    BY <1>13, <2>1, FreshKept
       DEF FinishCallback, registerVars, bufferVars, serveVars, callVars, historyVars
<1>14. ASSUME NEW g \in Gens, TakeExit(g) PROVE FreshInv'
  <2>1. Working(gen)
    BY <1>14 DEF TakeExit, AtItem, WorkersInv, OnlyLastWorks, Working
  <2> QED
    BY <1>14, <2>1, FreshKept
       DEF TakeExit, registerVars, bufferVars, serveVars, callVars, historyVars
<1>15. ASSUME NEW g \in Gens, TakeRefresh(g) PROVE FreshInv'
  BY <1>15, FreshRefresh
<1>16. ASSUME NEW g \in Gens, Unlock(g) PROVE FreshInv'
  <2>1. Working(gen)' => Working(gen)
    BY <1>16 DEF Unlock, Working, TypeOK, serveVars
  <2> QED
    BY <1>16, <2>1, FreshKept DEF Unlock, registerVars, serveVars, callVars, historyVars
<1>17. ASSUME UNCHANGED vars PROVE FreshInv'
  BY <1>17, FreshKept
     DEF vars, registerVars, bufferVars, serveVars, workerVars, callVars, historyVars, Working
<1> QED
  BY <1>1, <1>2, <1>3, <1>4, <1>5, <1>6, <1>7, <1>8, <1>9, <1>10, <1>11, <1>12, <1>13, <1>14,
     <1>15, <1>16, <1>17 DEF Next, Worker, Server

(* No event is served by a dispatcher from before a registration that had     *)
(* returned when the event was posted.                                      *)
THEOREM Fresh == Spec => []FreshDispatch
<1>1. TypeOK /\ WorkersInv /\ FreshInv => FreshDispatch
  BY DEF FreshInv
<1>2. Init => TypeOK /\ WorkersInv /\ FreshInv
  BY InitType, WorkersInit, FreshInit
<1>3. TypeOK /\ WorkersInv /\ FreshInv /\ [Next]_vars => (TypeOK /\ WorkersInv /\ FreshInv)'
  BY TypeStep, WorkersStep, FreshStep
<1> QED
  BY <1>1, <1>2, <1>3, PTL DEF Spec
-----------------------------------------------------------------------------
(* Conservation.  What is left of the batch, and what is written, has each      *)
(* event that was posted and not served, once, and no other.                *)

(* A position in the batch that the worker has still to come to. *)
Left(i) == i \in 1..Len(workBufferGet) /\ i > index[gen]

Written(i) == i \in 1..Len(workBufferPut)

InBatch(c) == \E i \in 1..Len(workBufferGet) : i > index[gen] /\ workBufferGet[i] = c

InWritten(c) == \E i \in 1..Len(workBufferPut) : workBufferPut[i] = c

NoneTwice ==
    /\ \A i, j \in 1..Len(workBufferGet) :
            Left(i) /\ Left(j) /\ workBufferGet[i] = workBufferGet[j]
                /\ workBufferGet[i] \in Clients => i = j
    /\ \A i, j \in 1..Len(workBufferPut) :
            workBufferPut[i] = workBufferPut[j] /\ workBufferPut[i] \in Clients => i = j
    /\ \A c \in Clients : ~(InBatch(c) /\ InWritten(c))

Accounted == \A c \in Clients : InBatch(c) \/ InWritten(c) <=> since[c] # 0 /\ servedBy[c] = 0

(* An event is posted once, at a version from 1, and served by one. *)
HistoryInv ==
    /\ \A c \in Clients : callPC[c] = "idle" <=> since[c] = 0
    /\ \A c \in Clients : servedBy[c] # 0 => since[c] # 0
    /\ dispatchMutex => Len(dispatchers) > 1
    /\ \A g \in Gens : Working(g) => dispatcher[g] \in 1..Len(dispatchers)

QueueInv == NoneTwice /\ Accounted /\ HistoryInv

LEMMA QueueInit == Init => QueueInv
<1> SUFFICES ASSUME Init PROVE QueueInv
  OBVIOUS
<1>1. Len(workBufferGet) = 0 /\ Len(workBufferPut) = 0
  BY DEF Init
<1>2. \A c \in Clients : ~InBatch(c) /\ ~InWritten(c)
  BY <1>1 DEF InBatch, InWritten
<1> QED
  BY <1>1, <1>2 DEF Init, QueueInv, NoneTwice, Accounted, HistoryInv, Working

(* The steps that leave the buffers, and what is served, alone. *)
LEMMA QueueKept ==
    ASSUME QueueInv, UNCHANGED <<workBufferPut, workBufferGet, gen, index, since, servedBy>>,
           HistoryInv'
    PROVE  QueueInv'
  BY DEF QueueInv, NoneTwice, Accounted, InBatch, InWritten, Left

LEMMA HistoryKept ==
    ASSUME QueueInv, UNCHANGED <<since, servedBy, dispatchers, dispatchMutex, dispatcher>>,
           \A c \in Clients : callPC'[c] = "idle" <=> callPC[c] = "idle",
           \A g \in Gens : Working(g)' => Working(g)
    PROVE  HistoryInv'
  BY DEF QueueInv, HistoryInv

(* What is appended to the written entries. *)
LEMMA QueuePush ==
    ASSUME TypeOK, NEW item \in Items, Push(item)
    PROVE  /\ workBufferGet' = workBufferGet
           /\ Len(workBufferPut) \in Nat /\ Len(workBufferPut') = Len(workBufferPut) + 1
           /\ workBufferPut'[Len(workBufferPut) + 1] = item
           /\ \A i \in 1..Len(workBufferPut) : workBufferPut'[i] = workBufferPut[i]
           /\ \A i \in 1..Len(workBufferPut') : Written(i) \/ i = Len(workBufferPut) + 1
  BY AppendEntries DEF Push, TypeOK, Written

(* A push of something that is no client. *)
LEMMA QueueControl ==
    ASSUME TypeOK, QueueInv, NEW item \in {Refresh, Exit}, Push(item),
           UNCHANGED <<gen, index, since, servedBy>>, HistoryInv'
    PROVE  QueueInv'
<1>1. item \in Items /\ item \notin Clients
  BY ItemFacts
<1>2. \A c \in Clients : (InBatch(c)' <=> InBatch(c)) /\ (InWritten(c)' <=> InWritten(c))
  BY <1>1, QueuePush DEF InBatch, InWritten, Written
<1>3. NoneTwice'
  <2>1. \A i, j \in 1..Len(workBufferPut') :
            workBufferPut'[i] = workBufferPut'[j] /\ workBufferPut'[i] \in Clients => i = j
    BY <1>1, QueuePush DEF QueueInv, NoneTwice, Written
  <2>2. \A c \in Clients : ~(InBatch(c)' /\ InWritten(c)')
    BY <1>2 DEF QueueInv, NoneTwice
  <2> QED
    BY <1>1, <2>1, <2>2, QueuePush DEF QueueInv, NoneTwice, Left
<1>4. Accounted'
  BY <1>2 DEF QueueInv, Accounted
<1> QED
  BY <1>3, <1>4 DEF QueueInv

(* Some version has settled before any event is posted. *)
LEMMA SettledFacts ==
    ASSUME TypeOK, QueueInv
    PROVE  Settled # 0
<1>1. Len(dispatchers) \in 1..(MaxChanges + 1)
  BY DEF TypeOK
<1>2. dispatchMutex => Len(dispatchers) > 1
  BY DEF QueueInv, HistoryInv
<1>3. PICK l \in Int : l = Len(dispatchers) /\ 1 <= l
  BY <1>1, ConstantsAssumption
<1>4. CASE dispatchMutex
  BY <1>2, <1>3, <1>4 DEF Settled
<1>5. CASE ~dispatchMutex
  BY <1>3, <1>5 DEF Settled
<1> QED
  BY <1>4, <1>5

LEMMA QueuePost ==
    ASSUME TypeOK, QueueInv, NEW c \in Clients, PushClient(c),
           \A g \in Gens : Working(g)' => Working(g)
    PROVE  QueueInv'
<1>1. /\ Push(c) /\ c \in Items /\ callPC[c] = "idle"
      /\ UNCHANGED <<dispatchers, dispatchMutex, gen, index, dispatcher, servedBy>>
      /\ since' = [since EXCEPT ![c] = Settled]
      /\ callPC'[c] # "idle" /\ \A d \in Clients \ {c} : callPC'[d] = callPC[d]
  BY ItemFacts DEF PushClient, registerVars, serveVars, historyVars, TypeOK
<1>2. since[c] = 0 /\ servedBy[c] = 0
  BY <1>1 DEF QueueInv, HistoryInv
<1>3. ~InBatch(c) /\ ~InWritten(c)
  BY <1>2 DEF QueueInv, Accounted
<1>4. Settled # 0
  BY SettledFacts
<1>5. /\ since'[c] = Settled /\ \A d \in Clients \ {c} : since'[d] = since[d]
  BY <1>1 DEF TypeOK
<1>6. /\ \A d \in Clients \ {c} : InWritten(d)' <=> InWritten(d)
      /\ InWritten(c)'
      /\ \A d \in Clients : InBatch(d)' <=> InBatch(d)
  BY <1>1, QueuePush DEF InWritten, InBatch, Written
<1>7. NoneTwice'
  <2>1. \A d \in Clients : ~(InBatch(d)' /\ InWritten(d)')
    BY <1>3, <1>6 DEF QueueInv, NoneTwice
  <2>2. \A i \in 1..Len(workBufferPut) : workBufferPut[i] # c
    BY <1>3 DEF InWritten
  <2>3. \A i, j \in 1..Len(workBufferPut') :
            workBufferPut'[i] = workBufferPut'[j] /\ workBufferPut'[i] \in Clients => i = j
    BY <1>1, <2>2, QueuePush DEF QueueInv, NoneTwice, Written
  <2> QED
    BY <1>1, <2>1, <2>3, QueuePush DEF QueueInv, NoneTwice, Left
<1>8. Accounted'
  BY <1>1, <1>2, <1>3, <1>4, <1>5, <1>6 DEF QueueInv, Accounted
<1>9. HistoryInv'
  BY <1>1, <1>2, <1>4, <1>5 DEF QueueInv, HistoryInv
<1> QED
  BY <1>7, <1>8, <1>9 DEF QueueInv

(* A worker takes an event: it is gone from the batch, and served. *)
LEMMA QueueTake ==
    ASSUME TypeOK, WorkersInv, QueueInv, NEW g \in Gens, NEW c \in Clients, Take(g, c),
           \A h \in Gens : Working(h)' => Working(h)
    PROVE  QueueInv'
<1> DEFINE k == index[gen]
           n == Len(workBufferGet)
<1>1. g = gen /\ Working(gen)
  BY DEF Take, AtItem, WorkersInv, OnlyLastWorks, Working
<1>2. /\ k \in Nat /\ n \in Nat /\ k + 1 \in 1..n /\ workBufferGet[k + 1] = c
      /\ index'[gen] = k + 1
      /\ servedBy' = [servedBy EXCEPT ![c] = dispatcher[gen]]
  BY <1>1 DEF Take, AtItem, TypeOK
<1>3. UNCHANGED <<workBufferPut, workBufferGet, gen, dispatcher, dispatchers, dispatchMutex,
                  since, callPC>>
  BY DEF Take, registerVars, bufferVars, serveVars, callVars
<1> HIDE DEF k, n
<1>4. \A i \in 1..n : i > k <=> i > k + 1 \/ i = k + 1
  BY <1>2
<1>5. InBatch(c)
  BY <1>2 DEF InBatch, k, n
<1>6. /\ \A d \in Clients \ {c} : InBatch(d)' <=> InBatch(d)
      /\ ~InBatch(c)'
      /\ \A d \in Clients : InWritten(d)' <=> InWritten(d)
  <2>1. \A d : InBatch(d)' <=> \E i \in 1..n : i > k + 1 /\ workBufferGet[i] = d
    BY <1>2, <1>3 DEF InBatch, n
  <2>2. \A d : InBatch(d) <=> \E i \in 1..n : i > k /\ workBufferGet[i] = d
    BY DEF InBatch, k, n
  <2>3. \A i \in 1..n : i > k /\ workBufferGet[i] = c => i = k + 1
    BY <1>2, <1>4 DEF QueueInv, NoneTwice, Left, k, n
  <2>4. ~InBatch(c)'
    BY <1>2, <1>4, <2>1, <2>3
  <2>5. \A d \in Clients \ {c} : InBatch(d)' <=> InBatch(d)
    BY <1>2, <1>4, <2>1, <2>2
  <2> QED
    BY <1>3, <2>4, <2>5 DEF InWritten
<1>7. NoneTwice'
  <2>1. \A i \in 1..n : Left(i)' => Left(i)
    BY <1>2, <1>3, <1>4 DEF Left, k, n
  <2>2. \A d \in Clients : ~(InBatch(d)' /\ InWritten(d)')
    BY <1>6 DEF QueueInv, NoneTwice
  <2> QED
    BY <1>3, <2>1, <2>2 DEF QueueInv, NoneTwice, n
<1>8. servedBy'[c] # 0 /\ \A d \in Clients \ {c} : servedBy'[d] = servedBy[d]
  BY <1>1, <1>2 DEF QueueInv, HistoryInv, TypeOK
<1>9. since[c] # 0 /\ ~InWritten(c)
  BY <1>5 DEF QueueInv, Accounted, NoneTwice
<1>10. Accounted'
  BY <1>3, <1>6, <1>8, <1>9 DEF QueueInv, Accounted
<1>11. HistoryInv'
  BY <1>3, <1>8, <1>9 DEF QueueInv, HistoryInv
<1> QED
  BY <1>7, <1>10, <1>11 DEF QueueInv

(* A worker takes a refresh: what is left of the batch moves behind what is       *)
(* written.                                                                 *)
LEMMA QueueRefresh ==
    ASSUME TypeOK, WorkersInv, QueueInv, NEW g \in Gens, TakeRefresh(g)
    PROVE  QueueInv'
<1> DEFINE k == index[gen]
           n == Len(workBufferGet)
           m == Len(workBufferPut)
<1>1. g = gen
  BY DEF TakeRefresh, RefreshWith, AtItem, WorkersInv, OnlyLastWorks, Working
<1>2. /\ k \in Nat /\ n \in Nat /\ m \in Nat /\ k + 1 \in 1..n /\ workBufferGet[k + 1] = Refresh
      /\ workBufferPut' = workBufferPut \o Remainder(gen)
      /\ workBufferGet' = <<>>
      /\ workerPC' = [workerPC EXCEPT ![gen] = "unlock"]
      /\ UNCHANGED <<gen, index, dispatcher, dispatchers, dispatchMutex, since, servedBy, callPC>>
  <2>1. k \in Nat /\ n \in Nat /\ m \in Nat
    BY DEF TypeOK
  <2>2. k < n /\ workBufferGet[k + 1] = Refresh
    BY <1>1 DEF TakeRefresh, RefreshWith, AtItem
  <2>3. k + 1 \in 1..n
    BY <2>1, <2>2
  <2> QED
    BY <1>1, <2>1, <2>2, <2>3
       DEF TakeRefresh, RefreshWith, registerVars, serveVars, callVars
<1>3. /\ Len(workBufferPut') = m + n - k - 1
      /\ \A i \in 1..m : workBufferPut'[i] = workBufferPut[i]
      /\ \A i \in 1..Len(workBufferPut') : i > m =>
            /\ i - m + k + 1 \in 1..n
            /\ workBufferPut'[i] = workBufferGet[i - m + k + 1]
  <2>1. /\ Remainder(gen) \in Seq(Items) /\ workBufferPut \in Seq(Items)
        /\ Len(Remainder(gen)) = n - k - 1
        /\ \A j \in 1..Len(Remainder(gen)) :
                /\ j + k + 1 \in 1..n
                /\ Remainder(gen)[j] = workBufferGet[j + k + 1]
    BY <1>1, <1>2, RemainderEntries DEF TypeOK
  <2>2. /\ Len(workBufferPut') = m + (n - k - 1)
        /\ \A i \in 1..m : workBufferPut'[i] = workBufferPut[i]
        /\ \A i \in 1..Len(workBufferPut') : i > m =>
                i - m \in 1..(n - k - 1) /\ workBufferPut'[i] = Remainder(gen)[i - m]
    <3>1. workBufferPut' = workBufferPut \o Remainder(gen)
      BY <1>2
    <3>2. /\ Len(workBufferPut') = Len(workBufferPut) + Len(Remainder(gen))
          /\ \A i \in 1..Len(workBufferPut) : workBufferPut'[i] = workBufferPut[i]
          /\ \A i \in 1..Len(workBufferPut') : i > Len(workBufferPut) =>
                /\ i - Len(workBufferPut) \in 1..Len(Remainder(gen))
                /\ workBufferPut'[i] = Remainder(gen)[i - Len(workBufferPut)]
      <4>1. Remainder(gen) \in Seq(Items) /\ workBufferPut \in Seq(Items)
        BY <2>1
      <4> HIDE DEF k, n, m
      <4> QED
        BY <3>1, <4>1, ConcatEntries
    <3> QED
      BY <2>1, <3>2
  <2> HIDE DEF k, n, m
  <2>3. ASSUME NEW i \in 1..Len(workBufferPut'), i > m
        PROVE  /\ i - m + k + 1 \in 1..n
               /\ workBufferPut'[i] = workBufferGet[i - m + k + 1]
    BY <2>1, <2>2, <2>3
  <2> QED
    BY <1>2, <2>2, <2>3
<1> HIDE DEF k, n, m
<1>10. Len(workBufferPut') \in Nat
  BY <1>2, <1>3
<1>4. \A c \in Clients : InWritten(c)' <=> InWritten(c) \/ InBatch(c)
  <2> SUFFICES ASSUME NEW c \in Clients
               PROVE  InWritten(c)' <=> InWritten(c) \/ InBatch(c)
    OBVIOUS
  <2>1. ASSUME NEW i \in 1..Len(workBufferPut'), workBufferPut'[i] = c
        PROVE  InWritten(c) \/ InBatch(c)
    <3>1. CASE i <= m
      BY <1>2, <1>3, <2>1, <3>1 DEF InWritten, m
    <3>2. CASE i > m
      <4>1. i - m + k + 1 \in 1..n /\ workBufferGet[i - m + k + 1] = c
        BY <1>3, <2>1, <3>2
      <4>2. i - m + k + 1 > k
        BY <1>2, <1>10, <3>2
      <4> QED
        BY <4>1, <4>2 DEF InBatch, k, n
    <3>3. i <= m \/ i > m
      BY <1>2, <1>10
    <3> QED
      BY <3>1, <3>2, <3>3
  <2>2. ASSUME NEW i \in 1..m, workBufferPut[i] = c
        PROVE  InWritten(c)'
    <3>1. i \in 1..Len(workBufferPut')
      <4>1. m <= Len(workBufferPut')
        BY <1>2, <1>3
      <4> QED
        BY <1>2, <1>10, <2>2, <4>1
    <3>2. workBufferPut'[i] = c
      BY <1>3, <2>2
    <3> QED
      BY <3>1, <3>2 DEF InWritten
  <2>3. ASSUME NEW i \in 1..n, i > k, workBufferGet[i] = c
        PROVE  InWritten(c)'
    <3>1. i # k + 1
      BY <1>2, <2>3, ItemFacts
    <3>2. /\ i - k - 1 + m \in 1..Len(workBufferPut')
          /\ i - k - 1 + m > m
          /\ (i - k - 1 + m) - m + k + 1 = i
      BY <1>2, <1>3, <2>3, <3>1
    <3>3. workBufferPut'[i - k - 1 + m] = c
      BY <1>3, <2>3, <3>2
    <3> QED
      BY <3>2, <3>3 DEF InWritten
  <2> QED
    BY <2>1, <2>2, <2>3 DEF InWritten, InBatch, k, n, m
<1>5. \A c : ~InBatch(c)'
  BY <1>2 DEF InBatch
<1>6. \A i, j \in 1..Len(workBufferPut') :
            workBufferPut'[i] = workBufferPut'[j] /\ workBufferPut'[i] \in Clients => i = j
  <2>0. SUFFICES ASSUME NEW i \in 1..Len(workBufferPut'), NEW j \in 1..Len(workBufferPut'),
                        workBufferPut'[i] = workBufferPut'[j], workBufferPut'[i] \in Clients,
                        i <= j
                 PROVE  i = j
    <3>1. \A i, j \in 1..Len(workBufferPut') : i <= j \/ j <= i
      BY <1>10
    <3> QED
      BY <3>1
  <2>1. CASE j <= m
    <3>1. i \in 1..m /\ j \in 1..m
      BY <1>2, <1>10, <2>0, <2>1
    <3> QED
      BY <1>3, <2>0, <3>1 DEF QueueInv, NoneTwice, m
  <2>2. CASE i <= m /\ j > m
    <3>1. i \in 1..m
      BY <1>2, <1>10, <2>2
    <3>2. InWritten(workBufferPut'[i])
      BY <1>3, <3>1 DEF InWritten, m
    <3>3. j - m + k + 1 \in 1..n /\ workBufferGet[j - m + k + 1] = workBufferPut'[i]
      BY <1>3, <2>0, <2>2
    <3>4. j - m + k + 1 > k
      BY <1>2, <1>10, <2>2
    <3>5. InBatch(workBufferPut'[i])
      BY <3>3, <3>4 DEF InBatch, k, n
    <3> QED
      BY <2>0, <3>2, <3>5 DEF QueueInv, NoneTwice
  <2>3. CASE i > m
    <3> DEFINE p == i - m + k + 1
               q == j - m + k + 1
    <3>1. j > m
      BY <1>2, <1>10, <2>0, <2>3
    <3>2. p \in 1..n /\ workBufferGet[p] = workBufferPut'[i]
      BY <1>3, <2>3
    <3>3. q \in 1..n /\ workBufferGet[q] = workBufferPut'[i]
      BY <1>3, <2>0, <3>1
    <3>4. p > k /\ q > k /\ (p = q => i = j)
      BY <1>2, <1>10, <2>3, <3>1
    <3> HIDE DEF p, q
    <3>5. p = q
      BY <2>0, <3>2, <3>3, <3>4 DEF QueueInv, NoneTwice, Left, k, n
    <3> QED
      BY <3>4, <3>5
  <2> QED
    BY <1>2, <1>10, <2>0, <2>1, <2>2, <2>3
<1>7. NoneTwice'
  BY <1>2, <1>5, <1>6 DEF NoneTwice
<1>8. Accounted'
  BY <1>2, <1>4, <1>5 DEF QueueInv, Accounted
<1>9. HistoryInv'
  <2>1. \A h \in Gens : Working(h)' => Working(h)
    BY <1>2 DEF Working, TypeOK
  <2> QED
    BY <1>2, <2>1 DEF QueueInv, HistoryInv
<1> QED
  BY <1>7, <1>8, <1>9 DEF QueueInv

LEMMA QueueStep == TypeOK /\ WorkersInv /\ QueueInv /\ [Next]_vars => QueueInv'
<1> SUFFICES ASSUME TypeOK, WorkersInv, QueueInv, [Next]_vars PROVE QueueInv'
  OBVIOUS
<1>1. ASSUME NEW c \in Clients, Post(c) PROVE QueueInv'
  BY <1>1, QueuePost DEF Post, Working
<1>2. ASSUME NEW g \in Gens, NEW c \in Callers, CallFromCallback(g, c) PROVE QueueInv'
  <2>1. PushClient(c) /\ \A h \in Gens : Working(h)' => Working(h)
    BY <1>2 DEF CallFromCallback, Working, TypeOK
  <2> QED
    BY <2>1, QueuePost, ItemFacts
<1>3. ASSUME NEW c \in Callers, Caller(c) PROVE QueueInv'
  <2>1. PICK pc \in {"gaveup", "answered"} : Return(c, pc)
    BY <1>3 DEF Caller, GiveUp, ReadResponse
  <2>2. workerPC' = workerPC \/ \E g \in Gens : /\ workerPC[g] = "nested"
                                               /\ workerPC' = [workerPC EXCEPT ![g] = "callback"]
    BY <2>1 DEF Return
  <2>3. \A g \in Gens : Working(g)' => Working(g)
    BY <2>2 DEF Working, TypeOK
  <2>4. \A d \in Clients : callPC'[d] = "idle" <=> callPC[d] = "idle"
    BY <2>1 DEF Return, TypeOK
  <2> QED
    BY <2>1, <2>3, <2>4, HistoryKept, QueueKept
       DEF Return, registerVars, bufferVars, serveVars, historyVars
<1>4. ASSUME NEW c \in Callers, RespondLater(c) PROVE QueueInv'
  BY <1>4, HistoryKept, QueueKept
     DEF RespondLater, registerVars, bufferVars, serveVars, workerVars, callVars, historyVars, Working
<1>5. ASSUME NEW n \in Names, NEW h \in Handlers, BeginChange(n, h) PROVE QueueInv'
  <2>1. /\ Len(dispatchers') = Len(dispatchers) + 1 /\ Len(dispatchers) \in Nat
        /\ Len(dispatchers) >= 1
        /\ UNCHANGED <<workBufferPut, workBufferGet, gen, index, dispatcher, workerPC, since,
                       servedBy, callPC>>
    BY <1>5, ConstantsAssumption
       DEF BeginChange, TypeOK, bufferVars, serveVars, workerVars, callVars, historyVars
  <2>2. \A g \in Gens : dispatcher[g] \in 1..Len(dispatchers)
                            => dispatcher[g] \in 1..(Len(dispatchers) + 1)
    BY <2>1
  <2>3. HistoryInv'
    BY <2>1, <2>2 DEF QueueInv, HistoryInv, Working
  <2> QED
    BY <2>1, <2>3, QueueKept
<1>6. ASSUME EndChange PROVE QueueInv'
  <2>1. PICK flag \in BOOLEAN : EndChangeRacy(flag)
    BY <1>6 DEF EndChange, FlagSeen, TypeOK
  <2>2. UNCHANGED <<gen, index, dispatcher, dispatchers, since, servedBy, callPC, workerPC>>
    BY <2>1 DEF EndChangeRacy, serveVars, workerVars, callVars, historyVars
  <2>3. HistoryInv'
    BY <2>1, <2>2 DEF QueueInv, HistoryInv, Working, EndChangeRacy
  <2>4. CASE flag
    BY <2>1, <2>2, <2>3, <2>4, QueueControl DEF EndChangeRacy
  <2>5. CASE ~flag
    BY <2>1, <2>2, <2>3, <2>5, QueueKept DEF EndChangeRacy, bufferVars
  <2> QED
    BY <2>4, <2>5
<1>7. ASSUME ServeStart \/ ServeRefreshed \/ ServeCtxDone PROVE QueueInv'
  BY <1>7, HistoryKept, QueueKept
     DEF ServeStart, ServeRefreshed, ServeCtxDone, registerVars, bufferVars, workerVars, callVars,
         historyVars, Working
<1>8. ASSUME ServeClone PROVE QueueInv'
  <2>1. /\ gen' = gen + 1 /\ gen' \in Gens
        /\ workerPC' = [workerPC EXCEPT ![gen'] = "swap"]
        /\ dispatcher' = [dispatcher EXCEPT ![gen'] = Len(dispatchers)]
        /\ UNCHANGED <<workBufferPut, workBufferGet, dispatchers, dispatchMutex, since, servedBy,
                       callPC>>
    BY <1>8, GenFacts DEF ServeClone, TypeOK, registerVars, bufferVars, callVars, historyVars
  <2>2. workBufferGet = <<>>
    BY <1>8 DEF ServeClone, WorkersInv, OnlyLastWorks, ExitIsLast, BatchBounds, Working, TypeOK,
                WorkerPCs
  <2>3. NoneTwice' /\ Accounted'
    BY <2>1, <2>2 DEF QueueInv, NoneTwice, Accounted, InBatch, InWritten, Left
  <2>4. Len(dispatchers) \in 1..Len(dispatchers)
    BY ConstantsAssumption DEF TypeOK
  <2>5. HistoryInv'
    BY <2>1, <2>4 DEF QueueInv, HistoryInv, Working, TypeOK
  <2> QED
    BY <2>3, <2>5 DEF QueueInv
<1>9. ASSUME ServePushExit PROVE QueueInv'
  <2>1. /\ Push(Exit)
        /\ UNCHANGED <<gen, index, dispatcher, dispatchers, since, servedBy, callPC, workerPC,
                       dispatchMutex>>
    BY <1>9 DEF ServePushExit, registerVars, workerVars, callVars
  <2>2. HistoryInv'
    BY <2>1 DEF QueueInv, HistoryInv, Working
  <2> QED
    BY <2>1, <2>2, QueueControl
<1>10. ASSUME NEW g \in Gens, Swap(g) PROVE QueueInv'
  <2>1. /\ workBufferGet = <<>> /\ workBufferGet' = workBufferPut /\ workBufferPut' = <<>>
        /\ index'[gen] = 0
        /\ UNCHANGED <<gen, dispatcher, dispatchers, dispatchMutex, since, servedBy, callPC>>
    BY <1>10 DEF Swap, WorkersInv, OnlyLastWorks, BatchBounds, Working, TypeOK, registerVars,
                 serveVars, callVars, historyVars
  <2>2. \A i \in 1..Len(workBufferPut) : i > 0
    BY DEF TypeOK
  <2>3. \A c : ~InBatch(c) /\ ~InWritten(c)' /\ (InBatch(c)' <=> InWritten(c))
    BY <2>1, <2>2 DEF InBatch, InWritten
  <2>4. NoneTwice'
    BY <2>1, <2>3 DEF QueueInv, NoneTwice
  <2>5. HistoryInv'
    <3>1. \A h \in Gens : Working(h)' => Working(h)
      BY <1>10 DEF Swap, Working, TypeOK
    <3> QED
      BY <2>1, <3>1, HistoryKept
  <2> QED
    BY <2>1, <2>3, <2>4, <2>5 DEF QueueInv, Accounted
<1>11. ASSUME NEW g \in Gens, FinishBatch(g) PROVE QueueInv'
  <2>1. /\ index[gen] = Len(workBufferGet) /\ workBufferGet' = <<>>
        /\ UNCHANGED <<workBufferPut, gen, index, dispatcher, dispatchers, dispatchMutex, since,
                       servedBy, callPC>>
    BY <1>11 DEF FinishBatch, WorkersInv, OnlyLastWorks, Working, TypeOK, registerVars,
                 serveVars, callVars, historyVars
  <2>2. \A i \in 1..Len(workBufferGet) : ~(i > Len(workBufferGet))
    BY DEF TypeOK
  <2>3. \A c : ~InBatch(c) /\ ~InBatch(c)' /\ (InWritten(c)' <=> InWritten(c))
    BY <2>1, <2>2 DEF InBatch, InWritten
  <2>4. NoneTwice'
    BY <2>1, <2>3 DEF QueueInv, NoneTwice
  <2>5. HistoryInv'
    <3>1. \A h \in Gens : Working(h)' => Working(h)
      BY <1>11 DEF FinishBatch, Working, TypeOK
    <3> QED
      BY <2>1, <3>1, HistoryKept
  <2> QED
    BY <2>1, <2>3, <2>4, <2>5 DEF QueueInv, Accounted
<1>12. ASSUME NEW g \in Gens, NEW c \in Clients, NotExists(g, c) \/ StartCallback(g, c)
       PROVE  QueueInv'
  <2>1. Take(g, c)
    BY <1>12 DEF NotExists, StartCallback
  <2>2. \A h \in Gens : Working(h)' => Working(h)
    BY <1>12 DEF NotExists, StartCallback, Take, AtItem, Working, TypeOK
  <2> QED
    BY <2>1, <2>2, QueueTake
<1>13. ASSUME NEW g \in Gens, FinishCallback(g) \/ TakeExit(g) PROVE QueueInv'
  <2>1. \A h \in Gens : Working(h)' => Working(h)
    BY <1>13 DEF FinishCallback, TakeExit, AtItem, Working, TypeOK
  <2> QED
    BY <1>13, <2>1, HistoryKept, QueueKept
       DEF FinishCallback, TakeExit, registerVars, bufferVars, serveVars, callVars, historyVars
<1>14. ASSUME NEW g \in Gens, TakeRefresh(g) PROVE QueueInv'
  BY <1>14, QueueRefresh
<1>15. ASSUME NEW g \in Gens, Unlock(g) PROVE QueueInv'
  <2>1. \A h \in Gens : Working(h)' => Working(h)
    BY <1>15 DEF Unlock, Working, TypeOK
  <2> QED
    BY <1>15, <2>1, HistoryKept, QueueKept DEF Unlock, registerVars, serveVars, callVars, historyVars
<1>16. ASSUME UNCHANGED vars PROVE QueueInv'
  BY <1>16, HistoryKept, QueueKept
     DEF vars, registerVars, bufferVars, serveVars, workerVars, callVars, historyVars, Working
<1> QED
  BY <1>1, <1>2, <1>3, <1>4, <1>5, <1>6, <1>7, <1>8, <1>9, <1>10, <1>11, <1>12, <1>13, <1>14,
     <1>15, <1>16 DEF Next, Worker, Server

(* What Waiting consists of: the part of the batch behind k, then what is       *)
(* written.                                                                 *)
LEMMA WaitingEntries ==
    ASSUME TypeOK
    PROVE  \E l \in Nat : LET k == index[gen] IN
              /\ Len(Waiting) = l + Len(workBufferPut)
              /\ \A i \in 1..Len(Waiting) : i <= l =>
                    i + k \in 1..Len(workBufferGet) /\ i + k > k /\ Waiting[i] = workBufferGet[i + k]
              /\ \A i \in 1..Len(Waiting) : i > l =>
                    i - l \in 1..Len(workBufferPut) /\ Waiting[i] = workBufferPut[i - l]
              /\ \A i \in 1..Len(workBufferGet) : i > k => i - k \in 1..l
<1>1. PICK k \in Nat, n \in Nat :
        k = index[gen] /\ n = Len(workBufferGet) /\ workBufferGet \in Seq(Items)
  BY DEF TypeOK
<1> DEFINE rest == SubSeq(workBufferGet, k + 1, n)
           l == IF k <= n THEN n - k ELSE 0
<1>2. rest \in Seq(Items) /\ Len(rest) = l /\ l \in Nat
  <2>1. \A i \in (k + 1)..n : i \in 1..n
    BY <1>1
  <2>2. \A i \in (k + 1)..n : workBufferGet[i] \in Items
    BY <1>1, <2>1
  <2>3. k + 1 \in Int /\ n \in Int
    BY <1>1
  <2>4. rest \in Seq(Items) /\ Len(rest) = IF k + 1 <= n THEN n - (k + 1) + 1 ELSE 0
    BY <2>2, <2>3, SubSeqProperties
  <2> HIDE DEF rest
  <2> QED
    BY <1>1, <2>4
<1>3. \A i \in 1..l : i + k \in 1..n /\ i + k > k /\ rest[i] = workBufferGet[i + k]
  <2>1. \A i \in (k + 1)..n : i \in 1..n
    BY <1>1
  <2>2. \A i \in (k + 1)..n : workBufferGet[i] \in Items
    BY <1>1, <2>1
  <2>3. k + 1 \in Int /\ n \in Int
    BY <1>1
  <2>4. \A i \in 1..(n - (k + 1) + 1) : rest[i] = workBufferGet[(k + 1) + i - 1]
    BY <2>2, <2>3, SubSeqProperties
  <2> HIDE DEF rest
  <2>5. ASSUME NEW i \in 1..l
        PROVE  i \in 1..(n - (k + 1) + 1) /\ (k + 1) + i - 1 = i + k /\ i + k \in 1..n /\ i + k > k
    BY <1>1, <2>5
  <2> QED
    BY <2>4, <2>5
<1>4. \A i \in 1..n : i > k => i - k \in 1..l
  BY <1>1
<1>5. Waiting = rest \o workBufferPut /\ workBufferPut \in Seq(Items) /\ Len(workBufferPut) \in Nat
  BY <1>1 DEF Waiting, TypeOK
<1> HIDE DEF rest, l
<1>6. /\ Len(Waiting) = l + Len(workBufferPut)
      /\ \A i \in 1..l : Waiting[i] = rest[i]
      /\ \A i \in 1..Len(Waiting) : i > l =>
            i - l \in 1..Len(workBufferPut) /\ Waiting[i] = workBufferPut[i - l]
  BY <1>2, <1>5, ConcatEntries
<1>7. \A i \in 1..Len(Waiting) : i <= l => i \in 1..l
  BY <1>2, <1>5, <1>6
<1> QED
  BY <1>1, <1>2, <1>3, <1>4, <1>6, <1>7

LEMMA QueueConserves == TypeOK /\ QueueInv => Conservation
<1> SUFFICES ASSUME TypeOK, QueueInv, NEW c \in Clients
             PROVE  LET places == {i \in 1..Len(Waiting) : Waiting[i] = c}
                    IN  IF since[c] # 0 /\ servedBy[c] = 0
                        THEN \E i \in places : places = {i}
                        ELSE places = {}
  BY DEF Conservation
<1> DEFINE places == {i \in 1..Len(Waiting) : Waiting[i] = c}
           k == index[gen]
<1>1. PICK l \in Nat :
        /\ Len(Waiting) = l + Len(workBufferPut)
        /\ \A i \in 1..Len(Waiting) : i <= l =>
              i + k \in 1..Len(workBufferGet) /\ i + k > k /\ Waiting[i] = workBufferGet[i + k]
        /\ \A i \in 1..Len(Waiting) : i > l =>
              i - l \in 1..Len(workBufferPut) /\ Waiting[i] = workBufferPut[i - l]
        /\ \A i \in 1..Len(workBufferGet) : i > k => i - k \in 1..l
  BY WaitingEntries
<1>2. k \in Nat /\ Len(workBufferPut) \in Nat /\ Len(workBufferGet) \in Nat
  BY DEF TypeOK
<1> HIDE DEF k
<1>3. ASSUME NEW i \in places
      PROVE  \/ i <= l /\ i + k \in 1..Len(workBufferGet) /\ i + k > k /\ workBufferGet[i + k] = c
             \/ i > l /\ i - l \in 1..Len(workBufferPut) /\ workBufferPut[i - l] = c
  BY <1>1, <1>2
<1>4. ASSUME NEW i \in places PROVE (i <= l /\ InBatch(c)) \/ (i > l /\ InWritten(c))
  BY <1>3 DEF InBatch, InWritten, k
<1>5. ASSUME InBatch(c) PROVE places # {}
  <2>1. PICK i \in 1..Len(workBufferGet) : i > k /\ workBufferGet[i] = c
    BY <1>5 DEF InBatch, k
  <2>2. i - k \in 1..Len(Waiting) /\ i - k <= l /\ (i - k) + k = i
    BY <1>1, <1>2, <2>1
  <2>3. Waiting[i - k] = c
    BY <1>1, <2>1, <2>2
  <2> QED
    BY <2>2, <2>3
<1>6. ASSUME InWritten(c) PROVE places # {}
  <2>1. PICK i \in 1..Len(workBufferPut) : workBufferPut[i] = c
    BY <1>6 DEF InWritten
  <2>2. i + l \in 1..Len(Waiting) /\ i + l > l /\ (i + l) - l = i
    BY <1>1, <1>2, <2>1
  <2>3. Waiting[i + l] = c
    BY <1>1, <2>1, <2>2
  <2> QED
    BY <2>2, <2>3
<1>7. ASSUME NEW i \in places, NEW j \in places PROVE i = j
  <2>1. i \in Int /\ j \in Int
    BY <1>1, <1>2
  <2>2. ~(InBatch(c) /\ InWritten(c))
    BY DEF QueueInv, NoneTwice
  <2>3. CASE InBatch(c)
    <3>1. /\ i + k \in 1..Len(workBufferGet) /\ i + k > k /\ workBufferGet[i + k] = c
          /\ j + k \in 1..Len(workBufferGet) /\ j + k > k /\ workBufferGet[j + k] = c
      BY <1>2, <1>3, <1>4, <2>1, <2>2, <2>3
    <3>2. i + k = j + k
      BY <3>1 DEF QueueInv, NoneTwice, Left, k
    <3> QED
      BY <1>2, <2>1, <3>2
  <2>4. CASE InWritten(c)
    <3>1. /\ i - l \in 1..Len(workBufferPut) /\ workBufferPut[i - l] = c
          /\ j - l \in 1..Len(workBufferPut) /\ workBufferPut[j - l] = c
      BY <1>3, <1>4, <2>1, <2>2, <2>4
    <3>2. i - l = j - l
      BY <3>1 DEF QueueInv, NoneTwice
    <3> QED
      BY <2>1, <3>2
  <2> QED
    BY <1>4, <2>3, <2>4
<1>8. places # {} <=> since[c] # 0 /\ servedBy[c] = 0
  BY <1>4, <1>5, <1>6 DEF QueueInv, Accounted
<1> HIDE DEF places
<1>9. places # {} => \E i \in places : places = {i}
  BY <1>7
<1> QED
  BY <1>8, <1>9 DEF places

(* No event is lost or doubled: not by the swaps, the truncation of a finished *)
(* batch, a refresh in mid-batch or the exit.                                *)
THEOREM Conserved == Spec => []Conservation
<1>1. Init => TypeOK /\ WorkersInv /\ QueueInv
  BY InitType, WorkersInit, QueueInit
<1>2. TypeOK /\ WorkersInv /\ QueueInv /\ [Next]_vars => (TypeOK /\ WorkersInv /\ QueueInv)'
  BY TypeStep, WorkersStep, QueueStep
<1> QED
  BY <1>1, <1>2, QueueConserves, PTL DEF Spec
-----------------------------------------------------------------------------
(* The exit.  As long as the last worker works, what was posted before the exit *)
(* event and is not served stands before it: only a refresh puts entries      *)
(* behind it, and that worker has no successor.                              *)

(* c waits, and no exit event waits before it. *)
BeforeExit(c) ==
    \/ \E p \in 1..Len(workBufferGet) :
            /\ p > index[gen] /\ workBufferGet[p] = c
            /\ \A q \in 1..Len(workBufferGet) : index[gen] < q /\ q < p => workBufferGet[q] # Exit
    \/ /\ \A q \in 1..Len(workBufferGet) : index[gen] < q => workBufferGet[q] # Exit
       /\ \E p \in 1..Len(workBufferPut) :
            /\ workBufferPut[p] = c
            /\ \A q \in 1..Len(workBufferPut) : q < p => workBufferPut[q] # Exit

ExitInv ==
    /\ \A c \in beforeExit : since[c] # 0
    /\ \A i \in 1..Len(posted) : since[posted[i]] # 0
    /\ servePC = "returned" /\ Working(gen) =>
            \A c \in beforeExit : servedBy[c] = 0 => BeforeExit(c)
    /\ DrainedOnExit

LEMMA ExitInit == Init => ExitInv
  BY GenFacts DEF Init, ExitInv, DrainedOnExit

(* The steps that leave the buffers, and what is served, alone. *)
LEMMA ExitKept ==
    ASSUME ExitInv, UNCHANGED <<workBufferPut, workBufferGet, gen, index, since, posted, servedBy,
                                beforeExit>>,
           servePC' = "returned" /\ Working(gen)' => servePC = "returned" /\ Working(gen),
           \A g \in Gens : workerPC'[g] = "exited" => workerPC[g] = "exited"
    PROVE  ExitInv'
<1>1. \A c : BeforeExit(c) => BeforeExit(c)'
  BY DEF BeforeExit
<1> QED
  BY <1>1 DEF ExitInv, DrainedOnExit

(* What is pushed stands behind the rest. *)
LEMMA ExitPush ==
    ASSUME TypeOK, NEW item \in Items, Push(item), UNCHANGED <<gen, index>>,
           NEW c, BeforeExit(c)
    PROVE  BeforeExit(c)'
<1> DEFINE n == Len(workBufferPut)
<1>1. /\ workBufferGet' = workBufferGet
      /\ n \in Nat /\ Len(workBufferPut') = n + 1
      /\ \A i \in 1..n : workBufferPut'[i] = workBufferPut[i]
  BY QueuePush
<1> HIDE DEF n
<1>2. CASE \E p \in 1..Len(workBufferGet) :
            /\ p > index[gen] /\ workBufferGet[p] = c
            /\ \A q \in 1..Len(workBufferGet) : index[gen] < q /\ q < p => workBufferGet[q] # Exit
  BY <1>1, <1>2 DEF BeforeExit
<1>3. CASE /\ \A q \in 1..Len(workBufferGet) : index[gen] < q => workBufferGet[q] # Exit
           /\ \E p \in 1..n :
                /\ workBufferPut[p] = c
                /\ \A q \in 1..n : q < p => workBufferPut[q] # Exit
  <2>1. PICK p \in 1..n : /\ workBufferPut[p] = c
                          /\ \A q \in 1..n : q < p => workBufferPut[q] # Exit
    BY <1>3
  <2>2. p \in 1..(n + 1) /\ \A q \in 1..(n + 1) : q < p => q \in 1..n
    BY <1>1
  <2>3. workBufferPut'[p] = c /\ \A q \in 1..(n + 1) : q < p => workBufferPut'[q] # Exit
    BY <1>1, <2>1, <2>2
  <2> QED
    BY <1>1, <1>3, <2>2, <2>3 DEF BeforeExit
<1> QED
  BY <1>2, <1>3 DEF BeforeExit, n

LEMMA ExitPost ==
    ASSUME TypeOK, QueueInv, ExitInv, NEW c \in Clients, PushClient(c),
           Working(gen)' => Working(gen),
           \A g \in Gens : workerPC'[g] = "exited" => workerPC[g] = "exited"
    PROVE  ExitInv'
<1>1. /\ Push(c) /\ c \in Items /\ UNCHANGED <<servePC, gen, index, servedBy, beforeExit>>
      /\ posted' = Append(posted, c)
  BY ItemFacts DEF PushClient, serveVars, historyVars
<1>2. \A d \in Clients : since'[d] = 0 => since[d] = 0 /\ d # c
  BY SettledFacts DEF PushClient, TypeOK
<1>3. /\ \A d \in beforeExit' : since'[d] # 0
      /\ \A i \in 1..Len(posted') : since'[posted'[i]] # 0
  <2>1. posted \in Seq(Clients) /\ beforeExit \subseteq Clients
    BY DEF TypeOK
  <2>2. \A i \in 1..Len(posted') : posted'[i] = c \/ \E j \in 1..Len(posted) : posted'[i] = posted[j]
    BY <1>1, <2>1, AppendEntries
  <2>3. \A j \in 1..Len(posted) : posted[j] \in Clients
    BY <2>1
  <2> QED
    BY <1>1, <1>2, <2>1, <2>2, <2>3 DEF ExitInv
<1>4. \A d : BeforeExit(d) => BeforeExit(d)'
  BY <1>1, ExitPush
<1> QED
  BY <1>1, <1>3, <1>4 DEF ExitInv, DrainedOnExit

(* A worker takes an event: the others stay behind it. *)
LEMMA ExitTake ==
    ASSUME TypeOK, WorkersInv, QueueInv, ExitInv, NEW g \in Gens, NEW c \in Clients, Take(g, c),
           \A h \in Gens : workerPC'[h] = "exited" => workerPC[h] = "exited"
    PROVE  ExitInv'
<1> DEFINE k == index[gen]
           n == Len(workBufferGet)
<1>1. g = gen /\ Working(gen)
  BY DEF Take, AtItem, WorkersInv, OnlyLastWorks, Working
<1>2. /\ k \in Nat /\ n \in Nat /\ k + 1 \in 1..n /\ workBufferGet[k + 1] = c
      /\ index'[gen] = k + 1
      /\ servedBy' = [servedBy EXCEPT ![c] = dispatcher[gen]]
  BY <1>1 DEF Take, AtItem, TypeOK
<1>3. UNCHANGED <<workBufferPut, workBufferGet, servePC, gen, since, posted, beforeExit>>
  BY DEF Take, bufferVars, serveVars, callVars
<1>4. \A d \in Clients : servedBy'[d] = 0 => servedBy[d] = 0 /\ d # c
  <2>1. dispatcher[gen] # 0
    BY <1>1 DEF QueueInv, HistoryInv
  <2> QED
    BY <1>2, <2>1 DEF TypeOK
<1> HIDE DEF k, n
<1>5. \A q \in 1..n : q > k <=> q > k + 1 \/ q = k + 1
  BY <1>2
<1>6. ASSUME NEW d, d # c, BeforeExit(d) PROVE BeforeExit(d)'
  <2>1. CASE \E p \in 1..n :
                /\ p > k /\ workBufferGet[p] = d
                /\ \A q \in 1..n : k < q /\ q < p => workBufferGet[q] # Exit
    <3>1. PICK p \in 1..n :
                /\ p > k /\ workBufferGet[p] = d
                /\ \A q \in 1..n : k < q /\ q < p => workBufferGet[q] # Exit
      BY <2>1
    <3>2. p > k + 1 /\ \A q \in 1..n : k + 1 < q => k < q
      BY <1>2, <1>5, <1>6, <3>1
    <3> QED
      BY <1>2, <1>3, <3>1, <3>2 DEF BeforeExit, n
  <2>2. CASE /\ \A q \in 1..n : k < q => workBufferGet[q] # Exit
             /\ \E p \in 1..Len(workBufferPut) :
                    /\ workBufferPut[p] = d
                    /\ \A q \in 1..Len(workBufferPut) : q < p => workBufferPut[q] # Exit
    <3>1. \A q \in 1..n : k + 1 < q => k < q
      BY <1>2
    <3> QED
      BY <1>2, <1>3, <2>2, <3>1 DEF BeforeExit, n
  <2> QED
    BY <1>6, <2>1, <2>2 DEF BeforeExit, k, n
<1>7. beforeExit \subseteq Clients
  BY DEF TypeOK
<1> QED
  BY <1>1, <1>3, <1>4, <1>6, <1>7 DEF ExitInv, DrainedOnExit

(* A worker takes the exit event: nothing is left before it. *)
LEMMA ExitTaken ==
    ASSUME TypeOK, WorkersInv, QueueInv, ExitInv, NEW g \in Gens, TakeExit(g)
    PROVE  ExitInv'
<1> DEFINE k == index[gen]
           n == Len(workBufferGet)
<1>1. g = gen /\ Working(gen) /\ workerPC' = [workerPC EXCEPT ![g] = "exited"]
  BY DEF TakeExit, AtItem, WorkersInv, OnlyLastWorks, Working
<1>2. k \in Nat /\ n \in Nat /\ k + 1 \in 1..n /\ workBufferGet[k + 1] = Exit
  BY <1>1 DEF TakeExit, AtItem, TypeOK
<1>3. UNCHANGED <<servePC, gen, since, posted, servedBy, beforeExit>>
  BY DEF TakeExit, serveVars, callVars, historyVars
<1>4. servePC = "returned"
  BY <1>2 DEF WorkersInv, ExitIsLast, n
<1>5. \A c \in Clients : ~BeforeExit(c)
  <2> SUFFICES ASSUME NEW c \in Clients, BeforeExit(c) PROVE FALSE
    OBVIOUS
  <2>1. k < k + 1
    BY <1>2
  <2>2. PICK p \in 1..n :
            /\ p > k /\ workBufferGet[p] = c
            /\ \A q \in 1..n : k < q /\ q < p => workBufferGet[q] # Exit
    BY <1>2, <2>1 DEF BeforeExit
  <2>3. p # k + 1
    BY <1>2, <2>2, ItemFacts
  <2>4. k + 1 < p
    BY <1>2, <2>2, <2>3
  <2> QED
    BY <1>2, <2>1, <2>2, <2>4
<1>6. \A c \in beforeExit : servedBy[c] # 0
  BY <1>1, <1>4, <1>5 DEF ExitInv, TypeOK
<1>7. ~Working(gen)'
  BY <1>1, <1>3 DEF Working, TypeOK
<1> QED
  BY <1>3, <1>6, <1>7 DEF ExitInv, DrainedOnExit

(* Serve pushes the exit event behind all that waits. *)
LEMMA ExitPushed ==
    ASSUME TypeOK, WorkersInv, QueueInv, ExitInv, ServePushExit
    PROVE  ExitInv'
<1> DEFINE n == Len(workBufferPut)
<1>1. /\ Push(Exit) /\ Exit \in Items /\ servePC = "exit"
      /\ beforeExit' = {posted[i] : i \in 1..Len(posted)}
      /\ UNCHANGED <<gen, index, since, posted, servedBy, workerPC>>
  BY ItemFacts DEF ServePushExit, workerVars, callVars
<1>2. /\ \A i \in 1..n : workBufferPut[i] # Exit
      /\ \A i \in 1..Len(workBufferGet) : workBufferGet[i] # Exit
      /\ \A g \in Gens : workerPC[g] # "exited"
  BY <1>1 DEF WorkersInv, ExitIsLast
<1>3. \A c \in Clients : since[c] # 0 /\ servedBy[c] = 0 => BeforeExit(c)
  BY <1>2 DEF QueueInv, Accounted, InBatch, InWritten, BeforeExit
<1>4. \A c \in Clients : since[c] # 0 /\ servedBy[c] = 0 => BeforeExit(c)'
  BY <1>1, <1>3, ExitPush
<1>5. \A c \in beforeExit' : c \in Clients /\ since[c] # 0
  <2>1. \A i \in 1..Len(posted) : posted[i] \in Clients
    BY DEF TypeOK
  <2> QED
    BY <1>1, <2>1 DEF ExitInv
<1> QED
  BY <1>1, <1>2, <1>4, <1>5 DEF ExitInv, DrainedOnExit

LEMMA ExitStep == TypeOK /\ WorkersInv /\ QueueInv /\ ExitInv /\ [Next]_vars => ExitInv'
<1> SUFFICES ASSUME TypeOK, WorkersInv, QueueInv, ExitInv, [Next]_vars PROVE ExitInv'
  OBVIOUS
<1>1. ASSUME NEW c \in Clients, Post(c) PROVE ExitInv'
  BY <1>1, ExitPost DEF Post, PushClient, serveVars, Working
<1>2. ASSUME NEW g \in Gens, NEW c \in Callers, CallFromCallback(g, c) PROVE ExitInv'
  <2>1. /\ PushClient(c) /\ workerPC[g] = "callback"
        /\ workerPC' = [workerPC EXCEPT ![g] = "nested"]
    BY <1>2 DEF CallFromCallback
  <2>2. Working(gen) /\ \A h \in Gens : workerPC'[h] = "exited" => workerPC[h] = "exited"
    BY <2>1 DEF WorkersInv, OnlyLastWorks, Working, TypeOK
  <2> QED
    BY <2>1, <2>2, ExitPost, ItemFacts
<1>3. ASSUME NEW c \in Callers, Caller(c) PROVE ExitInv'
  <2>1. PICK pc \in {"gaveup", "answered"} : Return(c, pc)
    BY <1>3 DEF Caller, GiveUp, ReadResponse
  <2>2. workerPC' = workerPC \/ \E g \in Gens : /\ workerPC[g] = "nested"
                                               /\ workerPC' = [workerPC EXCEPT ![g] = "callback"]
    BY <2>1 DEF Return
  <2>3. /\ Working(gen)' => Working(gen)
        /\ \A h \in Gens : workerPC'[h] = "exited" => workerPC[h] = "exited"
    BY <2>1, <2>2 DEF Return, serveVars, Working, TypeOK
  <2> QED
    BY <2>1, <2>3, ExitKept DEF Return, bufferVars, serveVars, historyVars
<1>4. ASSUME NEW c \in Callers, RespondLater(c) PROVE ExitInv'
  BY <1>4, ExitKept DEF RespondLater, bufferVars, serveVars, workerVars, callVars, historyVars, Working
<1>5. ASSUME NEW n \in Names, NEW h \in Handlers, BeginChange(n, h) PROVE ExitInv'
  BY <1>5, ExitKept DEF BeginChange, bufferVars, serveVars, workerVars, callVars, historyVars, Working
<1>6. ASSUME EndChange PROVE ExitInv'
  <2>1. PICK flag \in BOOLEAN : EndChangeRacy(flag)
    BY <1>6 DEF EndChange, FlagSeen, TypeOK
  <2>2. UNCHANGED <<servePC, gen, index, workerPC, since, posted, servedBy, beforeExit>>
    BY <2>1 DEF EndChangeRacy, serveVars, workerVars, callVars, historyVars
  <2>3. CASE flag
    <3>1. Push(Refresh)
      BY <2>1, <2>3 DEF EndChangeRacy
    <3>2. \A c : BeforeExit(c) => BeforeExit(c)'
      BY <2>2, <3>1, ExitPush, ItemFacts
    <3> QED
      BY <2>2, <3>2 DEF ExitInv, DrainedOnExit, Working
  <2>4. CASE ~flag
    BY <2>1, <2>2, <2>4, ExitKept DEF EndChangeRacy, bufferVars, Working
  <2> QED
    BY <2>3, <2>4
<1>7. ASSUME ServeStart \/ ServeRefreshed \/ ServeCtxDone PROVE ExitInv'
  BY <1>7, ExitKept
     DEF ServeStart, ServeRefreshed, ServeCtxDone, bufferVars, workerVars, callVars, historyVars, Working
<1>8. ASSUME ServeClone PROVE ExitInv'
  <2>1. /\ servePC' = "select" /\ workerPC' = [workerPC EXCEPT ![gen + 1] = "swap"]
        /\ UNCHANGED <<since, posted, servedBy, beforeExit>>
    BY <1>8 DEF ServeClone, callVars, historyVars
  <2>2. \A h \in Gens : workerPC'[h] = "exited" => workerPC[h] = "exited"
    BY <2>1 DEF TypeOK
  <2> QED
    BY <2>1, <2>2 DEF ExitInv, DrainedOnExit
<1>9. ASSUME ServePushExit PROVE ExitInv'
  BY <1>9, ExitPushed
<1>10. ASSUME NEW g \in Gens, Swap(g) \/ FinishBatch(g) PROVE ExitInv'
  <2>1. /\ g = gen /\ Working(gen)
        /\ UNCHANGED <<servePC, gen, since, posted, servedBy, beforeExit>>
        /\ \A h \in Gens : workerPC'[h] = "exited" => workerPC[h] = "exited"
    BY <1>10 DEF Swap, FinishBatch, WorkersInv, OnlyLastWorks, Working, TypeOK, serveVars, callVars,
                 historyVars
  <2>2. CASE Swap(g)
    <3>1. /\ workBufferGet = <<>> /\ workBufferGet' = workBufferPut /\ workBufferPut' = <<>>
          /\ index'[gen] = 0
      BY <2>1, <2>2 DEF Swap, WorkersInv, BatchBounds, TypeOK
    <3>2. \A p \in 1..Len(workBufferPut) : p > 0
      BY DEF TypeOK
    <3>3. \A c : BeforeExit(c) => BeforeExit(c)'
      BY <2>1, <3>1, <3>2 DEF BeforeExit
    <3> QED
      BY <2>1, <3>3 DEF ExitInv, DrainedOnExit
  <2>3. CASE FinishBatch(g)
    <3>1. /\ index[gen] = Len(workBufferGet) /\ workBufferGet' = <<>>
          /\ UNCHANGED <<workBufferPut, index>>
      BY <2>1, <2>3 DEF FinishBatch
    <3>2. \A p \in 1..Len(workBufferGet) : ~(p > Len(workBufferGet))
      BY DEF TypeOK
    <3>3. \A c : BeforeExit(c) => BeforeExit(c)'
      BY <2>1, <3>1, <3>2 DEF BeforeExit
    <3> QED
      BY <2>1, <3>3 DEF ExitInv, DrainedOnExit
  <2> QED
    BY <1>10, <2>2, <2>3
<1>11. ASSUME NEW g \in Gens, NEW c \in Clients, NotExists(g, c) \/ StartCallback(g, c)
       PROVE  ExitInv'
  <2>1. Take(g, c)
    BY <1>11 DEF NotExists, StartCallback
  <2>2. \A h \in Gens : workerPC'[h] = "exited" => workerPC[h] = "exited"
    BY <1>11 DEF NotExists, StartCallback, TypeOK
  <2> QED
    BY <2>1, <2>2, ExitTake
<1>12. ASSUME NEW g \in Gens, FinishCallback(g) PROVE ExitInv'
  <2>1. /\ Working(gen)
        /\ \A h \in Gens : workerPC'[h] = "exited" => workerPC[h] = "exited"
    BY <1>12 DEF FinishCallback, WorkersInv, OnlyLastWorks, Working, TypeOK
  <2> QED
    BY <1>12, <2>1, ExitKept DEF FinishCallback, bufferVars, serveVars, callVars, historyVars
<1>13. ASSUME NEW g \in Gens, TakeExit(g) PROVE ExitInv'
  BY <1>13, ExitTaken
<1>14. ASSUME NEW g \in Gens, TakeRefresh(g) PROVE ExitInv'
  <2>1. /\ g = gen /\ workerPC' = [workerPC EXCEPT ![g] = "unlock"]
        /\ UNCHANGED <<servePC, gen, since, posted, servedBy, beforeExit>>
    BY <1>14 DEF TakeRefresh, RefreshWith, AtItem, WorkersInv, OnlyLastWorks, Working, serveVars,
                 callVars
  <2>2. ~Working(gen)' /\ \A h \in Gens : workerPC'[h] = "exited" => workerPC[h] = "exited"
    BY <2>1 DEF Working, TypeOK
  <2> QED
    BY <2>1, <2>2 DEF ExitInv, DrainedOnExit
<1>15. ASSUME NEW g \in Gens, Unlock(g) PROVE ExitInv'
  <2>1. /\ Working(gen)' => Working(gen)
        /\ \A h \in Gens : workerPC'[h] = "exited" => workerPC[h] = "exited"
    BY <1>15 DEF Unlock, Working, TypeOK, serveVars
  <2> QED
    BY <1>15, <2>1, ExitKept DEF Unlock, serveVars, callVars, historyVars
<1>16. ASSUME UNCHANGED vars PROVE ExitInv'
  BY <1>16, ExitKept
     DEF vars, bufferVars, serveVars, workerVars, callVars, historyVars, Working
<1> QED
  BY <1>1, <1>2, <1>3, <1>4, <1>5, <1>6, <1>7, <1>8, <1>9, <1>10, <1>11, <1>12, <1>13, <1>14,
     <1>15, <1>16 DEF Next, Worker, Server

(* A worker that ends on the exit event has served all that was posted before  *)
(* Serve pushed it.                                                         *)
THEOREM Drained == Spec => []DrainedOnExit
<1>1. Init => TypeOK /\ WorkersInv /\ QueueInv /\ ExitInv
  BY InitType, WorkersInit, QueueInit, ExitInit
<1>2. TypeOK /\ WorkersInv /\ QueueInv /\ ExitInv /\ [Next]_vars
          => (TypeOK /\ WorkersInv /\ QueueInv /\ ExitInv)'
  BY TypeStep, WorkersStep, QueueStep, ExitStep
<1>3. ExitInv => DrainedOnExit
  BY DEF ExitInv
<1> QED
  BY <1>1, <1>2, <1>3, PTL DEF Spec
-----------------------------------------------------------------------------
(* The order.  An event that no refresh has put back stands before all that was *)
(* posted later, and is served first.                                        *)

(* c waits before d. *)
Ahead(c, d) ==
    \/ \E p, q \in 1..Len(workBufferGet) :
            index[gen] < p /\ p < q /\ workBufferGet[p] = c /\ workBufferGet[q] = d
    \/ InBatch(c) /\ InWritten(d)
    \/ \E p, q \in 1..Len(workBufferPut) : p < q /\ workBufferPut[p] = c /\ workBufferPut[q] = d

Unmoved(c) == servedBy[c] = 0 /\ c \notin requeued

OrderInv ==
    /\ \A i \in 1..Len(posted) : since[posted[i]] # 0
    /\ \A i, j \in 1..Len(posted) :
            i < j /\ Unmoved(posted[i]) => servedBy[posted[j]] = 0 /\ Ahead(posted[i], posted[j])

LEMMA OrderInit == Init => OrderInv
  BY DEF Init, OrderInv

(* The steps that serve nothing and leave what waits in its order. *)
LEMMA OrderKept ==
    ASSUME TypeOK, OrderInv, UNCHANGED <<since, posted, servedBy>>, requeued \subseteq requeued',
           \A c, d \in Clients : c \notin requeued' /\ Ahead(c, d) => Ahead(c, d)'
    PROVE  OrderInv'
<1>1. \A i \in 1..Len(posted) : posted[i] \in Clients
  BY DEF TypeOK
<1>2. \A c \in Clients : Unmoved(c)' => Unmoved(c) /\ c \notin requeued'
  BY DEF Unmoved
<1> QED
  BY <1>1, <1>2 DEF OrderInv

LEMMA OrderPush ==
    ASSUME TypeOK, NEW item \in Items, Push(item), UNCHANGED <<gen, index>>, NEW c, NEW d
    PROVE  /\ Ahead(c, d) => Ahead(c, d)'
           /\ d = item /\ (InBatch(c) \/ InWritten(c)) => Ahead(c, d)'
<1> DEFINE n == Len(workBufferPut)
<1>1. /\ workBufferGet' = workBufferGet
      /\ n \in Nat /\ Len(workBufferPut') = n + 1 /\ workBufferPut'[n + 1] = item
      /\ \A i \in 1..n : workBufferPut'[i] = workBufferPut[i]
  BY QueuePush
<1> HIDE DEF n
<1>2. /\ \A i \in 1..n : i \in 1..(n + 1) /\ i < n + 1
      /\ n + 1 \in 1..(n + 1)
  BY <1>1
<1>3. InBatch(c) => InBatch(c)'
  BY <1>1 DEF InBatch
<1>4. /\ InWritten(d) => InWritten(d)'
      /\ d = item => InWritten(d)'
  BY <1>1, <1>2 DEF InWritten, n
<1>5. Ahead(c, d) => Ahead(c, d)'
  BY <1>1, <1>2, <1>3, <1>4 DEF Ahead, n
<1>6. d = item /\ InWritten(c) => Ahead(c, d)'
  BY <1>1, <1>2 DEF Ahead, InWritten, n
<1>7. d = item /\ InBatch(c) => Ahead(c, d)'
  BY <1>3, <1>4 DEF Ahead
<1> QED
  BY <1>5, <1>6, <1>7

LEMMA OrderPost ==
    ASSUME TypeOK, QueueInv, OrderInv, NEW c \in Clients, PushClient(c)
    PROVE  OrderInv'
<1> DEFINE n == Len(posted)
<1>1. /\ Push(c) /\ c \in Items /\ callPC[c] = "idle" /\ since' = [since EXCEPT ![c] = Settled]
      /\ posted' = Append(posted, c)
      /\ UNCHANGED <<gen, index, servedBy, requeued>>
  BY ItemFacts DEF PushClient, serveVars, historyVars
<1>2. since[c] = 0 /\ servedBy[c] = 0
  BY <1>1 DEF QueueInv, HistoryInv
<1>3. /\ n \in Nat /\ Len(posted') = n + 1 /\ posted'[n + 1] = c
      /\ \A i \in 1..n : posted'[i] = posted[i] /\ posted[i] \in Clients
  BY <1>1, AppendEntries DEF TypeOK
<1> HIDE DEF n
<1>4. \A i \in 1..(n + 1) : i \in 1..n \/ i = n + 1
  BY <1>3
<1>5. \A d \in Clients : since[d] # 0 \/ d = c => since'[d] # 0
  BY <1>1, SettledFacts DEF TypeOK
<1>6. \A i \in 1..(n + 1) : since'[posted'[i]] # 0
  BY <1>3, <1>4, <1>5 DEF OrderInv, n
<1>7. ASSUME NEW i \in 1..(n + 1), NEW j \in 1..(n + 1), i < j, Unmoved(posted[i])'
      PROVE  servedBy'[posted'[j]] = 0 /\ Ahead(posted[i], posted[j])'
  <2>1. i \in 1..n
    BY <1>3, <1>7
  <2>2. PICK a \in Clients : a = posted[i] /\ a = posted'[i]
    BY <1>3, <2>1
  <2>3. PICK b \in Clients : b = posted'[j] /\ (j \in 1..n => b = posted[j]) /\ (j = n + 1 => b = c)
    BY <1>3, <1>4
  <2>4. Unmoved(a)
    BY <1>1, <1>7, <2>2 DEF Unmoved
  <2>5. CASE j \in 1..n
    <3>1. servedBy[b] = 0 /\ Ahead(a, b)
      BY <1>7, <2>1, <2>2, <2>3, <2>4, <2>5 DEF OrderInv, n
    <3>2. servedBy'[b] = 0 /\ Ahead(a, b)'
      BY <1>1, <3>1, OrderPush
    <3> QED
      BY <2>2, <2>3, <3>2 DEF Ahead, InBatch, InWritten
  <2>6. CASE j = n + 1
    <3>1. InBatch(a) \/ InWritten(a)
      BY <2>1, <2>2, <2>4 DEF OrderInv, QueueInv, Accounted, Unmoved, n
    <3>2. Ahead(a, b)'
      BY <1>1, <2>3, <2>6, <3>1, OrderPush
    <3> QED
      BY <1>1, <1>2, <2>2, <2>3, <2>6, <3>2 DEF Ahead, InBatch, InWritten
  <2> QED
    BY <1>4, <2>5, <2>6
<1> QED
  BY <1>3, <1>6, <1>7 DEF OrderInv

(* A worker takes an event: it is the first that waits. *)
LEMMA OrderTake ==
    ASSUME TypeOK, WorkersInv, QueueInv, OrderInv, NEW g \in Gens, NEW c \in Clients, Take(g, c)
    PROVE  OrderInv'
<1> DEFINE k == index[gen]
           n == Len(workBufferGet)
<1>1. g = gen /\ Working(gen)
  BY DEF Take, AtItem, WorkersInv, OnlyLastWorks, Working
<1>2. /\ k \in Nat /\ n \in Nat /\ k + 1 \in 1..n /\ workBufferGet[k + 1] = c
      /\ index'[gen] = k + 1
      /\ servedBy' = [servedBy EXCEPT ![c] = dispatcher[gen]]
  BY <1>1 DEF Take, AtItem, TypeOK
<1>3. UNCHANGED <<workBufferPut, workBufferGet, gen, since, posted, requeued>>
  BY DEF Take, bufferVars, serveVars, callVars
<1>4. \A d \in Clients : servedBy'[d] = 0 <=> servedBy[d] = 0 /\ d # c
  <2>1. dispatcher[gen] # 0
    BY <1>1 DEF QueueInv, HistoryInv
  <2> QED
    BY <1>2, <2>1 DEF TypeOK
<1> HIDE DEF k, n
<1>5. \A q \in 1..n : q > k <=> q > k + 1 \/ q = k + 1
  BY <1>2
<1>6. InBatch(c) /\ ~InWritten(c)
  <2>1. k + 1 > k
    BY <1>2
  <2>2. InBatch(c)
    BY <1>2, <2>1 DEF InBatch, k, n
  <2> QED
    BY <2>2 DEF QueueInv, NoneTwice
<1>7. ASSUME NEW d \in Clients PROVE ~Ahead(d, c)
  <2>1. ASSUME NEW p \in 1..n, NEW q \in 1..n, k < p, p < q, workBufferGet[q] = c PROVE FALSE
    <3>1. q > k /\ k + 1 > k
      BY <1>2, <2>1
    <3>2. q = k + 1
      BY <1>2, <2>1, <3>1 DEF QueueInv, NoneTwice, Left, k, n
    <3> QED
      BY <1>2, <2>1, <3>2
  <2> QED
    BY <1>6, <2>1 DEF Ahead, InWritten, k, n
<1>8. ASSUME NEW d \in Clients \ {c}, NEW e, Ahead(d, e) PROVE Ahead(d, e)'
  <2>1. ASSUME NEW p \in 1..n, k < p, workBufferGet[p] = d PROVE k + 1 < p
    BY <1>2, <1>5, <1>8, <2>1
  <2>2. InBatch(d) => InBatch(d)'
    BY <1>2, <1>3, <2>1 DEF InBatch, k, n
  <2>3. InWritten(e) => InWritten(e)'
    BY <1>3 DEF InWritten
  <2> QED
    BY <1>2, <1>3, <1>8, <2>1, <2>2, <2>3 DEF Ahead, k, n
<1>9. \A i \in 1..Len(posted) : posted[i] \in Clients
  BY DEF TypeOK
<1>10. ASSUME NEW i \in 1..Len(posted), NEW j \in 1..Len(posted), i < j, Unmoved(posted[i])'
       PROVE  servedBy'[posted[j]] = 0 /\ Ahead(posted[i], posted[j])'
  <2>1. PICK a \in Clients, b \in Clients :
            a = posted[i] /\ a = posted'[i] /\ b = posted[j] /\ b = posted'[j]
    BY <1>3, <1>9
  <2>2. Unmoved(a) /\ a # c
    BY <1>3, <1>4, <1>10, <2>1 DEF Unmoved
  <2>3. servedBy[b] = 0 /\ Ahead(a, b)
    BY <1>10, <2>1, <2>2 DEF OrderInv
  <2>4. b # c
    BY <1>7, <2>3
  <2>5. servedBy'[b] = 0 /\ Ahead(a, b)'
    BY <1>4, <1>8, <2>2, <2>3, <2>4
  <2> QED
    BY <2>1, <2>5 DEF Ahead, InBatch, InWritten
<1> QED
  BY <1>3, <1>10 DEF OrderInv

(* A worker takes a refresh: whatever it moves, it has put back. *)
LEMMA OrderRefresh ==
    ASSUME TypeOK, WorkersInv, OrderInv, NEW g \in Gens, TakeRefresh(g)
    PROVE  OrderInv'
<1> DEFINE k == index[gen]
           n == Len(workBufferGet)
<1>1. g = gen
  BY DEF TakeRefresh, RefreshWith, AtItem, WorkersInv, OnlyLastWorks, Working
<1>2. /\ k \in Nat /\ n \in Nat /\ k + 1 \in 1..n /\ workBufferGet[k + 1] = Refresh
      /\ workBufferPut' = workBufferPut \o Remainder(gen)
      /\ requeued' = requeued \cup {Remainder(gen)[i] : i \in {j \in 1..Len(Remainder(gen)) :
                                                                Remainder(gen)[j] \in Clients}}
      /\ UNCHANGED <<since, posted, servedBy>>
  BY <1>1, SMTT(60) DEF TakeRefresh, RefreshWith, AtItem, TypeOK, callVars
<1>3. /\ Remainder(gen) \in Seq(Items) /\ workBufferPut \in Seq(Items)
      /\ Len(Remainder(gen)) = n - k - 1
  BY <1>1, <1>2, RemainderEntries DEF TypeOK
<1>4. ASSUME NEW p \in 1..n, p > k, workBufferGet[p] \in Clients
      PROVE  workBufferGet[p] \in requeued'
  <2>1. Remainder(gen) = SubSeq(workBufferGet, k + 2, n)
    BY DEF Remainder
  <2>2. p # k + 1
    BY <1>2, <1>4, ItemFacts
  <2> HIDE DEF k, n
  <2>3. p - k - 1 \in 1..Len(Remainder(gen)) /\ (p - k - 1) + k + 1 = p
    BY <1>2, <1>3, <1>4, <2>2
  <2>4. Remainder(gen)[p - k - 1] = workBufferGet[p]
    BY <1>1, <1>2, <2>3, RemainderEntries DEF k, n
  <2> QED
    BY <1>2, <1>4, <2>3, <2>4
<1>5. /\ Len(workBufferPut') = Len(workBufferPut) + Len(Remainder(gen))
      /\ \A i \in 1..Len(workBufferPut) : workBufferPut'[i] = workBufferPut[i]
  BY <1>2, <1>3, ConcatEntries
<1>6. \A i \in 1..Len(workBufferPut) : i \in 1..Len(workBufferPut')
  BY <1>2, <1>3, <1>5
<1>7. ASSUME NEW c \in Clients, NEW d \in Clients, c \notin requeued', Ahead(c, d)
      PROVE  Ahead(c, d)'
  <2>1. ~InBatch(c)
    BY <1>4, <1>7 DEF InBatch
  <2>2. \E p, q \in 1..Len(workBufferPut) : p < q /\ workBufferPut[p] = c /\ workBufferPut[q] = d
    BY <1>2, <1>7, <2>1 DEF Ahead, InBatch
  <2> QED
    BY <1>5, <1>6, <2>2 DEF Ahead
<1> QED
  BY <1>2, <1>7, OrderKept

LEMMA OrderStep == TypeOK /\ WorkersInv /\ QueueInv /\ OrderInv /\ [Next]_vars => OrderInv'
<1> SUFFICES ASSUME TypeOK, WorkersInv, QueueInv, OrderInv, [Next]_vars PROVE OrderInv'
  OBVIOUS
<1>0. ASSUME UNCHANGED <<workBufferPut, workBufferGet, gen, index, since, posted, servedBy, requeued>>
      PROVE  OrderInv'
  <2>1. \A c, d : Ahead(c, d) => Ahead(c, d)'
    BY <1>0 DEF Ahead, InBatch, InWritten
  <2> QED
    BY <1>0, <2>1, OrderKept
<1>1. ASSUME NEW c \in Clients, Post(c) \/ \E g \in Gens : CallFromCallback(g, c) PROVE OrderInv'
  BY <1>1, OrderPost DEF Post, CallFromCallback
<1>2. ASSUME NEW c \in Callers, Caller(c) \/ RespondLater(c) PROVE OrderInv'
  BY <1>0, <1>2
     DEF Caller, GiveUp, ReadResponse, Return, RespondLater, bufferVars, serveVars, workerVars,
         callVars, historyVars
<1>3. ASSUME NEW n \in Names, NEW h \in Handlers, BeginChange(n, h) PROVE OrderInv'
  BY <1>0, <1>3 DEF BeginChange, bufferVars, serveVars, workerVars, callVars, historyVars
<1>4. ASSUME NEW item \in {Refresh, Exit}, Push(item),
             UNCHANGED <<gen, index, since, posted, servedBy, requeued>>
      PROVE  OrderInv'
  <2>1. \A c, d : Ahead(c, d) => Ahead(c, d)'
    BY <1>4, OrderPush, ItemFacts
  <2> QED
    BY <1>4, <2>1, OrderKept
<1>5. ASSUME EndChange PROVE OrderInv'
  <2>1. PICK flag \in BOOLEAN : EndChangeRacy(flag)
    BY <1>5 DEF EndChange, FlagSeen, TypeOK
  <2>2. UNCHANGED <<gen, index, since, posted, servedBy, requeued>>
    BY <2>1 DEF EndChangeRacy, serveVars, workerVars, callVars, historyVars
  <2> QED
    BY <1>0, <1>4, <2>1, <2>2 DEF EndChangeRacy, bufferVars
<1>6. ASSUME ServeStart \/ ServeRefreshed \/ ServeCtxDone PROVE OrderInv'
  BY <1>0, <1>6
     DEF ServeStart, ServeRefreshed, ServeCtxDone, bufferVars, workerVars, callVars, historyVars
<1>7. ASSUME ServeClone PROVE OrderInv'
  <2>1. /\ gen' = gen + 1
        /\ UNCHANGED <<workBufferPut, workBufferGet, since, posted, servedBy, requeued>>
    BY <1>7 DEF ServeClone, bufferVars, callVars, historyVars
  <2>2. workBufferGet = <<>>
    BY <1>7 DEF ServeClone, WorkersInv, OnlyLastWorks, ExitIsLast, BatchBounds, Working, TypeOK,
                WorkerPCs
  <2>3. \A c, d : Ahead(c, d) => Ahead(c, d)'
    BY <2>1, <2>2 DEF Ahead, InBatch, InWritten
  <2> QED
    BY <2>1, <2>3, OrderKept
<1>8. ASSUME ServePushExit PROVE OrderInv'
  BY <1>4, <1>8 DEF ServePushExit, workerVars, callVars
<1>9. ASSUME NEW g \in Gens, Swap(g) PROVE OrderInv'
  <2>1. /\ workBufferGet = <<>> /\ workBufferGet' = workBufferPut /\ workBufferPut' = <<>>
        /\ index'[gen] = 0
        /\ UNCHANGED <<gen, since, posted, servedBy, requeued>>
    BY <1>9 DEF Swap, WorkersInv, OnlyLastWorks, BatchBounds, Working, TypeOK, serveVars, callVars,
                historyVars
  <2>2. \A p \in 1..Len(workBufferPut) : p > 0 /\ 0 < p
    BY DEF TypeOK
  <2>3. \A c, d : Ahead(c, d) => Ahead(c, d)'
    BY <2>1, <2>2 DEF Ahead, InBatch, InWritten
  <2> QED
    BY <2>1, <2>3, OrderKept
<1>10. ASSUME NEW g \in Gens, FinishBatch(g) PROVE OrderInv'
  <2>1. /\ index[gen] = Len(workBufferGet) /\ workBufferGet' = <<>>
        /\ UNCHANGED <<workBufferPut, gen, since, posted, servedBy, requeued>>
    BY <1>10 DEF FinishBatch, WorkersInv, OnlyLastWorks, Working, TypeOK, serveVars, callVars,
                 historyVars
  <2>2. \A p \in 1..Len(workBufferGet) : ~(p > Len(workBufferGet)) /\ ~(Len(workBufferGet) < p)
    BY DEF TypeOK
  <2>3. \A c, d : Ahead(c, d) => Ahead(c, d)'
    BY <2>1, <2>2 DEF Ahead, InBatch, InWritten
  <2> QED
    BY <2>1, <2>3, OrderKept
<1>11. ASSUME NEW g \in Gens, NEW c \in Clients, NotExists(g, c) \/ StartCallback(g, c)
       PROVE  OrderInv'
  BY <1>11, OrderTake DEF NotExists, StartCallback
<1>12. ASSUME NEW g \in Gens, FinishCallback(g) \/ TakeExit(g) \/ Unlock(g) PROVE OrderInv'
  BY <1>0, <1>12
     DEF FinishCallback, TakeExit, Unlock, bufferVars, serveVars, callVars, historyVars
<1>13. ASSUME NEW g \in Gens, TakeRefresh(g) PROVE OrderInv'
  BY <1>13, OrderRefresh
<1>14. ASSUME UNCHANGED vars PROVE OrderInv'
  BY <1>0, <1>14 DEF vars, bufferVars, serveVars, workerVars, callVars, historyVars
<1> QED
  BY <1>1, <1>2, <1>3, <1>5, <1>6, <1>7, <1>8, <1>9, <1>10, <1>11, <1>12, <1>13, <1>14, ItemFacts
     DEF Next, Worker, Server

(* Whoever is overtaken had been put back by a refresh. *)
THEOREM Ordered == Spec => []OvertakenOnlyByRefresh
<1>1. Init => TypeOK /\ WorkersInv /\ QueueInv /\ OrderInv
  BY InitType, WorkersInit, QueueInit, OrderInit
<1>2. TypeOK /\ WorkersInv /\ QueueInv /\ OrderInv /\ [Next]_vars
          => (TypeOK /\ WorkersInv /\ QueueInv /\ OrderInv)'
  BY TypeStep, WorkersStep, QueueStep, OrderStep
<1>3. OrderInv => OvertakenOnlyByRefresh
  BY DEF OrderInv, Unmoved, OvertakenOnlyByRefresh
<1> QED
  BY <1>1, <1>2, <1>3, PTL DEF Spec
-----------------------------------------------------------------------------
(* The mailbox.  An event with a response has been served.                    *)

InCallback(g) == workerPC[g] \in {"callback", "nested"}

ServedInv ==
    /\ \A c \in responseFlag \cup retained : servedBy[c] # 0
    /\ InCallback(gen) =>
            /\ workBufferGet[index[gen]] \in Clients
            /\ servedBy[workBufferGet[index[gen]]] # 0
    /\ \A c \in Callers : callPC[c] = "answered" => servedBy[c] # 0

LEMMA ServedInit == Init => ServedInv
  BY GenFacts, ItemFacts DEF Init, ServedInv, InCallback

(* The steps that serve nothing, and give a response to nothing that is not     *)
(* served.                                                                  *)
LEMMA ServedKept ==
    ASSUME ServedInv, UNCHANGED <<workBufferGet, gen, index, servedBy>>,
           \A c \in responseFlag' \cup retained' :
                c \in responseFlag \cup retained \/ servedBy[c] # 0,
           InCallback(gen)' => InCallback(gen),
           \A c \in Callers : callPC'[c] = "answered" => callPC[c] = "answered" \/ c \in responseFlag
    PROVE  ServedInv'
  BY DEF ServedInv

LEMMA ServedPush ==
    ASSUME TypeOK, ServedInv, NEW c \in Clients, PushClient(c), InCallback(gen)' => InCallback(gen)
    PROVE  ServedInv'
<1>1. /\ UNCHANGED <<workBufferGet, gen, index, servedBy, responseFlag, retained>>
      /\ \A d \in Clients : callPC'[d] = "answered" => callPC[d] = "answered"
  BY DEF PushClient, Push, serveVars, responseVars, historyVars, TypeOK
<1> QED
  BY <1>1, ServedKept, ItemFacts

LEMMA ServedStep == TypeOK /\ WorkersInv /\ QueueInv /\ ServedInv /\ [Next]_vars => ServedInv'
<1> SUFFICES ASSUME TypeOK, WorkersInv, QueueInv, ServedInv, [Next]_vars PROVE ServedInv'
  OBVIOUS
<1> USE DEF InCallback
<1>1. ASSUME NEW c \in Clients, Post(c) PROVE ServedInv'
  BY <1>1, ServedPush DEF Post, PushClient, serveVars
<1>2. ASSUME NEW g \in Gens, NEW c \in Callers, CallFromCallback(g, c) PROVE ServedInv'
  <2>1. PushClient(c) /\ workerPC[g] = "callback"
    BY <1>2 DEF CallFromCallback
  <2>2. g = gen
    BY <2>1 DEF WorkersInv, OnlyLastWorks, Working
  <2> QED
    BY <2>1, <2>2, ServedPush, ItemFacts
<1>3. ASSUME NEW c \in Callers, Caller(c) PROVE ServedInv'
  <2>1. PICK pc \in {"gaveup", "answered"} : Return(c, pc) /\ (pc = "answered" => c \in responseFlag)
    BY <1>3 DEF Caller, GiveUp, ReadResponse
  <2>2. workerPC' = workerPC \/ \E g \in Gens : /\ workerPC[g] = "nested"
                                               /\ workerPC' = [workerPC EXCEPT ![g] = "callback"]
    BY <2>1 DEF Return
  <2>3. InCallback(gen)' => InCallback(gen)
    BY <2>1, <2>2 DEF Return, serveVars, TypeOK
  <2>4. \A d \in Callers : callPC'[d] = "answered" => callPC[d] = "answered" \/ d \in responseFlag
    BY <2>1, ItemFacts DEF Return, TypeOK
  <2> QED
    BY <2>1, <2>3, <2>4, ServedKept DEF Return, bufferVars, serveVars, responseVars, historyVars
<1>4. ASSUME NEW c \in Callers, RespondLater(c) PROVE ServedInv'
  BY <1>4, ServedKept DEF RespondLater, bufferVars, serveVars, workerVars, callVars, historyVars
<1>5. ASSUME NEW n \in Names, NEW h \in Handlers, BeginChange(n, h) PROVE ServedInv'
  BY <1>5, ServedKept
     DEF BeginChange, bufferVars, serveVars, workerVars, callVars, responseVars, historyVars
<1>6. ASSUME EndChange PROVE ServedInv'
  <2>1. PICK flag \in BOOLEAN : EndChangeRacy(flag)
    BY <1>6 DEF EndChange, FlagSeen, TypeOK
  <2>2. UNCHANGED <<workBufferGet, gen, index, workerPC, servedBy, responseFlag, retained, callPC>>
    BY <2>1 DEF EndChangeRacy, Push, bufferVars, serveVars, workerVars, callVars, responseVars,
                historyVars
  <2> QED
    BY <2>2, ServedKept
<1>7. ASSUME ServeStart \/ ServeRefreshed \/ ServeCtxDone PROVE ServedInv'
  BY <1>7, ServedKept
     DEF ServeStart, ServeRefreshed, ServeCtxDone, bufferVars, workerVars, callVars, responseVars,
         historyVars
<1>8. ASSUME ServeClone PROVE ServedInv'
  <2>1. /\ gen' = gen + 1 /\ gen' \in Gens /\ workerPC' = [workerPC EXCEPT ![gen'] = "swap"]
        /\ UNCHANGED <<workBufferGet, callPC, servedBy, responseFlag, retained>>
    BY <1>8, GenFacts DEF ServeClone, TypeOK, bufferVars, callVars, responseVars, historyVars
  <2> QED
    BY <2>1 DEF ServedInv, TypeOK
<1>9. ASSUME ServePushExit PROVE ServedInv'
  BY <1>9, ServedKept
     DEF ServePushExit, Push, workerVars, callVars, responseVars
<1>10. ASSUME NEW g \in Gens, Swap(g) \/ FinishBatch(g) PROVE ServedInv'
  <2>1. /\ g = gen /\ workerPC'[gen] \in {"run", "swap"}
        /\ UNCHANGED <<gen, callPC, servedBy, responseFlag, retained>>
    BY <1>10 DEF Swap, FinishBatch, WorkersInv, OnlyLastWorks, Working, TypeOK, serveVars, callVars,
                 responseVars, historyVars
  <2> QED
    BY <2>1 DEF ServedInv
<1>11. ASSUME NEW g \in Gens, NEW c \in Clients, NotExists(g, c) \/ StartCallback(g, c)
       PROVE  ServedInv'
  <2>1. Take(g, c)
    BY <1>11 DEF NotExists, StartCallback
  <2>2. g = gen /\ Working(gen)
    BY <2>1 DEF Take, AtItem, WorkersInv, OnlyLastWorks, Working
  <2>3. /\ servedBy' = [servedBy EXCEPT ![c] = dispatcher[gen]] /\ dispatcher[gen] # 0
        /\ workBufferGet'[index'[gen]] = c
        /\ UNCHANGED <<gen, retained, callPC>>
        /\ responseFlag' \subseteq responseFlag \cup {c}
    BY <1>11, <2>1, <2>2
       DEF NotExists, StartCallback, Take, AtItem, QueueInv, HistoryInv, TypeOK, bufferVars,
           serveVars, callVars
  <2>4. \A d \in Clients : servedBy[d] # 0 \/ d = c => servedBy'[d] # 0
    BY <2>3 DEF TypeOK
  <2>5. responseFlag \cup retained \subseteq Clients
    BY ItemFacts DEF TypeOK
  <2> QED
    BY <2>3, <2>4, <2>5, ItemFacts DEF ServedInv
<1>12. ASSUME NEW g \in Gens, FinishCallback(g) PROVE ServedInv'
  <2>1. g = gen /\ InCallback(gen)
    BY <1>12 DEF FinishCallback, WorkersInv, OnlyLastWorks, Working
  <2>2. /\ \A c \in responseFlag' \cup retained' :
                c \in responseFlag \cup retained \/ c = workBufferGet[index[gen]]
        /\ UNCHANGED <<workBufferGet, gen, index, servedBy, callPC>>
    BY <1>12, <2>1 DEF FinishCallback, bufferVars, serveVars, callVars, historyVars
  <2>3. servedBy[workBufferGet[index[gen]]] # 0
    BY <2>1 DEF ServedInv
  <2> QED
    BY <2>1, <2>2, <2>3, ServedKept
<1>13. ASSUME NEW g \in Gens, TakeExit(g) \/ TakeRefresh(g) \/ Unlock(g) PROVE ServedInv'
  <2>1. /\ \A h \in Gens : InCallback(h)' => InCallback(h) /\ h # g
        /\ UNCHANGED <<gen, index, servedBy, responseFlag, retained, callPC>>
    BY <1>13 DEF TakeExit, TakeRefresh, RefreshWith, AtItem, Unlock, TypeOK, serveVars, callVars,
                 responseVars, historyVars
  <2>2. InCallback(gen)' => workBufferGet' = workBufferGet
    BY <1>13, <2>1
       DEF TakeExit, TakeRefresh, RefreshWith, AtItem, Unlock, WorkersInv, OnlyLastWorks, Working,
           bufferVars, TypeOK
  <2> QED
    BY <2>1, <2>2 DEF ServedInv, TypeOK
<1>14. ASSUME UNCHANGED vars PROVE ServedInv'
  BY <1>14, ServedKept
     DEF vars, bufferVars, serveVars, workerVars, callVars, responseVars, historyVars
<1> QED
  BY <1>1, <1>2, <1>3, <1>4, <1>5, <1>6, <1>7, <1>8, <1>9, <1>10, <1>11, <1>12, <1>13, <1>14
     DEF Next, Worker, Server

LoopInv == TypeOK /\ WorkersInv /\ FreshInv /\ QueueInv /\ ServedInv

LEMMA MailboxInit == Init => Mailbox!Init
  BY ItemFacts DEF Init, Mailbox!Init

Answered == {c \in Callers : callPC[c] = "answered"}

(* The steps the mailbox does not see. *)
LEMMA MailboxKept ==
    ASSUME UNCHANGED <<dispatchers, dispatchMutex, since, servedBy>>,
           \A c \in Callers : callPC'[c] = "answered" <=> callPC[c] = "answered"
    PROVE  UNCHANGED Mailbox!mailbox
<1>1. Answered' = Answered
  BY DEF Answered
<1> QED
  BY <1>1 DEF Mailbox!mailbox, Answered

LEMMA MailboxPost ==
    ASSUME LoopInv, NEW c \in Clients, PushClient(c)
    PROVE  Mailbox!Next
<1>1. /\ callPC[c] = "idle" /\ since' = [since EXCEPT ![c] = Settled]
      /\ UNCHANGED <<dispatchers, dispatchMutex, servedBy>>
      /\ \A d \in Callers : callPC'[d] = "answered" <=> callPC[d] = "answered"
  BY ItemFacts DEF PushClient, registerVars, historyVars, LoopInv, TypeOK
<1>2. since[c] = 0
  BY <1>1 DEF LoopInv, QueueInv, HistoryInv
<1>3. Answered' = Answered
  BY <1>1 DEF Answered
<1>4. Mailbox!Post(c)
  BY <1>1, <1>2, <1>3 DEF Mailbox!Post, Mailbox!Settled, Settled, Answered
<1> QED
  BY <1>4 DEF Mailbox!Next

LEMMA MailboxServe ==
    ASSUME LoopInv, NEW g \in Gens, NEW c \in Clients, Take(g, c)
    PROVE  Mailbox!Next
<1> DEFINE k == index[gen]
           n == Len(workBufferGet)
<1> USE DEF LoopInv
<1>1. g = gen /\ Working(gen)
  BY DEF Take, AtItem, WorkersInv, OnlyLastWorks, Working
<1>2. /\ k \in Nat /\ n \in Nat /\ k + 1 \in 1..n /\ workBufferGet[k + 1] = c
      /\ servedBy' = [servedBy EXCEPT ![c] = dispatcher[gen]]
      /\ UNCHANGED <<dispatchers, dispatchMutex, since, callPC>>
  BY <1>1 DEF Take, AtItem, TypeOK, registerVars, callVars
<1> HIDE DEF k, n
<1>3. since[c] <= dispatcher[gen]
  <2>1. ~\E q \in 1..n : k < q /\ q < k + 1 /\ workBufferGet[q] = Refresh
    BY <1>2
  <2>2. k + 1 > k
    BY <1>2
  <2> QED
    BY <1>1, <1>2, <2>1, <2>2 DEF FreshInv, FreshBuffers, FreshBatch, k, n
<1>4. since[c] # 0 /\ servedBy[c] = 0
  <2>1. k + 1 > k
    BY <1>2
  <2>2. InBatch(c)
    BY <1>2, <2>1 DEF InBatch, k, n
  <2> QED
    BY <2>2 DEF QueueInv, Accounted
<1>5. dispatcher[gen] \in since[c]..Len(dispatchers)
  <2>1. dispatcher[gen] \in 1..Len(dispatchers)
    BY <1>1 DEF QueueInv, HistoryInv
  <2>2. since[c] \in Nat /\ Len(dispatchers) \in Nat
    BY DEF TypeOK
  <2> QED
    BY <1>3, <2>1, <2>2
<1>6. Mailbox!Serve(c)
  BY <1>2, <1>4, <1>5 DEF Mailbox!Serve
<1> QED
  BY <1>6 DEF Mailbox!Next

(* Each step of the loop is a step of the mailbox, or none. *)
LEMMA MailboxStep == LoopInv /\ [Next]_vars => [Mailbox!Next]_(Mailbox!mailbox)
<1> SUFFICES ASSUME LoopInv, [Next]_vars PROVE Mailbox!Next \/ UNCHANGED Mailbox!mailbox
  OBVIOUS
<1> USE DEF LoopInv
<1>1. ASSUME NEW c \in Clients, Post(c) PROVE Mailbox!Next
  BY <1>1, MailboxPost DEF Post
<1>2. ASSUME NEW g \in Gens, NEW c \in Callers, CallFromCallback(g, c) PROVE Mailbox!Next
  BY <1>2, MailboxPost, ItemFacts DEF CallFromCallback
<1>3. ASSUME NEW c \in Callers, GiveUp(c) PROVE UNCHANGED Mailbox!mailbox
  <2>1. /\ \A d \in Callers : callPC'[d] = "answered" <=> callPC[d] = "answered"
        /\ UNCHANGED <<dispatchers, dispatchMutex, since, servedBy>>
    BY <1>3, ItemFacts DEF GiveUp, Return, registerVars, historyVars, TypeOK
  <2> QED
    BY <2>1, MailboxKept
<1>4. ASSUME NEW c \in Callers, ReadResponse(c) PROVE Mailbox!Next
  <2>1. /\ callPC[c] = "waiting" /\ servedBy[c] # 0
        /\ \A d \in Callers : callPC'[d] = "answered" <=> callPC[d] = "answered" \/ d = c
        /\ UNCHANGED <<dispatchers, dispatchMutex, since, servedBy>>
    BY <1>4, ItemFacts DEF ReadResponse, Return, registerVars, historyVars, TypeOK, ServedInv
  <2>2. c \notin Answered /\ Answered' = Answered \cup {c}
    BY <2>1 DEF Answered
  <2>3. Mailbox!Answer(c)
    BY <2>1, <2>2 DEF Mailbox!Answer, Answered
  <2> QED
    BY <2>3 DEF Mailbox!Next
<1>5. ASSUME NEW c \in Callers, RespondLater(c) PROVE UNCHANGED Mailbox!mailbox
  BY <1>5, MailboxKept DEF RespondLater, registerVars, callVars, historyVars
<1>6. ASSUME NEW n \in Names, NEW h \in Handlers, BeginChange(n, h) PROVE Mailbox!Next
  <2>1. /\ Len(dispatchers') = Len(dispatchers) + 1 /\ ~dispatchMutex /\ dispatchMutex' = TRUE
        /\ UNCHANGED <<since, servedBy, callPC>>
    BY <1>6 DEF BeginChange, callVars, historyVars, TypeOK
  <2>2. Mailbox!BeginChange
    BY <2>1 DEF Mailbox!BeginChange
  <2> QED
    BY <2>2 DEF Mailbox!Next
<1>7. ASSUME EndChange PROVE Mailbox!Next
  <2>1. dispatchMutex /\ dispatchMutex' = FALSE /\ UNCHANGED <<dispatchers, since, servedBy, callPC>>
    BY <1>7 DEF EndChange, EndChangeRacy, callVars, historyVars
  <2>2. Mailbox!EndChange
    BY <2>1 DEF Mailbox!EndChange
  <2> QED
    BY <2>2 DEF Mailbox!Next
<1>8. ASSUME ServeStart \/ Server \/ ServeCtxDone PROVE UNCHANGED Mailbox!mailbox
  BY <1>8, MailboxKept
     DEF ServeStart, Server, ServeClone, ServeRefreshed, ServePushExit, ServeCtxDone, registerVars,
         callVars, historyVars
<1>9. ASSUME NEW g \in Gens, NEW c \in Clients, NotExists(g, c) \/ StartCallback(g, c)
      PROVE  Mailbox!Next
  BY <1>9, MailboxServe DEF NotExists, StartCallback
<1>10. ASSUME NEW g \in Gens,
              Swap(g) \/ FinishBatch(g) \/ FinishCallback(g) \/ TakeExit(g) \/ TakeRefresh(g)
                \/ Unlock(g)
       PROVE  UNCHANGED Mailbox!mailbox
  BY <1>10, MailboxKept
     DEF Swap, FinishBatch, FinishCallback, TakeExit, TakeRefresh, RefreshWith, Unlock, registerVars,
         callVars, historyVars
<1>11. ASSUME UNCHANGED vars PROVE UNCHANGED Mailbox!mailbox
  BY <1>11, MailboxKept DEF vars, registerVars, callVars, historyVars
<1> QED
  BY <1>1, <1>2, <1>3, <1>4, <1>5, <1>6, <1>7, <1>8, <1>9, <1>10, <1>11
     DEF Next, Caller, Worker

(* The loop with its buffers, workers, clones and refreshes is a mailbox.      *)
THEOREM Implements == Spec => ImplementsMailbox
<1>1. Init => LoopInv
  BY InitType, WorkersInit, FreshInit, QueueInit, ServedInit DEF LoopInv
<1>2. LoopInv /\ [Next]_vars => LoopInv'
  BY TypeStep, WorkersStep, FreshStep, QueueStep, ServedStep DEF LoopInv
<1> QED
  BY <1>1, <1>2, MailboxInit, MailboxStep, PTL DEF Spec, ImplementsMailbox, Mailbox!Spec
=============================================================================
