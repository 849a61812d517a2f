------------------------------ MODULE EventLoop ------------------------------
(***************************************************************************)
(* The asynchronous event loop of event/manager.go: goroutines push events   *)
(* into workBufferPut under workMutex; a worker goroutine swaps the two     *)
(* buffers and runs the batch with its own clone of the dispatcher; Serve    *)
(* starts a worker, and a new one with a new clone each time a registration  *)
(* has pushed a refresh event; when its context ends, Serve pushes an exit   *)
(* event and returns.  One action is one critical section, one read of a     *)
(* shared variable, or a stretch of code that touches nothing shared.        *)
(*                                                                         *)
(* A buffer entry is the event's identity, or Refresh, or Exit.  Timer       *)
(* events are in EventTimers.tla; the fields of a response in                *)
(* EventResponse.tla (here a response is one step).                          *)
(***************************************************************************)
EXTENDS Naturals, Sequences

CONSTANTS
    Callers,        \* events posted by CallEvent, one per call
    LoopCallers,    \* the callers whose CallEvent is made by a callback, on the loop
    Deadlined,      \* the callers whose context is cancelled some day
    Senders,        \* events posted by SendEvent
    Execs,          \* events posted by Exec
    Names,          \* event names
    Refresh, Exit,  \* the control events
    MaxChanges      \* bound: calls of RegisterEvent* and UnregisterEvent

(* What the dispatcher holds for a name: nothing, the closure RegisterEvent *)
(* wraps around a callback, or a callback given to RegisterEventRaw.         *)
NoCallback == "none"
Handlers == {NoCallback, "wrapped", "raw"}
Tables == [Names -> Handlers]

Events == Callers \cup Senders      \* EventTypeEvent
Clients == Events \cup Execs
Items == Clients \cup {Refresh, Exit}

(* Every registration pushes at most one refresh, so Serve starts at most    *)
(* MaxChanges + 1 workers; worker 0 stands for "none started yet".           *)
MaxGen == MaxChanges + 1
Gens == 0..MaxGen

ASSUME ConstantsAssumption ==
    /\ MaxChanges \in Nat
    /\ LoopCallers \subseteq Callers
    /\ Deadlined \subseteq Callers
    /\ Callers \cap Senders = {}
    /\ Events \cap Execs = {}
    /\ Refresh \notin Clients
    /\ Exit \notin Clients
    /\ Refresh # Exit

VARIABLES
    dispatchers,    \* the contents mgr.dispatcher has had, the last is current
    dispatchMutex,  \* held by a registration (it is held across the push)
    workBufferPut,  \* events written and not swapped yet
    workBufferGet,  \* the batch being run; a worker's range keeps its own index
    workMutex,      \* 0, or the worker that holds it through a refresh
    workStartFlag,
    servePC,        \* "idle", "clone", "select", "exit", "returned"
    gen,            \* the last worker that Serve started
    workerPC,       \* [Gens -> WorkerPCs]
    index,          \* [Gens -> Nat] entries of the batch the worker has taken
    dispatcher,     \* [Gens -> Nat] the version the worker's clone was taken of
    callPC,         \* [Clients -> {"idle", "waiting", "answered", "gaveup", "done"}]
    name,           \* [Clients -> Names] ev.name
    responseFlag,   \* the callers whose event has a response
    retained,       \* the callers whose event a raw callback kept to respond later
    since,          \* history: newest dispatcher version settled when posted, 0: not posted
    servedBy,       \* history: version that served the event, 0: not served
    posted,         \* history: the events in the order in which they were pushed
    requeued,       \* history: events put back by a refresh
    beforeExit      \* history: events pushed before the exit event

registerVars == <<dispatchers, dispatchMutex>>
bufferVars == <<workBufferPut, workBufferGet, workMutex>>
serveVars == <<workStartFlag, servePC, gen>>
workerVars == <<workerPC, index, dispatcher>>
callVars == <<callPC, name, since, posted>>
responseVars == <<responseFlag, retained>>
historyVars == <<servedBy, requeued, beforeExit>>

vars == <<registerVars, bufferVars, serveVars, workerVars, callVars,
          responseVars, historyVars>>

WorkerPCs == {"none", "swap", "run", "callback", "nested", "unlock",
              "refreshed", "exited"}

TypeOK ==
    /\ dispatchers \in Seq(Tables) /\ Len(dispatchers) \in 1..(MaxChanges + 1)
    /\ dispatchMutex \in BOOLEAN
    /\ workBufferPut \in Seq(Items)
    /\ workBufferGet \in Seq(Items)
    /\ workMutex \in Gens
    /\ workStartFlag \in BOOLEAN
    /\ servePC \in {"idle", "clone", "select", "exit", "returned"}
    /\ gen \in Gens
    /\ workerPC \in [Gens -> WorkerPCs]
    /\ index \in [Gens -> Nat]
    /\ dispatcher \in [Gens -> Nat]
    /\ callPC \in [Clients -> {"idle", "waiting", "answered", "gaveup", "done"}]
    /\ name \in [Clients -> Names]
    /\ responseFlag \subseteq Callers
    /\ retained \subseteq Callers
    /\ since \in [Clients -> Nat]
    /\ servedBy \in [Clients -> Nat]
    /\ posted \in Seq(Clients)
    /\ requeued \subseteq Clients
    /\ beforeExit \subseteq Clients

(* NewEventManager.  The names registered by then are any table: before     *)
(* Serve a registration only writes the map.                                *)
Init ==
    /\ \E t \in Tables : dispatchers = <<t>>
    /\ dispatchMutex = FALSE
    /\ workBufferPut = <<>>
    /\ workBufferGet = <<>>
    /\ workMutex = 0
    /\ workStartFlag = FALSE
    /\ servePC = "idle"
    /\ gen = 0
    /\ workerPC = [g \in Gens |-> "none"]
    /\ index = [g \in Gens |-> 0]
    /\ dispatcher = [g \in Gens |-> 0]
    /\ callPC = [c \in Clients |-> "idle"]
    /\ name \in [Clients -> Names]
    /\ responseFlag = {}
    /\ retained = {}
    /\ since = [c \in Clients |-> 0]
    /\ servedBy = [c \in Clients |-> 0]
    /\ posted = <<>>
    /\ requeued = {}
    /\ beforeExit = {}
-----------------------------------------------------------------------------
(* Posting: pushEvent and its callers.                                      *)

(* Mutated Push: the event goes in front of those already written. *)
PushFront(item) ==
    /\ workMutex = 0
    /\ workBufferPut' = <<item>> \o workBufferPut
    /\ UNCHANGED <<workBufferGet, workMutex>>

(* pushEvent: append under workMutex. *)
Push(item) ==
    /\ workMutex = 0
    /\ workBufferPut' = Append(workBufferPut, item)
    /\ UNCHANGED <<workBufferGet, workMutex>>

(* The newest dispatcher version whose registration call has returned. *)
Settled == IF dispatchMutex THEN Len(dispatchers) - 1 ELSE Len(dispatchers)

(* CallEvent up to its loop, SendEvent, Exec. *)
PushClient(c) ==
    /\ callPC[c] = "idle"
    /\ Push(c)
    /\ callPC' = [callPC EXCEPT ![c] = IF c \in Callers THEN "waiting" ELSE "done"]
    /\ since' = [since EXCEPT ![c] = Settled]
    /\ posted' = Append(posted, c)
    /\ UNCHANGED <<name, registerVars, serveVars, index, dispatcher,
                   responseVars, historyVars>>

Post(c) ==
    /\ c \notin LoopCallers
    /\ PushClient(c)
    /\ UNCHANGED workerPC

(* A callback calls CallEvent: its worker spins in the call. *)
CallFromCallback(g, c) ==
    /\ c \in LoopCallers
    /\ workerPC[g] = "callback"
    /\ PushClient(c)
    /\ workerPC' = [workerPC EXCEPT ![g] = "nested"]

(* A CallEvent returns; a callback that made it goes on. *)
Return(c, pc) ==
    /\ callPC[c] = "waiting"
    /\ callPC' = [callPC EXCEPT ![c] = pc]
    /\ IF c \in LoopCallers
       THEN \E g \in Gens : /\ workerPC[g] = "nested"
                            /\ workerPC' = [workerPC EXCEPT ![g] = "callback"]
       ELSE UNCHANGED workerPC
    /\ UNCHANGED <<name, since, posted, registerVars, bufferVars, serveVars,
                   index, dispatcher, responseVars, historyVars>>

(* CallEvent sees ctx.Done: the event stays where it is. *)
GiveUp(c) == Return(c, "gaveup")

(* CallEvent sees responseFlag. *)
ReadResponse(c) == c \in responseFlag /\ Return(c, "answered")
-----------------------------------------------------------------------------
(* RegisterEvent, RegisterEventRaw and UnregisterEvent.                     *)

(* Lock dispatchMutex and change the map. *)
BeginChange(n, h) ==
    /\ ~dispatchMutex
    /\ Len(dispatchers) <= MaxChanges
    /\ dispatchMutex' = TRUE
    /\ dispatchers' = Append(dispatchers, [dispatchers[Len(dispatchers)] EXCEPT ![n] = h])
    /\ UNCHANGED <<bufferVars, serveVars, workerVars, callVars, responseVars, historyVars>>

(* Nothing orders Serve's write of workStartFlag before this read until Serve *)
(* has gone through dispatchMutex to clone: until then either value is read.  *)
FlagSeen == IF workStartFlag /\ gen = 0 THEN BOOLEAN ELSE {workStartFlag}

EndChangeRacy(flag) ==
    /\ dispatchMutex
    /\ dispatchMutex' = FALSE
    /\ IF flag THEN Push(Refresh) ELSE UNCHANGED bufferVars
    /\ UNCHANGED <<dispatchers, serveVars, workerVars, callVars, responseVars, historyVars>>

(* Mutated EndChange: the running loop is not told. *)
EndChangeSilent == EndChangeRacy(FALSE)

(* Push the refresh if the loop has started, unlock. *)
EndChange == \E flag \in FlagSeen : EndChangeRacy(flag)
-----------------------------------------------------------------------------
(* Serve.                                                                   *)

ServeStart ==
    /\ servePC = "idle"
    /\ workStartFlag' = TRUE
    /\ servePC' = "clone"
    /\ UNCHANGED <<gen, registerVars, bufferVars, workerVars, callVars, responseVars, historyVars>>

(* cloneDispatcher under dispatchMutex, and go mgr.worker(...). *)
ServeClone ==
    /\ servePC = "clone"
    /\ ~dispatchMutex
    /\ gen < MaxGen
    /\ gen' = gen + 1
    /\ workerPC' = [workerPC EXCEPT ![gen + 1] = "swap"]
    /\ index' = [index EXCEPT ![gen + 1] = 0]
    /\ dispatcher' = [dispatcher EXCEPT ![gen + 1] = Len(dispatchers)]
    /\ servePC' = "select"
    /\ UNCHANGED <<workStartFlag, registerVars, bufferVars, callVars, responseVars, historyVars>>

(* The worker has called cancel: workCtx.Done is closed. *)
Cancelled(g) == workerPC[g] \in {"unlock", "refreshed"}

(* Mutated ServeRefreshed: the loop selects again and starts no worker. *)
ServeRefreshedIdle ==
    /\ servePC = "select"
    /\ Cancelled(gen)
    /\ UNCHANGED vars

ServeRefreshed ==
    /\ servePC = "select"
    /\ Cancelled(gen)
    /\ servePC' = "clone"
    /\ UNCHANGED <<workStartFlag, gen, registerVars, bufferVars, workerVars, callVars,
                   responseVars, historyVars>>

(* ctx.Done may be closed at any time, and select takes it even when         *)
(* workCtx.Done is closed too.                                              *)
ServeCtxDone ==
    /\ servePC = "select"
    /\ servePC' = "exit"
    /\ UNCHANGED <<workStartFlag, gen, registerVars, bufferVars, workerVars, callVars,
                   responseVars, historyVars>>

(* Mutated ServePushExit: Serve returns without the exit event. *)
ServePushExitNot ==
    /\ servePC = "exit"
    /\ servePC' = "returned"
    /\ beforeExit' = {posted[i] : i \in 1..Len(posted)}
    /\ UNCHANGED <<workStartFlag, gen, registerVars, bufferVars, workerVars, callVars,
                   responseVars, servedBy, requeued>>

ServePushExit ==
    /\ servePC = "exit"
    /\ Push(Exit)
    /\ servePC' = "returned"
    /\ beforeExit' = {posted[i] : i \in 1..Len(posted)}
    /\ UNCHANGED <<workStartFlag, gen, registerVars, workerVars, callVars, responseVars,
                   servedBy, requeued>>

Stopping == servePC \in {"exit", "returned"}
-----------------------------------------------------------------------------
(* The worker.                                                              *)

(* swapWorkBuff.  Swapping two empty buffers changes nothing: the worker     *)
(* yields or sleeps and tries again.                                        *)
Swap(g) ==
    /\ workerPC[g] = "swap"
    /\ workMutex = 0
    /\ workBufferPut # <<>>
    /\ workBufferGet' = workBufferPut
    /\ workBufferPut' = workBufferGet
    /\ workerPC' = [workerPC EXCEPT ![g] = "run"]
    /\ index' = [index EXCEPT ![g] = 0]
    /\ UNCHANGED <<workMutex, dispatcher, registerVars, serveVars, callVars,
                   responseVars, historyVars>>

(* Mutated FinishBatch: the batch is not truncated after the loop over it. *)
FinishBatchKeeps(g) ==
    /\ workerPC[g] = "run"
    /\ index[g] = Len(workBufferGet)
    /\ workerPC' = [workerPC EXCEPT ![g] = "swap"]
    /\ UNCHANGED <<bufferVars, index, dispatcher, registerVars, serveVars, callVars,
                   responseVars, historyVars>>

FinishBatch(g) ==
    /\ workerPC[g] = "run"
    /\ index[g] = Len(workBufferGet)
    /\ workBufferGet' = <<>>
    /\ workerPC' = [workerPC EXCEPT ![g] = "swap"]
    /\ UNCHANGED <<workBufferPut, workMutex, index, dispatcher, registerVars, serveVars,
                   callVars, responseVars, historyVars>>

(* The next entry of worker g's batch is item. *)
AtItem(g, item) ==
    /\ workerPC[g] = "run"
    /\ index[g] < Len(workBufferGet)
    /\ workBufferGet[index[g] + 1] = item

(* The callback a worker's clone holds for an event. *)
Callback(g, c) == dispatchers[dispatcher[g]][name[c]]

Take(g, c) ==
    /\ AtItem(g, c)
    /\ index' = [index EXCEPT ![g] = @ + 1]
    /\ servedBy' = [servedBy EXCEPT ![c] = dispatcher[g]]
    /\ UNCHANGED <<dispatcher, registerVars, bufferVars, serveVars, callVars, retained,
                   requeued, beforeExit>>

(* Mutated NotExists: Response does not look at needResponse. *)
NotExistsAlways(g, c) ==
    /\ c \in Events
    /\ Take(g, c)
    /\ Callback(g, c) = NoCallback
    /\ responseFlag' = responseFlag \cup {c}
    /\ UNCHANGED workerPC

(* handleEvent without a callback: the response is ErrEventNotExists.        *)
(* Response refuses an event that does not need one.                        *)
NotExists(g, c) ==
    /\ c \in Events
    /\ Take(g, c)
    /\ Callback(g, c) = NoCallback
    /\ responseFlag' = responseFlag \cup ({c} \cap Callers)
    /\ UNCHANGED workerPC

(* handleEvent with a callback, or handleExec: the callback starts. *)
StartCallback(g, c) ==
    /\ Take(g, c)
    /\ c \in Events => Callback(g, c) # NoCallback
    /\ workerPC' = [workerPC EXCEPT ![g] = "callback"]
    /\ UNCHANGED responseFlag

(* Mutated FinishCallback: handleEvent recovers the panic and does not respond. *)
FinishCallbackPanics(g) ==
    /\ workerPC[g] = "callback"
    /\ workerPC' = [workerPC EXCEPT ![g] = "run"]
    /\ \/ responseFlag' = responseFlag \cup ({workBufferGet[index[g]]} \cap Callers)
       \/ UNCHANGED responseFlag
    /\ UNCHANGED <<retained, index, dispatcher, registerVars, bufferVars, serveVars, callVars,
                   historyVars>>

(* The callback returns or panics.  RegisterEvent's closure responds with    *)
(* what the callback returned, the recover of handleEvent with the panic; a  *)
(* raw callback may have responded, or may have kept the event for later.    *)
FinishCallback(g) ==
    LET c == workBufferGet[index[g]]
    IN  /\ workerPC[g] = "callback"
        /\ workerPC' = [workerPC EXCEPT ![g] = "run"]
        /\ \/ /\ responseFlag' = responseFlag \cup ({c} \cap Callers)
              /\ UNCHANGED retained
           \/ /\ c \in Callers
              /\ Callback(g, c) = "raw"
              /\ retained' = retained \cup {c}
              /\ UNCHANGED responseFlag
        /\ UNCHANGED <<index, dispatcher, registerVars, bufferVars, serveVars, callVars, historyVars>>

(* Response by a goroutine a raw callback handed the event to. *)
RespondLater(c) ==
    /\ c \in retained
    /\ retained' = retained \ {c}
    /\ responseFlag' = responseFlag \cup {c}
    /\ UNCHANGED <<registerVars, bufferVars, serveVars, workerVars, callVars, historyVars>>

(* EventTypeExit: the worker returns and leaves the buffers as they are. *)
TakeExit(g) ==
    /\ AtItem(g, Exit)
    /\ workerPC' = [workerPC EXCEPT ![g] = "exited"]
    /\ UNCHANGED <<index, dispatcher, registerVars, bufferVars, serveVars, callVars,
                   responseVars, historyVars>>

(* The part of the batch behind the refresh, workBufferGet[index+1:]. *)
Remainder(g) == SubSeq(workBufferGet, index[g] + 2, Len(workBufferGet))

RefreshWith(g, remainder, mutex) ==
    /\ AtItem(g, Refresh)
    /\ workMutex = 0
    /\ workMutex' = mutex
    /\ workBufferPut' = workBufferPut \o remainder
    /\ workBufferGet' = <<>>
    /\ requeued' = requeued \cup {Remainder(g)[i] : i \in {j \in 1..Len(Remainder(g)) :
                                                            Remainder(g)[j] \in Clients}}
    /\ workerPC' = [workerPC EXCEPT ![g] = "unlock"]
    /\ UNCHANGED <<index, dispatcher, registerVars, serveVars, callVars, responseVars,
                   servedBy, beforeExit>>

(* Mutated TakeRefresh: the slice starts one entry too far. *)
TakeRefreshOffByOne(g) == RefreshWith(g, SubSeq(workBufferGet, index[g] + 3, Len(workBufferGet)), g)

(* Mutated TakeRefresh: the mutex is released before the worker has returned. *)
TakeRefreshUnlocked(g) == RefreshWith(g, Remainder(g), 0)

(* EventTypeRefresh: lock workMutex, move the rest of the batch behind what  *)
(* was written meanwhile, cancel.  The deferred unlock is Unlock.            *)
TakeRefresh(g) == RefreshWith(g, Remainder(g), g)

Unlock(g) ==
    /\ workerPC[g] = "unlock"
    /\ workMutex' = 0
    /\ workerPC' = [workerPC EXCEPT ![g] = "refreshed"]
    /\ UNCHANGED <<workBufferPut, workBufferGet, index, dispatcher, registerVars, serveVars,
                   callVars, responseVars, historyVars>>
-----------------------------------------------------------------------------
Worker(g) ==
    \/ Swap(g)
    \/ FinishBatch(g)
    \/ \E c \in Clients : NotExists(g, c) \/ StartCallback(g, c)
    \/ FinishCallback(g)
    \/ TakeExit(g)
    \/ TakeRefresh(g)
    \/ Unlock(g)

Server ==
    \/ ServeClone
    \/ ServeRefreshed
    \/ ServePushExit

Caller(c) ==
    \/ GiveUp(c)
    \/ ReadResponse(c)

Next ==
    \/ \E c \in Clients : Post(c)
    \/ \E g \in Gens, c \in Callers : CallFromCallback(g, c)
    \/ \E c \in Callers : Caller(c) \/ RespondLater(c)
    \/ \E n \in Names, h \in Handlers : BeginChange(n, h)
    \/ EndChange
    \/ ServeStart
    \/ Server
    \/ ServeCtxDone
    \/ \E g \in Gens : Worker(g)

Spec == Init /\ [][Next]_vars

(* Goroutines that can run do run: the worker and its callbacks, Serve, a    *)
(* registration that has begun, a CallEvent whose event has a response, and  *)
(* a CallEvent whose context ends.  Nobody has to call the API, to end       *)
(* Serve's context or to respond to an event a raw callback kept.            *)
Fairness ==
    /\ \A g \in Gens : WF_vars(Worker(g))
    /\ WF_vars(Server)
    /\ WF_vars(EndChange)
    /\ \A c \in Callers : WF_vars(ReadResponse(c))
    /\ \A c \in Deadlined : WF_vars(GiveUp(c))

FairSpec == Spec /\ Fairness
-----------------------------------------------------------------------------
(* Properties.                                                              *)

(* At most one worker is between a swap and the end of its batch: the        *)
(* goroutine of an old worker that is still inside its refresh case and the  *)
(* one Serve has already started never both use workBufferGet, which no      *)
(* lock protects while a batch runs.                                        *)
UsesBatch(g) == workerPC[g] \in {"run", "callback", "nested", "unlock"}

OneWorkerInBatch == \A g, h \in Gens : UsesBatch(g) /\ UsesBatch(h) => g = h

(* The entries no worker has taken, in the order they stand in. *)
Waiting == SubSeq(workBufferGet, index[gen] + 1, Len(workBufferGet)) \o workBufferPut

(* No event is lost or doubled by the swaps, the truncation of a finished    *)
(* batch, a refresh in mid-batch or the exit: an event that was posted is    *)
(* waiting in exactly one place until it is served, and nowhere after.       *)
Conservation ==
    \A c \in Clients :
        LET places == {i \in 1..Len(Waiting) : Waiting[i] = c}
        IN  IF since[c] # 0 /\ servedBy[c] = 0
            THEN \E i \in places : places = {i}
            ELSE places = {}

(* A RegisterEvent or UnregisterEvent that has returned is seen by every     *)
(* event posted afterwards, although the worker runs on a clone made at some *)
(* other time and refreshes reorder the buffer.                             *)
FreshDispatch == \A c \in Clients : servedBy[c] # 0 => servedBy[c] >= since[c]

(* Events are served in the order of their posts, except that a refresh puts *)
(* the rest of its batch behind later events: whoever was overtaken had been *)
(* put back by a refresh.                                                   *)
OvertakenOnlyByRefresh ==
    \A i, j \in 1..Len(posted) :
        (i < j /\ servedBy[posted[j]] # 0 /\ servedBy[posted[i]] = 0) => posted[i] \in requeued

(* A worker that ends on the exit event has served every event posted before *)
(* Serve pushed it.  (A worker that ends on a refresh after Serve has left   *)
(* its select has no successor, and what is waiting is never served.)        *)
DrainedOnExit == \A g \in Gens : workerPC[g] = "exited" => \A c \in beforeExit : servedBy[c] # 0

(* The loop does what EventMailbox says. *)
Mailbox == INSTANCE EventMailbox WITH
    versions <- Len(dispatchers),
    changing <- dispatchMutex,
    floor <- since,
    server <- servedBy,
    answered <- {c \in Callers : callPC[c] = "answered"}

ImplementsMailbox == Mailbox!Spec

(* Every posted event is served once Serve runs, unless Serve is stopped: no *)
(* worker is lost between a refresh and the next clone, no event is put back  *)
(* for ever by finitely many refreshes (MaxChanges), and nobody deadlocks on  *)
(* the two mutexes.                                                         *)
EventuallyServed ==
    \A c \in Clients :
        (since[c] # 0 /\ workStartFlag) ~> (servedBy[c] # 0 \/ Stopping)

(* A CallEvent returns even without a deadline, unless Serve is stopped or a *)
(* raw callback keeps its event.                                            *)
CallsReturn ==
    \A c \in Callers :
        (callPC[c] = "waiting" /\ workStartFlag)
            ~> (callPC[c] # "waiting" \/ c \in retained \/ Stopping)

(* After Serve's context has ended, the last worker ends too. *)
WorkersStop ==
    Stopping ~> \A g \in Gens : workerPC[g] \in {"none", "refreshed", "exited"}
=============================================================================
