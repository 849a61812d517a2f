----------------------------- MODULE EventTimers -----------------------------
(***************************************************************************)
(* Timers of event/manager.go.  SetTimeout and SetInterval stamp a timer     *)
(* under timerMutex and push, by Exec, the function that puts it into        *)
(* timerHeap; the heap and the one runtime timer behind mgr.timer belong to  *)
(* the loop.  When the runtime timer expires, its goroutine pushes a timer   *)
(* event, and handleTimer runs every callback that is due.  Cancel clears    *)
(* the callback from any goroutine without a lock: it takes effect at some   *)
(* point, which is the step below.                                           *)
(*                                                                         *)
(* Of the event loop there are left the two buffers and what a refresh does  *)
(* to them (EventLoop.tla has the rest).  The heap, ordered by Less, is the   *)
(* set of its timers: a key changes only while its timer is out of the heap. *)
(***************************************************************************)
EXTENDS Naturals, Sequences, FiniteSets

CONSTANTS
    MaxTimers,      \* bound: timers ever set
    Durations,      \* the d of SetTimeout and SetInterval
    MaxTime,        \* bound: the clock, and every first deadline
    MaxRefreshes,   \* bound: registrations while the loop runs
    Refresh,        \* the event that a registration pushes
    Fire            \* the timer event

Timers == 1..MaxTimers      \* timerID

ASSUME TimersAssumption ==
    /\ MaxTimers \in Nat
    /\ MaxTime \in Nat
    /\ MaxRefreshes \in Nat
    /\ Durations \subseteq Nat
    /\ Refresh \notin Nat
    /\ Fire \notin Nat
    /\ Refresh # Fire

VARIABLES
    now,            \* the monotonic clock
    nextTimerID,
    setting,        \* {}, or {t}: the call that sets t holds timerMutex
    fireTime, interval, repeat,     \* fields of EventTimer
    callback,       \* [Timers -> BOOLEAN] t.callback # nil
    timerHeap,
    armed,          \* mgr.timer: {}, or {its deadline}
    expired,        \* how many expired runtime timers have not pushed yet
    workBufferPut, workBufferGet,   \* the head of Get is the next entry
    pc,             \* "loop", "handle", "call", "callback"
    current,        \* the timer handleTimer has popped last
    started,        \* handleTimer's now
    repeatTimer,    \* handleTimer's list of timers to put back
    refreshes,
    runs,           \* history: callbacks started, saturating
    created,        \* history: when the timer was set
    cancelled,      \* history: "no", "loop" (by a callback), "other"
    late,           \* history: callbacks started after Cancel, saturating
    overtaken       \* history: <<t, u>> if a refresh put t behind u in the buffers

clientVars == <<nextTimerID, setting, interval, repeat, refreshes, created>>
bufferVars == <<workBufferPut, workBufferGet>>
heapVars == <<timerHeap, fireTime, repeatTimer>>
runtimeVars == <<armed, expired>>
loopVars == <<pc, current, started>>
cancelVars == <<callback, cancelled>>
historyVars == <<runs, late, overtaken>>

vars == <<now, clientVars, bufferVars, heapVars, runtimeVars, loopVars,
          cancelVars, historyVars>>

Items == Timers \cup {Refresh, Fire}

TypeOK ==
    /\ now \in 0..MaxTime
    /\ nextTimerID \in 1..(MaxTimers + 1)
    /\ setting \subseteq Timers
    /\ fireTime \in [Timers -> Nat]
    /\ interval \in [Timers -> Nat]
    /\ repeat \in [Timers -> BOOLEAN]
    /\ callback \in [Timers -> BOOLEAN]
    /\ timerHeap \subseteq Timers
    /\ armed \subseteq Nat
    /\ expired \in Nat
    /\ workBufferPut \in Seq(Items)
    /\ workBufferGet \in Seq(Items)
    /\ pc \in {"loop", "handle", "call", "callback"}
    /\ current \in 0..MaxTimers
    /\ started \in 0..MaxTime
    /\ repeatTimer \subseteq Timers
    /\ refreshes \in 0..MaxRefreshes
    /\ runs \in [Timers -> Nat]
    /\ created \in [Timers -> 0..MaxTime]
    /\ cancelled \in [Timers -> {"no", "loop", "other"}]
    /\ late \in [Timers -> 0..2]
    /\ overtaken \subseteq Timers \X Timers

Init ==
    /\ now = 0
    /\ nextTimerID = 1
    /\ setting = {}
    /\ fireTime = [t \in Timers |-> 0]
    /\ interval = [t \in Timers |-> 0]
    /\ repeat = [t \in Timers |-> FALSE]
    /\ callback = [t \in Timers |-> FALSE]
    /\ timerHeap = {}
    /\ armed = {}
    /\ expired = 0
    /\ workBufferPut = <<>>
    /\ workBufferGet = <<>>
    /\ pc = "loop"
    /\ current = 0
    /\ started = 0
    /\ repeatTimer = {}
    /\ refreshes = 0
    /\ runs = [t \in Timers |-> 0]
    /\ created = [t \in Timers |-> 0]
    /\ cancelled = [t \in Timers |-> "no"]
    /\ late = [t \in Timers |-> 0]
    /\ overtaken = {}

(* Mutated Less: timers with the same deadline in any order. *)
LessTies(t, u) ==
    \/ fireTime[t] < fireTime[u]
    \/ fireTime[t] = fireTime[u] /\ t > u

(* timerHeap.Less. *)
Less(t, u) ==
    \/ fireTime[t] < fireTime[u]
    \/ fireTime[t] = fireTime[u] /\ t < u

IsTop(t, heap) == t \in heap /\ \A u \in heap \ {t} : Less(t, u)

(* The timers whose SetTimeout or SetInterval has returned. *)
IsSet(t) == t < nextTimerID /\ t \notin setting
-----------------------------------------------------------------------------
(* The goroutines that set and cancel timers, or register events.           *)

(* SetTimeout, SetInterval: lock timerMutex, read the clock, take an id. *)
Set(d, isRepeat) ==
    /\ setting = {}
    /\ nextTimerID \in Timers
    /\ now + d <= MaxTime
    /\ setting' = {nextTimerID}
    /\ nextTimerID' = nextTimerID + 1
    /\ fireTime' = [fireTime EXCEPT ![nextTimerID] = now + d]
    /\ interval' = [interval EXCEPT ![nextTimerID] = d]
    /\ repeat' = [repeat EXCEPT ![nextTimerID] = isRepeat]
    /\ callback' = [callback EXCEPT ![nextTimerID] = TRUE]
    /\ created' = [created EXCEPT ![nextTimerID] = now]
    /\ UNCHANGED <<now, refreshes, bufferVars, timerHeap, repeatTimer, runtimeVars, loopVars,
                   cancelled, historyVars>>

(* ... then Exec, and unlock. *)
PushSet ==
    \E t \in setting :
        /\ workBufferPut' = Append(workBufferPut, t)
        /\ setting' = {}
        /\ UNCHANGED <<now, nextTimerID, interval, repeat, refreshes, created, workBufferGet,
                       heapVars, runtimeVars, loopVars, cancelVars, historyVars>>

(* RegisterEvent or UnregisterEvent while the loop runs. *)
PushRefresh ==
    /\ refreshes < MaxRefreshes
    /\ refreshes' = refreshes + 1
    /\ workBufferPut' = Append(workBufferPut, Refresh)
    /\ UNCHANGED <<now, nextTimerID, setting, interval, repeat, created, workBufferGet,
                   heapVars, runtimeVars, loopVars, cancelVars, historyVars>>

(* EventTimer.Cancel, by a callback on the loop (of a timer, or of an event   *)
(* handled between two of these) or by another goroutine.                   *)
Cancel(t, by) ==
    /\ IsSet(t)
    /\ cancelled[t] = "no"
    /\ by = "loop" => pc \in {"loop", "callback"}
    /\ callback' = [callback EXCEPT ![t] = FALSE]
    /\ cancelled' = [cancelled EXCEPT ![t] = by]
    /\ UNCHANGED <<now, clientVars, bufferVars, heapVars, runtimeVars, loopVars, historyVars>>
-----------------------------------------------------------------------------
(* The clock and the runtime timer (external: package time).                *)

Tick ==
    /\ now < MaxTime
    /\ now' = now + 1
    /\ UNCHANGED <<clientVars, bufferVars, heapVars, runtimeVars, loopVars, cancelVars,
                   historyVars>>

Expire ==
    \E f \in armed :
        /\ f <= now
        /\ armed' = {}
        /\ expired' = expired + 1
        /\ UNCHANGED <<now, clientVars, bufferVars, heapVars, loopVars, cancelVars, historyVars>>

(* Mutated PushFire: a timer that was stopped pushes its event too. *)
PushFireStopped ==
    /\ expired' = expired - 1
    /\ workBufferPut' = Append(workBufferPut, Fire)
    /\ UNCHANGED <<now, clientVars, workBufferGet, heapVars, armed, loopVars, cancelVars,
                   historyVars>>

(* The function given to AfterFunc. *)
PushFire ==
    /\ expired > 0
    /\ expired' = expired - 1
    /\ workBufferPut' = Append(workBufferPut, Fire)
    /\ UNCHANGED <<now, clientVars, workBufferGet, heapVars, armed, loopVars, cancelVars,
                   historyVars>>
-----------------------------------------------------------------------------
(* The loop.                                                                *)

Swap ==
    /\ pc = "loop"
    /\ workBufferGet = <<>>
    /\ workBufferPut # <<>>
    /\ workBufferGet' = workBufferPut
    /\ workBufferPut' = <<>>
    /\ UNCHANGED <<now, clientVars, heapVars, runtimeVars, loopVars, cancelVars, historyVars>>

AtItem(item) == pc = "loop" /\ workBufferGet # <<>> /\ Head(workBufferGet) = item

(* The timers whose insertion waits in a buffer. *)
Waiting(buffer) == {t \in Timers : \E i \in 1..Len(buffer) : buffer[i] = t}

(* Mutated TakeRefresh: what is put back also stays in the batch. *)
TakeRefreshKeeps ==
    /\ AtItem(Refresh)
    /\ workBufferPut' = workBufferPut \o Tail(workBufferGet)
    /\ workBufferGet' = Tail(workBufferGet)
    /\ overtaken' = overtaken \cup (Waiting(workBufferGet) \X Waiting(workBufferPut))
    /\ UNCHANGED <<now, clientVars, heapVars, runtimeVars, loopVars, cancelVars, runs, late>>

(* The rest of the batch goes behind what has been pushed meanwhile. *)
TakeRefresh ==
    /\ AtItem(Refresh)
    /\ workBufferPut' = workBufferPut \o Tail(workBufferGet)
    /\ workBufferGet' = <<>>
    /\ overtaken' = overtaken \cup (Waiting(workBufferGet) \X Waiting(workBufferPut))
    /\ UNCHANGED <<now, clientVars, heapVars, runtimeVars, loopVars, cancelVars, runs, late>>

(* Mutated FireTimer: the comparison is the other way round. *)
FireTimerLater(last, cur) ==
    armed' = IF \E t \in last : fireTime[cur] < fireTime[t] THEN armed ELSE {fireTime[cur]}

(* fireTimer(last, cur): leave the runtime timer if it is armed for an       *)
(* earlier deadline, else stop it and arm another.  Stop does nothing to one *)
(* that has expired.                                                        *)
FireTimer(last, cur) ==
    armed' = IF \E t \in last : fireTime[t] < fireTime[cur] THEN armed ELSE {fireTime[cur]}

(* The function SetTimeout or SetInterval gave to Exec. *)
Insert(t) ==
    /\ AtItem(t)
    /\ workBufferGet' = Tail(workBufferGet)
    /\ timerHeap' = timerHeap \cup {t}
    /\ FireTimer({u \in timerHeap : IsTop(u, timerHeap)}, t)
    /\ UNCHANGED <<now, clientVars, workBufferPut, fireTime, repeatTimer, expired, loopVars,
                   cancelVars, historyVars>>

(* handleTimer reads the clock. *)
HandleTimer ==
    /\ AtItem(Fire)
    /\ workBufferGet' = Tail(workBufferGet)
    /\ started' = now
    /\ pc' = "handle"
    /\ UNCHANGED <<now, clientVars, workBufferPut, heapVars, runtimeVars, current, cancelVars,
                   historyVars>>

(* The timer handleTimer pops next. *)
IsDue(t) == pc = "handle" /\ IsTop(t, timerHeap) /\ fireTime[t] <= started

DropCancelled(t) ==
    /\ IsDue(t)
    /\ ~callback[t]
    /\ timerHeap' = timerHeap \ {t}
    /\ UNCHANGED <<now, clientVars, bufferVars, fireTime, repeatTimer, runtimeVars, loopVars,
                   cancelVars, historyVars>>

(* Mutated Later: the deadline of a repeating timer is not moved on. *)
LaterNow(t) == started

(* The next deadline of a repeating timer, or now if that has passed too. *)
Later(t) == IF fireTime[t] + interval[t] < started THEN started ELSE fireTime[t] + interval[t]

(* Mutated Pop: the callback is not looked at. *)
PopCancelled(t) ==
    /\ IsDue(t)
    /\ timerHeap' = timerHeap \ {t}
    /\ current' = t
    /\ pc' = "call"
    /\ IF repeat[t]
       THEN /\ fireTime' = [fireTime EXCEPT ![t] = Later(t)]
            /\ repeatTimer' = repeatTimer \cup {t}
       ELSE UNCHANGED <<fireTime, repeatTimer>>
    /\ UNCHANGED <<now, clientVars, bufferVars, runtimeVars, started, cancelVars, historyVars>>

(* Mutated Pop: a repeating timer goes back into the heap at once. *)
PopPutsBack(t) ==
    /\ IsDue(t)
    /\ callback[t]
    /\ current' = t
    /\ pc' = "call"
    /\ IF repeat[t]
       THEN /\ fireTime' = [fireTime EXCEPT ![t] = Later(t)]
            /\ UNCHANGED <<timerHeap, callback>>
       ELSE /\ callback' = [callback EXCEPT ![t] = FALSE]
            /\ timerHeap' = timerHeap \ {t}
            /\ UNCHANGED fireTime
    /\ UNCHANGED <<now, clientVars, bufferVars, repeatTimer, runtimeVars, started, cancelled,
                   historyVars>>

(* Pop a timer whose callback is not nil.  A repeating timer gets its next   *)
(* deadline and is put back later, a timeout loses its callback.            *)
Pop(t) ==
    /\ IsDue(t)
    /\ callback[t]
    /\ timerHeap' = timerHeap \ {t}
    /\ current' = t
    /\ pc' = "call"
    /\ IF repeat[t]
       THEN /\ fireTime' = [fireTime EXCEPT ![t] = Later(t)]
            /\ repeatTimer' = repeatTimer \cup {t}
            /\ UNCHANGED callback
       ELSE /\ callback' = [callback EXCEPT ![t] = FALSE]
            /\ UNCHANGED <<fireTime, repeatTimer>>
    /\ UNCHANGED <<now, clientVars, bufferVars, runtimeVars, started, cancelled, historyVars>>

Least(m, n) == IF m <= n THEN m ELSE n

(* onTimer: the callback it runs was read before. *)
StartCallback ==
    /\ pc = "call"
    /\ pc' = "callback"
    /\ runs' = [runs EXCEPT ![current] = Least(@ + 1, MaxTime + 1)]
    /\ late' = IF cancelled[current] = "no" THEN late
               ELSE [late EXCEPT ![current] = Least(@ + 1, 2)]
    /\ UNCHANGED <<now, clientVars, bufferVars, heapVars, runtimeVars, current, started,
                   cancelVars, overtaken>>

(* The callback returns or panics. *)
FinishCallback ==
    /\ pc = "callback"
    /\ pc' = "handle"
    /\ UNCHANGED <<now, clientVars, bufferVars, heapVars, runtimeVars, current, started,
                   cancelVars, historyVars>>

(* Mutated FinishTimer: the runtime timer is not armed again. *)
FinishTimerIdle ==
    /\ pc = "handle"
    /\ \A t \in timerHeap : ~IsDue(t)
    /\ timerHeap' = timerHeap \cup repeatTimer
    /\ repeatTimer' = {}
    /\ pc' = "loop"
    /\ UNCHANGED <<now, clientVars, bufferVars, fireTime, runtimeVars, current, started,
                   cancelVars, historyVars>>

(* Nothing more is due: put the repeating timers back, arm for the top. *)
FinishTimer ==
    /\ pc = "handle"
    /\ \A t \in timerHeap : ~IsDue(t)
    /\ timerHeap' = timerHeap \cup repeatTimer
    /\ repeatTimer' = {}
    /\ IF timerHeap' = {} THEN UNCHANGED armed
       ELSE \E t \in timerHeap' : IsTop(t, timerHeap') /\ FireTimer({}, t)
    /\ pc' = "loop"
    /\ UNCHANGED <<now, clientVars, bufferVars, fireTime, expired, current, started, cancelVars,
                   historyVars>>
-----------------------------------------------------------------------------
Loop ==
    \/ Swap
    \/ TakeRefresh
    \/ HandleTimer
    \/ \E t \in Timers : Insert(t) \/ DropCancelled(t) \/ Pop(t)
    \/ StartCallback
    \/ FinishCallback
    \/ FinishTimer

Next ==
    \/ \E d \in Durations, isRepeat \in BOOLEAN : Set(d, isRepeat)
    \/ PushSet
    \/ PushRefresh
    \/ \E t \in Timers, by \in {"loop", "other"} : Cancel(t, by)
    \/ Tick
    \/ Expire
    \/ PushFire
    \/ Loop

Spec == Init /\ [][Next]_vars

(* Time passes, the runtime fires timers, and goroutines that can run do.    *)
(* Nobody has to set, cancel or register anything.                          *)
Fairness ==
    /\ WF_vars(PushSet)
    /\ WF_vars(Tick)
    /\ WF_vars(Expire)
    /\ WF_vars(PushFire)
    /\ WF_vars(Loop)

FairSpec == Spec /\ Fairness
-----------------------------------------------------------------------------
(* Properties.                                                              *)

(* The loop never waits with a timer in its heap that nothing will wake it   *)
(* for: the runtime timer is armed for the top of the heap or earlier, or a  *)
(* timer event is on its way.  (One runtime timer serves the whole heap, and *)
(* it is stopped, fires and is armed again while timers come and go.)        *)
FireUnderWay ==
    \/ expired > 0
    \/ \E i \in 1..Len(workBufferGet) : workBufferGet[i] = Fire
    \/ \E i \in 1..Len(workBufferPut) : workBufferPut[i] = Fire

TopIsArmed ==
    pc = "loop" /\ timerHeap # {} =>
        \/ FireUnderWay
        \/ \E f \in armed : \A t \in timerHeap : f <= fireTime[t]

(* Timer events do not pile up, whatever the intervals are and however late  *)
(* the loop is: armed, expired, queued and being handled, there are never    *)
(* more of them than timers were set.                                       *)
FireEventsBounded ==
    Cardinality(armed) + expired + (IF pc = "loop" THEN 0 ELSE 1)
        + Cardinality({i \in 1..Len(workBufferGet) : workBufferGet[i] = Fire})
        + Cardinality({i \in 1..Len(workBufferPut) : workBufferPut[i] = Fire})
            < nextTimerID

(* A timeout runs at most once, and the k-th run of an interval never comes  *)
(* before k intervals have passed, although a late run reschedules its timer *)
(* from the time at which the loop got to it.                               *)
RunsOnSchedule ==
    \A t \in Timers :
        /\ ~repeat[t] => runs[t] <= 1
        /\ created[t] + runs[t] * interval[t] <= now

(* After a Cancel on the loop the callback never starts again, not even in   *)
(* the handleTimer that was under way; after a Cancel by another goroutine   *)
(* it starts at most once more (handleTimer had read it).                   *)
CancelHolds ==
    \A t \in Timers : late[t] <= IF cancelled[t] = "other" THEN 1 ELSE 0

(* "making sure Timer with same deadline is fired according to their add     *)
(* order" (timer.go:50), for timeouts.  A refresh can put the insertion of    *)
(* the first timer behind that of the second, and behind the timer event     *)
(* that fires the second: then the order is lost, against what the comment   *)
(* says.  Nothing else may change it.                                       *)
SameDeadlineOrder ==
    \A t, u \in Timers :
        /\ t < u /\ u < nextTimerID
        /\ ~repeat[t] /\ ~repeat[u]
        /\ fireTime[t] = fireTime[u]
        /\ <<t, u>> \notin overtaken
        /\ runs[u] > 0
        => runs[t] > 0 \/ cancelled[t] # "no"

(* Nothing is left to do for t until the bound of the clock: a timeout has run,  *)
(* an interval has had all its deadlines (fireTime only grows, and a late run   *)
(* passes over those that it has missed), a zero interval runs again and again. *)
DealtWith(t) ==
    IF ~repeat[t] THEN runs[t] > 0
    ELSE IF interval[t] > 0 THEN fireTime[t] > MaxTime
    ELSE runs[t] > MaxTime

(* Every timeout that is not cancelled runs, and every deadline of an interval,  *)
(* the first and those it is put back with, is dealt with, however timers,     *)
(* refreshes and late timer events interleave.                              *)
DeadlinesMet == \A t \in Timers : IsSet(t) ~> DealtWith(t) \/ cancelled[t] # "no"

(* handleTimer comes to its end and the loop goes on to other events, even   *)
(* with an interval of zero, which is due again as soon as it has run.       *)
HandlerReturns == pc = "handle" ~> pc = "loop"
=============================================================================
