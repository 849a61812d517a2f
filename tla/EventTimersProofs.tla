--------------------------- MODULE EventTimersProofs ---------------------------
(***************************************************************************)
(* Proofs about EventTimers for any number of timers, refreshes and any       *)
(* durations: the type invariant; that the loop never waits with a timer that  *)
(* nothing will wake it for; that a cancelled callback stays cancelled; that    *)
(* runs keep to their schedule; and that timer events do not pile up.         *)
(***************************************************************************)
EXTENDS EventTimers, SequenceTheorems, FiniteSetTheorems, WellFoundedInduction,
        TLAPS

LEMMA ItemFacts ==
    /\ Timers \subseteq Nat /\ Timers \subseteq Items
    /\ Refresh \in Items /\ Fire \in Items
    /\ Refresh \notin Timers /\ Fire \notin Timers /\ Refresh # Fire
  BY TimersAssumption DEF Timers, Items

(* What waits in the two buffers. *)
InGet(item) == \E i \in 1..Len(workBufferGet) : workBufferGet[i] = item
InPut(item) == \E i \in 1..Len(workBufferPut) : workBufferPut[i] = item
Queued(item) == InGet(item) \/ InPut(item)

BufferType == workBufferPut \in Seq(Items) /\ workBufferGet \in Seq(Items)

(* A push. *)
LEMMA PushQueued ==
    ASSUME BufferType, NEW x \in Items, workBufferPut' = Append(workBufferPut, x),
           workBufferGet' = workBufferGet
    PROVE  BufferType' /\ \A y : Queued(y)' <=> Queued(y) \/ y = x
<1> DEFINE n == Len(workBufferPut)
<1>1. /\ workBufferPut' \in Seq(Items) /\ n \in Nat /\ Len(workBufferPut') = n + 1
      /\ workBufferPut'[n + 1] = x
      /\ \A i \in 1..n : workBufferPut'[i] = workBufferPut[i]
  BY DEF BufferType
<1> HIDE DEF n
<1>2. /\ \A i \in 1..n : i \in 1..(n + 1)
      /\ n + 1 \in 1..(n + 1)
      /\ \A i \in 1..(n + 1) : i \in 1..n \/ i = n + 1
  BY <1>1
<1>3. \A y : InPut(y)' <=> InPut(y) \/ y = x
  BY <1>1, <1>2 DEF InPut, n
<1> QED
  BY <1>1, <1>3 DEF Queued, InGet, BufferType

(* The head of the batch is taken. *)
LEMMA TakeQueued ==
    ASSUME BufferType, workBufferGet # <<>>, workBufferGet' = Tail(workBufferGet),
           workBufferPut' = workBufferPut
    PROVE  /\ BufferType'
           /\ Queued(Head(workBufferGet))
           /\ \A y : Queued(y)' => Queued(y)
           /\ \A y : Queued(y) => Queued(y)' \/ y = Head(workBufferGet)
<1> DEFINE n == Len(workBufferGet)
<1>1. /\ n \in Nat /\ n > 0
      /\ Tail(workBufferGet) \in Seq(Items) /\ Len(Tail(workBufferGet)) = n - 1
      /\ \A i \in 1..(n - 1) : Tail(workBufferGet)[i] = workBufferGet[i + 1]
      /\ Head(workBufferGet) = workBufferGet[1]
  BY HeadTailProperties, EmptySeq DEF BufferType
<1> HIDE DEF n
<1>2. \A y : InGet(y)' => InGet(y)
  BY <1>1 DEF InGet, n
<1>3. \A y : InGet(y) => InGet(y)' \/ y = Head(workBufferGet)
  <2> SUFFICES ASSUME NEW i \in 1..n
               PROVE  i = 1 \/ (i - 1 \in 1..(n - 1) /\ workBufferGet'[i - 1] = workBufferGet[i])
    BY <1>1 DEF InGet, n
  <2> QED
    BY <1>1
<1>4. InGet(Head(workBufferGet))
  BY <1>1 DEF InGet, n
<1> QED
  BY <1>1, <1>2, <1>3, <1>4 DEF Queued, InPut, BufferType

(* The batch is taken over, or put back behind its refresh. *)
LEMMA SwapQueued ==
    ASSUME BufferType, Swap
    PROVE  BufferType' /\ \A y : Queued(y)' <=> Queued(y)
<1>1. workBufferGet = <<>> /\ workBufferGet' = workBufferPut /\ workBufferPut' = <<>>
  BY DEF Swap
<1>2. \A y : ~InGet(y) /\ ~InPut(y)' /\ (InGet(y)' <=> InPut(y))
  BY <1>1 DEF InGet, InPut
<1> QED
  BY <1>1, <1>2 DEF Queued, BufferType

LEMMA RefreshQueued ==
    ASSUME BufferType, TakeRefresh
    PROVE  /\ BufferType'
           /\ \A y : Queued(y)' => Queued(y)
           /\ \A y : Queued(y) => Queued(y)' \/ y = Refresh
<1> DEFINE n == Len(workBufferGet)
           p == Len(workBufferPut)
           rest == Tail(workBufferGet)
<1>1. /\ workBufferGet # <<>> /\ workBufferPut' = workBufferPut \o rest /\ workBufferGet' = <<>>
      /\ Head(workBufferGet) = Refresh
  BY DEF TakeRefresh, AtItem
<1>2. /\ n \in Nat /\ n > 0 /\ rest \in Seq(Items) /\ Len(rest) = n - 1
      /\ \A i \in 1..(n - 1) : rest[i] = workBufferGet[i + 1]
      /\ workBufferGet[1] = Refresh
  BY <1>1, HeadTailProperties, EmptySeq DEF BufferType
<1>3. /\ p \in Nat /\ workBufferPut' \in Seq(Items) /\ Len(workBufferPut') = p + (n - 1)
      /\ \A i \in 1..(p + (n - 1)) :
            workBufferPut'[i] = IF i <= p THEN workBufferPut[i] ELSE rest[i - p]
  BY <1>1, <1>2, ConcatProperties DEF BufferType
<1> HIDE DEF n, p, rest
<1>4. \A y : InPut(y)' => Queued(y)
  <2> SUFFICES ASSUME NEW i \in 1..(p + (n - 1))
               PROVE  \/ i \in 1..p /\ workBufferPut'[i] = workBufferPut[i]
                      \/ i - p + 1 \in 1..n /\ workBufferPut'[i] = workBufferGet[i - p + 1]
    BY <1>3 DEF InPut, InGet, Queued, n, p
  <2> QED
    BY <1>2, <1>3
<1>5. \A y : InPut(y) => InPut(y)'
  <2> SUFFICES ASSUME NEW i \in 1..p
               PROVE  i \in 1..(p + (n - 1)) /\ workBufferPut'[i] = workBufferPut[i]
    BY <1>3 DEF InPut, p
  <2> QED
    BY <1>2, <1>3
<1>6. \A y : InGet(y) => InPut(y)' \/ y = Refresh
  <2> SUFFICES ASSUME NEW i \in 1..n
               PROVE  \/ i = 1
                      \/ /\ p + (i - 1) \in 1..(p + (n - 1))
                         /\ workBufferPut'[p + (i - 1)] = workBufferGet[i]
    BY <1>2, <1>3 DEF InPut, InGet, n
  <2> QED
    BY <1>2, <1>3
<1>7. \A y : ~InGet(y)'
  BY <1>1 DEF InGet
<1> QED
  BY <1>1, <1>3, <1>4, <1>5, <1>6, <1>7 DEF Queued, BufferType
-----------------------------------------------------------------------------
(* Types.                                                                   *)

LEMMA TypeInit == Init => TypeOK
  BY TimersAssumption DEF Init, TypeOK, Timers

(* fireTimer keeps a deadline or takes that of the given timer. *)
LEMMA FireTimerType ==
    ASSUME TypeOK, NEW last, NEW t \in Timers, FireTimer(last, t)
    PROVE  armed' \subseteq Nat
  BY DEF FireTimer, TypeOK

LEMMA TypeStep == TypeOK /\ [Next]_vars => TypeOK'
<1> SUFFICES ASSUME TypeOK, [Next]_vars PROVE TypeOK'
  OBVIOUS
<1> USE DEF clientVars, bufferVars, heapVars, runtimeVars, loopVars, cancelVars, historyVars
<1>0. BufferType
  BY DEF TypeOK, BufferType
<1>1. ASSUME NEW d \in Durations, NEW isRepeat \in BOOLEAN, Set(d, isRepeat)
      PROVE  TypeOK'
  <2>1. now + d \in Nat /\ nextTimerID \in Timers /\ nextTimerID + 1 \in 1..(MaxTimers + 1)
    BY <1>1, TimersAssumption DEF Set, TypeOK, Timers
  <2> QED
    BY <1>1, <2>1, TimersAssumption DEF Set, TypeOK
<1>2. CASE PushSet
  <2>1. PICK t \in Timers : workBufferPut' = Append(workBufferPut, t) /\ workBufferGet' = workBufferGet
    BY <1>2 DEF PushSet, TypeOK
  <2>2. BufferType'
    BY <1>0, <2>1, PushQueued, ItemFacts
  <2> QED
    BY <1>2, <2>2 DEF PushSet, TypeOK, BufferType
<1>3. CASE PushRefresh
  <2>1. BufferType'
    BY <1>0, <1>3, PushQueued, ItemFacts DEF PushRefresh
  <2>2. refreshes' \in 0..MaxRefreshes
    BY <1>3, TimersAssumption DEF PushRefresh, TypeOK
  <2> QED
    BY <1>3, <2>1, <2>2 DEF PushRefresh, TypeOK, BufferType
<1>4. ASSUME NEW t \in Timers, NEW by \in {"loop", "other"}, Cancel(t, by)
      PROVE  TypeOK'
  BY <1>4 DEF Cancel, TypeOK
<1>5. CASE Tick \/ Expire
  <2>1. CASE Tick
    <3>1. now' \in 0..MaxTime
      BY <2>1, TimersAssumption DEF Tick, TypeOK
    <3> QED
      BY <2>1, <3>1 DEF Tick, TypeOK
  <2>2. CASE Expire
    <3>1. armed' = {} /\ expired' \in Nat
      BY <2>2 DEF Expire, TypeOK
    <3> QED
      BY <2>2, <3>1 DEF Expire, TypeOK
  <2> QED
    BY <1>5, <2>1, <2>2
<1>6. CASE PushFire
  <2>1. BufferType'
    BY <1>0, <1>6, PushQueued, ItemFacts DEF PushFire
  <2>2. expired' \in Nat
    BY <1>6 DEF PushFire, TypeOK
  <2> QED
    BY <1>6, <2>1, <2>2 DEF PushFire, TypeOK, BufferType
<1>7. CASE Swap \/ TakeRefresh
  <2>1. BufferType'
    BY <1>0, <1>7, SwapQueued, RefreshQueued
  <2>2. overtaken' \subseteq Timers \X Timers
    BY <1>7 DEF Swap, TakeRefresh, TypeOK, Waiting
  <2> QED
    BY <1>7, <2>1, <2>2 DEF Swap, TakeRefresh, TypeOK, BufferType
<1>8. CASE HandleTimer
  <2>1. BufferType'
    BY <1>0, <1>8, TakeQueued DEF HandleTimer, AtItem
  <2> QED
    BY <1>8, <2>1 DEF HandleTimer, TypeOK, BufferType
<1>9. ASSUME NEW t \in Timers, Insert(t)
      PROVE  TypeOK'
  <2>1. BufferType'
    BY <1>0, <1>9, TakeQueued DEF Insert, AtItem
  <2>2. armed' \subseteq Nat
    BY <1>9, FireTimerType DEF Insert
  <2> QED
    BY <1>9, <2>1, <2>2 DEF Insert, TypeOK, BufferType
<1>10. ASSUME NEW t \in Timers, DropCancelled(t)
       PROVE  TypeOK'
  BY <1>10 DEF DropCancelled, TypeOK
<1>11. ASSUME NEW t \in Timers, Pop(t)
       PROVE  TypeOK'
  <2>1. Later(t) \in Nat
    BY TimersAssumption DEF Later, TypeOK
  <2>2. t \in 0..MaxTimers
    BY TimersAssumption DEF Timers
  <2> QED
    BY <1>11, <2>1, <2>2 DEF Pop, TypeOK
<1>12. CASE StartCallback
  <2>1. \A n \in Nat : Least(n + 1, MaxTime + 1) \in Nat
    BY TimersAssumption DEF Least
  <2>2. \A n \in 0..2 : Least(n + 1, 2) \in 0..2
    BY DEF Least
  <2>3. runs' \in [Timers -> Nat]
    BY <1>12, <2>1 DEF StartCallback, TypeOK
  <2>4. late' \in [Timers -> 0..2]
    BY <1>12, <2>2 DEF StartCallback, TypeOK
  <2> QED
    BY <1>12, <2>3, <2>4 DEF StartCallback, TypeOK
<1>13. CASE FinishCallback
  BY <1>13 DEF FinishCallback, TypeOK
<1>14. CASE FinishTimer
  <2>1. timerHeap' \subseteq Timers
    BY <1>14 DEF FinishTimer, TypeOK
  <2>2. armed' \subseteq Nat
    BY <1>14, <2>1, FireTimerType DEF FinishTimer, TypeOK
  <2> QED
    BY <1>14, <2>1, <2>2 DEF FinishTimer, TypeOK
<1>15. CASE UNCHANGED vars
  BY <1>15 DEF vars, TypeOK
<1> QED
  BY <1>1, <1>2, <1>3, <1>4, <1>5, <1>6, <1>7, <1>8, <1>9, <1>10, <1>11, <1>12, <1>13, <1>14,
     <1>15 DEF Next, Loop

(* Every variable keeps its type. *)
THEOREM TypeCorrect == Spec => []TypeOK
  BY TypeInit, TypeStep, PTL DEF Spec
-----------------------------------------------------------------------------
(* Which timers are known to the loop.                                      *)

Known ==
    \A t \in Timers : t \in setting \cup timerHeap \cup repeatTimer \/ Queued(t) => t < nextTimerID

LEMMA KnownInit == Init => Known
<1> SUFFICES ASSUME Init PROVE Known
  OBVIOUS
<1>1. Len(workBufferGet) = 0 /\ Len(workBufferPut) = 0
  BY DEF Init
<1> QED
  BY <1>1 DEF Init, Known, Queued, InGet, InPut

(* What a step of the loop that takes one event does to the buffers. *)
LEMMA TakeItem ==
    ASSUME TypeOK, NEW x, AtItem(x), workBufferGet' = Tail(workBufferGet),
           workBufferPut' = workBufferPut
    PROVE  /\ Queued(x)
           /\ \A y : Queued(y)' => Queued(y)
           /\ \A y : Queued(y) => Queued(y)' \/ y = x
  BY TakeQueued DEF TypeOK, BufferType, AtItem

LEMMA SameQueue == UNCHANGED bufferVars => \A y : Queued(y)' <=> Queued(y)
  BY DEF bufferVars, Queued, InGet, InPut

LEMMA KnownStep ==
    ASSUME TypeOK, Known, [Next]_vars
    PROVE  Known'
<1> USE DEF Known, clientVars, heapVars, runtimeVars, loopVars, cancelVars, historyVars
<1>0. BufferType
  BY DEF TypeOK, BufferType
<1>1. ASSUME NEW d \in Durations, NEW isRepeat \in BOOLEAN, Set(d, isRepeat)
      PROVE  Known'
  <2>1. \A y : Queued(y)' <=> Queued(y)
    BY <1>1, SameQueue DEF Set
  <2>2. /\ setting' = {nextTimerID} /\ nextTimerID' = nextTimerID + 1
        /\ UNCHANGED <<timerHeap, repeatTimer>> /\ nextTimerID \in Nat
    BY <1>1 DEF Set, TypeOK
  <2> QED
    BY <2>1, <2>2, ItemFacts
<1>2. CASE PushSet
  <2>1. PICK t \in setting :
            workBufferPut' = Append(workBufferPut, t) /\ workBufferGet' = workBufferGet
    BY <1>2 DEF PushSet
  <2>2. t \in Items
    BY ItemFacts DEF TypeOK
  <2>3. \A y : Queued(y)' <=> Queued(y) \/ y = t
    BY <1>0, <2>1, <2>2, PushQueued
  <2> QED
    BY <1>2, <2>1, <2>3 DEF PushSet
<1>3. CASE PushRefresh
  <2>1. \A y : Queued(y)' <=> Queued(y) \/ y = Refresh
    BY <1>0, <1>3, PushQueued, ItemFacts DEF PushRefresh
  <2> QED
    BY <1>3, <2>1, ItemFacts DEF PushRefresh
<1>4. CASE PushFire
  <2>1. \A y : Queued(y)' <=> Queued(y) \/ y = Fire
    BY <1>0, <1>4, PushQueued, ItemFacts DEF PushFire
  <2> QED
    BY <1>4, <2>1, ItemFacts DEF PushFire
<1>5. CASE Swap \/ TakeRefresh
  <2>1. \A y : Queued(y)' => Queued(y)
    BY <1>0, <1>5, SwapQueued, RefreshQueued
  <2> QED
    BY <1>5, <2>1 DEF Swap, TakeRefresh
<1>6. CASE HandleTimer
  <2>1. \A y : Queued(y)' => Queued(y)
    BY <1>6, TakeItem DEF HandleTimer
  <2> QED
    BY <1>6, <2>1 DEF HandleTimer
<1>7. ASSUME NEW t \in Timers, Insert(t)
      PROVE  Known'
  <2>1. Queued(t) /\ \A y : Queued(y)' => Queued(y)
    BY <1>7, TakeItem DEF Insert
  <2> QED
    BY <1>7, <2>1 DEF Insert
<1>8. ASSUME NEW t \in Timers, DropCancelled(t) \/ Pop(t)
      PROVE  Known'
  <2>1. \A y : Queued(y)' <=> Queued(y)
    BY <1>8, SameQueue DEF DropCancelled, Pop
  <2>2. UNCHANGED <<setting, nextTimerID>> /\ timerHeap' \subseteq timerHeap
        /\ repeatTimer' \subseteq repeatTimer \cup {t} /\ t \in timerHeap
    BY <1>8 DEF DropCancelled, Pop, IsDue, IsTop
  <2> QED
    BY <2>1, <2>2
<1>9. CASE FinishTimer
  <2>1. \A y : Queued(y)' <=> Queued(y)
    BY <1>9, SameQueue DEF FinishTimer
  <2> QED
    BY <1>9, <2>1 DEF FinishTimer
<1>10. CASE \/ Tick \/ Expire \/ StartCallback \/ FinishCallback \/ UNCHANGED vars
            \/ \E t \in Timers, by \in {"loop", "other"} : Cancel(t, by)
  <2>1. UNCHANGED <<bufferVars, setting, timerHeap, repeatTimer, nextTimerID>>
    BY <1>10 DEF Tick, Expire, StartCallback, FinishCallback, Cancel, vars
  <2>2. \A y : Queued(y)' <=> Queued(y)
    BY <2>1, SameQueue
  <2> QED
    BY <2>1, <2>2
<1> QED
  BY <1>1, <1>2, <1>3, <1>4, <1>5, <1>6, <1>7, <1>8, <1>9, <1>10 DEF Next, Loop
-----------------------------------------------------------------------------
(* The runtime timer.                                                       *)

LEMMA LeastNat ==
    ASSUME NEW S \in SUBSET Nat, S # {}
    PROVE  \E x \in S : \A y \in S : x <= y
<1>1. PICK x \in S : \A y \in S : ~ (<<y, x>> \in OpToRel(<, Nat))
  BY WFMin, NatLessThanWellFounded
<1>2. ASSUME NEW y \in S
      PROVE  x <= y
  <2>1. y < x => <<y, x>> \in OpToRel(<, Nat)
    BY Zenon DEF OpToRel
  <2>2. ~ (y < x)
    BY <1>1, <2>1, Zenon
  <2> QED
    BY <2>2
<1> QED
  BY <1>2

(* A heap that is not empty has a top. *)
LEMMA TopExists ==
    ASSUME TypeOK, NEW heap \in SUBSET Timers, heap # {}
    PROVE  \E t \in heap : IsTop(t, heap) /\ \A u \in heap : fireTime[t] <= fireTime[u]
<1>1. \A t \in heap : fireTime[t] \in Nat /\ t \in Nat
  BY ItemFacts DEF TypeOK
<1> DEFINE deadlines == {fireTime[u] : u \in heap}
<1>2. deadlines \in SUBSET Nat /\ deadlines # {}
  BY <1>1
<1>3. PICK f \in deadlines : \A g \in deadlines : f <= g
  BY <1>2, LeastNat
<1>4. PICK v \in heap : fireTime[v] = f
  BY <1>3
<1> DEFINE firsts == {u \in heap : fireTime[u] = f}
<1>5. firsts \in SUBSET Nat /\ firsts # {}
  BY <1>1, <1>4
<1>6. PICK t \in firsts : \A u \in firsts : t <= u
  BY <1>5, LeastNat
<1>7. \A u \in heap : f <= fireTime[u] /\ (fireTime[u] = f => t <= u)
  BY <1>3, <1>6
<1> QED
  BY <1>1, <1>6, <1>7 DEF IsTop, Less

LEMMA FireQueued ==
    /\ FireUnderWay <=> expired > 0 \/ Queued(Fire)
    /\ FireUnderWay' <=> expired' > 0 \/ Queued(Fire)'
  BY DEF FireUnderWay, Queued, InGet, InPut

LEMMA TopInit == Init => TopIsArmed
  BY DEF Init, TopIsArmed

LEMMA TopStep ==
    ASSUME TypeOK, Known, TopIsArmed, [Next]_vars
    PROVE  TopIsArmed'
<1> USE FireQueued DEF TopIsArmed, clientVars, heapVars, runtimeVars, loopVars, cancelVars, historyVars
<1>0. BufferType /\ expired \in Nat
  BY DEF TypeOK, BufferType
<1>1. ASSUME NEW d \in Durations, NEW isRepeat \in BOOLEAN, Set(d, isRepeat)
      PROVE  TopIsArmed'
  <2>1. FireUnderWay' <=> FireUnderWay
    BY <1>1, SameQueue DEF Set
  <2>2. UNCHANGED <<timerHeap, armed, pc>>
    BY <1>1 DEF Set
  <2>3. \A t \in timerHeap : fireTime'[t] = fireTime[t]
    <3>1. \A t \in timerHeap : t \in Timers /\ t < nextTimerID /\ t \in Nat
      BY ItemFacts DEF Known, TypeOK
    <3>2. fireTime' = [fireTime EXCEPT ![nextTimerID] = now + d] /\ nextTimerID \in Nat
      BY <1>1 DEF Set, TypeOK
    <3> QED
      BY <3>1, <3>2 DEF TypeOK
  <2> QED
    BY <2>1, <2>2, <2>3
<1>2. CASE PushSet \/ PushRefresh \/ PushFire
  <2>1. PICK x \in Items : workBufferPut' = Append(workBufferPut, x) /\ workBufferGet' = workBufferGet
                           /\ (PushFire => x = Fire)
    <3>1. CASE PushSet
      <4>1. PICK t \in setting : workBufferPut' = Append(workBufferPut, t)
                                /\ workBufferGet' = workBufferGet /\ expired' = expired
        BY <3>1 DEF PushSet
      <4>2. t \in Items
        BY ItemFacts DEF TypeOK
      <4>3. ~PushFire
        BY <1>0, <4>1 DEF PushFire
      <4> QED
        BY <4>1, <4>2, <4>3
    <3>2. CASE PushRefresh
      <4>1. ~PushFire
        BY <1>0, <3>2 DEF PushFire, PushRefresh
      <4> QED
        BY <3>2, <4>1, ItemFacts DEF PushRefresh
    <3>3. CASE PushFire
      BY <3>3, ItemFacts DEF PushFire
    <3> QED
      BY <1>2, <3>1, <3>2, <3>3
  <2>2. \A y : Queued(y)' <=> Queued(y) \/ y = x
    BY <1>0, <2>1, PushQueued
  <2>3. UNCHANGED <<timerHeap, armed, pc, fireTime>> /\ (expired' = expired \/ PushFire)
    BY <1>2 DEF PushSet, PushRefresh, PushFire
  <2>4. FireUnderWay => FireUnderWay'
    BY <2>1, <2>2, <2>3
  <2> QED
    BY <2>3, <2>4
<1>3. CASE Expire
  <2>1. expired' > 0
    BY <1>0, <1>3 DEF Expire
  <2> QED
    BY <2>1
<1>4. CASE Swap \/ TakeRefresh
  <2>1. Queued(Fire) => Queued(Fire)'
    BY <1>0, <1>4, SwapQueued, RefreshQueued, ItemFacts
  <2>2. UNCHANGED <<timerHeap, armed, pc, fireTime, expired>>
    BY <1>4 DEF Swap, TakeRefresh
  <2> QED
    BY <2>1, <2>2
<1>5. ASSUME NEW t \in Timers, Insert(t)
      PROVE  TopIsArmed'
  <2>1. Queued(Fire) => Queued(Fire)'
    BY <1>5, TakeItem, ItemFacts DEF Insert
  <2>2. /\ UNCHANGED <<pc, fireTime, expired>> /\ pc = "loop"
        /\ timerHeap' = timerHeap \cup {t}
        /\ FireTimer({u \in timerHeap : IsTop(u, timerHeap)}, t)
    BY <1>5 DEF Insert, AtItem
  <2>3. \A u \in timerHeap \cup {t} : fireTime[u] \in Nat
    BY DEF TypeOK
  <2>4. CASE timerHeap = {}
    BY <2>2, <2>3, <2>4 DEF FireTimer
  <2>5. CASE timerHeap # {}
    <3>1. PICK u \in timerHeap : IsTop(u, timerHeap) /\ \A v \in timerHeap : fireTime[u] <= fireTime[v]
      BY <2>5, TopExists DEF TypeOK
    <3>2. CASE fireTime[u] < fireTime[t]
      <4>1. armed' = armed
        BY <2>2, <3>1, <3>2 DEF FireTimer
      <4>2. \A f \in armed : f \in Nat
        BY DEF TypeOK
      <4> QED
        BY <2>1, <2>2, <2>3, <3>1, <3>2, <4>1, <4>2
    <3>3. CASE ~(fireTime[u] < fireTime[t])
      <4>1. \A v \in timerHeap' : fireTime[t] <= fireTime[v]
        BY <2>2, <2>3, <3>1, <3>3
      <4>2. CASE armed' = {fireTime[t]}
        BY <2>2, <4>1, <4>2
      <4>3. CASE armed' # {fireTime[t]}
        <5>1. armed' = armed
          BY <2>2, <4>3 DEF FireTimer
        <5>2. PICK v \in timerHeap : IsTop(v, timerHeap) /\ fireTime[v] < fireTime[t]
          BY <2>2, <4>3 DEF FireTimer
        <5>3. FALSE
          BY <2>2, <2>3, <4>1, <5>2
        <5> QED
          BY <5>3
      <4> QED
        BY <4>2, <4>3
    <3> QED
      BY <3>2, <3>3
  <2> QED
    BY <2>4, <2>5
<1>6. CASE FinishTimer
  <2>1. CASE timerHeap' = {}
    BY <2>1
  <2>2. CASE timerHeap' # {}
    <3>1. PICK t \in timerHeap' : IsTop(t, timerHeap') /\ armed' = {fireTime[t]}
      BY <1>6, <2>2 DEF FinishTimer, FireTimer
    <3>2. \A u \in timerHeap' : fireTime[u] \in Nat
      BY <1>6 DEF FinishTimer, TypeOK
    <3>3. \A u \in timerHeap' : fireTime[t] <= fireTime[u]
      BY <3>1, <3>2 DEF IsTop, Less
    <3>4. fireTime' = fireTime
      BY <1>6 DEF FinishTimer
    <3> QED
      BY <3>1, <3>3, <3>4
  <2> QED
    BY <2>1, <2>2
<1>7. CASE HandleTimer \/ StartCallback \/ FinishCallback \/ \E t \in Timers : Pop(t)
  BY <1>7 DEF HandleTimer, StartCallback, FinishCallback, Pop
<1>8. ASSUME NEW t \in Timers, DropCancelled(t)
      PROVE  TopIsArmed'
  BY <1>8 DEF DropCancelled, IsDue
<1>9. CASE \/ Tick \/ UNCHANGED vars
           \/ \E t \in Timers, by \in {"loop", "other"} : Cancel(t, by)
  <2>1. UNCHANGED <<bufferVars, timerHeap, armed, pc, fireTime, expired>>
    BY <1>9 DEF Tick, Cancel, vars
  <2>2. FireUnderWay' <=> FireUnderWay
    BY <2>1, SameQueue
  <2> QED
    BY <2>1, <2>2
<1> QED
  BY <1>1, <1>2, <1>3, <1>4, <1>5, <1>6, <1>7, <1>8, <1>9 DEF Next, Loop

(* The loop never waits with a timer in its heap that nothing will wake it for:   *)
(* fireTimer (manager.go:278) leaves a runtime timer only if it comes earlier, and  *)
(* one that has expired is on its way through the buffers.                  *)
THEOREM TopArmed == Spec => []TopIsArmed
<1>1. TypeOK /\ Known /\ TopIsArmed /\ [Next]_vars => (TypeOK /\ Known /\ TopIsArmed)'
  BY TypeStep, KnownStep, TopStep
<1> QED
  BY <1>1, TypeInit, KnownInit, TopInit, PTL DEF Spec
-----------------------------------------------------------------------------
(* Cancel.  The callback of a cancelled timer is gone, but handleTimer may have    *)
(* read it before another goroutine cancelled.                              *)

CancelInv ==
    /\ \A t \in Timers :
        /\ cancelled[t] # "no" => ~callback[t] /\ t < nextTimerID
        /\ cancelled[t] = "no" => late[t] = 0
        /\ pc = "call" /\ t = current => cancelled[t] # "loop" /\ late[t] = 0
    /\ CancelHolds

LEMMA CancelInit == Init => CancelInv
  BY DEF Init, CancelInv, CancelHolds

LEMMA CancelStep ==
    ASSUME TypeOK, CancelInv, [Next]_vars
    PROVE  CancelInv'
<1> USE DEF CancelInv, CancelHolds, clientVars, bufferVars, heapVars, runtimeVars, loopVars, cancelVars,
            historyVars
<1>1. ASSUME NEW d \in Durations, NEW isRepeat \in BOOLEAN, Set(d, isRepeat)
      PROVE  CancelInv'
  <2>1. /\ nextTimerID \in Timers /\ nextTimerID \in Nat /\ nextTimerID' = nextTimerID + 1
        /\ callback' = [callback EXCEPT ![nextTimerID] = TRUE]
        /\ UNCHANGED <<cancelled, late, pc, current>>
    BY <1>1, ItemFacts DEF Set
  <2>2. \A t \in Timers : t \in Nat /\ (t # nextTimerID => callback'[t] = callback[t])
    BY <2>1, ItemFacts DEF TypeOK
  <2>3. cancelled[nextTimerID] = "no"
    BY <2>1
  <2>4. ASSUME NEW t \in Timers
        PROVE  cancelled[t] # "no" => ~callback'[t] /\ t < nextTimerID'
    BY <2>1, <2>2, <2>3
  <2> QED
    BY <2>1, <2>4
<1>2. ASSUME NEW t \in Timers, NEW by \in {"loop", "other"}, Cancel(t, by)
      PROVE  CancelInv'
  <2>1. /\ t < nextTimerID /\ cancelled[t] = "no" /\ late[t] = 0
        /\ by = "loop" => pc \in {"loop", "callback"}
        /\ callback' = [callback EXCEPT ![t] = FALSE]
        /\ cancelled' = [cancelled EXCEPT ![t] = by]
        /\ UNCHANGED <<nextTimerID, pc, current, late>>
    BY <1>2 DEF Cancel, IsSet
  <2>2. ASSUME NEW u \in Timers
        PROVE  IF u = t THEN ~callback'[u] /\ cancelled'[u] = by
               ELSE callback'[u] = callback[u] /\ cancelled'[u] = cancelled[u]
    BY <2>1 DEF TypeOK
  <2> QED
    BY <2>1, <2>2
<1>3. ASSUME NEW t \in Timers, Pop(t)
      PROVE  CancelInv'
  <2>1. /\ callback[t] /\ current' = t /\ pc' = "call"
        /\ callback' \in {callback, [callback EXCEPT ![t] = FALSE]}
        /\ UNCHANGED <<nextTimerID, cancelled, late>>
    BY <1>3 DEF Pop
  <2>2. cancelled[t] = "no" /\ late[t] = 0
    BY <2>1
  <2>3. \A u \in Timers : callback'[u] => callback[u]
    BY <2>1 DEF TypeOK
  <2>4. \A u \in Timers : cancelled'[u] # "no" => ~callback'[u] /\ u < nextTimerID'
    BY <2>1, <2>3
  <2> QED
    BY <2>1, <2>2, <2>4
<1>4. CASE StartCallback
  <2>1. /\ pc = "call" /\ pc' = "callback"
        /\ late' = IF cancelled[current] = "no" THEN late
                   ELSE [late EXCEPT ![current] = Least(@ + 1, 2)]
        /\ UNCHANGED <<nextTimerID, cancelled, callback, current>>
    BY <1>4 DEF StartCallback
  <2>2. ASSUME NEW t \in Timers
        PROVE  /\ cancelled[t] = "no" => late'[t] = 0
               /\ late'[t] <= IF cancelled[t] = "other" THEN 1 ELSE 0
    <3>1. CASE t = current /\ cancelled[t] # "no"
      <4>1. late[t] = 0 /\ cancelled[t] = "other"
        BY <2>1, <3>1 DEF TypeOK
      <4>2. late'[t] = Least(0 + 1, 2)
        BY <2>1, <3>1, <4>1 DEF TypeOK
      <4> QED
        BY <4>1, <4>2 DEF Least
    <3>2. CASE ~(t = current /\ cancelled[t] # "no")
      <4>1. late'[t] = late[t]
        BY <2>1, <3>2 DEF TypeOK
      <4> QED
        BY <4>1
    <3> QED
      BY <3>1, <3>2
  <2> QED
    BY <2>1, <2>2
<1>5. CASE FinishCallback \/ FinishTimer \/ HandleTimer
  <2>1. pc' # "call" /\ UNCHANGED <<nextTimerID, cancelled, callback, late>>
    BY <1>5 DEF FinishCallback, FinishTimer, HandleTimer
  <2> QED
    BY <2>1
<1>6. CASE \/ PushSet \/ PushRefresh \/ Tick \/ Expire \/ PushFire \/ Swap \/ TakeRefresh
           \/ (\E t \in Timers : Insert(t) \/ DropCancelled(t)) \/ UNCHANGED vars
  <2>1. UNCHANGED <<nextTimerID, cancelled, callback, late, pc, current>>
    BY <1>6 DEF PushSet, PushRefresh, Tick, Expire, PushFire, Swap, TakeRefresh, Insert,
                DropCancelled, vars
  <2> QED
    BY <2>1
<1> QED
  BY <1>1, <1>2, <1>3, <1>4, <1>5, <1>6 DEF Next, Loop

(* A Cancel on the loop (timer.go:21) is final, even in the middle of handleTimer;  *)
(* one by another goroutine lets through at most the callback that handleTimer   *)
(* has read already.                                                        *)
THEOREM CancelFinal == Spec => []CancelHolds
<1>1. CancelInv => CancelHolds
  BY DEF CancelInv
<1>2. TypeOK /\ CancelInv /\ [Next]_vars => (TypeOK /\ CancelInv)'
  BY TypeStep, CancelStep
<1> QED
  BY <1>1, <1>2, TypeInit, CancelInit, PTL DEF Spec
-----------------------------------------------------------------------------
(* The schedule.  The deadline of a timer that may still run lies at least one     *)
(* interval behind each run that has begun, however late these were.        *)

(* How many runs have begun; handleTimer is about to start one in "call". *)
Begun(t) == IF pc = "call" /\ current = t THEN runs[t] + 1 ELSE runs[t]

(* When the n-th run of t is due at the earliest. *)
Due(t, n) == created[t] + n * interval[t]

RunInv ==
    /\ started <= now
    /\ \A t \in Timers :
        /\ runs[t] <= MaxTime + 1
        /\ t >= nextTimerID => Begun(t) = 0 /\ ~callback[t] /\ ~repeat[t]
        /\ ~repeat[t] => Begun(t) <= IF callback[t] THEN 0 ELSE 1
        /\ Due(t, Begun(t)) <= now
        /\ repeat[t] \/ callback[t] => Due(t, Begun(t) + 1) <= fireTime[t]

LEMMA DueFacts ==
    ASSUME TypeOK, NEW t \in Timers, NEW n \in Nat
    PROVE  /\ Due(t, n) \in Nat
           /\ Due(t, 0) = created[t]
           /\ Due(t, n + 1) = Due(t, n) + interval[t]
<1>1. created[t] \in Nat /\ interval[t] \in Nat
  BY DEF TypeOK
<1>2. n * interval[t] \in Nat /\ 0 * interval[t] = 0
  BY <1>1
<1>3. (n + 1) * interval[t] = n * interval[t] + interval[t]
  BY <1>1
<1> QED
  BY <1>1, <1>2, <1>3 DEF Due

LEMMA BegunType ==
    ASSUME TypeOK, NEW t \in Timers
    PROVE  Begun(t) \in Nat /\ runs[t] \in Nat
  BY DEF TypeOK, Begun

LEMMA RunsFollow == ASSUME TypeOK, RunInv PROVE RunsOnSchedule
<1> SUFFICES ASSUME NEW t \in Timers
             PROVE  (~repeat[t] => runs[t] <= 1) /\ Due(t, runs[t]) <= now
  BY DEF RunsOnSchedule, Due
<1>1. runs[t] \in Nat /\ Begun(t) \in Nat /\ Begun(t) \in {runs[t], runs[t] + 1}
  BY BegunType DEF Begun
<1>2. Due(t, runs[t]) <= Due(t, Begun(t)) /\ Due(t, runs[t]) \in Nat /\ Due(t, Begun(t)) \in Nat
  <2>1. /\ \A n \in Nat : Due(t, n) \in Nat /\ Due(t, n + 1) = Due(t, n) + interval[t]
        /\ interval[t] \in Nat
    <3>1. interval[t] \in Nat
      BY DEF TypeOK
    <3> QED
      BY <3>1, DueFacts
  <2> QED
    BY <1>1, <2>1
<1>3. now \in Nat
  BY DEF TypeOK
<1> QED
  BY <1>1, <1>2, <1>3 DEF RunInv

LEMMA RunInit == Init => RunInv
<1> SUFFICES ASSUME Init PROVE RunInv
  OBVIOUS
<1>1. \A t \in Timers : Begun(t) = 0 /\ runs[t] = 0
  BY DEF Init, Begun
<1>2. \A t \in Timers : Due(t, 0) = 0
  <2>1. \A t \in Timers : created[t] = 0 /\ interval[t] = 0
    BY DEF Init
  <2> QED
    BY <2>1 DEF Due
<1> QED
  BY <1>1, <1>2, TimersAssumption DEF Init, RunInv

(* Steps that begin no run and set no timer. *)
LEMMA RunKept ==
    ASSUME TypeOK, RunInv, UNCHANGED <<runs, created, interval, repeat, nextTimerID, fireTime>>,
           \A t \in Timers : Begun(t)' = Begun(t),
           \A t \in Timers : callback'[t] => callback[t],
           started' <= now', now <= now', now' \in Nat
    PROVE  RunInv'
<1>1. \A t \in Timers : \A n : Due(t, n)' = Due(t, n)
  BY DEF Due
<1>2. \A t \in Timers : Begun(t) \in Nat /\ Due(t, Begun(t)) \in Nat /\ now \in Nat
  <2>1. now \in Nat
    BY DEF TypeOK
  <2>2. \A t \in Timers : Begun(t) \in Nat
    BY BegunType
  <2>3. \A t \in Timers : \A n \in Nat : Due(t, n) \in Nat
    BY DueFacts
  <2> QED
    BY <2>1, <2>2, <2>3
<1>3. ASSUME NEW t \in Timers
      PROVE  /\ runs'[t] <= MaxTime + 1
             /\ t >= nextTimerID' => Begun(t)' = 0 /\ ~callback'[t] /\ ~repeat'[t]
             /\ ~repeat'[t] => Begun(t)' <= IF callback'[t] THEN 0 ELSE 1
             /\ Due(t, Begun(t))' <= now'
             /\ repeat'[t] \/ callback'[t] => Due(t, Begun(t) + 1)' <= fireTime'[t]
  <2>1. Due(t, Begun(t))' = Due(t, Begun(t)) /\ Due(t, Begun(t) + 1)' = Due(t, Begun(t) + 1)
    BY <1>1 DEF Due
  <2> QED
    BY <1>2, <2>1 DEF RunInv
<1> QED
  BY <1>3 DEF RunInv

LEMMA RunSet ==
    ASSUME TypeOK, RunInv, NEW d \in Durations, NEW isRepeat \in BOOLEAN, Set(d, isRepeat)
    PROVE  RunInv'
<1> DEFINE s == nextTimerID
<1>1. /\ s \in Timers /\ s \in Nat /\ nextTimerID' = s + 1 /\ d \in Nat /\ now \in Nat
      /\ fireTime' = [fireTime EXCEPT ![s] = now + d]
      /\ interval' = [interval EXCEPT ![s] = d]
      /\ repeat' = [repeat EXCEPT ![s] = isRepeat]
      /\ callback' = [callback EXCEPT ![s] = TRUE]
      /\ created' = [created EXCEPT ![s] = now]
      /\ UNCHANGED <<now, pc, current, started, runs>>
  BY TimersAssumption, ItemFacts DEF Set, loopVars, historyVars, TypeOK
<1>2. Begun(s) = 0 /\ runs[s] = 0 /\ ~(pc = "call" /\ current = s)
  <2>1. Begun(s) = 0 /\ runs[s] \in Nat
    BY <1>1, BegunType DEF RunInv
  <2> QED
    BY <2>1 DEF Begun
<1>3. ASSUME NEW t \in Timers
      PROVE  /\ runs'[t] <= MaxTime + 1
             /\ t >= nextTimerID' => Begun(t)' = 0 /\ ~callback'[t] /\ ~repeat'[t]
             /\ ~repeat'[t] => Begun(t)' <= IF callback'[t] THEN 0 ELSE 1
             /\ Due(t, Begun(t))' <= now'
             /\ repeat'[t] \/ callback'[t] => Due(t, Begun(t) + 1)' <= fireTime'[t]
  <2>1. CASE t = s
    <3>1. Begun(t)' = 0 /\ runs'[t] = 0
      BY <1>1, <1>2, <2>1 DEF Begun
    <3>2. /\ created'[t] = now /\ interval'[t] = d /\ fireTime'[t] = now + d /\ callback'[t]
      BY <1>1, <2>1 DEF TypeOK
    <3>3. Due(t, Begun(t))' = now + 0 * d /\ Due(t, Begun(t) + 1)' = now + 1 * d
      BY <3>1, <3>2 DEF Due
    <3>4. 0 * d = 0 /\ 1 * d = d
      BY <1>1
    <3> QED
      BY <1>1, <2>1, <3>1, <3>2, <3>3, <3>4, TimersAssumption
  <2>2. CASE t # s
    <3>1. Begun(t)' = Begun(t) /\ runs'[t] = runs[t]
      BY <1>1 DEF Begun
    <3>2. /\ created'[t] = created[t] /\ interval'[t] = interval[t] /\ fireTime'[t] = fireTime[t]
          /\ callback'[t] = callback[t] /\ repeat'[t] = repeat[t]
      BY <1>1, <2>2 DEF TypeOK
    <3>3. Due(t, Begun(t))' = Due(t, Begun(t)) /\ Due(t, Begun(t) + 1)' = Due(t, Begun(t) + 1)
      BY <3>1, <3>2 DEF Due
    <3>4. t >= nextTimerID' => t >= s
      BY <1>1, ItemFacts
    <3> HIDE DEF s
    <3> QED
      BY <1>1, <3>1, <3>2, <3>3, <3>4 DEF RunInv, s
  <2> QED
    BY <2>1, <2>2
<1> QED
  BY <1>1, <1>3 DEF RunInv

LEMMA RunPop ==
    ASSUME TypeOK, Known, RunInv, NEW p \in Timers, Pop(p)
    PROVE  RunInv'
<1>1. /\ pc = "handle" /\ p \in timerHeap /\ fireTime[p] <= started /\ callback[p]
      /\ current' = p /\ pc' = "call"
      /\ UNCHANGED <<now, started, runs, created, interval, repeat, nextTimerID>>
  BY DEF Pop, IsDue, IsTop, clientVars, historyVars
<1>2. /\ p < nextTimerID /\ started <= now /\ now \in Nat /\ started \in Nat
      /\ \A t \in Timers : fireTime[t] \in Nat /\ interval[t] \in Nat /\ runs[t] \in Nat
  BY <1>1, TimersAssumption DEF Known, RunInv, TypeOK
<1>3. \A t \in Timers : Begun(t) = runs[t] /\ Begun(t)' = IF t = p THEN runs[t] + 1 ELSE runs[t]
  BY <1>1 DEF Begun
<1>4. \A t \in Timers : \A n \in Nat : Due(t, n) \in Nat /\ Due(t, n + 1) = Due(t, n) + interval[t]
  BY DueFacts
<1>5. \A t : \A n : Due(t, n)' = Due(t, n)
  BY <1>1 DEF Due
<1>6. ASSUME NEW t \in Timers, t # p
      PROVE  fireTime'[t] = fireTime[t] /\ callback'[t] = callback[t]
  BY <1>6 DEF Pop, TypeOK
<1>7. /\ repeat[p] => fireTime'[p] >= fireTime[p] + interval[p]
      /\ ~repeat[p] => ~callback'[p]
  <2>1. Later(p) >= fireTime[p] + interval[p]
    BY <1>2 DEF Later
  <2> QED
    BY <2>1 DEF Pop, TypeOK
<1>8. /\ Due(p, runs[p] + 1) <= fireTime[p] /\ runs[p] <= MaxTime + 1
      /\ ~repeat[p] => runs[p] = 0
  BY <1>1, <1>2, <1>3 DEF RunInv
<1>9. ASSUME NEW t \in Timers
      PROVE  /\ runs'[t] <= MaxTime + 1
             /\ t >= nextTimerID' => Begun(t)' = 0 /\ ~callback'[t] /\ ~repeat'[t]
             /\ ~repeat'[t] => Begun(t)' <= IF callback'[t] THEN 0 ELSE 1
             /\ Due(t, Begun(t))' <= now'
             /\ repeat'[t] \/ callback'[t] => Due(t, Begun(t) + 1)' <= fireTime'[t]
  <2>1. CASE t = p
    <3>1. Due(p, Begun(p))' = Due(p, runs[p] + 1)
          /\ Due(p, Begun(p) + 1)' = Due(p, runs[p] + 1) + interval[p]
      <4>1. Begun(p)' = runs[p] + 1 /\ runs[p] + 1 \in Nat
        BY <1>2, <1>3
      <4>2. Due(p, Begun(p))' = Due(p, Begun(p)') /\ Due(p, Begun(p) + 1)' = Due(p, Begun(p)' + 1)
        BY <1>1 DEF Due
      <4> QED
        BY <1>4, <4>1, <4>2
    <3>2. Due(p, runs[p] + 1) \in Nat
      BY <1>2, <1>4
    <3>3. p \in Nat /\ nextTimerID \in Nat
      BY ItemFacts DEF TypeOK
    <3>4. Begun(p)' = runs[p] + 1
      BY <1>3
    <3>5. /\ runs'[p] = runs[p] /\ repeat'[p] = repeat[p] /\ now' = now
          /\ nextTimerID' = nextTimerID
      BY <1>1
    <3>6. ~repeat'[p] => Begun(p)' <= IF callback'[p] THEN 0 ELSE 1
      BY <1>7, <1>8, <3>4, <3>5
    <3>7. Due(p, Begun(p))' <= now'
      BY <1>1, <1>2, <1>8, <3>1, <3>2, <3>5
    <3>8. repeat'[p] \/ callback'[p] => Due(p, Begun(p) + 1)' <= fireTime'[p]
      <4>1. SUFFICES ASSUME repeat[p]
                     PROVE  Due(p, Begun(p) + 1)' <= fireTime'[p]
        BY <1>7, <3>5
      <4>2. fireTime'[p] \in Nat /\ fireTime'[p] >= fireTime[p] + interval[p]
        <5>1. fireTime' = [fireTime EXCEPT ![p] = Later(p)]
          BY <4>1, Zenon DEF Pop
        <5>2. DOMAIN fireTime = Timers
          BY DEF TypeOK
        <5>3. fireTime'[p] = Later(p)
          BY <5>1, <5>2, Zenon
        <5>4. Later(p) \in Nat
          BY <1>2 DEF Later
        <5> QED
          BY <1>7, <4>1, <5>3, <5>4
      <4> QED
        BY <1>2, <1>8, <3>1, <3>2, <4>2
    <3> QED
      BY <1>2, <1>8, <2>1, <3>3, <3>5, <3>6, <3>7, <3>8
  <2>2. CASE t # p
    <3>1. Begun(t)' = Begun(t) /\ Due(t, Begun(t))' = Due(t, Begun(t))
          /\ Due(t, Begun(t) + 1)' = Due(t, Begun(t) + 1)
      BY <1>1, <1>3, <2>2 DEF Due
    <3> QED
      BY <1>1, <1>6, <2>2, <3>1 DEF RunInv
  <2> QED
    BY <2>1, <2>2
<1> QED
  BY <1>1, <1>2, <1>9 DEF RunInv

LEMMA RunStart ==
    ASSUME TypeOK, RunInv, StartCallback
    PROVE  RunInv'
<1>1. /\ pc = "call" /\ pc' = "callback"
      /\ runs' = [runs EXCEPT ![current] = Least(@ + 1, MaxTime + 1)]
      /\ UNCHANGED <<now, started, created, interval, repeat, nextTimerID, fireTime, callback, current>>
  BY DEF StartCallback, clientVars, heapVars, cancelVars
<1>2. now \in Nat /\ \A t \in Timers : interval[t] \in Nat /\ runs[t] \in Nat
  BY DEF TypeOK
<1>3. \A t \in Timers : \A n \in Nat : Due(t, n) \in Nat /\ Due(t, n + 1) = Due(t, n) + interval[t]
  BY DueFacts
<1>4. ASSUME NEW t \in Timers
      PROVE  /\ runs'[t] <= MaxTime + 1
             /\ t >= nextTimerID' => Begun(t)' = 0 /\ ~callback'[t] /\ ~repeat'[t]
             /\ ~repeat'[t] => Begun(t)' <= IF callback'[t] THEN 0 ELSE 1
             /\ Due(t, Begun(t))' <= now'
             /\ repeat'[t] \/ callback'[t] => Due(t, Begun(t) + 1)' <= fireTime'[t]
  <2>1. Begun(t)' = runs'[t]
    BY <1>1 DEF Begun
  <2>2. runs'[t] = Begun(t) \/ (runs'[t] + 1 = Begun(t) /\ runs'[t] = MaxTime + 1)
    <3>1. CASE t = current
      <4>1. runs'[t] = Least(runs[t] + 1, MaxTime + 1) /\ Begun(t) = runs[t] + 1
        BY <1>1, <3>1 DEF Begun, TypeOK
      <4>2. runs[t] <= MaxTime + 1
        BY DEF RunInv
      <4> QED
        BY <1>2, <4>1, <4>2, TimersAssumption DEF Least
    <3>2. CASE t # current
      BY <1>1, <3>2 DEF Begun, TypeOK
    <3> QED
      BY <3>1, <3>2
  <2>3. runs'[t] <= MaxTime + 1 /\ runs'[t] \in Nat
    <3>1. runs'[t] = runs[t] \/ runs'[t] = Least(runs[t] + 1, MaxTime + 1)
      BY <1>1 DEF TypeOK
    <3> QED
      BY <1>2, <3>1, TimersAssumption DEF Least, RunInv
  <2>4. Due(t, Begun(t))' = Due(t, runs'[t]) /\ Due(t, Begun(t) + 1)' = Due(t, runs'[t] + 1)
    BY <1>1, <2>1 DEF Due
  <2>5. /\ Due(t, runs'[t]) <= Due(t, Begun(t))
        /\ Due(t, runs'[t] + 1) <= Due(t, Begun(t) + 1)
        /\ Due(t, runs'[t]) \in Nat /\ Due(t, runs'[t] + 1) \in Nat
        /\ Due(t, Begun(t)) \in Nat /\ Due(t, Begun(t) + 1) \in Nat
    BY <1>2, <1>3, <2>2, <2>3
  <2>6. fireTime[t] \in Nat
    BY DEF TypeOK
  <2>7. runs'[t] <= Begun(t) /\ Begun(t) \in Nat
    BY <2>2, <2>3, BegunType
  <2> QED
    BY <1>1, <1>2, <2>1, <2>3, <2>4, <2>5, <2>6, <2>7 DEF RunInv
<1> QED
  BY <1>1, <1>4 DEF RunInv

LEMMA RunStep ==
    ASSUME TypeOK, Known, RunInv, [Next]_vars
    PROVE  RunInv'
<1> USE DEF clientVars, bufferVars, heapVars, runtimeVars, loopVars, cancelVars, historyVars
<1>0. now \in Nat /\ started \in Nat /\ started <= now
  BY DEF TypeOK, RunInv
<1>1. CASE Tick
  <2>1. now' = now + 1 /\ started' = started /\ callback' = callback
    BY <1>1 DEF Tick
  <2>2. \A t \in Timers : Begun(t)' = Begun(t)
    BY <1>1 DEF Tick, Begun
  <2>3. UNCHANGED <<runs, created, interval, repeat, nextTimerID, fireTime>>
    BY <1>1 DEF Tick
  <2>4. started' <= now' /\ now <= now' /\ now' \in Nat
    BY <1>0, <2>1
  <2> QED
    BY <2>1, <2>2, <2>3, <2>4, RunKept
<1>2. CASE HandleTimer \/ FinishCallback \/ FinishTimer
  <2>1. UNCHANGED <<runs, created, interval, repeat, nextTimerID, fireTime, callback, now>>
        /\ started' <= now'
    BY <1>0, <1>2 DEF HandleTimer, FinishCallback, FinishTimer
  <2>2. \A t \in Timers : Begun(t)' = Begun(t)
    BY <1>2 DEF HandleTimer, FinishCallback, FinishTimer, AtItem, Begun
  <2> QED
    BY <1>0, <2>1, <2>2, RunKept
<1>3. ASSUME NEW t \in Timers, NEW by \in {"loop", "other"}, Cancel(t, by)
      PROVE  RunInv'
  <2>1. /\ UNCHANGED <<runs, created, interval, repeat, nextTimerID, fireTime, now, started>>
        /\ callback' = [callback EXCEPT ![t] = FALSE]
    BY <1>3 DEF Cancel
  <2>2. \A u \in Timers : callback'[u] => callback[u]
    BY <2>1 DEF TypeOK
  <2>3. \A u \in Timers : Begun(u)' = Begun(u)
    BY <1>3 DEF Cancel, Begun
  <2> QED
    BY <1>0, <2>1, <2>2, <2>3, RunKept
<1>4. CASE \/ PushSet \/ PushRefresh \/ Expire \/ PushFire \/ Swap \/ TakeRefresh
           \/ (\E t \in Timers : Insert(t) \/ DropCancelled(t)) \/ UNCHANGED vars
  <2>1. UNCHANGED <<runs, created, interval, repeat, nextTimerID, fireTime, callback, now, started,
                    pc, current>>
    BY <1>4 DEF PushSet, PushRefresh, Expire, PushFire, Swap, TakeRefresh, Insert,
                DropCancelled, vars
  <2>2. \A t \in Timers : Begun(t)' = Begun(t)
    BY <2>1 DEF Begun
  <2> QED
    BY <1>0, <2>1, <2>2, RunKept
<1> QED
  BY <1>1, <1>2, <1>3, <1>4, RunSet, RunPop, RunStart DEF Next, Loop

(* A timeout runs at most once, and the k-th run of an interval not before k        *)
(* intervals have passed: handleTimer (manager.go:145) moves a deadline on by a    *)
(* whole interval at least, before the callback runs.                       *)
THEOREM OnSchedule == Spec => []RunsOnSchedule
<1>1. TypeOK /\ RunInv => RunsOnSchedule
  BY RunsFollow
<1>2. TypeOK /\ Known /\ RunInv /\ [Next]_vars => (TypeOK /\ Known /\ RunInv)'
  BY TypeStep, KnownStep, RunStep
<1> QED
  BY <1>1, <1>2, TypeInit, KnownInit, RunInit, PTL DEF Spec
-----------------------------------------------------------------------------
(* How many timer events there can be: every entry of the buffers that is no  *)
(* registration is a timer event or makes at most one, when its timer goes     *)
(* into the heap.                                                           *)

Entries(s) == {i \in 1..Len(s) : s[i] # Refresh}
Size(s) == Cardinality(Entries(s))

LEMMA SizeType ==
    ASSUME NEW s \in Seq(Items)
    PROVE  IsFiniteSet(Entries(s)) /\ Size(s) \in Nat
<1>1. IsFiniteSet(1..Len(s)) /\ Entries(s) \in SUBSET (1..Len(s))
  BY FS_Interval DEF Entries
<1> QED
  BY <1>1, FS_Subset, FS_CardinalityType DEF Size

LEMMA SizeConcat ==
    ASSUME NEW a \in Seq(Items), NEW b \in Seq(Items)
    PROVE  Size(a \o b) = Size(a) + Size(b)
<1> DEFINE n == Len(a)
           m == Len(b)
           T == {i \in 1..Len(a \o b) : i > n /\ (a \o b)[i] # Refresh}
<1>1. /\ n \in Nat /\ m \in Nat /\ Len(a \o b) = n + m
      /\ \A i \in 1..n : (a \o b)[i] = a[i]
      /\ \A i \in 1..m : (a \o b)[i + n] = b[i]
  BY ConcatProperties
<1>2. ExistsBijection(Entries(b), T)
  <2> DEFINE f == [i \in Entries(b) |-> i + n]
  <2>1. \A i \in Entries(b) : i \in 1..m /\ i + n \in T
    BY <1>1 DEF Entries
  <2>2. \A i, j \in Entries(b) : i + n = j + n => i = j
    BY <1>1 DEF Entries
  <2>3. \A k \in T : k - n \in Entries(b) /\ (k - n) + n = k
    <3>1. \A k \in T : k - n \in 1..m /\ (k - n) + n = k
      BY <1>1
    <3> QED
      BY <1>1, <3>1 DEF Entries
  <2>4. f \in Bijection(Entries(b), T)
    <3>1. f \in [Entries(b) -> T]
      BY <2>1
    <3>2. \A k \in T : \E i \in Entries(b) : f[i] = k
      BY <2>3
    <3> HIDE DEF T
    <3>3. \A i, j \in Entries(b) : f[i] = f[j] => i = j
      BY <2>2
    <3> QED
      BY <3>1, <3>2, <3>3 DEF Bijection, Injection, Surjection, IsInjective
  <2> QED
    BY <2>4 DEF ExistsBijection
<1>3. Entries(a \o b) = Entries(a) \cup T /\ Entries(a) \cap T = {}
  BY <1>1 DEF Entries
<1>4. IsFiniteSet(T) /\ Cardinality(T) = Size(b)
  BY <1>2, SizeType, FS_Bijection DEF Size
<1> HIDE DEF T
<1>5. Cardinality(Entries(a \o b))
          = Cardinality(Entries(a)) + Cardinality(T) - Cardinality({})
  BY <1>3, <1>4, SizeType, FS_Union
<1> QED
  BY <1>4, <1>5, SizeType, FS_EmptySet DEF Size

(* One entry more, and one less. *)
LEMMA SizeOne ==
    ASSUME NEW x \in Items
    PROVE  Size(<<x>>) = IF x = Refresh THEN 0 ELSE 1
<1>1. Entries(<<x>>) = IF x = Refresh THEN {} ELSE {1}
  BY DEF Entries
<1> QED
  BY <1>1, FS_EmptySet, FS_Singleton DEF Size

LEMMA SizeAppend ==
    ASSUME NEW s \in Seq(Items), NEW x \in Items
    PROVE  Size(Append(s, x)) = Size(s) + (IF x = Refresh THEN 0 ELSE 1)
<1>1. Append(s, x) = s \o <<x>> /\ <<x>> \in Seq(Items)
  BY AppendIsConcat
<1> QED
  BY <1>1, SizeConcat, SizeOne

LEMMA SizeTail ==
    ASSUME NEW s \in Seq(Items), s # <<>>
    PROVE  /\ Tail(s) \in Seq(Items)
           /\ Size(s) = Size(Tail(s)) + (IF Head(s) = Refresh THEN 0 ELSE 1)
<1>1. /\ Head(s) \in Items /\ Tail(s) \in Seq(Items) /\ <<Head(s)>> \in Seq(Items)
      /\ s = <<Head(s)>> \o Tail(s)
  BY HeadTailProperties
<1>2. Size(s) = Size(<<Head(s)>>) + Size(Tail(s))
  BY <1>1, SizeConcat
<1>3. Size(<<Head(s)>>) = IF Head(s) = Refresh THEN 0 ELSE 1
  BY <1>1, SizeOne
<1>4. Size(Tail(s)) \in Nat
  BY <1>1, SizeType
<1> QED
  BY <1>1, <1>2, <1>3, <1>4

Handling == IF pc = "loop" THEN 0 ELSE 1

AtMostOne(S) == \A x, y \in S : x = y

CountInv ==
    /\ AtMostOne(setting)
    /\ AtMostOne(armed)
    /\ Cardinality(setting) + Cardinality(armed) + expired + Handling
           + Size(workBufferGet) + Size(workBufferPut) < nextTimerID

LEMMA OneOrNone ==
    ASSUME NEW S, AtMostOne(S)
    PROVE  Cardinality(S) = IF S = {} THEN 0 ELSE 1
<1>1. S = {} \/ \E x : S = {x}
  BY DEF AtMostOne
<1> QED
  BY <1>1, FS_EmptySet, FS_Singleton

LEMMA CountTypes ==
    ASSUME TypeOK, CountInv
    PROVE  /\ Cardinality(setting) = (IF setting = {} THEN 0 ELSE 1)
           /\ Cardinality(armed) = (IF armed = {} THEN 0 ELSE 1)
           /\ Handling \in {0, 1} /\ expired \in Nat /\ nextTimerID \in Nat
           /\ Size(workBufferGet) \in Nat /\ Size(workBufferPut) \in Nat
<1>1. AtMostOne(setting) /\ AtMostOne(armed)
  BY DEF CountInv
<1>2. /\ Cardinality(setting) = (IF setting = {} THEN 0 ELSE 1)
      /\ Cardinality(armed) = (IF armed = {} THEN 0 ELSE 1)
  BY <1>1, OneOrNone
<1>3. Size(workBufferGet) \in Nat /\ Size(workBufferPut) \in Nat
  BY SizeType DEF TypeOK
<1> QED
  BY <1>2, <1>3 DEF TypeOK, Handling

LEMMA CountInit == Init => CountInv
<1> SUFFICES ASSUME Init PROVE CountInv
  OBVIOUS
<1>1. Entries(<<>>) = {}
  BY DEF Entries
<1> QED
  BY <1>1, FS_EmptySet DEF Init, CountInv, AtMostOne, Size, Handling

(* A step that leaves armed as it is, or arms for one deadline. *)
LEMMA OneArmed ==
    ASSUME CountInv, NEW f, armed' = armed \/ armed' = {f}
    PROVE  AtMostOne(armed') /\ Cardinality(armed') \in {0, 1}
<1>1. AtMostOne(armed')
  BY DEF CountInv, AtMostOne
<1> QED
  BY <1>1, OneOrNone

LEMMA CountStep ==
    ASSUME TypeOK, CountInv, [Next]_vars
    PROVE  CountInv'
<1> USE DEF clientVars, bufferVars, heapVars, runtimeVars, loopVars, cancelVars, historyVars
<1>0. TypeOK' /\ workBufferGet \in Seq(Items) /\ workBufferPut \in Seq(Items)
  BY TypeStep DEF TypeOK
<1>t. /\ Cardinality(setting) = (IF setting = {} THEN 0 ELSE 1)
      /\ Cardinality(armed) = (IF armed = {} THEN 0 ELSE 1)
      /\ Handling \in {0, 1} /\ expired \in Nat /\ nextTimerID \in Nat
      /\ Size(workBufferGet) \in Nat /\ Size(workBufferPut) \in Nat
  BY CountTypes
<1>1. ASSUME NEW d \in Durations, NEW isRepeat \in BOOLEAN, Set(d, isRepeat)
      PROVE  CountInv'
  <2>1. /\ setting = {} /\ setting' = {nextTimerID} /\ nextTimerID' = nextTimerID + 1
        /\ UNCHANGED <<armed, expired, pc, workBufferGet, workBufferPut>>
    BY <1>1 DEF Set
  <2>2. Cardinality(setting') = 1 /\ AtMostOne(setting') /\ Handling' = Handling
    BY <2>1, FS_Singleton DEF Handling, AtMostOne
  <2>3. Size(workBufferGet)' = Size(workBufferGet) /\ Size(workBufferPut)' = Size(workBufferPut)
    BY <2>1
  <2> QED
    BY <2>1, <2>2, <2>3, <1>t DEF CountInv
<1>2. CASE PushSet
  <2>1. PICK t \in setting : workBufferPut' = Append(workBufferPut, t) /\ setting' = {}
    BY <1>2 DEF PushSet
  <2>2. UNCHANGED <<nextTimerID, armed, expired, pc, workBufferGet>>
    BY <1>2 DEF PushSet
  <2>3. t \in Items /\ t # Refresh
    BY ItemFacts DEF TypeOK
  <2>4. Size(workBufferPut') = Size(workBufferPut) + 1
    BY <1>0, <2>1, <2>3, SizeAppend
  <2>5. /\ Cardinality(setting) = 1 /\ Cardinality(setting') = 0 /\ AtMostOne(setting')
        /\ Handling' = Handling /\ Size(workBufferGet') = Size(workBufferGet)
    BY <2>1, <2>2, <1>t, FS_EmptySet DEF Handling, AtMostOne
  <2>6. AtMostOne(armed') /\ Cardinality(armed') = Cardinality(armed)
    BY <2>2 DEF CountInv, AtMostOne
  <2>7. Cardinality(setting) + Cardinality(armed) + expired + Handling
           + Size(workBufferGet) + Size(workBufferPut) < nextTimerID
    BY DEF CountInv
  <2>8. Cardinality(setting') + Cardinality(armed') + expired' + Handling'
           + Size(workBufferGet') + Size(workBufferPut') < nextTimerID'
    <3>1. expired' = expired /\ nextTimerID' = nextTimerID
      BY <2>2
    <3> HIDE <2>1, <2>2
    <3> QED
      BY <2>4, <2>5, <2>6, <2>7, <3>1, <1>t
  <2> QED
    BY <2>5, <2>6, <2>8, Zenon DEF CountInv
<1>3. CASE PushRefresh
  <2>1. /\ workBufferPut' = Append(workBufferPut, Refresh)
        /\ UNCHANGED <<setting, nextTimerID, armed, expired, pc, workBufferGet>>
    BY <1>3 DEF PushRefresh
  <2>2. Size(workBufferPut') = Size(workBufferPut)
    BY <1>0, <2>1, SizeAppend, ItemFacts, <1>t
  <2> QED
    BY <2>1, <2>2 DEF CountInv, Handling
<1>4. CASE Expire
  <2>1. PICK f \in armed : armed' = {} /\ expired' = expired + 1
    BY <1>4 DEF Expire
  <2>2. UNCHANGED <<setting, nextTimerID, pc, workBufferGet, workBufferPut>>
    BY <1>4 DEF Expire
  <2>3. Cardinality(armed) = 1 /\ Cardinality(armed') = 0 /\ AtMostOne(armed')
    BY <2>1, <1>t, FS_EmptySet DEF AtMostOne
  <2> QED
    BY <2>1, <2>2, <2>3, <1>t DEF CountInv, Handling
<1>5. CASE PushFire
  <2>1. /\ workBufferPut' = Append(workBufferPut, Fire) /\ expired' = expired - 1
        /\ UNCHANGED <<setting, nextTimerID, armed, pc, workBufferGet>>
    BY <1>5 DEF PushFire
  <2>2. Size(workBufferPut') = Size(workBufferPut) + 1
    BY <1>0, <2>1, SizeAppend, ItemFacts
  <2> QED
    BY <2>1, <2>2, <1>t DEF CountInv, Handling
<1>6. CASE Swap
  <2>1. /\ workBufferGet = <<>> /\ workBufferGet' = workBufferPut /\ workBufferPut' = <<>>
        /\ UNCHANGED <<setting, nextTimerID, armed, expired, pc>>
    BY <1>6 DEF Swap
  <2>2. Size(workBufferGet') = Size(workBufferPut) /\ Size(workBufferPut') = Size(workBufferGet)
    BY <2>1
  <2> QED
    BY <2>1, <2>2, <1>t DEF CountInv, Handling
<1>7. CASE TakeRefresh
  <2>1. /\ workBufferGet # <<>> /\ Head(workBufferGet) = Refresh
        /\ workBufferPut' = workBufferPut \o Tail(workBufferGet) /\ workBufferGet' = <<>>
        /\ UNCHANGED <<setting, nextTimerID, armed, expired, pc>>
    BY <1>7 DEF TakeRefresh, AtItem
  <2>2. /\ Tail(workBufferGet) \in Seq(Items)
        /\ Size(workBufferGet) = Size(Tail(workBufferGet)) + 0
    BY <1>0, <2>1, SizeTail
  <2>3. Size(workBufferPut') = Size(workBufferPut) + Size(Tail(workBufferGet))
    BY <1>0, <2>1, <2>2, SizeConcat
  <2>4. Size(<<>>) = 0
    <3>1. Entries(<<>>) = {}
      BY DEF Entries
    <3> QED
      BY <3>1, FS_EmptySet DEF Size
  <2>5. Size(Tail(workBufferGet)) \in Nat
    BY <2>2, SizeType
  <2> QED
    BY <2>1, <2>2, <2>3, <2>4, <2>5, <1>t DEF CountInv, Handling
<1>8. ASSUME NEW t \in Timers, Insert(t)
      PROVE  CountInv'
  <2>1. /\ workBufferGet # <<>> /\ Head(workBufferGet) = t /\ workBufferGet' = Tail(workBufferGet)
        /\ armed' = armed \/ armed' = {fireTime[t]}
        /\ UNCHANGED <<setting, nextTimerID, expired, pc, workBufferPut>>
    BY <1>8 DEF Insert, AtItem, FireTimer
  <2>2. Size(workBufferGet) = Size(workBufferGet') + 1
    BY <1>0, <2>1, SizeTail, ItemFacts
  <2>3. AtMostOne(armed') /\ Cardinality(armed') \in {0, 1}
    BY <2>1, OneArmed
  <2>4. Size(workBufferGet') \in Nat
    BY <1>0, SizeType DEF TypeOK
  <2>5. UNCHANGED <<setting, nextTimerID, expired, Handling, workBufferPut>>
    BY <2>1 DEF Handling
  <2>6. CASE armed' = armed
    BY <2>2, <2>4, <2>5, <2>6, <1>t DEF CountInv
  <2>7. CASE armed' = {fireTime[t]}
    <3>1. Cardinality(armed') + Size(workBufferGet')
              <= Cardinality(armed) + Size(workBufferGet)
      BY <2>2, <2>3, <2>4, <1>t
    <3> HIDE <2>7
    <3> QED
      BY <2>2, <2>3, <2>4, <2>5, <3>1, <1>t DEF CountInv
  <2> QED
    BY <2>1, <2>6, <2>7
<1>9. CASE HandleTimer
  <2>1. /\ pc = "loop" /\ pc' = "handle"
        /\ workBufferGet # <<>> /\ Head(workBufferGet) = Fire /\ workBufferGet' = Tail(workBufferGet)
        /\ UNCHANGED <<setting, nextTimerID, armed, expired, workBufferPut>>
    BY <1>9 DEF HandleTimer, AtItem
  <2>2. Size(workBufferGet) = Size(workBufferGet') + 1
    BY <1>0, <2>1, SizeTail, ItemFacts
  <2>3. Size(workBufferGet') \in Nat
    BY <1>0, SizeType DEF TypeOK
  <2> QED
    BY <2>1, <2>2, <2>3, <1>t DEF CountInv, Handling
<1>10. CASE FinishTimer
  <2>1. /\ pc = "handle" /\ pc' = "loop"
        /\ UNCHANGED <<setting, nextTimerID, expired, workBufferGet, workBufferPut>>
        /\ armed' = armed \/ \E t \in timerHeap' : armed' = {fireTime[t]}
    BY <1>10 DEF FinishTimer, FireTimer
  <2>2. AtMostOne(armed') /\ Cardinality(armed') \in {0, 1}
    BY <2>1, OneArmed
  <2> QED
    BY <2>1, <2>2, <1>t DEF CountInv, Handling
<1>11. ASSUME UNCHANGED <<setting, nextTimerID, armed, expired, Handling, bufferVars>>
       PROVE  CountInv'
  BY <1>11 DEF CountInv
<1>12. ASSUME NEW t \in Timers, NEW by \in {"loop", "other"}, Cancel(t, by)
       PROVE  CountInv'
  BY <1>11, <1>12 DEF Cancel, Handling
<1>13. CASE Tick
  BY <1>11, <1>13 DEF Tick, Handling
<1>14. ASSUME NEW t \in Timers, DropCancelled(t) \/ Pop(t)
       PROVE  CountInv'
  BY <1>11, <1>14 DEF DropCancelled, Pop, IsDue, Handling
<1>15. CASE StartCallback \/ FinishCallback
  BY <1>11, <1>15 DEF StartCallback, FinishCallback, Handling
<1>16. CASE UNCHANGED vars
  BY <1>11, <1>16 DEF vars, Handling
<1> QED
  BY <1>1, <1>2, <1>3, <1>4, <1>5, <1>6, <1>7, <1>8, <1>9, <1>10, <1>12, <1>13, <1>14, <1>15,
     <1>16 DEF Next, Loop

LEMMA FiresAreEntries ==
    ASSUME NEW s \in Seq(Items)
    PROVE  /\ Cardinality({i \in 1..Len(s) : s[i] = Fire}) \in Nat
           /\ Cardinality({i \in 1..Len(s) : s[i] = Fire}) <= Size(s)
<1>1. {i \in 1..Len(s) : s[i] = Fire} \in SUBSET Entries(s)
  BY ItemFacts DEF Entries
<1> QED
  BY <1>1, SizeType, FS_Subset, FS_CardinalityType DEF Size

LEMMA CountBounds == TypeOK /\ CountInv => FireEventsBounded
<1> SUFFICES ASSUME TypeOK, CountInv PROVE FireEventsBounded
  OBVIOUS
<1>1. /\ workBufferGet \in Seq(Items) /\ workBufferPut \in Seq(Items)
  BY DEF TypeOK
<1>t. /\ Cardinality(setting) = (IF setting = {} THEN 0 ELSE 1)
      /\ Cardinality(armed) = (IF armed = {} THEN 0 ELSE 1)
      /\ Handling \in {0, 1} /\ expired \in Nat /\ nextTimerID \in Nat
      /\ Size(workBufferGet) \in Nat /\ Size(workBufferPut) \in Nat
  BY CountTypes
<1> DEFINE G == Cardinality({i \in 1..Len(workBufferGet) : workBufferGet[i] = Fire})
           P == Cardinality({i \in 1..Len(workBufferPut) : workBufferPut[i] = Fire})
<1>2. G \in Nat /\ P \in Nat /\ G <= Size(workBufferGet) /\ P <= Size(workBufferPut)
  BY <1>1, FiresAreEntries
<1> HIDE DEF G, P
<1>3. Cardinality(armed) + expired + Handling + G + P < nextTimerID
  BY <1>2, <1>t DEF CountInv
<1> QED
  BY <1>3 DEF FireEventsBounded, Handling, G, P

(* However late the loop is and however short the intervals are, timer events do    *)
(* not pile up: each one, armed, expired, queued or being handled, stands for a     *)
(* timer that was set (fireTimer, manager.go:278, stops the one before).         *)
THEOREM FewFireEvents == Spec => []FireEventsBounded
  BY TypeInit, TypeStep, CountInit, CountStep, CountBounds, PTL DEF Spec
-----------------------------------------------------------------------------
(* The order of timeouts with the same deadline.  A timer that waits in front of  *)
(* another, or is still to be pushed, holds back that one: until it is in the     *)
(* heap, the other is not.  In the heap Less decides.                        *)

InOrder(s, t, u) == \A i, j \in 1..Len(s) : s[i] = u /\ s[j] = t => j < i

(* u is not ahead of t in the buffers. *)
QueueOrder(t, u) ==
    /\ InOrder(workBufferGet, t, u)
    /\ InOrder(workBufferPut, t, u)
    /\ ~(InGet(u) /\ InPut(t))

Held(t) == Queued(t) \/ t \in setting

(* The loop has dealt with t, or the timer is cancelled. *)
Over(t) == Begun(t) > 0 \/ cancelled[t] # "no"

(* What is known of a timeout. *)
TimeoutOK(t) ==
    t < nextTimerID /\ ~repeat[t] =>
        /\ Held(t) \/ t \in timerHeap \/ Over(t)
        /\ callback[t] \/ Over(t)

PairOK(t, u) ==
    t < u /\ <<t, u>> \notin overtaken =>
        /\ QueueOrder(t, u)
        /\ Held(t) => u \notin timerHeap \cup repeatTimer /\ Begun(u) = 0
        /\ Begun(u) > 0 /\ ~repeat[t] /\ ~repeat[u] /\ fireTime[t] = fireTime[u]
             => runs[t] > 0 \/ cancelled[t] # "no"

LastSet == \A t \in setting : nextTimerID = t + 1

OrderInv ==
    /\ LastSet
    /\ \A t \in Timers : TimeoutOK(t)
    /\ \A t, u \in Timers : PairOK(t, u)

LEMMA OrderFollows == ASSUME TypeOK, OrderInv PROVE SameDeadlineOrder
<1> SUFFICES ASSUME NEW t \in Timers, NEW u \in Timers, t < u, ~repeat[t], ~repeat[u],
                    fireTime[t] = fireTime[u], <<t, u>> \notin overtaken, runs[u] > 0
             PROVE  runs[t] > 0 \/ cancelled[t] # "no"
  BY DEF SameDeadlineOrder
<1>1. Begun(u) > 0
  BY BegunType DEF Begun
<1> QED
  BY <1>1 DEF OrderInv, PairOK

LEMMA OrderInit == Init => OrderInv
<1> SUFFICES ASSUME Init PROVE OrderInv
  OBVIOUS
<1>1. Len(workBufferGet) = 0 /\ Len(workBufferPut) = 0
  BY DEF Init
<1>2. \A t, u : QueueOrder(t, u) /\ ~Queued(t)
  BY <1>1 DEF QueueOrder, InOrder, Queued, InGet, InPut
<1>3. LastSet /\ \A t \in Timers : ~Held(t) /\ ~(t < nextTimerID) /\ Begun(t) = 0
  BY <1>2, ItemFacts DEF Init, Held, Begun, LastSet, Timers
<1> QED
  BY <1>2, <1>3 DEF OrderInv, TimeoutOK, PairOK

(* The order of the buffers after a push, a swap, a take and a refresh.       *)
LEMMA PushOrder ==
    ASSUME BufferType, NEW x \in Items, workBufferPut' = Append(workBufferPut, x),
           workBufferGet' = workBufferGet, NEW t, NEW u, t # u, QueueOrder(t, u),
           x = t => ~Queued(u)
    PROVE  QueueOrder(t, u)'
<1> DEFINE n == Len(workBufferPut)
<1>1. /\ n \in Nat /\ Len(workBufferPut') = n + 1 /\ workBufferPut'[n + 1] = x
      /\ \A i \in 1..n : workBufferPut'[i] = workBufferPut[i]
  BY DEF BufferType
<1>2. /\ InOrder(workBufferGet, t, u) /\ InOrder(workBufferPut, t, u) /\ ~(InGet(u) /\ InPut(t))
  BY DEF QueueOrder
<1>3. InOrder(workBufferPut', t, u)
  <2> SUFFICES ASSUME NEW i \in 1..(n + 1), NEW j \in 1..(n + 1),
                      workBufferPut'[i] = u, workBufferPut'[j] = t
               PROVE  j < i
    BY <1>1 DEF InOrder
  <2>1. i \in 1..n \/ i = n + 1
    BY <1>1
  <2>2. j \in 1..n \/ j = n + 1
    BY <1>1
  <2>3. CASE i \in 1..n /\ j \in 1..n
    BY <1>1, <1>2, <2>3 DEF InOrder
  <2>4. CASE i \in 1..n /\ j = n + 1
    <3>1. x = t /\ workBufferPut[i] = u
      BY <1>1, <2>4
    <3>2. Queued(u)
      BY <2>4, <3>1 DEF Queued, InPut
    <3> QED
      BY <3>1, <3>2
  <2>5. CASE i = n + 1
    <3>1. j # n + 1
      BY <1>1, <2>5
    <3> QED
      BY <1>1, <2>2, <2>5, <3>1
  <2> QED
    BY <2>1, <2>2, <2>3, <2>4, <2>5
<1>4. InGet(u)' <=> InGet(u)
  BY DEF InGet
<1>5. InPut(t)' => InPut(t) \/ x = t
  <2> SUFFICES ASSUME NEW i \in 1..(n + 1), workBufferPut'[i] = t
               PROVE  InPut(t) \/ x = t
    BY <1>1 DEF InPut
  <2>1. i \in 1..n \/ i = n + 1
    BY <1>1
  <2> QED
    BY <1>1, <2>1 DEF InPut
<1> QED
  BY <1>2, <1>3, <1>4, <1>5 DEF QueueOrder, Queued

LEMMA SwapOrder ==
    ASSUME Swap, NEW t, NEW u, QueueOrder(t, u)
    PROVE  QueueOrder(t, u)'
<1>1. workBufferGet' = workBufferPut /\ workBufferPut' = <<>> /\ Len(<<>>) = 0
  BY DEF Swap
<1>2. InOrder(workBufferGet', t, u) /\ InOrder(workBufferPut', t, u)
  BY <1>1 DEF QueueOrder, InOrder
<1>3. ~InPut(t)'
  BY <1>1 DEF InPut
<1> QED
  BY <1>2, <1>3 DEF QueueOrder

LEMMA TakeOrder ==
    ASSUME BufferType, workBufferGet # <<>>, workBufferGet' = Tail(workBufferGet),
           workBufferPut' = workBufferPut, NEW t, NEW u, t # u, QueueOrder(t, u)
    PROVE  /\ QueueOrder(t, u)'
           /\ Head(workBufferGet) = u => ~Queued(t)
<1> DEFINE n == Len(workBufferGet)
<1>1. /\ n \in Nat /\ n > 0
      /\ Len(workBufferGet') = n - 1
      /\ \A i \in 1..(n - 1) : workBufferGet'[i] = workBufferGet[i + 1]
      /\ Head(workBufferGet) = workBufferGet[1]
  BY HeadTailProperties, EmptySeq DEF BufferType
<1>2. /\ InOrder(workBufferGet, t, u) /\ InOrder(workBufferPut, t, u) /\ ~(InGet(u) /\ InPut(t))
  BY DEF QueueOrder
<1>3. InOrder(workBufferGet', t, u)
  <2> SUFFICES ASSUME NEW i \in 1..(n - 1), NEW j \in 1..(n - 1),
                      workBufferGet'[i] = u, workBufferGet'[j] = t
               PROVE  j < i
    BY <1>1 DEF InOrder
  <2>1. /\ i + 1 \in 1..n /\ j + 1 \in 1..n
        /\ workBufferGet[i + 1] = u /\ workBufferGet[j + 1] = t
    BY <1>1
  <2>2. j + 1 < i + 1
    BY <1>2, <2>1 DEF InOrder
  <2> QED
    BY <2>2
<1>4. InGet(u)' => InGet(u)
  <2> SUFFICES ASSUME NEW i \in 1..(n - 1), workBufferGet'[i] = u
               PROVE  i + 1 \in 1..n /\ workBufferGet[i + 1] = u
    BY <1>1 DEF InGet
  <2> QED
    BY <1>1
<1>5. InPut(t)' <=> InPut(t)
  BY DEF InPut
<1>6. ASSUME Head(workBufferGet) = u
      PROVE  ~Queued(t)
  <2>1. 1 \in 1..n /\ workBufferGet[1] = u
    BY <1>1, <1>6
  <2>2. InGet(u)
    BY <2>1 DEF InGet
  <2>3. ASSUME NEW j \in 1..n, workBufferGet[j] = t
        PROVE  FALSE
    <3>1. j < 1
      BY <1>2, <2>1, <2>3 DEF InOrder
    <3> QED
      BY <3>1
  <2> QED
    BY <1>2, <2>2, <2>3 DEF Queued, InGet
<1> QED
  BY <1>2, <1>3, <1>4, <1>5, <1>6 DEF QueueOrder

LEMMA RefreshOrder ==
    ASSUME BufferType, TakeRefresh, NEW t \in Timers, NEW u \in Timers, QueueOrder(t, u),
           <<t, u>> \notin overtaken'
    PROVE  QueueOrder(t, u)' /\ <<t, u>> \notin overtaken
<1> DEFINE n == Len(workBufferGet)
           p == Len(workBufferPut)
           rest == Tail(workBufferGet)
<1>1. /\ workBufferGet # <<>> /\ workBufferPut' = workBufferPut \o rest /\ workBufferGet' = <<>>
      /\ overtaken' = overtaken \cup (Waiting(workBufferGet) \X Waiting(workBufferPut))
  BY DEF TakeRefresh, AtItem
<1>2. /\ n \in Nat /\ n > 0 /\ rest \in Seq(Items) /\ Len(rest) = n - 1
      /\ \A i \in 1..(n - 1) : rest[i] = workBufferGet[i + 1]
  BY <1>1, HeadTailProperties, EmptySeq DEF BufferType
<1>3. /\ p \in Nat /\ Len(workBufferPut') = p + (n - 1)
      /\ \A i \in 1..(p + (n - 1)) :
            workBufferPut'[i] = IF i <= p THEN workBufferPut[i] ELSE rest[i - p]
  BY <1>1, <1>2, ConcatProperties DEF BufferType
<1>4. InOrder(workBufferGet, t, u) /\ InOrder(workBufferPut, t, u)
  BY DEF QueueOrder
<1>5. <<t, u>> \notin overtaken /\ ~(InGet(t) /\ InPut(u))
  BY <1>1 DEF Waiting, InGet, InPut
<1>g. /\ \A i \in 1..n : workBufferGet[i] = t => InGet(t)
      /\ \A i \in 1..p : workBufferPut[i] = u => InPut(u)
  BY DEF InGet, InPut
<1>o. /\ \A i, j \in 1..n : workBufferGet[i] = u /\ workBufferGet[j] = t => j < i
      /\ \A i, j \in 1..p : workBufferPut[i] = u /\ workBufferPut[j] = t => j < i
  BY <1>4 DEF InOrder
<1>6. InOrder(workBufferPut', t, u)
  <2> SUFFICES ASSUME NEW i \in 1..(p + (n - 1)), NEW j \in 1..(p + (n - 1)),
                      workBufferPut'[i] = u, workBufferPut'[j] = t
               PROVE  j < i
    BY <1>3 DEF InOrder
  <2> HIDE DEF n, p, rest
  <2>1. i \in 1..p => workBufferPut[i] = u
    BY <1>3
  <2>2. i \notin 1..p => i - p + 1 \in 1..n /\ workBufferGet[i - p + 1] = u
    BY <1>2, <1>3
  <2>3. j \in 1..p => workBufferPut[j] = t
    BY <1>3
  <2>4. j \notin 1..p => j - p + 1 \in 1..n /\ workBufferGet[j - p + 1] = t
    BY <1>2, <1>3
  <2>5. CASE i \in 1..p /\ j \in 1..p
    BY <1>o, <2>1, <2>3, <2>5
  <2>6. CASE i \in 1..p /\ j \notin 1..p
    BY <1>5, <1>g, <2>1, <2>4, <2>6
  <2>7. CASE i \notin 1..p /\ j \in 1..p
    BY <1>3, <2>7
  <2>8. CASE i \notin 1..p /\ j \notin 1..p
    <3>1. j - p + 1 < i - p + 1
      BY <1>o, <2>2, <2>4, <2>8
    <3> QED
      BY <1>3, <3>1
  <2> QED
    BY <2>5, <2>6, <2>7, <2>8
<1>7. InOrder(workBufferGet', t, u) /\ ~InGet(u)'
  BY <1>1 DEF InOrder, InGet
<1> QED
  BY <1>5, <1>6, <1>7 DEF QueueOrder

(* Steps that leave the heap and the deadlines as they are. *)
LEMMA OrderKept ==
    ASSUME TypeOK, TypeOK', OrderInv,
           UNCHANGED <<nextTimerID, setting, repeat, fireTime, timerHeap, repeatTimer>>,
           \A t \in Timers :
              /\ Queued(t)' <=> Queued(t)
              /\ Begun(t)' > 0 <=> Begun(t) > 0
              /\ runs[t] > 0 => runs'[t] > 0
              /\ cancelled[t] # "no" => cancelled'[t] # "no"
              /\ callback[t] => callback'[t] \/ cancelled'[t] # "no",
           \A t, u \in Timers :
              t # u /\ <<t, u>> \notin overtaken' /\ QueueOrder(t, u) =>
                  QueueOrder(t, u)' /\ <<t, u>> \notin overtaken,
           overtaken \subseteq overtaken'
    PROVE  OrderInv'
<1>1. LastSet'
  BY DEF OrderInv, LastSet
<1>2. \A t \in Timers : (Held(t)' <=> Held(t)) /\ (Over(t) => Over(t)')
  BY DEF Held, Over
<1>3. ASSUME NEW t \in Timers
      PROVE  TimeoutOK(t)'
  <2>1. TimeoutOK(t)
    BY DEF OrderInv
  <2>2. callback[t] => callback'[t] \/ Over(t)'
    BY DEF Over
  <2> QED
    BY <1>2, <2>1, <2>2 DEF TimeoutOK
<1>4. ASSUME NEW t \in Timers, NEW u \in Timers, t < u, <<t, u>> \notin overtaken'
      PROVE  /\ QueueOrder(t, u)'
             /\ Held(t)' => u \notin timerHeap' \cup repeatTimer' /\ Begun(u)' = 0
             /\ Begun(u)' > 0 /\ ~repeat'[t] /\ ~repeat'[u] /\ fireTime'[t] = fireTime'[u]
                  => runs'[t] > 0 \/ cancelled'[t] # "no"
  <2>1. <<t, u>> \notin overtaken /\ t # u
    BY <1>4, ItemFacts
  <2>2. /\ QueueOrder(t, u)
        /\ Held(t) => u \notin timerHeap \cup repeatTimer /\ Begun(u) = 0
        /\ Begun(u) > 0 /\ ~repeat[t] /\ ~repeat[u] /\ fireTime[t] = fireTime[u]
             => runs[t] > 0 \/ cancelled[t] # "no"
    BY <1>4, <2>1 DEF OrderInv, PairOK
  <2>3. QueueOrder(t, u)'
    BY <1>4, <2>1, <2>2
  <2>4. Begun(u)' \in Nat /\ Begun(u) \in Nat
    <3>1. Begun(u) \in Nat
      BY BegunType
    <3>2. runs'[u] \in Nat
      BY DEF TypeOK
    <3>3. Begun(u)' = runs'[u] + 1 \/ Begun(u)' = runs'[u]
      BY DEF Begun
    <3> QED
      BY <3>1, <3>2, <3>3
  <2>5. Begun(u) = 0 => Begun(u)' = 0
    <3>1. Begun(u)' > 0 <=> Begun(u) > 0
      OBVIOUS
    <3> QED
      BY <2>4, <3>1
  <2> QED
    BY <1>2, <2>2, <2>3, <2>5
<1> QED
  BY <1>1, <1>3, <1>4 DEF OrderInv, PairOK

(* The numbers and buffers that an action does not touch. *)
LEMMA SameOrder ==
    UNCHANGED bufferVars => \A t, u : QueueOrder(t, u)' <=> QueueOrder(t, u)
  BY DEF bufferVars, QueueOrder, InOrder, InGet, InPut

LEMMA OrderSet ==
    ASSUME TypeOK, Known, RunInv, OrderInv, NEW d \in Durations, NEW isRepeat \in BOOLEAN,
           Set(d, isRepeat)
    PROVE  OrderInv'
<1> DEFINE s == nextTimerID
<1>1. /\ s \in Timers /\ s \in Nat /\ nextTimerID' = s + 1 /\ setting = {} /\ setting' = {s}
      /\ fireTime' = [fireTime EXCEPT ![s] = now + d]
      /\ repeat' = [repeat EXCEPT ![s] = isRepeat]
      /\ callback' = [callback EXCEPT ![s] = TRUE]
      /\ UNCHANGED <<bufferVars, timerHeap, repeatTimer, pc, current, cancelled, runs, overtaken>>
  BY ItemFacts DEF Set, loopVars, historyVars
<1>2. \A t \in Timers : /\ t \in Nat
                        /\ t # s => /\ fireTime'[t] = fireTime[t] /\ repeat'[t] = repeat[t]
                                    /\ callback'[t] = callback[t]
                        /\ callback'[s]
  BY <1>1, ItemFacts DEF TypeOK
<1>3. \A t : (Queued(t)' <=> Queued(t)) /\ Begun(t)' = Begun(t)
  BY <1>1, SameQueue DEF Begun
<1>4. \A t \in Timers : (Held(t)' <=> Queued(t) \/ t = s) /\ (Held(t) <=> Queued(t))
                       /\ (Over(t)' <=> Over(t))
  BY <1>1, <1>3 DEF Held, Over
<1>5. \A t, u : QueueOrder(t, u)' <=> QueueOrder(t, u)
  BY <1>1, SameOrder
<1>6. LastSet'
  BY <1>1 DEF LastSet
<1>7. \A u \in Timers : u >= s => u \notin timerHeap \cup repeatTimer /\ Begun(u) = 0
  BY <1>1, <1>2 DEF Known, RunInv
<1> HIDE DEF s
<1>8. ASSUME NEW t \in Timers
      PROVE  TimeoutOK(t)'
  <2>1. CASE t = s
    BY <1>2, <1>4, <2>1 DEF TimeoutOK
  <2>2. CASE t # s
    <3>1. t < nextTimerID' => t < s
      BY <1>1, <1>2, <2>2
    <3>2. TimeoutOK(t)
      BY DEF OrderInv
    <3> QED
      BY <1>1, <1>2, <1>4, <2>2, <3>1, <3>2 DEF TimeoutOK, s
  <2> QED
    BY <2>1, <2>2
<1>9. ASSUME NEW t \in Timers, NEW u \in Timers, t < u, <<t, u>> \notin overtaken'
      PROVE  /\ QueueOrder(t, u)'
             /\ Held(t)' => u \notin timerHeap' \cup repeatTimer' /\ Begun(u)' = 0
             /\ Begun(u)' > 0 /\ ~repeat'[t] /\ ~repeat'[u] /\ fireTime'[t] = fireTime'[u]
                  => runs'[t] > 0 \/ cancelled'[t] # "no"
  <2>1. /\ QueueOrder(t, u)
        /\ Held(t) => u \notin timerHeap \cup repeatTimer /\ Begun(u) = 0
        /\ Begun(u) > 0 /\ ~repeat[t] /\ ~repeat[u] /\ fireTime[t] = fireTime[u]
             => runs[t] > 0 \/ cancelled[t] # "no"
    BY <1>1, <1>9 DEF OrderInv, PairOK
  <2>2. CASE u >= s
    <3>1. u \notin timerHeap \cup repeatTimer /\ Begun(u) = 0
      BY <1>7, <2>2
    <3> QED
      BY <1>1, <1>3, <1>5, <2>1, <3>1
  <2>3. CASE u < s
    <3>1. t # s /\ u # s
      BY <1>1, <1>2, <1>9, <2>3
    <3> QED
      BY <1>1, <1>2, <1>3, <1>4, <1>5, <2>1, <3>1
  <2> QED
    BY <1>1, <1>2, <2>2, <2>3
<1> QED
  BY <1>6, <1>8, <1>9 DEF OrderInv, PairOK

LEMMA OrderPushSet ==
    ASSUME TypeOK, Known, OrderInv, PushSet
    PROVE  OrderInv'
<1>0. BufferType
  BY DEF TypeOK, BufferType
<1>1. PICK s \in setting : workBufferPut' = Append(workBufferPut, s)
  BY DEF PushSet
<1>2. /\ setting' = {} /\ workBufferGet' = workBufferGet
      /\ UNCHANGED <<nextTimerID, repeat, heapVars, loopVars, cancelVars, historyVars>>
  BY DEF PushSet
<1>3. /\ s \in Timers /\ s \in Items /\ s \in Nat /\ nextTimerID = s + 1
      /\ \A t \in setting : t = s
  <2>1. \A t \in setting : t \in Timers /\ t \in Items /\ t \in Nat /\ nextTimerID = t + 1
    BY ItemFacts DEF TypeOK, OrderInv, LastSet
  <2> QED
    BY <2>1
<1>4. \A t : Queued(t)' <=> Queued(t) \/ t = s
  BY <1>0, <1>1, <1>2, <1>3, PushQueued
<1>5. \A t : Begun(t)' = Begun(t)
  BY <1>2 DEF Begun, loopVars, historyVars
<1>6. \A t \in Timers : (Held(t)' <=> Held(t)) /\ (Over(t)' <=> Over(t))
  BY <1>1, <1>2, <1>3, <1>4, <1>5 DEF Held, Over, cancelVars
<1>7. ASSUME NEW t \in Timers
      PROVE  TimeoutOK(t)'
  BY <1>2, <1>6 DEF OrderInv, TimeoutOK, heapVars, cancelVars
<1>8. ASSUME NEW t \in Timers, NEW u \in Timers, PairOK(t, u)
      PROVE  PairOK(t, u)'
  <2>1. SUFFICES ASSUME t < u, <<t, u>> \notin overtaken'
                 PROVE  /\ QueueOrder(t, u)'
                        /\ Held(t)' => u \notin timerHeap' \cup repeatTimer' /\ Begun(u)' = 0
                        /\ Begun(u)' > 0 /\ ~repeat'[t] /\ ~repeat'[u] /\ fireTime'[t] = fireTime'[u]
                             => runs'[t] > 0 \/ cancelled'[t] # "no"
    BY DEF PairOK
  <2>2. /\ QueueOrder(t, u)
        /\ Held(t) => u \notin timerHeap \cup repeatTimer /\ Begun(u) = 0
        /\ Begun(u) > 0 /\ ~repeat[t] /\ ~repeat[u] /\ fireTime[t] = fireTime[u]
             => runs[t] > 0 \/ cancelled[t] # "no"
    BY <1>2, <1>8, <2>1 DEF PairOK, historyVars
  <2>3. s = t => ~Queued(u)
    BY <1>3, <2>1, ItemFacts DEF Known
  <2>4. QueueOrder(t, u)'
    <3>1. t # u
      BY <2>1, ItemFacts
    <3> QED
      BY <1>0, <1>1, <1>2, <1>3, <2>2, <2>3, <3>1, PushOrder
  <2> QED
    BY <1>2, <1>5, <1>6, <2>2, <2>4 DEF heapVars, cancelVars, historyVars
<1> QED
  BY <1>2, <1>7, <1>8 DEF OrderInv, LastSet

LEMMA OrderInsert ==
    ASSUME TypeOK, Known, OrderInv, NEW x \in Timers, Insert(x)
    PROVE  OrderInv'
<1>0. BufferType
  BY DEF TypeOK, BufferType
<1>1. /\ AtItem(x) /\ workBufferGet # <<>> /\ Head(workBufferGet) = x
      /\ workBufferGet' = Tail(workBufferGet) /\ workBufferPut' = workBufferPut
      /\ timerHeap' = timerHeap \cup {x}
      /\ UNCHANGED <<clientVars, fireTime, repeatTimer, loopVars, cancelVars, historyVars>>
  BY DEF Insert, AtItem
<1>2. /\ Queued(x)
      /\ \A y : Queued(y)' => Queued(y)
      /\ \A y : Queued(y) => Queued(y)' \/ y = x
  BY <1>1, TakeItem
<1>3. \A t : Begun(t)' = Begun(t)
  BY <1>1 DEF Begun, loopVars, historyVars
<1>4. \A t \in Timers : (Held(t)' => Held(t)) /\ (Held(t) => Held(t)' \/ t = x) /\ (Over(t)' <=> Over(t))
  BY <1>1, <1>2, <1>3 DEF Held, Over, clientVars, cancelVars
<1>5. ASSUME NEW t \in Timers
      PROVE  TimeoutOK(t)'
  BY <1>1, <1>4 DEF OrderInv, TimeoutOK, clientVars, cancelVars
<1>6. ASSUME NEW t \in Timers, NEW u \in Timers, PairOK(t, u)
      PROVE  PairOK(t, u)'
  <2>1. SUFFICES ASSUME t < u, <<t, u>> \notin overtaken'
                 PROVE  /\ QueueOrder(t, u)'
                        /\ Held(t)' => u \notin timerHeap' \cup repeatTimer' /\ Begun(u)' = 0
                        /\ Begun(u)' > 0 /\ ~repeat'[t] /\ ~repeat'[u] /\ fireTime'[t] = fireTime'[u]
                             => runs'[t] > 0 \/ cancelled'[t] # "no"
    BY DEF PairOK
  <2>2. /\ QueueOrder(t, u)
        /\ Held(t) => u \notin timerHeap \cup repeatTimer /\ Begun(u) = 0
        /\ Begun(u) > 0 /\ ~repeat[t] /\ ~repeat[u] /\ fireTime[t] = fireTime[u]
             => runs[t] > 0 \/ cancelled[t] # "no"
    BY <1>1, <1>6, <2>1 DEF PairOK, historyVars
  <2>3. QueueOrder(t, u)' /\ (x = u => ~Queued(t))
    <3>1. t # u
      BY <2>1, ItemFacts
    <3> QED
      BY <1>0, <1>1, <2>2, <3>1, TakeOrder
  <2>4. x = u => t \notin setting
    <3>1. SUFFICES ASSUME x = u, t \in setting PROVE FALSE
      OBVIOUS
    <3>2. nextTimerID = t + 1 /\ u < nextTimerID
      BY <1>2, <3>1 DEF OrderInv, LastSet, Known
    <3> QED
      BY <2>1, <3>2, ItemFacts
  <2>5. Held(t)' => u # x
    BY <1>4, <2>3, <2>4 DEF Held
  <2> QED
    BY <1>1, <1>3, <1>4, <2>2, <2>3, <2>5 DEF clientVars, cancelVars, historyVars
<1> QED
  BY <1>1, <1>5, <1>6 DEF OrderInv, LastSet, clientVars

LEMMA OrderDrop ==
    ASSUME TypeOK, OrderInv, NEW x \in Timers, DropCancelled(x)
    PROVE  OrderInv'
<1>1. /\ ~callback[x] /\ timerHeap' = timerHeap \ {x}
      /\ UNCHANGED <<clientVars, bufferVars, fireTime, repeatTimer, loopVars, cancelVars, historyVars>>
  BY DEF DropCancelled
<1>2. /\ \A t : (Queued(t)' <=> Queued(t)) /\ Begun(t)' = Begun(t)
      /\ \A t, u : QueueOrder(t, u)' <=> QueueOrder(t, u)
  BY <1>1, SameQueue, SameOrder DEF Begun, loopVars, historyVars
<1>3. \A t \in Timers : (Held(t)' <=> Held(t)) /\ (Over(t)' <=> Over(t))
  BY <1>1, <1>2 DEF Held, Over, clientVars, cancelVars
<1>4. ASSUME NEW t \in Timers
      PROVE  TimeoutOK(t)'
  BY <1>1, <1>3 DEF OrderInv, TimeoutOK, clientVars, cancelVars
<1>5. ASSUME NEW t \in Timers, NEW u \in Timers, PairOK(t, u)
      PROVE  PairOK(t, u)'
  <2>1. UNCHANGED <<repeat, fireTime, cancelled, runs, overtaken>>
    BY <1>1 DEF clientVars, cancelVars, historyVars
  <2>2. timerHeap' \cup repeatTimer' \subseteq timerHeap \cup repeatTimer
    BY <1>1
  <2>3. /\ QueueOrder(t, u)' <=> QueueOrder(t, u)
        /\ Held(t)' <=> Held(t)
        /\ Begun(u)' = Begun(u)
    BY <1>2, <1>3
  <2> QED
    BY <1>5, <2>1, <2>2, <2>3 DEF PairOK
<1> QED
  BY <1>1, <1>4, <1>5 DEF OrderInv, LastSet, clientVars

LEMMA OrderPop ==
    ASSUME TypeOK, Known, OrderInv, NEW x \in Timers, Pop(x)
    PROVE  OrderInv'
<1>1. /\ pc = "handle" /\ pc' = "call" /\ current' = x /\ callback[x]
      /\ x \in timerHeap /\ IsTop(x, timerHeap) /\ timerHeap' = timerHeap \ {x}
      /\ repeatTimer' \subseteq repeatTimer \cup {x}
      /\ UNCHANGED <<clientVars, bufferVars, cancelled, historyVars>>
  BY DEF Pop, IsDue, IsTop
<1>2. /\ \A t \in Timers : t # x => fireTime'[t] = fireTime[t] /\ callback'[t] = callback[t]
      /\ ~repeat[x] => fireTime'[x] = fireTime[x]
  BY DEF Pop, TypeOK
<1>3. \A t \in Timers : /\ Begun(t) = runs[t] /\ runs[t] \in Nat
                        /\ Begun(t)' = IF t = x THEN runs[t] + 1 ELSE runs[t]
  BY <1>1 DEF Begun, historyVars, TypeOK
<1>4. /\ \A t : Queued(t)' <=> Queued(t)
      /\ \A t, u : QueueOrder(t, u)' <=> QueueOrder(t, u)
  BY <1>1, SameQueue, SameOrder
<1>5. \A t \in Timers : (Held(t)' <=> Held(t)) /\ (Over(t) => Over(t)') /\ Over(x)'
  <2>1. \A t \in Timers : (Begun(t) > 0 => Begun(t)' > 0) /\ Begun(x)' > 0
    BY <1>3
  <2> QED
    BY <1>1, <1>4, <2>1 DEF Held, Over, clientVars
<1>6. ASSUME NEW t \in Timers
      PROVE  TimeoutOK(t)'
  <2>1. CASE t = x
    BY <1>5, <2>1 DEF TimeoutOK
  <2>2. CASE t # x
    BY <1>1, <1>2, <1>5, <2>2 DEF OrderInv, TimeoutOK, clientVars
  <2> QED
    BY <2>1, <2>2
<1>7. ASSUME NEW t \in Timers, NEW u \in Timers, PairOK(t, u)
      PROVE  PairOK(t, u)'
  <2>1. SUFFICES ASSUME t < u, <<t, u>> \notin overtaken'
                 PROVE  /\ QueueOrder(t, u)'
                        /\ Held(t)' => u \notin timerHeap' \cup repeatTimer' /\ Begun(u)' = 0
                        /\ Begun(u)' > 0 /\ ~repeat'[t] /\ ~repeat'[u] /\ fireTime'[t] = fireTime'[u]
                             => runs'[t] > 0 \/ cancelled'[t] # "no"
    BY DEF PairOK
  <2>2. /\ QueueOrder(t, u)
        /\ Held(t) => u \notin timerHeap \cup repeatTimer /\ Begun(u) = 0
        /\ Begun(u) > 0 /\ ~repeat[t] /\ ~repeat[u] /\ fireTime[t] = fireTime[u]
             => runs[t] > 0 \/ cancelled[t] # "no"
    BY <1>1, <1>7, <2>1 DEF PairOK, historyVars
  <2>3. Held(t)' => u # x /\ u \notin timerHeap' \cup repeatTimer' /\ Begun(u)' = 0
    BY <1>1, <1>3, <1>5, <2>2
  <2>4. ASSUME Begun(u)' > 0, ~repeat'[t], ~repeat'[u], fireTime'[t] = fireTime'[u]
        PROVE  runs'[t] > 0 \/ cancelled'[t] # "no"
    <3>1. ~repeat[t] /\ ~repeat[u] /\ fireTime[t] = fireTime[u]
      BY <1>1, <1>2, <2>4 DEF clientVars
    <3>2. CASE u # x
      BY <1>1, <1>3, <2>2, <2>4, <3>1, <3>2 DEF historyVars
    <3>3. CASE u = x
      <4>1. ~Held(t)
        BY <1>1, <2>2, <3>3
      <4>2. t < nextTimerID
        <5>1. u < nextTimerID
          BY <1>1, <3>3 DEF Known
        <5> QED
          BY <2>1, <5>1, ItemFacts DEF TypeOK
      <4>3. t \notin timerHeap
        <5>1. SUFFICES ASSUME t \in timerHeap PROVE FALSE
          OBVIOUS
        <5>2. t # x /\ Less(x, t)
          BY <1>1, <2>1, <3>3, <5>1, ItemFacts DEF IsTop
        <5>3. fireTime[t] \in Nat /\ fireTime[u] \in Nat
          BY DEF TypeOK
        <5> QED
          BY <2>1, <3>1, <3>3, <5>2, <5>3, ItemFacts DEF Less
      <4>4. TimeoutOK(t)
        BY DEF OrderInv
      <4>5. Over(t)
        BY <3>1, <4>1, <4>2, <4>3, <4>4 DEF TimeoutOK
      <4> QED
        BY <1>1, <1>3, <4>5 DEF Over, historyVars
    <3> QED
      BY <3>2, <3>3
  <2> QED
    BY <1>4, <2>2, <2>3, <2>4
<1> QED
  BY <1>1, <1>6, <1>7 DEF OrderInv, LastSet, clientVars

LEMMA OrderFinish ==
    ASSUME TypeOK, OrderInv, FinishTimer
    PROVE  OrderInv'
<1>1. /\ timerHeap' = timerHeap \cup repeatTimer /\ repeatTimer' = {}
      /\ pc = "handle" /\ pc' = "loop" /\ UNCHANGED <<clientVars, bufferVars, fireTime, cancelVars, historyVars>>
  BY DEF FinishTimer
<1>2. /\ \A t : (Queued(t)' <=> Queued(t)) /\ Begun(t)' = Begun(t)
      /\ \A t, u : QueueOrder(t, u)' <=> QueueOrder(t, u)
  BY <1>1, SameQueue, SameOrder DEF Begun, historyVars
<1>3. \A t \in Timers : (Held(t)' <=> Held(t)) /\ (Over(t)' <=> Over(t))
  BY <1>1, <1>2 DEF Held, Over, clientVars, cancelVars
<1>4. ASSUME NEW t \in Timers
      PROVE  TimeoutOK(t)'
  BY <1>1, <1>3 DEF OrderInv, TimeoutOK, clientVars, cancelVars
<1>5. ASSUME NEW t \in Timers, NEW u \in Timers, PairOK(t, u)
      PROVE  PairOK(t, u)'
  <2>1. UNCHANGED <<repeat, fireTime, cancelled, runs, overtaken>>
    BY <1>1 DEF clientVars, cancelVars, historyVars
  <2>2. timerHeap' \cup repeatTimer' \subseteq timerHeap \cup repeatTimer
    BY <1>1
  <2>3. /\ QueueOrder(t, u)' <=> QueueOrder(t, u)
        /\ Held(t)' <=> Held(t)
        /\ Begun(u)' = Begun(u)
    BY <1>2, <1>3
  <2> QED
    BY <1>5, <2>1, <2>2, <2>3 DEF PairOK
<1> QED
  BY <1>1, <1>4, <1>5 DEF OrderInv, LastSet, clientVars

LEMMA OrderStep ==
    ASSUME TypeOK, Known, RunInv, OrderInv, [Next]_vars
    PROVE  OrderInv'
<1> USE DEF clientVars, heapVars, runtimeVars, loopVars, cancelVars, historyVars
<1>0. BufferType /\ TypeOK'
  BY TypeStep DEF TypeOK, BufferType
<1>n. \A t, u \in Timers : t # u => t # Fire /\ t # Refresh
  BY ItemFacts
<1>1. ASSUME UNCHANGED <<nextTimerID, setting, repeat, timerHeap, fireTime, repeatTimer, pc, current,
                         callback, cancelled, historyVars, bufferVars>>
      PROVE  OrderInv'
  <2>1. \A t : (Queued(t)' <=> Queued(t)) /\ Begun(t)' = Begun(t)
    BY <1>1, SameQueue DEF Begun
  <2>2. \A t, u : QueueOrder(t, u)' <=> QueueOrder(t, u)
    BY <1>1, SameOrder
  <2> QED
    BY <1>0, <1>1, <2>1, <2>2, OrderKept
<1>2. CASE PushRefresh \/ PushFire
  <2>1. PICK x \in {Refresh, Fire} : workBufferPut' = Append(workBufferPut, x)
    BY <1>2 DEF PushRefresh, PushFire
  <2>2. /\ workBufferGet' = workBufferGet
        /\ UNCHANGED <<nextTimerID, setting, repeat, heapVars, loopVars, cancelVars, historyVars>>
    BY <1>2 DEF PushRefresh, PushFire
  <2>3. x \in Items /\ x \notin Timers
    BY <2>1, ItemFacts
  <2>4. \A t \in Timers : Queued(t)' <=> Queued(t)
    BY <1>0, <2>1, <2>2, <2>3, PushQueued
  <2>5. \A t \in Timers : Begun(t)' = Begun(t)
    BY <2>2 DEF Begun
  <2>6. \A t, u \in Timers : t # u /\ QueueOrder(t, u) => QueueOrder(t, u)'
    <3> SUFFICES ASSUME NEW t \in Timers, NEW u \in Timers, t # u, QueueOrder(t, u)
                 PROVE  QueueOrder(t, u)'
      OBVIOUS
    <3>1. x # t
      BY <2>3
    <3> QED
      BY <1>0, <2>1, <2>2, <2>3, <3>1, PushOrder
  <2> QED
    BY <1>0, <2>2, <2>4, <2>5, <2>6, OrderKept
<1>3. CASE Swap
  <2>1. UNCHANGED <<nextTimerID, setting, repeat, heapVars, loopVars, cancelVars, historyVars>>
    BY <1>3 DEF Swap
  <2>2. \A t \in Timers : (Queued(t)' <=> Queued(t)) /\ Begun(t)' = Begun(t)
    BY <1>0, <1>3, <2>1, SwapQueued DEF Begun
  <2>3. \A t, u \in Timers : QueueOrder(t, u) => QueueOrder(t, u)'
    BY <1>3, SwapOrder
  <2> QED
    BY <1>0, <2>1, <2>2, <2>3, OrderKept
<1>4. CASE TakeRefresh
  <2>1. UNCHANGED <<nextTimerID, setting, repeat, heapVars, loopVars, cancelVars, runs>>
        /\ overtaken \subseteq overtaken'
    BY <1>4 DEF TakeRefresh
  <2>2. \A t \in Timers : (Queued(t)' <=> Queued(t)) /\ Begun(t)' = Begun(t)
    BY <1>0, <1>4, <2>1, RefreshQueued, ItemFacts DEF Begun
  <2>3. \A t, u \in Timers :
           <<t, u>> \notin overtaken' /\ QueueOrder(t, u) =>
               QueueOrder(t, u)' /\ <<t, u>> \notin overtaken
    BY <1>0, <1>4, RefreshOrder
  <2> QED
    BY <1>0, <2>1, <2>2, <2>3, OrderKept
<1>5. CASE HandleTimer
  <2>1. /\ UNCHANGED <<nextTimerID, setting, repeat, heapVars, current, cancelVars, historyVars>>
        /\ AtItem(Fire) /\ workBufferGet' = Tail(workBufferGet) /\ workBufferPut' = workBufferPut
        /\ pc = "loop" /\ pc' = "handle" /\ workBufferGet # <<>>
    BY <1>5 DEF HandleTimer, AtItem
  <2>2. \A t \in Timers : (Queued(t)' <=> Queued(t)) /\ Begun(t)' = Begun(t)
    <3>1. /\ \A y : Queued(y)' => Queued(y)
          /\ \A y : Queued(y) => Queued(y)' \/ y = Fire
      BY <2>1, TakeItem
    <3> QED
      BY <2>1, <3>1, ItemFacts DEF Begun
  <2>3. \A t, u \in Timers : t # u /\ QueueOrder(t, u) => QueueOrder(t, u)'
    BY <1>0, <2>1, TakeOrder
  <2> QED
    BY <1>0, <2>1, <2>2, <2>3, OrderKept
<1>6. ASSUME NEW x \in Timers, NEW by \in {"loop", "other"}, Cancel(x, by)
      PROVE  OrderInv'
  <2>1. /\ UNCHANGED <<nextTimerID, setting, repeat, bufferVars, heapVars, loopVars, historyVars>>
        /\ callback' = [callback EXCEPT ![x] = FALSE]
        /\ cancelled' = [cancelled EXCEPT ![x] = by]
    BY <1>6 DEF Cancel
  <2>2. \A t : (Queued(t)' <=> Queued(t)) /\ Begun(t)' = Begun(t)
    BY <2>1, SameQueue DEF Begun
  <2>3. \A t, u : QueueOrder(t, u)' <=> QueueOrder(t, u)
    BY <2>1, SameOrder
  <2>4. \A t \in Timers : /\ cancelled[t] # "no" => cancelled'[t] # "no"
                         /\ callback[t] => callback'[t] \/ cancelled'[t] # "no"
    BY <2>1 DEF TypeOK
  <2> QED
    BY <1>0, <2>1, <2>2, <2>3, <2>4, OrderKept
<1>7. CASE StartCallback
  <2>1. /\ UNCHANGED <<nextTimerID, setting, repeat, bufferVars, heapVars, current, cancelVars, overtaken>>
        /\ pc = "call" /\ pc' = "callback"
        /\ runs' = [runs EXCEPT ![current] = Least(@ + 1, MaxTime + 1)]
    BY <1>7 DEF StartCallback
  <2>2. \A t : Queued(t)' <=> Queued(t)
    BY <2>1, SameQueue
  <2>3. \A t, u : QueueOrder(t, u)' <=> QueueOrder(t, u)
    BY <2>1, SameOrder
  <2>4. ASSUME NEW t \in Timers
        PROVE  (Begun(t)' > 0 <=> Begun(t) > 0) /\ (runs[t] > 0 => runs'[t] > 0)
    <3>1. runs[t] \in Nat /\ Least(runs[t] + 1, MaxTime + 1) > 0
      BY TimersAssumption DEF TypeOK, Least
    <3>2. CASE t = current
      <4>1. runs'[t] = Least(runs[t] + 1, MaxTime + 1)
        BY <2>1, <3>2 DEF TypeOK
      <4> QED
        BY <2>1, <3>1, <3>2, <4>1 DEF Begun
    <3>3. CASE t # current
      <4>1. runs'[t] = runs[t]
        BY <2>1, <3>3 DEF TypeOK
      <4> QED
        BY <2>1, <3>3, <4>1 DEF Begun
    <3> QED
      BY <3>2, <3>3
  <2> QED
    BY <1>0, <2>1, <2>2, <2>3, <2>4, OrderKept
<1>8. CASE FinishCallback
  <2>1. /\ UNCHANGED <<nextTimerID, setting, repeat, bufferVars, heapVars, current, cancelVars, historyVars>>
        /\ pc = "callback" /\ pc' = "handle"
    BY <1>8 DEF FinishCallback
  <2>2. \A t : (Queued(t)' <=> Queued(t)) /\ Begun(t)' = Begun(t)
    BY <2>1, SameQueue DEF Begun
  <2>3. \A t, u : QueueOrder(t, u)' <=> QueueOrder(t, u)
    BY <2>1, SameOrder
  <2> QED
    BY <1>0, <2>1, <2>2, <2>3, OrderKept
<1>9. CASE Tick \/ Expire \/ UNCHANGED vars
  BY <1>1, <1>9 DEF Tick, Expire, vars
<1> QED
  BY <1>2, <1>3, <1>4, <1>5, <1>6, <1>7, <1>8, <1>9, OrderSet, OrderPushSet, OrderInsert, OrderDrop,
     OrderPop, OrderFinish DEF Next, Loop

(* Timeouts with the same deadline run in the order in which they were set, unless   *)
(* one is cancelled or a refresh has put it behind the other in the buffers:         *)
(* timerMutex keeps the pushes in order, Less (timer.go:40) the heap.            *)
THEOREM InOrderOfSetting == Spec => []SameDeadlineOrder
<1>1. TypeOK /\ OrderInv => SameDeadlineOrder
  BY OrderFollows
<1>2. TypeOK /\ Known /\ RunInv /\ OrderInv /\ [Next]_vars => (TypeOK /\ Known /\ RunInv /\ OrderInv)'
  BY TypeStep, KnownStep, RunStep, OrderStep
<1> QED
  BY <1>1, <1>2, TypeInit, KnownInit, RunInit, OrderInit, PTL DEF Spec
=============================================================================
