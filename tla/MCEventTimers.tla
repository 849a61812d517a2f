---------------------------- MODULE MCEventTimers ----------------------------
(* Two timers for the liveness run, with a bound on what the clients do.  It     *)
(* stops only steps that need not happen (Set, PushRefresh, Cancel), so that    *)
(* those of Fairness stay enabled as they are in EventTimers.               *)
EXTENDS EventTimers

Cancelled == {t \in Timers : cancelled[t] # "no"}

SetSoFar == {t \in Timers : t < nextTimerID}

(* Bound: one Cancel; and of two timers one with the duration zero only if       *)
(* nothing is cancelled or refreshed.                                       *)
ClientBound ==
    /\ Cardinality(Cancelled) <= 1
    /\ \/ \A t \in SetSoFar : interval[t] > 0
       \/ Cardinality(SetSoFar) <= 1
       \/ Cancelled = {} /\ refreshes = 0

MCNext == Next /\ ClientBound'

MCFairSpec == Init /\ [][MCNext]_vars /\ Fairness
=============================================================================
