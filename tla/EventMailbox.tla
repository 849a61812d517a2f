---------------------------- MODULE EventMailbox ----------------------------
(***************************************************************************)
(* What an EventManager promises to the goroutines that use it, with no    *)
(* buffer, lock, worker or Serve loop: an event that was posted is served   *)
(* at most once, by a version of the dispatcher that was not yet outdated   *)
(* when the event was posted, and a CallEvent that comes back with a        *)
(* response comes back after its own event was served.  The order of the    *)
(* service is deliberately left open.  EventLoop.tla implements this.       *)
(***************************************************************************)
EXTENDS Naturals

CONSTANTS Clients,      \* the events that may be posted
          Callers       \* those posted by CallEvent, which wait for a response

VARIABLES versions,     \* how many versions the dispatcher has had
          changing,     \* a RegisterEvent / UnregisterEvent has not returned yet
          floor,        \* [Clients -> Nat] oldest version that may serve it, 0: not posted
          server,       \* [Clients -> Nat] version that served it, 0: not served
          answered      \* the callers whose CallEvent returned a response

mailbox == <<versions, changing, floor, server, answered>>

Init == /\ versions = 1
        /\ changing = FALSE
        /\ floor = [c \in Clients |-> 0]
        /\ server = [c \in Clients |-> 0]
        /\ answered = {}

(* The newest version whose registration call has returned. *)
Settled == IF changing THEN versions - 1 ELSE versions

Post(c) == /\ floor[c] = 0
           /\ floor' = [floor EXCEPT ![c] = Settled]
           /\ UNCHANGED <<versions, changing, server, answered>>

BeginChange == /\ ~changing
               /\ versions' = versions + 1
               /\ changing' = TRUE
               /\ UNCHANGED <<floor, server, answered>>

EndChange == /\ changing
             /\ changing' = FALSE
             /\ UNCHANGED <<versions, floor, server, answered>>

Serve(c) == /\ floor[c] # 0
            /\ server[c] = 0
            /\ \E v \in floor[c]..versions : server' = [server EXCEPT ![c] = v]
            /\ UNCHANGED <<versions, changing, floor, answered>>

Answer(c) == /\ server[c] # 0
             /\ c \notin answered
             /\ answered' = answered \cup {c}
             /\ UNCHANGED <<versions, changing, floor, server>>

Next == \/ BeginChange
        \/ EndChange
        \/ \E c \in Clients : Post(c) \/ Serve(c)
        \/ \E c \in Callers : Answer(c)

Spec == Init /\ [][Next]_mailbox
=============================================================================
