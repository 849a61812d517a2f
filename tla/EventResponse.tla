---------------------------- MODULE EventResponse ----------------------------
(***************************************************************************)
(* One named event of event/event.go from the handler's side and from        *)
(* CallEvent's: Response writes responseData, then responseErr, then sets    *)
(* responseFlag; CallEvent polls the flag and then reads the two fields.     *)
(* The loop runs the handler; a callback may call Response, and may hand the *)
(* event to another goroutine which calls it later; RegisterEvent's closure  *)
(* and the recover of handleEvent call it too.  The i-th call of Response    *)
(* writes i in each field, so that one sees which call a field is from.      *)
(***************************************************************************)
EXTENDS Naturals

CONSTANT MaxResponses   \* bound: calls of Response, the first ones by callbacks

ASSUME ResponsesAssumption == MaxResponses \in Nat

Goroutines == {"loop", "other"}

VARIABLES
    handler,        \* what the dispatcher has: "none", "wrapped", "raw"
    loopPC,         \* "dispatch", "callback", "last" (the final Response), "done"
    handedOver,     \* the callback gave the event to the other goroutine
    responses,      \* calls of Response so far
    responding,     \* [Goroutines -> {"no", "data", "err", "flag"}]
    response,       \* [Goroutines -> 0..MaxResponses] the call it is in, or was
    needResponse, responseData, responseErr, responseFlag,     \* the event
    callPC,         \* "poll", "data", "err", "returned", "gaveup"; "none": SendEvent
    rsp, err        \* what CallEvent returns

eventVars == <<needResponse, responseData, responseErr, responseFlag>>
handlerVars == <<handler, loopPC, handedOver>>
responseVars == <<responses, responding, response>>
callVars == <<callPC, rsp, err>>

vars == <<eventVars, handlerVars, responseVars, callVars>>

TypeOK ==
    /\ handler \in {"none", "wrapped", "raw"}
    /\ loopPC \in {"dispatch", "callback", "last", "done"}
    /\ handedOver \in BOOLEAN
    /\ responses \in 0..MaxResponses
    /\ responding \in [Goroutines -> {"no", "data", "err", "flag"}]
    /\ response \in [Goroutines -> 0..MaxResponses]
    /\ needResponse \in BOOLEAN
    /\ responseData \in 0..MaxResponses
    /\ responseErr \in 0..MaxResponses
    /\ responseFlag \in {0, 1}
    /\ callPC \in {"none", "poll", "data", "err", "returned", "gaveup"}
    /\ rsp \in 0..MaxResponses
    /\ err \in 0..MaxResponses

(* newEvent, by CallEvent or by SendEvent. *)
Init ==
    /\ handler \in {"none", "wrapped", "raw"}
    /\ loopPC = "dispatch"
    /\ handedOver = FALSE
    /\ responses = 0
    /\ responding = [g \in Goroutines |-> "no"]
    /\ response = [g \in Goroutines |-> 0]
    /\ needResponse \in BOOLEAN
    /\ responseData = 0
    /\ responseErr = 0
    /\ responseFlag = 0
    /\ callPC = IF needResponse THEN "poll" ELSE "none"
    /\ rsp = 0
    /\ err = 0
-----------------------------------------------------------------------------
(* Response.                                                                *)

Idle(g) == responding[g] = "no"

(* Response is called by g: it refuses an event that needs no response.      *)
Call(g) ==
    /\ Idle(g)
    /\ responses < MaxResponses
    /\ responses' = responses + 1
    /\ response' = [response EXCEPT ![g] = responses + 1]
    /\ IF needResponse THEN responding' = [responding EXCEPT ![g] = "data"]
       ELSE UNCHANGED responding
    /\ UNCHANGED <<eventVars, callVars>>

WriteData(g) ==
    /\ responding[g] = "data"
    /\ responseData' = response[g]
    /\ responding' = [responding EXCEPT ![g] = "err"]
    /\ UNCHANGED <<needResponse, responseErr, responseFlag, handlerVars, responses, response,
                   callVars>>

(* Mutated WriteErr: the flag is set before the error is written. *)
WriteErrLate(g) ==
    /\ responding[g] = "err"
    /\ IF responseFlag = 0
       THEN /\ responseFlag' = 1
            /\ UNCHANGED <<responseErr, responding>>
       ELSE /\ responseErr' = response[g]
            /\ responding' = [responding EXCEPT ![g] = "flag"]
            /\ UNCHANGED responseFlag
    /\ UNCHANGED <<needResponse, responseData, handlerVars, responses, response, callVars>>

WriteErr(g) ==
    /\ responding[g] = "err"
    /\ responseErr' = response[g]
    /\ responding' = [responding EXCEPT ![g] = "flag"]
    /\ UNCHANGED <<needResponse, responseData, responseFlag, handlerVars, responses, response,
                   callVars>>

(* CompareAndSwap(0, 1), whose result is not looked at, and return nil.       *)
SetFlag(g) ==
    /\ responding[g] = "flag"
    /\ responseFlag' = 1
    /\ responding' = [responding EXCEPT ![g] = "no"]
    /\ UNCHANGED <<needResponse, responseData, responseErr, handlerVars, responses, response,
                   callVars>>
-----------------------------------------------------------------------------
(* The handler.                                                             *)

(* handleEvent without a callback: Response(nil, ErrEventNotExists). *)
Dispatch ==
    /\ loopPC = "dispatch"
    /\ loopPC' = IF handler = "none" THEN "last" ELSE "callback"
    /\ UNCHANGED <<handler, handedOver, eventVars, responseVars, callVars>>

(* A callback calls Response; one call is left for the closure or recover.   *)
CallbackResponds ==
    /\ loopPC = "callback"
    /\ responses < MaxResponses - 1
    /\ Call("loop")
    /\ UNCHANGED handlerVars

HandOver ==
    /\ loopPC = "callback"
    /\ Idle("loop")
    /\ ~handedOver
    /\ handedOver' = TRUE
    /\ UNCHANGED <<handler, loopPC, eventVars, responseVars, callVars>>

OtherResponds ==
    /\ handedOver
    /\ response["other"] = 0
    /\ responses < MaxResponses - 1
    /\ Call("other")
    /\ UNCHANGED handlerVars

(* Mutated Return: RegisterEvent's closure leaves Response to the callback.   *)
ReturnSilently ==
    /\ loopPC = "callback"
    /\ Idle("loop")
    /\ loopPC' = "done"
    /\ UNCHANGED <<handler, handedOver, eventVars, responseVars, callVars>>

(* The callback returns: RegisterEvent's closure responds if needResponse.    *)
Return ==
    /\ loopPC = "callback"
    /\ Idle("loop")
    /\ loopPC' = IF handler = "wrapped" /\ needResponse THEN "last" ELSE "done"
    /\ UNCHANGED <<handler, handedOver, eventVars, responseVars, callVars>>

(* The callback panics, and handleEvent recovers: it responds with the panic. *)
Panic ==
    /\ loopPC = "callback"
    /\ Idle("loop")
    /\ loopPC' = "last"
    /\ UNCHANGED <<handler, handedOver, eventVars, responseVars, callVars>>

LastResponse ==
    /\ loopPC = "last"
    /\ Call("loop")
    /\ loopPC' = "done"
    /\ UNCHANGED <<handler, handedOver>>
-----------------------------------------------------------------------------
(* CallEvent.                                                               *)

GiveUp ==
    /\ callPC = "poll"
    /\ callPC' = "gaveup"
    /\ UNCHANGED <<rsp, err, eventVars, handlerVars, responseVars>>

LoadFlag ==
    /\ callPC = "poll"
    /\ responseFlag = 1
    /\ callPC' = "data"
    /\ UNCHANGED <<rsp, err, eventVars, handlerVars, responseVars>>

ReadData ==
    /\ callPC = "data"
    /\ rsp' = responseData
    /\ callPC' = "err"
    /\ UNCHANGED <<err, eventVars, handlerVars, responseVars>>

ReadErr ==
    /\ callPC = "err"
    /\ err' = responseErr
    /\ callPC' = "returned"
    /\ UNCHANGED <<rsp, eventVars, handlerVars, responseVars>>
-----------------------------------------------------------------------------
Respond(g) == WriteData(g) \/ WriteErr(g) \/ SetFlag(g)

Handler ==
    \/ Dispatch
    \/ CallbackResponds
    \/ HandOver
    \/ Return
    \/ Panic
    \/ LastResponse

Caller == LoadFlag \/ ReadData \/ ReadErr

Next ==
    \/ Handler
    \/ OtherResponds
    \/ \E g \in Goroutines : Respond(g)
    \/ Caller
    \/ GiveUp

Spec == Init /\ [][Next]_vars

(* The loop and the callback it runs go on, and so does CallEvent. *)
FairSpec ==
    /\ Spec
    /\ WF_vars(Handler)
    /\ \A g \in Goroutines : WF_vars(Respond(g))
    /\ WF_vars(Caller)
-----------------------------------------------------------------------------
(* Properties.                                                              *)

(* CallEvent returns the two halves of the same Response, provided that only *)
(* one was called: the closure's, recover's or the callback's own.  Nothing  *)
(* but the order of three unlocked writes and three reads sees to it.        *)
AnswerWhole ==
    callPC = "returned" => rsp = err \/ responses >= 2

(* Every CallEvent comes back when its name has no callback or one that       *)
(* RegisterEvent wrapped, whether the callback returns, panics, or responds  *)
(* itself; also when a raw callback panics before it has responded.          *)
CallEventReturns ==
    (callPC = "poll" /\ (handler # "raw" \/ loopPC = "last"))
        ~> callPC \in {"returned", "gaveup"}
=============================================================================
