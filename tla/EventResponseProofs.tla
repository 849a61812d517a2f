------------------------- MODULE EventResponseProofs --------------------------
(***************************************************************************)
(* The answer of CallEvent is whole, for any number of calls of Response: as   *)
(* long as there has been only one, the flag is set when both fields are       *)
(* written, and nobody writes any more.                                     *)
(***************************************************************************)
EXTENDS EventResponse, TLAPS

(* The variables keep their types: each call of Response, and so each field and  *)
(* each result, carries the number of a call that was made.                  *)
THEOREM TypeCorrect == Spec => []TypeOK
<1>1. ASSUME Init PROVE TypeOK
  <2>1. callPC \in {"none", "poll"}
    BY <1>1 DEF Init
  <2>2. 0 \in 0..MaxResponses
    BY ResponsesAssumption
  <2> QED
    BY <1>1, <2>1, <2>2 DEF Init, TypeOK
<1>2. TypeOK /\ [Next]_vars => TypeOK'
  <2> SUFFICES ASSUME TypeOK, [Next]_vars PROVE TypeOK'
    OBVIOUS
  <2> USE ResponsesAssumption DEF TypeOK, eventVars, handlerVars, responseVars, callVars
  <2>1. ASSUME NEW g \in Goroutines, Call(g)
        PROVE  /\ responses' \in 0..MaxResponses
               /\ responding' \in [Goroutines -> {"no", "data", "err", "flag"}]
               /\ response' \in [Goroutines -> 0..MaxResponses]
               /\ UNCHANGED <<eventVars, callVars>>
    BY <2>1 DEF Call
  <2>2. CASE CallbackResponds \/ LastResponse \/ OtherResponds
    <3>1. PICK g \in Goroutines : Call(g)
      BY <2>2 DEF CallbackResponds, LastResponse, OtherResponds, Goroutines
    <3>2. /\ handler' = handler /\ handedOver' = handedOver
          /\ loopPC' \in {"dispatch", "callback", "last", "done"}
      BY <2>2 DEF CallbackResponds, LastResponse, OtherResponds
    <3> QED
      BY <3>1, <3>2, <2>1
  <2>3. CASE Dispatch \/ HandOver \/ Return \/ Panic
    BY <2>3 DEF Dispatch, HandOver, Return, Panic
  <2>4. ASSUME NEW g \in Goroutines, Respond(g)
        PROVE  TypeOK'
    <3>1. CASE WriteData(g)
      BY <3>1 DEF WriteData
    <3>2. CASE WriteErr(g)
      BY <3>2 DEF WriteErr
    <3>3. CASE SetFlag(g)
      BY <3>3 DEF SetFlag
    <3> QED
      BY <2>4, <3>1, <3>2, <3>3 DEF Respond
  <2>5. CASE Caller \/ GiveUp
    BY <2>5 DEF Caller, LoadFlag, ReadData, ReadErr, GiveUp
  <2>6. CASE UNCHANGED vars
    BY <2>6 DEF vars
  <2> QED
    BY <2>2, <2>3, <2>4, <2>5, <2>6 DEF Next, Handler
<1> QED
  BY <1>1, <1>2, PTL DEF Spec
-----------------------------------------------------------------------------
Types ==
    /\ responses \in Nat
    /\ responding \in [Goroutines -> {"no", "data", "err", "flag"}]
    /\ response \in [Goroutines -> Nat]
    /\ callPC \in {"none", "poll", "data", "err", "returned", "gaveup"}

(* The fields are those of the first call, as far as it has got. *)
Written ==
    /\ responseFlag = 1 => responseData = 1 /\ responseErr = 1 /\ \A g \in Goroutines : Idle(g)
    /\ \A g \in Goroutines :
        /\ ~Idle(g) => response[g] = 1 /\ \A h \in Goroutines : ~Idle(h) => h = g
        /\ responding[g] \in {"err", "flag"} => responseData = 1
        /\ responding[g] = "flag" => responseErr = 1

(* CallEvent reads behind the flag. *)
ReadInv ==
    /\ callPC \in {"data", "err", "returned"} => responseFlag = 1
    /\ callPC \in {"err", "returned"} => rsp = 1
    /\ callPC = "returned" => err = 1

Inv ==
    /\ Types
    /\ responses = 0 => responseFlag # 1 /\ \A g \in Goroutines : Idle(g)
    /\ responses < 2 => Written /\ ReadInv

LEMMA InvInit == Init => Inv
<1> SUFFICES ASSUME Init PROVE Inv
  OBVIOUS
<1>1. Types
  BY DEF Init, Types
<1>2. responseFlag # 1 /\ \A g \in Goroutines : Idle(g)
  BY DEF Init, Idle
<1>3. Written /\ ReadInv
  BY <1>2 DEF Init, Written, ReadInv, Idle
<1> QED
  BY <1>1, <1>2, <1>3 DEF Inv
-----------------------------------------------------------------------------
(* A call of Response: it is the first, and starts alone, or Inv says no more     *)
(* than the types.                                                          *)
LEMMA CallKeeps ==
    ASSUME Inv, NEW g \in Goroutines, Call(g)
    PROVE  Inv'
<1> USE DEF Idle
<1>1. /\ responses' = responses + 1 /\ responses \in Nat
      /\ response' = [response EXCEPT ![g] = responses + 1]
      /\ responding' \in {responding, [responding EXCEPT ![g] = "data"]}
      /\ UNCHANGED <<needResponse, responseData, responseErr, responseFlag, callPC, rsp, err>>
  BY DEF Call, Inv, Types, eventVars, callVars
<1>2. Types'
  BY <1>1 DEF Inv, Types
<1>3. ASSUME responses' < 2
      PROVE  Written' /\ ReadInv'
  <2>1. responses = 0
    BY <1>1, <1>3
  <2>2. responseFlag # 1 /\ \A h \in Goroutines : Idle(h)
    BY <2>1 DEF Inv
  <2>3. ReadInv
    BY <2>1 DEF Inv
  <2>4. response'[g] = 1
    BY <1>1, <2>1 DEF Inv, Types
  <2>5. /\ \A h \in Goroutines \ {g} : responding'[h] = "no"
        /\ responding'[g] \in {"no", "data"}
    BY <1>1, <2>2 DEF Inv, Types
  <2> QED
    BY <1>1, <2>2, <2>3, <2>4, <2>5 DEF Written, ReadInv
<1> QED
  BY <1>1, <1>2, <1>3 DEF Inv

(* A write of Response. *)
LEMMA RespondKeeps ==
    ASSUME Inv, NEW g \in Goroutines, Respond(g)
    PROVE  Inv'
<1> USE DEF Idle
<1>1. /\ UNCHANGED <<responses, response, callPC, rsp, err>>
      /\ responding[g] # "no"
  BY DEF Respond, WriteData, WriteErr, SetFlag, callVars
<1>2. Types'
  BY <1>1 DEF Respond, WriteData, WriteErr, SetFlag, Inv, Types
<1>3. responses # 0
  BY <1>1 DEF Inv
<1>4. ASSUME responses < 2
      PROVE  Written' /\ ReadInv'
  <2>1. /\ response[g] = 1 /\ responseFlag # 1
        /\ \A h \in Goroutines \ {g} : responding[h] = "no"
    BY <1>1, <1>4 DEF Inv, Written
  <2>2. \A h \in Goroutines \ {g} : responding'[h] = "no"
    BY <2>1 DEF Respond, WriteData, WriteErr, SetFlag, Inv, Types
  <2>3. callPC \notin {"data", "err", "returned"}
    BY <1>4, <2>1 DEF Inv, ReadInv
  <2>4. CASE WriteData(g)
    BY <1>1, <2>1, <2>2, <2>3, <2>4 DEF WriteData, Written, ReadInv, Inv, Types
  <2>5. CASE WriteErr(g)
    <3>1. responseData = 1
      BY <1>4, <2>5 DEF WriteErr, Inv, Written
    <3> QED
      BY <1>1, <2>1, <2>2, <2>3, <2>5, <3>1 DEF WriteErr, Written, ReadInv, Inv, Types
  <2>6. CASE SetFlag(g)
    <3>1. responseData = 1 /\ responseErr = 1
      BY <1>4, <2>6 DEF SetFlag, Inv, Written
    <3> QED
      BY <1>1, <2>1, <2>2, <2>3, <2>6, <3>1 DEF SetFlag, Written, ReadInv, Inv, Types
  <2> QED
    BY <2>4, <2>5, <2>6 DEF Respond
<1> QED
  BY <1>1, <1>2, <1>3, <1>4 DEF Inv

(* CallEvent. *)
LEMMA CallerKeeps == ASSUME Inv, Caller \/ GiveUp PROVE Inv'
<1>1. UNCHANGED <<needResponse, responseData, responseErr, responseFlag, responses, responding,
                  response>>
  BY DEF Caller, GiveUp, LoadFlag, ReadData, ReadErr, eventVars, responseVars
<1>2. Types'
  BY <1>1 DEF Caller, GiveUp, LoadFlag, ReadData, ReadErr, Inv, Types
<1>3. ASSUME responses < 2
      PROVE  Written' /\ ReadInv'
  <2>1. Written /\ ReadInv
    BY <1>3 DEF Inv
  <2>2. Written'
    BY <1>1, <2>1 DEF Written, Idle
  <2>3. ReadInv'
    BY <1>1, <2>1 DEF Caller, GiveUp, LoadFlag, ReadData, ReadErr, Written, ReadInv
  <2> QED
    BY <2>2, <2>3
<1> QED
  BY <1>1, <1>2, <1>3 DEF Inv, Idle

LEMMA InvStep == Inv /\ [Next]_vars => Inv'
<1> SUFFICES ASSUME Inv, [Next]_vars PROVE Inv'
  OBVIOUS
<1>1. CASE UNCHANGED <<eventVars, responseVars, callVars>>
  BY <1>1 DEF eventVars, responseVars, callVars, Inv, Types, Written, ReadInv, Idle
<1>2. CASE Handler
  <2>1. CASE CallbackResponds \/ LastResponse
    <3>1. Call("loop") /\ "loop" \in Goroutines
      BY <2>1 DEF CallbackResponds, LastResponse, Goroutines
    <3> QED
      BY <3>1, CallKeeps
  <2>2. CASE Dispatch \/ HandOver \/ Return \/ Panic
    BY <1>1, <2>2 DEF Dispatch, HandOver, Return, Panic
  <2> QED
    BY <1>2, <2>1, <2>2 DEF Handler
<1>3. CASE OtherResponds
  <2>1. Call("other") /\ "other" \in Goroutines
    BY <1>3 DEF OtherResponds, Goroutines
  <2> QED
    BY <2>1, CallKeeps
<1> QED
  BY <1>1, <1>2, <1>3, RespondKeeps, CallerKeeps DEF Next, vars

(* CallEvent (manager.go:248-262) returns the two halves of the same Response if  *)
(* there was only one, whoever called it and however reads and writes are      *)
(* interleaved.                                                             *)
THEOREM Whole == Spec => []AnswerWhole
<1>1. Inv => AnswerWhole
  BY DEF Inv, Types, ReadInv, AnswerWhole
<1> QED
  BY <1>1, InvInit, InvStep, PTL DEF Spec
=============================================================================
