-------------------------- MODULE ConnManagerProofs ---------------------------
(***************************************************************************)
(* One connection per key, and none shared by calls that ask for different     *)
(* services in plain texts, for any calls, texts and metadata.  A call holds   *)
(* the conn object that the map has for its key from its last look at the map  *)
(* on, and conn objects, keys and connections belong to each other one to one. *)
(* A key whose texts hold no separators is read back from left to right: each *)
(* text ends where the next separator is.                                    *)
(***************************************************************************)
EXTENDS ConnManager, FiniteSetTheorems, WellFoundedInduction, TLAPS

(* The calls that may still allocate a conn object. *)
Searching == {c \in Calls : pc[c] \in {"start", "look", "insert"}}

(* The map: its conn objects are those allocated, one for each key.           *)
MapInv ==
    /\ allocated \in Nat
    /\ allocated + Cardinality(Searching) <= Cardinality(Calls)
    /\ \A e \in conns : e.conn \in 1..allocated
    /\ \A e, f \in conns : e.key = f.key <=> e.conn = f.conn

(* A client connection belongs to one conn object. *)
DialInv ==
    /\ gconn \in [Ids -> Nat]
    /\ locker \in [Ids -> Calls \cup {None}]
    /\ dialled \in Nat
    /\ \A i \in Ids : gconn[i] <= dialled
    /\ \A i, j \in Ids : gconn[i] = gconn[j] /\ gconn[i] # None => i = j

Holds(c) == \E e \in conns : e.key = key[c] /\ e.conn = held[c]

(* What a call holds, and what it has locked or returned. *)
CallInv ==
    /\ pc \in [Calls -> PCs]
    /\ request \in [Calls -> Requests]
    /\ DOMAIN held = Calls /\ DOMAIN key = Calls /\ DOMAIN result = Calls
    /\ \A c \in Calls :
        /\ pc[c] # "start" => key[c] \in KeysOf(request[c])
        /\ pc[c] \in {"look", "lock", "dial"} => Holds(c)
        /\ pc[c] = "dial" => locker[held[c]] = c /\ gconn[held[c]] = None
        /\ result[c] # None =>
            pc[c] = "done" /\ Holds(c) /\ result[c] = gconn[held[c]]

Inv == MapInv /\ DialInv /\ CallInv
-----------------------------------------------------------------------------
LEMMA IdsOfMap == ASSUME Inv PROVE \A e \in conns : e.conn \in Ids
<1>1. IsFiniteSet(Searching)
  BY CallsAssumption, FS_Subset DEF Searching
<1>2. Cardinality(Searching) \in Nat /\ Cardinality(Calls) \in Nat
  BY <1>1, CallsAssumption, FS_CardinalityType
<1> QED
  BY <1>2 DEF Inv, MapInv, Ids

LEMMA HeldIsId == ASSUME Inv, NEW c \in Calls, Holds(c) PROVE held[c] \in Ids
  BY IdsOfMap DEF Holds

(* Two calls that hold conn objects hold the same one just if their keys are equal. *)
LEMMA HeldByKey ==
    ASSUME Inv, NEW c \in Calls, NEW d \in Calls, Holds(c), Holds(d)
    PROVE  key[c] = key[d] <=> held[c] = held[d]
  BY DEF Inv, MapInv, Holds

LEMMA InvInit == Init => Inv
<1> SUFFICES ASSUME Init PROVE Inv
  OBVIOUS
<1>1. Searching = Calls
  BY DEF Init, Searching
<1>2. Cardinality(Calls) \in Nat
  BY CallsAssumption, FS_CardinalityType
<1>3. MapInv
  BY <1>1, <1>2 DEF Init, MapInv
<1>4. DialInv
  BY DEF Init, DialInv, None, Ids
<1>5. CallInv
  BY DEF Init, CallInv, PCs, None
<1> QED
  BY <1>3, <1>4, <1>5 DEF Inv
-----------------------------------------------------------------------------
(* A call that goes on searches no more than before. *)
LEMMA SearchingShrinks ==
    ASSUME Inv, NEW c \in Calls, NEW to \in PCs, Goto(c, to),
           to \in {"start", "look", "insert"} => c \in Searching
    PROVE  /\ Cardinality(Searching') <= Cardinality(Searching)
           /\ Cardinality(Searching') \in Nat /\ Cardinality(Searching) \in Nat
           /\ c \in Searching /\ to \notin {"start", "look", "insert"} =>
                Cardinality(Searching') = Cardinality(Searching) - 1
<1>1. IsFiniteSet(Searching)
  BY CallsAssumption, FS_Subset DEF Searching
<1>2. CASE to \in {"start", "look", "insert"}
  <2>1. Searching' = Searching
    BY <1>2 DEF Searching, Goto, Inv, CallInv
  <2>2. Cardinality(Searching) \in Nat
    BY <1>1, FS_CardinalityType
  <2>3. Cardinality(Searching') = Cardinality(Searching)
    BY <2>1
  <2> QED
    BY <1>2, <2>2, <2>3
<1>3. CASE to \notin {"start", "look", "insert"}
  <2>1. Searching' = Searching \ {c}
    BY <1>3 DEF Searching, Goto, Inv, CallInv
  <2>2. Cardinality(Searching) \in Nat /\ Cardinality(Searching') \in Nat
    BY <1>1, <2>1, FS_CardinalityType, FS_RemoveElement
  <2>3. Cardinality(Searching') =
            IF c \in Searching THEN Cardinality(Searching) - 1 ELSE Cardinality(Searching)
    BY <1>1, <2>1, FS_RemoveElement
  <2> QED
    BY <2>2, <2>3
<1> QED
  BY <1>2, <1>3

LEMMA LookUpKeeps == ASSUME Inv, NEW c \in Calls, LookUp(c) PROVE Inv'
<1>1. PICK k \in KeysOf(request[c]) :
        /\ key' = [key EXCEPT ![c] = k]
        /\ \/ /\ Found(k) = {}
              /\ Goto(c, "insert")
              /\ UNCHANGED held
           \/ \E i \in Found(k) :
                /\ held' = [held EXCEPT ![c] = i]
                /\ Goto(c, IF request[c].api = "target" THEN "look" ELSE "lock")
  BY DEF LookUp
<1>2. /\ pc[c] = "start" /\ UNCHANGED <<request, conns, allocated, locker, gconn, dialled, result>>
  BY DEF LookUp
<1>3. PICK to \in {"insert", "look", "lock"} : Goto(c, to)
  BY <1>1
<1>4. /\ Cardinality(Searching') <= Cardinality(Searching)
      /\ Cardinality(Searching') \in Nat /\ Cardinality(Searching) \in Nat
  BY <1>2, <1>3, SearchingShrinks DEF Searching, PCs
<1>5. MapInv'
  <2>1. Cardinality(Calls) \in Nat
    BY CallsAssumption, FS_CardinalityType
  <2> QED
    BY <1>2, <1>4, <2>1 DEF Inv, MapInv
<1>6. DialInv'
  BY <1>2 DEF Inv, DialInv
<1>7. \A d \in Calls \ {c} : pc'[d] = pc[d] /\ key'[d] = key[d] /\ held'[d] = held[d]
  BY <1>1 DEF Goto, Inv, CallInv
<1>8. pc'[c] \in {"look", "lock"} => Holds(c)'
  BY <1>1, <1>2 DEF Goto, Inv, CallInv, Holds, Found
<1>9. pc'[c] \in {"insert", "look", "lock"} /\ key'[c] = k
  BY <1>1, <1>3 DEF Goto, Inv, CallInv
<1>10. result[c] = None
  BY <1>2 DEF Inv, CallInv
<1>11. CallInv'
  <2>1. pc' \in [Calls -> PCs]
    BY <1>3 DEF Inv, CallInv, Goto, PCs
  <2>2. DOMAIN held' = Calls /\ DOMAIN key' = Calls
    BY <1>1 DEF Inv, CallInv
  <2>3. \A d \in Calls \ {c} : Holds(d)' <=> Holds(d)
    BY <1>2, <1>7 DEF Holds
  <2> QED
    BY <1>2, <1>7, <1>8, <1>9, <1>10, <2>1, <2>2, <2>3 DEF Inv, CallInv
<1> QED
  BY <1>5, <1>6, <1>11 DEF Inv

LEMMA CallsCount == Cardinality(Calls) \in Nat
  BY CallsAssumption, FS_CardinalityType

(* The other calls are not disturbed by a step of c that keeps what they hold and *)
(* have locked.                                                             *)
LEMMA OthersKeep ==
    ASSUME Inv, NEW c \in Calls, NEW to \in PCs, Goto(c, to),
           UNCHANGED <<request, key>>,
           DOMAIN held' = Calls, DOMAIN result' = Calls,
           \A d \in Calls \ {c} : held'[d] = held[d] /\ result'[d] = result[d],
           conns \subseteq conns',
           \A d \in Calls \ {c} : Holds(d) =>
                /\ pc[d] = "dial" => locker'[held[d]] = d /\ gconn'[held[d]] = None
                /\ result[d] # None => gconn'[held[d]] = gconn[held[d]],
           to \in {"look", "lock", "dial"} => Holds(c)',
           to = "dial" => locker'[held'[c]] = c /\ gconn'[held'[c]] = None,
           pc[c] # "start",
           result'[c] # None => to = "done" /\ Holds(c)' /\ result'[c] = gconn'[held'[c]]
    PROVE  CallInv'
<1>1. /\ pc'[c] = to
      /\ \A d \in Calls \ {c} : pc'[d] = pc[d]
      /\ pc' \in [Calls -> PCs]
  BY DEF Goto, Inv, CallInv
<1>2. \A d \in Calls \ {c} : Holds(d) => Holds(d)'
  BY DEF Holds
<1>3. ASSUME NEW d \in Calls
      PROVE  /\ pc'[d] # "start" => key'[d] \in KeysOf(request'[d])
             /\ pc'[d] \in {"look", "lock", "dial"} => Holds(d)'
             /\ pc'[d] = "dial" => locker'[held'[d]] = d /\ gconn'[held'[d]] = None
             /\ result'[d] # None =>
                  pc'[d] = "done" /\ Holds(d)' /\ result'[d] = gconn'[held'[d]]
  <2>1. CASE d = c
    BY <1>1, <2>1 DEF Inv, CallInv
  <2>2. CASE d # c
    BY <1>1, <1>2, <2>2 DEF Inv, CallInv
  <2> QED
    BY <2>1, <2>2
<1> QED
  BY <1>1, <1>3 DEF Inv, CallInv

(* MapInv, if the map stays as it is. *)
LEMMA MapKept ==
    ASSUME Inv, NEW c \in Calls, NEW to \in PCs, Goto(c, to),
           to \in {"start", "look", "insert"} => c \in Searching,
           UNCHANGED <<conns, allocated>>
    PROVE  MapInv'
<1>1. /\ Cardinality(Searching') <= Cardinality(Searching)
      /\ Cardinality(Searching') \in Nat /\ Cardinality(Searching) \in Nat
  BY SearchingShrinks
<1> QED
  BY <1>1, CallsCount DEF Inv, MapInv

LEMMA LookKeeps == ASSUME Inv, NEW c \in Calls, Look(c) PROVE Inv'
<1>1. /\ pc[c] = "look" /\ Holds(c) /\ c \in Searching
      /\ UNCHANGED <<request, key, conns, allocated, held, locker, gconn, dialled>>
  BY DEF Look, Inv, CallInv, Searching
<1>2. PICK to \in {"done", "insert"} : Goto(c, to)
  BY DEF Look, Return
<1>3. MapInv'
  BY <1>1, <1>2, MapKept DEF PCs
<1>4. DialInv'
  BY <1>1 DEF Inv, DialInv
<1>5. \/ Goto(c, "done") /\ result' = [result EXCEPT ![c] = gconn[held[c]]]
      \/ UNCHANGED result
  BY DEF Look, Return
<1>6. result[c] = None /\ DOMAIN result = Calls
  BY <1>1 DEF Inv, CallInv
<1>7. CallInv'
  <2>1. Holds(c)'
    BY <1>1 DEF Holds
  <2>2. result'[c] # None => Goto(c, "done") /\ result'[c] = gconn[held[c]]
    BY <1>5, <1>6
  <2>3. Goto(c, "done") => to = "done"
    BY <1>2 DEF Goto, Inv, CallInv
  <2>4. DOMAIN result' = Calls /\ \A d \in Calls \ {c} : result'[d] = result[d]
    BY <1>5, <1>6
  <2>5. DOMAIN held = Calls
        /\ \A d \in Calls : pc[d] = "dial" => locker[held[d]] = d /\ gconn[held[d]] = None
    BY DEF Inv, CallInv
  <2> QED
    BY <1>1, <1>2, <2>1, <2>2, <2>3, <2>4, <2>5, OthersKeep DEF PCs
<1> QED
  BY <1>3, <1>4, <1>7 DEF Inv

LEMMA InsertKeeps == ASSUME Inv, NEW c \in Calls, Insert(c) PROVE Inv'
<1>1. /\ pc[c] = "insert" /\ Goto(c, "lock") /\ c \in Searching
      /\ UNCHANGED <<request, key, locker, gconn, dialled, result>>
  BY DEF Insert, Searching
<1>2. \/ \E i \in Found(key[c]) : held' = [held EXCEPT ![c] = i] /\ UNCHANGED <<conns, allocated>>
      \/ /\ Found(key[c]) = {}
         /\ allocated' = allocated + 1
         /\ held' = [held EXCEPT ![c] = allocated + 1]
         /\ conns' = conns \cup {[key |-> key[c], conn |-> allocated + 1]}
  BY DEF Insert
<1>3. /\ Cardinality(Searching') = Cardinality(Searching) - 1
      /\ Cardinality(Searching') \in Nat /\ Cardinality(Searching) \in Nat
  BY <1>1, SearchingShrinks DEF PCs
<1>4. MapInv'
  <2>1. CASE UNCHANGED <<conns, allocated>>
    BY <1>3, <2>1, CallsCount DEF Inv, MapInv
  <2>2. CASE /\ Found(key[c]) = {}
             /\ allocated' = allocated + 1
             /\ conns' = conns \cup {[key |-> key[c], conn |-> allocated + 1]}
    <3>1. \A e \in conns : e.key # key[c]
      BY <2>2 DEF Found
    <3>2. \A e \in conns : e.conn \in 1..allocated /\ e.conn # allocated + 1
      BY DEF Inv, MapInv
    <3>3. allocated' \in Nat /\ allocated' + Cardinality(Searching') <= Cardinality(Calls)
      BY <1>3, <2>2, CallsCount DEF Inv, MapInv
    <3>4. \A e \in conns' : e.conn \in 1..allocated'
      BY <2>2, <3>2 DEF Inv, MapInv
    <3>5. \A e, f \in conns' : e.key = f.key <=> e.conn = f.conn
      BY <2>2, <3>1, <3>2 DEF Inv, MapInv
    <3> QED
      BY <3>3, <3>4, <3>5 DEF MapInv
  <2> QED
    BY <1>2, <2>1, <2>2
<1>5. DialInv'
  BY <1>1 DEF Inv, DialInv
<1>6. CallInv'
  <2>1. Holds(c)'
    <3>1. DOMAIN held = Calls
      BY DEF Inv, CallInv
    <3>2. CASE \E i \in Found(key[c]) :
                held' = [held EXCEPT ![c] = i] /\ UNCHANGED <<conns, allocated>>
      BY <1>1, <3>1, <3>2 DEF Holds, Found
    <3>3. CASE /\ held' = [held EXCEPT ![c] = allocated + 1]
               /\ conns' = conns \cup {[key |-> key[c], conn |-> allocated + 1]}
      <4>1. [key |-> key[c], conn |-> allocated + 1] \in conns' /\ held'[c] = allocated + 1
        BY <3>1, <3>3
      <4> QED
        BY <1>1, <4>1 DEF Holds
    <3> QED
      BY <1>2, <3>2, <3>3
  <2>2. /\ DOMAIN held' = Calls /\ \A d \in Calls \ {c} : held'[d] = held[d]
        /\ conns \subseteq conns'
    BY <1>2 DEF Inv, CallInv
  <2>3. result[c] = None /\ DOMAIN result = Calls
    BY <1>1 DEF Inv, CallInv
  <2>4. \A d \in Calls : pc[d] = "dial" => locker[held[d]] = d /\ gconn[held[d]] = None
    BY DEF Inv, CallInv
  <2> QED
    BY <1>1, <2>1, <2>2, <2>3, <2>4, OthersKeep DEF PCs
<1> QED
  BY <1>4, <1>5, <1>6 DEF Inv

(* Who dials has locked its conn object, which has no connection yet: nobody     *)
(* else dials for it, and nobody has returned a connection of it.           *)
LEMMA DialsAlone ==
    ASSUME Inv, NEW c \in Calls, pc[c] = "dial"
    PROVE  /\ Holds(c) /\ held[c] \in Ids
           /\ locker[held[c]] = c /\ gconn[held[c]] = None
           /\ \A d \in Calls \ {c} : pc[d] = "dial" \/ result[d] # None => held[d] # held[c]
<1>1. Holds(c) /\ locker[held[c]] = c /\ gconn[held[c]] = None
  BY DEF Inv, CallInv
<1>2. \A d \in Calls \ {c} : pc[d] = "dial" => locker[held[d]] # locker[held[c]]
  BY <1>1 DEF Inv, CallInv
<1>3. \A d \in Calls \ {c} : result[d] # None => gconn[held[d]] # gconn[held[c]]
  BY <1>1 DEF Inv, CallInv
<1> QED
  BY <1>1, <1>2, <1>3, HeldIsId

LEMMA LockKeeps == ASSUME Inv, NEW c \in Calls, Lock(c) PROVE Inv'
<1>1. /\ pc[c] = "lock" /\ locker[held[c]] = None /\ Holds(c) /\ held[c] \in Ids
      /\ UNCHANGED <<request, key, conns, allocated, held, gconn, dialled>>
  BY HeldIsId DEF Lock, Inv, CallInv
<1>2. /\ DOMAIN held = Calls /\ DOMAIN result = Calls /\ result[c] = None
      /\ locker \in [Ids -> Calls \cup {None}] /\ None \notin Calls
      /\ \A d \in Calls : pc[d] = "dial" => locker[held[d]] = d /\ gconn[held[d]] = None
  BY <1>1, CallsAssumption DEF Inv, CallInv, DialInv
<1>3. Holds(c)'
  BY <1>1 DEF Holds
<1>4. CASE gconn[held[c]] # None
  <2>1. /\ Goto(c, "done") /\ UNCHANGED locker
        /\ result' = [result EXCEPT ![c] = gconn[held[c]]]
    BY <1>4 DEF Lock, Return
  <2>2. MapInv'
    BY <1>1, <2>1, MapKept DEF PCs
  <2>3. DialInv'
    BY <1>1, <2>1 DEF Inv, DialInv
  <2>4. CallInv'
    BY <1>1, <1>2, <1>3, <2>1, OthersKeep DEF PCs
  <2> QED
    BY <2>2, <2>3, <2>4 DEF Inv
<1>5. CASE gconn[held[c]] = None
  <2>1. /\ Goto(c, "dial") /\ UNCHANGED result
        /\ locker' = [locker EXCEPT ![held[c]] = c]
    BY <1>5 DEF Lock
  <2>2. MapInv'
    BY <1>1, <2>1, MapKept DEF PCs
  <2>3. DialInv'
    BY <1>1, <2>1 DEF Inv, DialInv
  <2>4. \A d \in Calls \ {c} : pc[d] = "dial" => locker'[held[d]] = d
    <3>1. \A d \in Calls : pc[d] = "dial" => held[d] # held[c]
      BY <1>1, <1>2
    <3> QED
      BY <1>2, <2>1, <3>1
  <2>5. locker'[held[c]] = c
    BY <1>1, <1>2, <2>1
  <2>6. CallInv'
    BY <1>1, <1>2, <1>3, <1>5, <2>1, <2>4, <2>5, OthersKeep DEF PCs
  <2> QED
    BY <2>2, <2>3, <2>6 DEF Inv
<1> QED
  BY <1>4, <1>5

LEMMA DialledKeeps == ASSUME Inv, NEW c \in Calls, Dialled(c) PROVE Inv'
<1>1. /\ pc[c] = "dial" /\ Goto(c, "done")
      /\ dialled' = dialled + 1
      /\ gconn' = [gconn EXCEPT ![held[c]] = dialled + 1]
      /\ locker' = [locker EXCEPT ![held[c]] = None]
      /\ result' = [result EXCEPT ![c] = dialled + 1]
      /\ UNCHANGED <<request, key, conns, allocated, held>>
  BY DEF Dialled, Return
<1>2. /\ Holds(c) /\ held[c] \in Ids
      /\ \A d \in Calls \ {c} : pc[d] = "dial" \/ result[d] # None => held[d] # held[c]
  BY <1>1, DialsAlone
<1>3. /\ DOMAIN held = Calls /\ DOMAIN result = Calls
      /\ \A d \in Calls : pc[d] = "dial" => locker[held[d]] = d /\ gconn[held[d]] = None
  BY DEF Inv, CallInv
<1>4. /\ gconn \in [Ids -> Nat] /\ locker \in [Ids -> Calls \cup {None}] /\ dialled \in Nat
      /\ \A i \in Ids : gconn[i] <= dialled
  BY DEF Inv, DialInv
<1>5. MapInv'
  BY <1>1, MapKept DEF PCs
<1>6. DialInv'
  <2>1. gconn' \in [Ids -> Nat] /\ locker' \in [Ids -> Calls \cup {None}] /\ dialled' \in Nat
    <3>1. dialled + 1 \in Nat
      BY <1>4
    <3> QED
      BY <1>1, <1>4, <3>1
  <2>2. \A i \in Ids : gconn'[i] = IF i = held[c] THEN dialled + 1 ELSE gconn[i]
    BY <1>1, <1>4
  <2>3. \A i \in Ids : gconn[i] \in Nat /\ gconn[i] <= dialled
    BY <1>4
  <2>4. \A i \in Ids : gconn'[i] <= dialled'
    BY <1>1, <1>4, <2>2, <2>3
  <2>5. \A i, j \in Ids : gconn'[i] = gconn'[j] /\ gconn'[i] # None => i = j
    BY <1>4, <2>2, <2>3 DEF Inv, DialInv
  <2> QED
    BY <2>1, <2>4, <2>5 DEF DialInv
<1>7. CallInv'
  <2>1. Holds(c)'
    BY <1>1, <1>2 DEF Holds
  <2>2. \A d \in Calls \ {c} : Holds(d) =>
            /\ pc[d] = "dial" => locker'[held[d]] = d /\ gconn'[held[d]] = None
            /\ result[d] # None => gconn'[held[d]] = gconn[held[d]]
    <3>1. \A d \in Calls : Holds(d) => held[d] \in Ids
      BY HeldIsId
    <3> QED
      BY <1>1, <1>2, <1>3, <1>4, <3>1
  <2>3. result'[c] = gconn'[held'[c]]
    BY <1>1, <1>2, <1>3, <1>4
  <2> QED
    BY <1>1, <1>3, <2>1, <2>2, <2>3, OthersKeep DEF PCs
<1> QED
  BY <1>5, <1>6, <1>7 DEF Inv

LEMMA DialFailedKeeps == ASSUME Inv, NEW c \in Calls, DialFailed(c) PROVE Inv'
<1>1. /\ pc[c] = "dial" /\ Goto(c, "done")
      /\ locker' = [locker EXCEPT ![held[c]] = None]
      /\ result' = [result EXCEPT ![c] = None]
      /\ UNCHANGED <<request, key, conns, allocated, held, gconn, dialled>>
  BY DEF DialFailed, Return
<1>2. \A d \in Calls \ {c} : pc[d] = "dial" => held[d] # held[c]
  BY <1>1, DialsAlone
<1>3. /\ DOMAIN held = Calls /\ DOMAIN result = Calls
      /\ locker \in [Ids -> Calls \cup {None}]
      /\ \A d \in Calls : pc[d] = "dial" => locker[held[d]] = d /\ gconn[held[d]] = None
  BY DEF Inv, CallInv, DialInv
<1>4. MapInv'
  BY <1>1, MapKept DEF PCs
<1>5. DialInv'
  BY <1>1 DEF Inv, DialInv
<1>6. CallInv'
  <2>1. \A d \in Calls \ {c} : Holds(d) /\ pc[d] = "dial" => locker'[held[d]] = d
    <3>1. \A d \in Calls : Holds(d) => held[d] \in Ids
      BY HeldIsId
    <3> QED
      BY <1>1, <1>2, <1>3, <3>1
  <2> QED
    BY <1>1, <1>3, <2>1, OthersKeep DEF PCs
<1> QED
  BY <1>4, <1>5, <1>6 DEF Inv

LEMMA InvStep == Inv /\ [Next]_vars => Inv'
<1> SUFFICES ASSUME Inv, [Next]_vars PROVE Inv'
  OBVIOUS
<1>1. CASE UNCHANGED vars
  BY <1>1 DEF vars, Inv, MapInv, DialInv, CallInv, Searching, Holds
<1> QED
  BY <1>1, LookUpKeeps, LookKeeps, InsertKeeps, LockKeeps, DialledKeeps, DialFailedKeeps
     DEF Next, Step

LEMMA InvAlways == Spec => []Inv
  BY InvInit, InvStep, PTL DEF Spec
-----------------------------------------------------------------------------
(* For any calls through both entry points, whichever orders a map is walked in   *)
(* and whichever dials fail: two calls with the same key never dial at the same *)
(* time, and return the same connection.                                    *)
THEOREM OnePerKey == Spec => []OneConnPerKey
<1>1. Inv => OneConnPerKey
  <2> SUFFICES ASSUME Inv, NEW c \in Calls, NEW d \in Calls,
                      c # d, pc[c] # "start", pc[d] # "start", key[c] = key[d]
               PROVE  /\ ~(pc[c] = "dial" /\ pc[d] = "dial")
                      /\ result[c] # None /\ result[d] # None => result[c] = result[d]
    BY DEF OneConnPerKey
  <2>1. ~(pc[c] = "dial" /\ pc[d] = "dial")
    <3>1. pc[c] = "dial" /\ pc[d] = "dial" => held[c] # held[d] /\ Holds(c) /\ Holds(d)
      BY DialsAlone
    <3> QED
      BY <3>1, HeldByKey
  <2>2. result[c] # None /\ result[d] # None => result[c] = result[d]
    BY HeldByKey DEF Inv, CallInv
  <2> QED
    BY <2>1, <2>2
<1> QED
  BY <1>1, InvAlways, PTL

(* A map is walked in some order, every key once. *)
LEMMA OrderWalksAll ==
    ASSUME NEW S, IsFiniteSet(S), NEW order \in Orders(S)
    PROVE  S = {order[i] : i \in 1..Cardinality(S)}
<1>1. Cardinality(S) \in Nat
  BY FS_CardinalityType
<1>2. IsFiniteSet(1..Cardinality(S)) /\ Cardinality(1..Cardinality(S)) = Cardinality(S)
  BY <1>1, FS_Interval
<1>3. order \in Injection(1..Cardinality(S), S)
  BY DEF Orders, Injection, IsInjective
<1>4. order \in Surjection(1..Cardinality(S), S)
  BY <1>2, <1>3, FS_Injection
<1> QED
  BY <1>4 DEF Surjection

LEMMA SameText ==
    ASSUME NEW t \in Texts, NEW u \in Texts, Len(t) = Len(u), \A i \in 1..Len(t) : t[i] = u[i]
    PROVE  t = u
  BY DEF Texts

(* A text that holds no separator ends where the first one is. *)
LEMMA FirstSeparator ==
    ASSUME NEW t \in Texts, NEW u \in Texts, Bare(t), Bare(u),
           NEW x \in Separators, NEW y \in Separators, NEW v \in Texts, NEW w \in Texts,
           Marked(t, x, v) = Marked(u, y, w)
    PROVE  t = u /\ x = y /\ v = w
<1> DEFINE l == t \o <<x>> \o v
           r == u \o <<y>> \o w
<1>1. /\ x \in Characters /\ y \in Characters
      /\ l \in Texts /\ r \in Texts
      /\ Len(l) = Len(t) + 1 + Len(v) /\ Len(r) = Len(u) + 1 + Len(w)
  BY CharactersAssumption DEF Texts
<1>2. /\ \A i \in 1..Len(t) : l[i] = t[i]
      /\ l[Len(t) + 1] = x
      /\ \A i \in 1..Len(v) : l[Len(t) + 1 + i] = v[i]
  BY CharactersAssumption DEF Texts
<1>3. /\ \A i \in 1..Len(u) : r[i] = u[i]
      /\ r[Len(u) + 1] = y
      /\ \A i \in 1..Len(w) : r[Len(u) + 1 + i] = w[i]
  BY CharactersAssumption DEF Texts
<1>4. /\ \A i \in 1..Len(t) : t[i] \notin Separators
      /\ \A i \in 1..Len(u) : u[i] \notin Separators
      /\ Len(t) \in Nat /\ Len(u) \in Nat /\ Len(v) \in Nat /\ Len(w) \in Nat
  BY DEF Bare, Texts
<1>5. l = r
  BY DEF Marked
<1> HIDE DEF l, r
<1>6. Len(t) = Len(u)
  <2>1. ~(Len(t) < Len(u))
    <3>1. Len(t) < Len(u) => Len(t) + 1 \in 1..Len(u)
      BY <1>4
    <3> QED
      BY <1>2, <1>3, <1>4, <1>5, <3>1
  <2>2. ~(Len(u) < Len(t))
    <3>1. Len(u) < Len(t) => Len(u) + 1 \in 1..Len(t)
      BY <1>4
    <3> QED
      BY <1>2, <1>3, <1>4, <1>5, <3>1
  <2> QED
    BY <1>4, <2>1, <2>2
<1>7. x = y /\ Len(v) = Len(w)
  BY <1>1, <1>2, <1>3, <1>4, <1>5, <1>6
<1>8. \A i \in 1..Len(t) : t[i] = u[i]
  BY <1>2, <1>3, <1>5, <1>6
<1>9. \A i \in 1..Len(v) : v[i] = w[i]
  BY <1>2, <1>3, <1>5, <1>6, <1>7
<1>10. t = u
  BY <1>6, <1>8, SameText
<1>11. v = w
  BY <1>7, <1>9, SameText
<1> QED
  BY <1>7, <1>10, <1>11

(* ... and a text with a separator in it is none without. *)
LEMMA HoldsSeparator ==
    ASSUME NEW t \in Texts, NEW x \in Separators, NEW v \in Texts
    PROVE  Marked(t, x, v) \in Texts /\ ~Bare(Marked(t, x, v))
<1> DEFINE l == t \o <<x>> \o v
<1>1. x \in Characters
  BY CharactersAssumption
<1>2. l \in Texts /\ Len(t) + 1 \in DOMAIN l /\ l[Len(t) + 1] = x
  BY <1>1 DEF Texts
<1> HIDE DEF l
<1>3. ~Bare(l)
  BY <1>2 DEF Bare
<1> QED
  BY <1>2, <1>3 DEF l, Marked
-----------------------------------------------------------------------------
(* The entries of a map, for any number of them.                            *)

(* Induction, as a fact about a set. *)
LEMMA NatSet ==
    ASSUME NEW T, 0 \in T, \A k \in Nat : k \in T => k + 1 \in T
    PROVE  \A k \in Nat : k \in T
<1>1. SUFFICES ASSUME Nat \ T # {} PROVE FALSE
  OBVIOUS
<1>2. PICK x \in Nat \ T : \A y \in Nat \ T : ~ (<<y, x>> \in OpToRel(<, Nat))
  <2>1. Nat \ T \in SUBSET Nat
    OBVIOUS
  <2> QED
    BY <1>1, <2>1, WFMin, NatLessThanWellFounded
<1>3. ASSUME NEW y \in Nat \ T, y < x
      PROVE  FALSE
  <2>1. <<y, x>> \in OpToRel(<, Nat)
    BY <1>3, Zenon DEF OpToRel
  <2> QED
    BY <1>2, <2>1, Zenon
<1>4. x # 0 /\ x - 1 \in Nat /\ x - 1 \notin Nat \ T /\ (x - 1) + 1 = x
  BY <1>3
<1> QED
  BY <1>2, <1>4

Count(m) == Cardinality(DOMAIN m)

IsMap(m) == DOMAIN m \subseteq Texts /\ IsFiniteSet(DOMAIN m) /\ m \in [DOMAIN m -> Texts]

(* An entry and what follows it. *)
Entry(m, order, i, text) == Marked(order[i], "comma", Marked(m[order[i]], "semicolon", text))

Rest(m, order) ==
    CHOOSE rest :
        rest = [i \in 0..Count(m) |->
                    IF i = 0 THEN <<"rbrace">> ELSE Entry(m, order, i, rest[i - 1])]

LEMMA EntrySteps ==
    ASSUME NEW m, IsMap(m), NEW order
    PROVE  /\ Entries(m, order) = Rest(m, order)[Count(m)]
           /\ Rest(m, order)[0] = <<"rbrace">>
           /\ \A i \in 1..Count(m) :
                Rest(m, order)[i] = Entry(m, order, i, Rest(m, order)[i - 1])
<1> DEFINE n == Count(m)
           Turn(s, i) == Entry(m, order, i, s)
           IsRest(g, k) == g = [i \in 0..k |-> IF i = 0 THEN <<"rbrace">> ELSE Turn(g[i - 1], i)]
           T == {k \in Nat : \E g : IsRest(g, k)}
<1>0. n \in Nat
  BY FS_CardinalityType DEF Count, IsMap
<1>1. 0 \in T
  <2>1. IsRest([i \in 0..0 |-> <<"rbrace">>], 0)
    OBVIOUS
  <2> QED
    BY <2>1
<1> HIDE DEF Turn
<1>2. ASSUME NEW k \in Nat, k \in T
      PROVE  k + 1 \in T
  <2>1. PICK g : IsRest(g, k)
    BY <1>2
  <2> DEFINE h == [i \in 0..(k + 1) |-> IF i = k + 1 THEN Turn(g[k], k + 1) ELSE g[i]]
  <2>2. \A i \in 0..k : g[i] = IF i = 0 THEN <<"rbrace">> ELSE Turn(g[i - 1], i)
    BY <2>1
  <2>3. \A i \in 0..(k + 1) : h[i] = IF i = 0 THEN <<"rbrace">> ELSE Turn(h[i - 1], i)
    <3>1. ASSUME NEW i \in 0..(k + 1), i # 0
          PROVE  h[i] = Turn(h[i - 1], i)
      <4>1. h[i - 1] = g[i - 1]
        BY <3>1
      <4>2. h[i] = IF i = k + 1 THEN Turn(g[k], k + 1) ELSE g[i]
        OBVIOUS
      <4> QED
        BY <2>2, <3>1, <4>1, <4>2
    <3>2. h[0] = <<"rbrace">>
      BY <2>2
    <3> HIDE DEF h
    <3> QED
      BY <3>1, <3>2
  <2>4. h = [i \in 0..(k + 1) |-> h[i]]
    OBVIOUS
  <2> HIDE DEF h
  <2>5. IsRest(h, k + 1)
    BY <2>3, <2>4
  <2> QED
    BY <2>5
<1>3. n \in T
  <2> HIDE DEF T
  <2> QED
    BY <1>0, <1>1, <1>2, NatSet
<1>4. IsRest(Rest(m, order), n)
  BY <1>3 DEF Rest, Turn
<1>5. \A i \in 0..n :
        Rest(m, order)[i] = IF i = 0 THEN <<"rbrace">> ELSE Turn(Rest(m, order)[i - 1], i)
  BY <1>4
<1>6. Entries(m, order) = Rest(m, order)[n]
  BY DEF Entries, Rest, Entry, Count
<1>7. 0 \in 0..n /\ \A i \in 1..n : i \in 0..n /\ i # 0
  BY <1>0
<1>8. /\ Rest(m, order)[0] = <<"rbrace">>
      /\ \A i \in 1..n : Rest(m, order)[i] = Turn(Rest(m, order)[i - 1], i)
  BY <1>5, <1>7
<1> QED
  BY <1>6, <1>8 DEF Turn

LEMMA RestIsText ==
    ASSUME NEW m, IsMap(m), NEW order \in Orders(DOMAIN m)
    PROVE  /\ Count(m) \in Nat
           /\ \A i \in 1..Count(m) : order[i] \in DOMAIN m
           /\ \A i \in 0..Count(m) : Rest(m, order)[i] \in Texts
<1> DEFINE T == {i \in Nat : i <= Count(m) => Rest(m, order)[i] \in Texts}
<1>1. Count(m) \in Nat
  BY FS_CardinalityType DEF Count, IsMap
<1>2. \A i \in 1..Count(m) : order[i] \in DOMAIN m
  BY DEF Orders, Count
<1>3. 0 \in T
  <2>1. <<"rbrace">> \in Texts
    BY CharactersAssumption DEF Texts
  <2>2. Rest(m, order)[0] = <<"rbrace">>
    BY EntrySteps
  <2> QED
    BY <2>1, <2>2
<1>4. ASSUME NEW i \in Nat, i \in T
      PROVE  i + 1 \in T
  <2> SUFFICES ASSUME i + 1 <= Count(m) PROVE Rest(m, order)[i + 1] \in Texts
    OBVIOUS
  <2>1. Rest(m, order)[i] \in Texts /\ i + 1 \in 1..Count(m) /\ (i + 1) - 1 = i
    BY <1>1, <1>4
  <2>2. Rest(m, order)[i + 1] = Entry(m, order, i + 1, Rest(m, order)[i])
    BY <2>1, EntrySteps
  <2>3. order[i + 1] \in Texts /\ m[order[i + 1]] \in Texts
    BY <1>2, <2>1 DEF IsMap
  <2> QED
    BY <2>1, <2>2, <2>3, HoldsSeparator DEF Entry, Separators
<1> HIDE DEF T
<1>5. \A i \in Nat : i \in T
  BY <1>3, <1>4, NatSet
<1> QED
  BY <1>1, <1>2, <1>5 DEF T

PlainMap(m) == IsMap(m) /\ \A k \in DOMAIN m : Bare(k) /\ Bare(m[k])

(* The entries tell the map. *)
LEMMA EntriesTellMap ==
    ASSUME NEW m, NEW p, PlainMap(m), PlainMap(p),
           NEW order \in Orders(DOMAIN m), NEW other \in Orders(DOMAIN p),
           Entries(m, order) = Entries(p, other), Count(m) <= Count(p)
    PROVE  m = p
<1> DEFINE n == Count(m)
           q == Count(p)
           R(i) == Rest(m, order)[i]
           S(i) == Rest(p, other)[i]
           T == {j \in Nat : j <= n => R(n - j) = S(q - j)}
<1>1. /\ n \in Nat /\ q \in Nat /\ n <= q
      /\ \A i \in 0..n : R(i) \in Texts
      /\ \A i \in 0..q : S(i) \in Texts
  BY RestIsText DEF PlainMap
<1>2. /\ R(0) = <<"rbrace">> /\ S(0) = <<"rbrace">>
      /\ \A i \in 1..n : R(i) = Entry(m, order, i, R(i - 1))
      /\ \A i \in 1..q : S(i) = Entry(p, other, i, S(i - 1))
      /\ R(n) = S(q)
  BY EntrySteps DEF PlainMap
<1>3. /\ \A i \in 1..n : order[i] \in DOMAIN m
      /\ \A i \in 1..q : other[i] \in DOMAIN p
  BY RestIsText DEF PlainMap
<1>4. /\ \A i \in 1..n : /\ order[i] \in Texts /\ Bare(order[i])
                         /\ m[order[i]] \in Texts /\ Bare(m[order[i]])
      /\ \A i \in 1..q : /\ other[i] \in Texts /\ Bare(other[i])
                         /\ p[other[i]] \in Texts /\ Bare(p[other[i]])
  BY <1>3 DEF PlainMap, IsMap
<1> HIDE DEF n, q, R, S
<1>5. ASSUME NEW i \in 1..n, NEW j \in 1..q, R(i) = S(j)
      PROVE  /\ order[i] = other[j] /\ m[order[i]] = p[other[j]]
             /\ R(i - 1) = S(j - 1)
  <2>1. Entry(m, order, i, R(i - 1)) = Entry(p, other, j, S(j - 1))
    BY <1>2, <1>5
  <2>2. R(i - 1) \in Texts /\ S(j - 1) \in Texts
    BY <1>1, <1>5
  <2>3. /\ Marked(m[order[i]], "semicolon", R(i - 1)) \in Texts
        /\ Marked(p[other[j]], "semicolon", S(j - 1)) \in Texts
    BY <1>4, <2>2, HoldsSeparator DEF Separators
  <2>4. /\ order[i] = other[j]
        /\ Marked(m[order[i]], "semicolon", R(i - 1)) = Marked(p[other[j]], "semicolon", S(j - 1))
    BY <1>4, <2>1, <2>3, FirstSeparator DEF Entry, Separators
  <2> QED
    BY <1>4, <2>2, <2>4, FirstSeparator DEF Separators
<1>6. 0 \in T
  BY <1>1, <1>2
<1>7. ASSUME NEW j \in Nat, j \in T
      PROVE  j + 1 \in T
  <2> SUFFICES ASSUME j + 1 <= n PROVE R(n - (j + 1)) = S(q - (j + 1))
    OBVIOUS
  <2>1. /\ n - j \in 1..n /\ q - j \in 1..q
        /\ (n - j) - 1 = n - (j + 1) /\ (q - j) - 1 = q - (j + 1)
    BY <1>1
  <2>2. R(n - j) = S(q - j)
    BY <1>1, <1>7
  <2>3. R((n - j) - 1) = S((q - j) - 1)
    BY <1>5, <2>1, <2>2
  <2> QED
    BY <2>1, <2>3
<1>8. \A j \in Nat : j <= n => R(n - j) = S(q - j)
  <2> HIDE DEF T
  <2>1. \A j \in Nat : j \in T
    BY <1>6, <1>7, NatSet
  <2> QED
    BY <2>1 DEF T
<1>9. n = q
  <2> SUFFICES ASSUME n < q PROVE FALSE
    BY <1>1
  <2>1. q - n \in 1..q /\ n - n = 0
    BY <1>1
  <2>2. S(q - n) = <<"rbrace">>
    BY <1>1, <1>2, <1>8, <2>1
  <2>3. S(q - n) = Entry(p, other, q - n, S((q - n) - 1)) /\ S((q - n) - 1) \in Texts
    BY <1>1, <1>2, <2>1
  <2> DEFINE k == other[q - n]
             v == Marked(p[k], "semicolon", S((q - n) - 1))
  <2>4. k \in Texts /\ v \in Texts /\ S(q - n) = Marked(k, "comma", v)
    BY <1>4, <2>1, <2>3, HoldsSeparator DEF Entry, Separators
  <2> HIDE DEF k, v
  <2>5. ~Bare(<<"rbrace">>)
    BY <2>2, <2>4, HoldsSeparator DEF Separators
  <2> QED
    BY <2>5 DEF Bare, Separators
<1>10. \A i \in 1..n : R(i) = S(i)
  <2> SUFFICES ASSUME NEW i \in 1..n PROVE R(i) = S(i)
    OBVIOUS
  <2>1. n - i \in Nat /\ n - i <= n /\ n - (n - i) = i
    BY <1>1
  <2> QED
    BY <1>8, <1>9, <2>1
<1>11. \A i \in 1..n : order[i] = other[i] /\ m[order[i]] = p[other[i]]
  BY <1>5, <1>9, <1>10
<1>12. /\ DOMAIN m = {order[i] : i \in 1..n}
       /\ DOMAIN p = {other[i] : i \in 1..q}
  BY OrderWalksAll DEF PlainMap, IsMap, n, q, Count
<1>13. DOMAIN m = DOMAIN p
  BY <1>9, <1>11, <1>12
<1>14. \A k \in DOMAIN m : m[k] = p[k]
  BY <1>9, <1>11, <1>12
<1>15. m = [k \in DOMAIN m |-> m[k]] /\ p = [k \in DOMAIN p |-> p[k]]
  BY DEF PlainMap, IsMap
<1> QED
  BY <1>13, <1>14, <1>15
-----------------------------------------------------------------------------
(* The three kinds of keys. *)
LEMMA SamePrefix ==
    ASSUME NEW t \in Texts, NEW u \in Texts, NEW v \in Texts, t \o u = t \o v
    PROVE  u = v
<1> DEFINE l == t \o u
           r == t \o v
<1>1. /\ Len(l) = Len(t) + Len(u) /\ Len(r) = Len(t) + Len(v)
      /\ Len(t) \in Nat /\ Len(u) \in Nat /\ Len(v) \in Nat
      /\ \A i \in 1..Len(u) : l[Len(t) + i] = u[i]
      /\ \A i \in 1..Len(v) : r[Len(t) + i] = v[i]
  <2>1. t \in Seq(Characters) /\ u \in Seq(Characters) /\ v \in Seq(Characters)
    BY DEF Texts
  <2>2. Len(t) \in Nat /\ Len(u) \in Nat /\ Len(v) \in Nat
    BY <2>1
  <2>3. Len(l) = Len(t) + Len(u) /\ \A i \in 1..Len(u) : l[Len(t) + i] = u[i]
    BY <2>1
  <2>4. Len(r) = Len(t) + Len(v) /\ \A i \in 1..Len(v) : r[Len(t) + i] = v[i]
    BY <2>1
  <2> QED
    BY <2>2, <2>3, <2>4
<1>2. l = r
  OBVIOUS
<1> HIDE DEF l, r
<1>3. Len(u) = Len(v)
  BY <1>1, <1>2
<1>4. \A i \in 1..Len(u) : u[i] = v[i]
  BY <1>1, <1>2, <1>3
<1> QED
  BY <1>3, <1>4, SameText

LEMMA SameSuffix ==
    ASSUME NEW t \in Texts, NEW u \in Texts, NEW v \in Texts, u \o t = v \o t
    PROVE  u = v
<1> DEFINE l == u \o t
           r == v \o t
<1>1. /\ Len(l) = Len(u) + Len(t) /\ Len(r) = Len(v) + Len(t)
      /\ Len(t) \in Nat /\ Len(u) \in Nat /\ Len(v) \in Nat
      /\ \A i \in 1..Len(u) : l[i] = u[i]
      /\ \A i \in 1..Len(v) : r[i] = v[i]
  BY DEF Texts
<1>2. l = r
  OBVIOUS
<1> HIDE DEF l, r
<1>3. Len(u) = Len(v)
  BY <1>1, <1>2
<1>4. \A i \in 1..Len(u) : u[i] = v[i]
  BY <1>1, <1>2, <1>3
<1> QED
  BY <1>3, <1>4, SameText

LEMMA BareTogether ==
    ASSUME NEW t \in Texts, NEW u \in Texts, Bare(t), Bare(u)
    PROVE  t \o u \in Texts /\ Bare(t \o u)
<1> DEFINE l == t \o u
<1>1. /\ l \in Texts /\ DOMAIN l = 1..(Len(t) + Len(u))
      /\ Len(t) \in Nat /\ Len(u) \in Nat
      /\ \A i \in 1..Len(t) : l[i] = t[i]
      /\ \A i \in 1..Len(u) : l[Len(t) + i] = u[i]
  BY DEF Texts
<1>2. /\ \A i \in 1..Len(t) : t[i] \notin Separators
      /\ \A i \in 1..Len(u) : u[i] \notin Separators
  BY DEF Bare, Texts
<1> HIDE DEF l
<1>3. ASSUME NEW i \in DOMAIN l PROVE l[i] \notin Separators
  <2>1. CASE i <= Len(t)
    BY <1>1, <1>2, <2>1
  <2>2. CASE i > Len(t)
    <3>1. i - Len(t) \in 1..Len(u) /\ Len(t) + (i - Len(t)) = i
      BY <1>1, <2>2
    <3> QED
      BY <1>1, <1>2, <3>1
  <2> QED
    BY <1>1, <2>1, <2>2
<1>4. Bare(l)
  BY <1>3 DEF Bare
<1> QED
  BY <1>1, <1>4 DEF l

Prefix == <<"v", "2", "dash">>

LEMMA PrefixIsText == Prefix \in Texts /\ Bare(Prefix)
<1>1. Prefix \in Texts
  BY CharactersAssumption DEF Prefix, Texts
<1>2. Bare(Prefix)
  BY DEF Prefix, Bare, Separators
<1> QED
  BY <1>1, <1>2

IsNamed(r) == r.api # "target" /\ ~Unnamed(r)
IsService(r) == r.api # "target" /\ Unnamed(r)

LEMMA Kinds ==
    ASSUME NEW r \in Requests
    PROVE  /\ r.api = "target" =>
                /\ r = [api |-> "target", path |-> r.path, selector |-> r.selector]
                /\ r.path \in Texts /\ r.selector \in Texts
           /\ r.api # "target" =>
                /\ r = [api |-> "service", name |-> r.name, path |-> r.path,
                        metadata |-> r.metadata]
                /\ r.name \in Texts /\ r.path \in Texts /\ IsMap(r.metadata)
  BY RequestsAssumption DEF IsMap

LEMMA NameKey ==
    ASSUME NEW r \in Requests, IsNamed(r), Plain(r), NEW k \in KeysOf(r)
    PROVE  k \in Texts /\ Bare(k)
  BY Kinds DEF IsNamed, Plain, KeysOf

LEMMA ServiceKeyOf ==
    ASSUME NEW r \in Requests, IsService(r), Plain(r), NEW k \in KeysOf(r)
    PROVE  /\ PlainMap(r.metadata)
           /\ Prefix \o r.path \in Texts /\ Bare(Prefix \o r.path)
           /\ \E order \in Orders(DOMAIN r.metadata) :
                /\ Entries(r.metadata, order) \in Texts
                /\ k = Marked(Prefix \o r.path, "lbrace", Entries(r.metadata, order))
<1>1. /\ PlainMap(r.metadata) /\ IsMap(r.metadata)
      /\ r.path \in Texts /\ Bare(r.path)
  BY Kinds DEF IsService, Plain, PlainMap
<1>2. Prefix \o r.path \in Texts /\ Bare(Prefix \o r.path)
  BY <1>1, PrefixIsText, BareTogether
<1>3. PICK order \in Orders(DOMAIN r.metadata) :
        k = Marked(Prefix \o r.path, "lbrace", Entries(r.metadata, order))
  BY DEF KeysOf, IsService, ServiceKey, Prefix
<1>4. Entries(r.metadata, order) \in Texts
  BY <1>1, EntrySteps, RestIsText
<1> QED
  BY <1>1, <1>2, <1>3, <1>4

LEMMA TargetKeyOf ==
    ASSUME NEW r \in Requests, r.api = "target", Plain(r), NEW k \in KeysOf(r)
    PROVE  /\ r.path \o <<"dash">> \in Texts /\ Bare(r.path \o <<"dash">>)
           /\ r.selector \o <<"rbracket">> \in Texts
           /\ k = Marked(r.path \o <<"dash">>, "lbracket", r.selector \o <<"rbracket">>)
<1>1. r.path \in Texts /\ r.selector \in Texts /\ Bare(r.path)
  BY Kinds DEF Plain
<1>2. <<"dash">> \in Texts /\ <<"rbracket">> \in Texts
  BY CharactersAssumption DEF Texts
<1>3. Bare(<<"dash">>)
  BY DEF Bare, Separators
<1>4. r.path \o <<"dash">> \in Texts /\ Bare(r.path \o <<"dash">>)
  BY <1>1, <1>2, <1>3, BareTogether
<1>5. r.selector \o <<"rbracket">> \in Texts
  BY <1>1, <1>2 DEF Texts
<1> QED
  BY <1>4, <1>5 DEF KeysOf, mkKey

(* Plain requests that may have the same key are the same, unless they both have  *)
(* a Name.                                                                  *)
LEMMA KeyTellsRequest ==
    ASSUME NEW q \in Requests, NEW r \in Requests, Unnamed(q), Plain(q), Plain(r),
           NEW k \in KeysOf(q), k \in KeysOf(r)
    PROVE  q = r
<1>1. /\ IsNamed(r) \/ IsService(r) \/ r.api = "target"
      /\ IsService(q) \/ q.api = "target"
  BY DEF IsNamed, IsService
<1>2. ~IsNamed(r)
  <2> SUFFICES ASSUME IsNamed(r) PROVE FALSE
    OBVIOUS
  <2>1. k \in Texts /\ Bare(k)
    BY NameKey
  <2>2. CASE IsService(q)
    BY <2>1, <2>2, ServiceKeyOf, HoldsSeparator DEF Separators
  <2>3. CASE q.api = "target"
    BY <2>1, <2>3, TargetKeyOf, HoldsSeparator DEF Separators
  <2> QED
    BY <1>1, <2>2, <2>3
<1>3. CASE IsService(q) /\ IsService(r)
  <2>1. /\ q.path \in Texts /\ r.path \in Texts
        /\ q = [api |-> "service", name |-> <<>>, path |-> q.path, metadata |-> q.metadata]
        /\ r = [api |-> "service", name |-> <<>>, path |-> r.path, metadata |-> r.metadata]
    BY <1>3, Kinds DEF IsService, Unnamed
  <2>2. PICK order \in Orders(DOMAIN q.metadata) :
          /\ Entries(q.metadata, order) \in Texts
          /\ k = Marked(Prefix \o q.path, "lbrace", Entries(q.metadata, order))
    BY <1>3, ServiceKeyOf
  <2>3. PICK other \in Orders(DOMAIN r.metadata) :
          /\ Entries(r.metadata, other) \in Texts
          /\ k = Marked(Prefix \o r.path, "lbrace", Entries(r.metadata, other))
    BY <1>3, ServiceKeyOf
  <2>4. /\ PlainMap(q.metadata) /\ PlainMap(r.metadata)
        /\ Prefix \o q.path \in Texts /\ Bare(Prefix \o q.path)
        /\ Prefix \o r.path \in Texts /\ Bare(Prefix \o r.path)
    BY <1>3, ServiceKeyOf
  <2>5. /\ Prefix \o q.path = Prefix \o r.path
        /\ Entries(q.metadata, order) = Entries(r.metadata, other)
    <3>1. Marked(Prefix \o q.path, "lbrace", Entries(q.metadata, order))
            = Marked(Prefix \o r.path, "lbrace", Entries(r.metadata, other))
      BY <2>2, <2>3
    <3>2. "lbrace" \in Separators
      BY DEF Separators
    <3> DEFINE t == Prefix \o q.path
               u == Prefix \o r.path
               v == Entries(q.metadata, order)
               w == Entries(r.metadata, other)
    <3>3. /\ t \in Texts /\ u \in Texts /\ Bare(t) /\ Bare(u)
          /\ v \in Texts /\ w \in Texts
          /\ Marked(t, "lbrace", v) = Marked(u, "lbrace", w)
      BY <2>2, <2>3, <2>4, <3>1
    <3> HIDE DEF t, u, v, w
    <3>4. t = u /\ v = w
      BY <3>2, <3>3, FirstSeparator
    <3> QED
      BY <3>4 DEF t, u, v, w
  <2>6. q.path = r.path
    BY <2>1, <2>5, PrefixIsText, SamePrefix
  <2>7. Count(q.metadata) \in Nat /\ Count(r.metadata) \in Nat
    BY <2>4, RestIsText DEF PlainMap
  <2>8. q.metadata = r.metadata
    <3>1. CASE Count(q.metadata) <= Count(r.metadata)
      BY <2>4, <2>5, <3>1, EntriesTellMap
    <3>2. CASE Count(r.metadata) <= Count(q.metadata)
      BY <2>4, <2>5, <3>2, EntriesTellMap
    <3> QED
      BY <2>7, <3>1, <3>2
  <2> QED
    BY <2>1, <2>6, <2>8
<1>4. CASE q.api = "target" /\ r.api = "target"
  <2>1. /\ q.path \o <<"dash">> = r.path \o <<"dash">>
        /\ q.selector \o <<"rbracket">> = r.selector \o <<"rbracket">>
    <3>1. /\ q.path \o <<"dash">> \in Texts /\ Bare(q.path \o <<"dash">>)
          /\ q.selector \o <<"rbracket">> \in Texts
          /\ k = Marked(q.path \o <<"dash">>, "lbracket", q.selector \o <<"rbracket">>)
      BY <1>4, TargetKeyOf
    <3>2. /\ r.path \o <<"dash">> \in Texts /\ Bare(r.path \o <<"dash">>)
          /\ r.selector \o <<"rbracket">> \in Texts
          /\ k = Marked(r.path \o <<"dash">>, "lbracket", r.selector \o <<"rbracket">>)
      BY <1>4, TargetKeyOf
    <3>3. "lbracket" \in Separators
      BY DEF Separators
    <3> DEFINE t == q.path \o <<"dash">>
               u == r.path \o <<"dash">>
               v == q.selector \o <<"rbracket">>
               w == r.selector \o <<"rbracket">>
    <3>4. /\ t \in Texts /\ u \in Texts /\ Bare(t) /\ Bare(u)
          /\ v \in Texts /\ w \in Texts
          /\ Marked(t, "lbracket", v) = Marked(u, "lbracket", w)
      BY <3>1, <3>2
    <3> HIDE DEF t, u, v, w
    <3>5. t = u /\ v = w
      BY <3>3, <3>4, FirstSeparator
    <3> QED
      BY <3>5 DEF t, u, v, w
  <2>2. /\ q.path \in Texts /\ r.path \in Texts
        /\ q.selector \in Texts /\ r.selector \in Texts
        /\ <<"dash">> \in Texts /\ <<"rbracket">> \in Texts
    BY <1>4, Kinds, CharactersAssumption DEF Texts
  <2>3. q.path = r.path /\ q.selector = r.selector
    BY <2>1, <2>2, SameSuffix
  <2> QED
    BY <1>4, <2>3, Kinds
<1>5. CASE IsService(q) /\ r.api = "target"
  BY <1>5, ServiceKeyOf, TargetKeyOf, FirstSeparator DEF Separators
<1>6. CASE q.api = "target" /\ IsService(r)
  BY <1>6, ServiceKeyOf, TargetKeyOf, FirstSeparator DEF Separators
<1> QED
  BY <1>1, <1>2, <1>3, <1>4, <1>5, <1>6

(* Calls that return the same connection asked for the same, unless both gave a   *)
(* Name, for any texts without separators and any metadata made of them.     *)
THEOREM Unshared == Spec => []NoSharing
<1>1. Inv => NoSharing
  <2> SUFFICES ASSUME Inv, NEW c \in Calls, NEW d \in Calls,
                      result[c] # None, result[c] = result[d], Unnamed(request[c]),
                      Plain(request[c]), Plain(request[d])
               PROVE  request[c] = request[d]
    BY DEF NoSharing
  <2>1. /\ Holds(c) /\ Holds(d) /\ result[c] = gconn[held[c]] /\ result[d] = gconn[held[d]]
        /\ key[c] \in KeysOf(request[c]) /\ key[d] \in KeysOf(request[d])
        /\ request[c] \in Requests /\ request[d] \in Requests
    BY DEF Inv, CallInv
  <2>2. held[c] \in Ids /\ held[d] \in Ids
    BY <2>1, HeldIsId
  <2>3. held[c] = held[d]
    BY <2>1, <2>2 DEF Inv, DialInv
  <2>4. key[c] = key[d]
    BY <2>1, <2>3, HeldByKey
  <2> QED
    BY <2>1, <2>4, KeyTellsRequest
<1> QED
  BY <1>1, InvAlways, PTL
-----------------------------------------------------------------------------
(* Who keeps a lock, and how many connections there are.                    *)

(* The calls that may still dial. *)
Undone == {c \in Calls : pc[c] # "done"}

(* A lock is kept by a call that dials. *)
LockedToDial ==
    \A i \in Ids : locker[i] # None => pc[locker[i]] = "dial" /\ held[locker[i]] = i

(* A call that waits for a lock waits for another one that dials, and dialling   *)
(* waits for no lock.                                                       *)
NoCircularWait ==
    \A c \in Calls :
        pc[c] \in {"look", "lock"} /\ locker[held[c]] # None =>
            locker[held[c]] \in Calls \ {c} /\ pc[locker[held[c]]] = "dial"

CountInv ==
    /\ dialled + Cardinality(Undone) <= Cardinality(Calls)
    /\ held \in [Calls -> Ids \cup {None}]
    /\ result \in [Calls -> Nat]
    /\ \A c \in Calls : result[c] <= dialled
    /\ LockedToDial

LEMMA CountInit == Init => CountInv
<1> SUFFICES ASSUME Init PROVE CountInv
  OBVIOUS
<1>1. Undone = Calls /\ Cardinality(Calls) \in Nat
  BY CallsAssumption, FS_CardinalityType DEF Init, Undone
<1> QED
  BY <1>1 DEF Init, CountInv, LockedToDial, None

(* Only a call that ends makes the others fewer. *)
LEMMA UndoneShrinks ==
    ASSUME Inv, NEW c \in Calls, pc[c] # "done", NEW to \in PCs, Goto(c, to)
    PROVE  /\ Cardinality(Undone) \in Nat /\ Cardinality(Undone') \in Nat
           /\ Cardinality(Undone') <= Cardinality(Undone)
           /\ to = "done" => Cardinality(Undone') = Cardinality(Undone) - 1
           /\ pc'[c] = to
           /\ \A d \in Calls \ {c} : pc'[d] = pc[d]
<1>1. IsFiniteSet(Undone) /\ c \in Undone
  BY CallsAssumption, FS_Subset DEF Undone
<1>2. Cardinality(Undone) \in Nat
  BY <1>1, FS_CardinalityType
<1>3. pc'[c] = to /\ \A d \in Calls \ {c} : pc'[d] = pc[d]
  BY DEF Goto, Inv, CallInv
<1>4. CASE to = "done"
  <2>1. Undone' = Undone \ {c}
    BY <1>3, <1>4 DEF Undone
  <2>2. Cardinality(Undone') \in Nat
    BY <1>1, <2>1, FS_CardinalityType, FS_RemoveElement
  <2>3. Cardinality(Undone') = Cardinality(Undone) - 1
    BY <1>1, <2>1, FS_RemoveElement
  <2> QED
    BY <1>2, <1>3, <2>2, <2>3
<1>5. CASE to # "done"
  <2>1. Undone' = Undone
    BY <1>3, <1>5 DEF Undone
  <2> QED
    BY <1>2, <1>3, <1>5, <2>1
<1> QED
  BY <1>4, <1>5

(* A call that does not dial has locked nothing. *)
LEMMA LocksNothing ==
    ASSUME LockedToDial, NEW c \in Calls, pc[c] # "dial"
    PROVE  \A i \in Ids : locker[i] # c \/ locker[i] = None
  BY DEF LockedToDial

LEMMA CountSearch ==
    ASSUME Inv, Inv', CountInv, NEW c \in Calls, LookUp(c) \/ Look(c) \/ Insert(c)
    PROVE  CountInv'
<1>1. /\ pc[c] \in {"start", "look", "insert"} /\ UNCHANGED <<locker, gconn, dialled>>
  BY DEF LookUp, Look, Insert
<1>2. PICK to \in {"insert", "look", "lock", "done"} : Goto(c, to)
  BY DEF LookUp, Look, Insert, Return
<1>3. /\ Cardinality(Undone) \in Nat /\ Cardinality(Undone') \in Nat
      /\ Cardinality(Undone') <= Cardinality(Undone)
      /\ pc'[c] = to /\ \A d \in Calls \ {c} : pc'[d] = pc[d]
  BY <1>1, <1>2, UndoneShrinks DEF PCs
<1>4. dialled' + Cardinality(Undone') <= Cardinality(Calls)
  <2>1. dialled \in Nat /\ Cardinality(Calls) \in Nat
    BY CallsAssumption, FS_CardinalityType DEF Inv, DialInv
  <2> QED
    BY <1>1, <1>3, <2>1 DEF CountInv
<1>5. held' \in [Calls -> Ids \cup {None}] /\ \A d \in Calls \ {c} : held'[d] = held[d]
  <2>1. CASE Look(c)
    BY <2>1 DEF Look, CountInv
  <2>2. CASE LookUp(c) \/ Insert(c)
    <3>1. UNCHANGED held \/ \E i : held' = [held EXCEPT ![c] = i]
      BY <2>2 DEF LookUp, Insert
    <3>2. CASE UNCHANGED held
      BY <3>2 DEF CountInv
    <3>3. CASE pc'[c] \in {"look", "lock"}
      <4>1. Holds(c)'
        BY <3>3 DEF Inv, CallInv
      <4>2. held'[c] \in Ids
        <5>1. \A e \in conns' : e.conn \in Ids
          <6>1. IsFiniteSet(Searching') /\ Cardinality(Searching') \in Nat /\ Cardinality(Calls) \in Nat
            <7>1. Searching' \subseteq Calls
              BY DEF Searching
            <7> QED
              BY <7>1, CallsAssumption, FS_Subset, FS_CardinalityType
          <6> QED
            BY <6>1 DEF Inv, MapInv, Ids
        <5> QED
          BY <4>1, <5>1 DEF Holds
      <4> QED
        BY <3>1, <4>2 DEF CountInv
    <3>4. CASE pc'[c] = "insert"
      BY <1>1, <1>2, <1>3, <2>2, <3>4 DEF LookUp, Insert, CountInv, Goto, Inv, CallInv
    <3> QED
      BY <1>2, <1>3, <2>2, <3>2, <3>3, <3>4 DEF LookUp, Insert, Goto
  <2> QED
    BY <2>1, <2>2
<1>6. result' \in [Calls -> Nat] /\ \A d \in Calls : result'[d] <= dialled'
  <2>1. CASE UNCHANGED result
    BY <1>1, <2>1 DEF CountInv
  <2>2. CASE Look(c) /\ gconn[held[c]] # None
    <3>1. result' = [result EXCEPT ![c] = gconn[held[c]]]
      BY <2>2 DEF Look, Return
    <3>2. held[c] \in Ids
      BY <2>2, HeldIsId DEF Look, Inv, CallInv
    <3>3. gconn[held[c]] \in Nat /\ gconn[held[c]] <= dialled
      BY <3>2 DEF Inv, DialInv
    <3> QED
      BY <1>1, <3>1, <3>3 DEF CountInv
  <2> QED
    BY <2>1, <2>2 DEF LookUp, Look, Insert
<1>7. LockedToDial'
  <2>1. \A i \in Ids : locker[i] # None => locker[i] \in Calls \ {c}
    BY <1>1, LocksNothing DEF CountInv, Inv, DialInv
  <2> QED
    BY <1>1, <1>3, <1>5, <2>1 DEF CountInv, LockedToDial
<1> QED
  BY <1>4, <1>5, <1>6, <1>7 DEF CountInv

LEMMA CountDial ==
    ASSUME Inv, CountInv, NEW c \in Calls, Lock(c) \/ Dialled(c) \/ DialFailed(c)
    PROVE  CountInv'
<1>1. /\ pc[c] \in {"lock", "dial"} /\ UNCHANGED held
      /\ gconn \in [Ids -> Nat] /\ locker \in [Ids -> Calls \cup {None}] /\ dialled \in Nat
  BY DEF Lock, Dialled, DialFailed, Inv, DialInv
<1>2. held[c] \in Ids /\ gconn[held[c]] \in Nat /\ gconn[held[c]] <= dialled
  BY <1>1, HeldIsId DEF Inv, CallInv, DialInv
<1>3. PICK to \in {"dial", "done"} : Goto(c, to)
  BY DEF Lock, Dialled, DialFailed, Return
<1>4. /\ Cardinality(Undone) \in Nat /\ Cardinality(Undone') \in Nat
      /\ Cardinality(Undone') <= Cardinality(Undone)
      /\ to = "done" => Cardinality(Undone') = Cardinality(Undone) - 1
      /\ pc'[c] = to /\ \A d \in Calls \ {c} : pc'[d] = pc[d]
  BY <1>1, <1>3, UndoneShrinks DEF PCs
<1>5. Cardinality(Calls) \in Nat
  BY CallsAssumption, FS_CardinalityType
<1>6. CASE Lock(c)
  <2>1. UNCHANGED dialled
    BY <1>6 DEF Lock
  <2>2. result' \in [Calls -> Nat] /\ \A d \in Calls : result'[d] <= dialled'
    <3>1. result' = result \/ result' = [result EXCEPT ![c] = gconn[held[c]]]
      BY <1>6 DEF Lock, Return
    <3> QED
      BY <1>2, <2>1, <3>1 DEF CountInv
  <2>3. LockedToDial'
    <3>1. CASE UNCHANGED locker
      <4>1. \A i \in Ids : locker[i] # None => locker[i] \in Calls \ {c}
        BY <1>1, <1>6, LocksNothing DEF CountInv, Lock
      <4> QED
        BY <1>1, <1>4, <3>1, <4>1 DEF CountInv, LockedToDial
    <3>2. CASE locker' = [locker EXCEPT ![held[c]] = c] /\ Goto(c, "dial")
      <4>1. \A i \in Ids : locker[i] # None => locker[i] \in Calls \ {c}
        BY <1>1, <1>6, LocksNothing DEF CountInv, Lock
      <4>2. pc'[c] = "dial"
        BY <3>2 DEF Goto, Inv, CallInv
      <4> QED
        BY <1>1, <1>2, <1>4, <3>2, <4>1, <4>2 DEF CountInv, LockedToDial
    <3> QED
      BY <1>6, <3>1, <3>2 DEF Lock
  <2> QED
    BY <1>1, <1>4, <1>5, <2>1, <2>2, <2>3 DEF CountInv
<1>7. CASE Dialled(c) \/ DialFailed(c)
  <2>1. /\ Goto(c, "done") /\ locker' = [locker EXCEPT ![held[c]] = None]
        /\ \/ dialled' = dialled + 1 /\ result' = [result EXCEPT ![c] = dialled + 1]
           \/ dialled' = dialled /\ result' = [result EXCEPT ![c] = None]
        /\ pc[c] = "dial"
    BY <1>7 DEF Dialled, DialFailed, Return
  <2>2. to = "done"
    BY <1>4, <2>1 DEF Goto, Inv, CallInv
  <2>3. result' \in [Calls -> Nat] /\ \A d \in Calls : result'[d] <= dialled'
    BY <1>1, <2>1 DEF CountInv, None
  <2>4. dialled' + Cardinality(Undone') <= Cardinality(Calls)
    BY <1>1, <1>4, <1>5, <2>1, <2>2 DEF CountInv
  <2>5. LockedToDial'
    <3>1. \A i \in Ids : locker[i] = c /\ locker[i] # None => i = held[c]
      BY DEF CountInv, LockedToDial
    <3>2. \A i \in Ids : locker'[i] # None =>
            locker[i] # None /\ locker'[i] = locker[i] /\ i # held[c]
      BY <1>1, <1>2, <2>1
    <3>3. \A i \in Ids : locker'[i] # None => locker[i] \in Calls \ {c}
      BY <1>1, <3>1, <3>2
    <3> QED
      BY <1>1, <1>4, <3>2, <3>3 DEF CountInv, LockedToDial
  <2> QED
    BY <1>1, <2>3, <2>4, <2>5 DEF CountInv
<1> QED
  BY <1>6, <1>7

LEMMA CountAlways == Spec => [](Inv /\ CountInv)
<1>1. Inv /\ CountInv /\ [Next]_vars => CountInv'
  <2> SUFFICES ASSUME Inv, CountInv, [Next]_vars PROVE CountInv'
    OBVIOUS
  <2>1. Inv'
    BY InvStep
  <2>2. CASE UNCHANGED vars
    BY <2>2 DEF vars, CountInv, Undone, LockedToDial
  <2> QED
    BY <2>1, <2>2, CountSearch, CountDial DEF Next, Step
<1> QED
  BY <1>1, InvInit, InvStep, CountInit, PTL DEF Spec

(* The state of the cache is well typed; there are never more conn objects or    *)
(* connections than calls.                                                  *)
THEOREM TypeCorrect == Spec => []TypeOK
<1>1. Inv /\ CountInv => TypeOK
  <2> SUFFICES ASSUME Inv, CountInv PROVE TypeOK
    OBVIOUS
  <2>1. /\ Cardinality(Searching) \in Nat /\ Cardinality(Undone) \in Nat
        /\ Cardinality(Calls) \in Nat
    <3>1. Searching \subseteq Calls /\ Undone \subseteq Calls
      BY DEF Searching, Undone
    <3> QED
      BY <3>1, CallsAssumption, FS_Subset, FS_CardinalityType
  <2>2. allocated \in 0..Cardinality(Calls) /\ dialled \in 0..Cardinality(Calls)
    BY <2>1 DEF Inv, MapInv, DialInv, CountInv
  <2>3. \A n \in Nat : n <= dialled => n \in Ids \cup {None}
    BY <2>1, <2>2 DEF Ids, None
  <2>4. gconn \in [Ids -> Ids \cup {None}] /\ result \in [Calls -> Ids \cup {None}]
    BY <2>3 DEF Inv, DialInv, CountInv
  <2> QED
    BY <2>2, <2>4 DEF TypeOK, Inv, MapInv, DialInv, CallInv, CountInv
<1> QED
  BY <1>1, CountAlways, PTL

(* Whichever calls come through both entry points and whichever dials fail: a    *)
(* call that waits waits for a dial, never for a call that waits itself.    *)
THEOREM NobodyWaitsInACircle == Spec => []NoCircularWait
<1>1. Inv /\ CountInv => NoCircularWait
  <2> SUFFICES ASSUME Inv, CountInv, NEW c \in Calls, pc[c] \in {"look", "lock"},
                      locker[held[c]] # None
               PROVE  locker[held[c]] \in Calls \ {c} /\ pc[locker[held[c]]] = "dial"
    BY DEF NoCircularWait
  <2>1. held[c] \in Ids
    BY HeldIsId DEF Inv, CallInv
  <2> QED
    BY <2>1 DEF Inv, DialInv, CountInv, LockedToDial
<1> QED
  BY <1>1, CountAlways, PTL
=============================================================================
