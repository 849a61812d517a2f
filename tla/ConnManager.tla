----------------------------- MODULE ConnManager -----------------------------
(***************************************************************************)
(* The cache of grpc connections of modules/basework/conn_manager.go: a map  *)
(* from keys to conn objects under cm.mu, and in each conn object one         *)
(* *grpc.ClientConn under its own c.mu, which is held while dialling.        *)
(* A key is a text: the Name of the options, or a text put together from the  *)
(* service path and the metadata map, which Go walks in any order, or from the *)
(* target and the selector of the deprecated DialContext, which also looks at *)
(* the connection under a read lock first.  A process is one call.           *)
(***************************************************************************)
EXTENDS Naturals, FiniteSets, Sequences

CONSTANTS
    Calls,          \* calls of DialService and DialContext
    Characters,     \* what texts are made of
    Metadata,       \* values of ServiceDialerOptions.Metadata: maps from texts to texts
    Requests        \* what the calls may ask for

None == 0

Texts == Seq(Characters)

(* The characters that set off the parts of a key. *)
Separators == {"lbrace", "comma", "semicolon", "lbracket"}

ASSUME CallsAssumption == IsFiniteSet(Calls) /\ None \notin Calls

ASSUME CharactersAssumption ==
    Separators \cup {"v", "2", "dash", "rbrace", "rbracket"} \subseteq Characters

(* DialServiceOptions of a DialService; of a DialContext the target, and what     *)
(* "%#v" prints of the selector.                                            *)
ASSUME RequestsAssumption ==
    /\ \A m \in Metadata :
        DOMAIN m \subseteq Texts /\ IsFiniteSet(DOMAIN m) /\ m \in [DOMAIN m -> Texts]
    /\ Requests \subseteq
            [api : {"service"}, name : Texts, path : Texts, metadata : Metadata]
                \cup [api : {"target"}, path : Texts, selector : Texts]

(* The orders in which a range loop may walk a map. *)
Orders(S) ==
    {order \in [1..Cardinality(S) -> S] :
        \A i, j \in DOMAIN order : order[i] = order[j] => i = j}

Marked(text, mark, rest) == text \o <<mark>> \o rest

(* The text of the entries of a map, closed by a brace, if order[i] is the key     *)
(* behind which i - 1 others are walked.                                     *)
Entries(m, order) ==
    LET rest[i \in 0..Cardinality(DOMAIN m)] ==
            IF i = 0 THEN <<"rbrace">>
            ELSE Marked(order[i], "comma", Marked(m[order[i]], "semicolon", rest[i - 1]))
    IN  rest[Cardinality(DOMAIN m)]

(* Mutated serviceKey: the metadata is left out. *)
ServiceKeyShort(path, m) == {Marked(<<"v", "2", "dash">> \o path, "lbrace", <<"rbrace">>)}

(* serviceKey: the texts it may return. *)
ServiceKey(path, m) ==
    {Marked(<<"v", "2", "dash">> \o path, "lbrace", Entries(m, order)) :
        order \in Orders(DOMAIN m)}

mkKey(target, selector) ==
    Marked(target \o <<"dash">>, "lbracket", selector \o <<"rbracket">>)

(* The key is not what the caller gave as a Name. *)
Unnamed(r) == r.api = "target" \/ r.name = <<>>

(* The keys a request may be looked up under. *)
KeysOf(r) ==
    IF r.api = "target" THEN {mkKey(r.path, r.selector)}
    ELSE IF Unnamed(r) THEN ServiceKey(r.path, r.metadata)
    ELSE {r.name}

(* conn objects and client connections are numbered as they are allocated.   *)
Ids == 1..Cardinality(Calls)

VARIABLES
    request,        \* [Calls -> Requests]
    pc,             \* [Calls -> PCs]
    key,            \* [Calls -> the key it computed]
    conns,          \* the map: a set of [key, conn] records, one per key
    allocated,      \* conn objects allocated so far
    held,           \* [Calls -> Ids \cup {None}] the conn object the call has got
    locker,         \* [Ids -> the call that holds c.mu, or None]
    gconn,          \* [Ids -> Ids \cup {None}] c.gconn
    dialled,        \* client connections created so far
    result          \* [Calls -> Ids \cup {None}] what the call returned, None: an error

vars == <<request, pc, key, conns, allocated, held, locker, gconn, dialled, result>>

PCs == {"start", "look", "insert", "lock", "dial", "done"}

TypeOK ==
    /\ request \in [Calls -> Requests]
    /\ pc \in [Calls -> PCs]
    /\ \A c \in Calls : pc[c] # "start" => key[c] \in KeysOf(request[c])
    /\ \A e \in conns : e.conn \in 1..allocated
    /\ allocated \in 0..Cardinality(Calls)
    /\ held \in [Calls -> Ids \cup {None}]
    /\ locker \in [Ids -> Calls \cup {None}]
    /\ gconn \in [Ids -> Ids \cup {None}]
    /\ dialled \in 0..Cardinality(Calls)
    /\ result \in [Calls -> Ids \cup {None}]

(* NewConnManager. *)
Init ==
    /\ request \in [Calls -> Requests]
    /\ pc = [c \in Calls |-> "start"]
    /\ key = [c \in Calls |-> <<>>]
    /\ conns = {}
    /\ allocated = 0
    /\ held = [c \in Calls |-> None]
    /\ locker = [i \in Ids |-> None]
    /\ gconn = [i \in Ids |-> None]
    /\ dialled = 0
    /\ result = [c \in Calls |-> None]

Goto(c, to) == pc' = [pc EXCEPT ![c] = to]

Found(k) == {e.conn : e \in {e \in conns : e.key = k}}
-----------------------------------------------------------------------------
(* Compute the key, and look it up under cm.mu.RLock. *)
LookUp(c) ==
    /\ pc[c] = "start"
    /\ \E k \in KeysOf(request[c]) :
        /\ key' = [key EXCEPT ![c] = k]
        /\ \/ /\ Found(k) = {}
              /\ Goto(c, "insert")
              /\ UNCHANGED held
           \/ \E i \in Found(k) :
                /\ held' = [held EXCEPT ![c] = i]
                /\ Goto(c, IF request[c].api = "target" THEN "look" ELSE "lock")
    /\ UNCHANGED <<request, conns, allocated, locker, gconn, dialled, result>>

Return(c, r) ==
    /\ Goto(c, "done")
    /\ result' = [result EXCEPT ![c] = r]

(* DialContext reads the connection under c.mu.RLock. *)
Look(c) ==
    /\ pc[c] = "look"
    /\ locker[held[c]] = None
    /\ IF gconn[held[c]] # None THEN Return(c, gconn[held[c]])
       ELSE Goto(c, "insert") /\ UNCHANGED result
    /\ UNCHANGED <<request, key, conns, allocated, held, locker, gconn, dialled>>

(* Mutated Insert: the map is not looked at again. *)
InsertTwice(c) ==
    /\ pc[c] = "insert"
    /\ allocated' = allocated + 1
    /\ held' = [held EXCEPT ![c] = allocated + 1]
    /\ conns' = {e \in conns : e.key # key[c]} \cup {[key |-> key[c], conn |-> allocated + 1]}
    /\ Goto(c, "lock")
    /\ UNCHANGED <<request, key, locker, gconn, dialled, result>>

(* Under cm.mu.Lock: look again, and put a new conn object in. *)
Insert(c) ==
    /\ pc[c] = "insert"
    /\ \/ \E i \in Found(key[c]) :
            /\ held' = [held EXCEPT ![c] = i]
            /\ UNCHANGED <<conns, allocated>>
       \/ /\ Found(key[c]) = {}
          /\ allocated' = allocated + 1
          /\ held' = [held EXCEPT ![c] = allocated + 1]
          /\ conns' = conns \cup {[key |-> key[c], conn |-> allocated + 1]}
    /\ Goto(c, "lock")
    /\ UNCHANGED <<request, key, locker, gconn, dialled, result>>

(* c.mu.Lock; a connection that is there is returned, and the lock with it.  *)
Lock(c) ==
    /\ pc[c] = "lock"
    /\ locker[held[c]] = None
    /\ IF gconn[held[c]] # None
       THEN Return(c, gconn[held[c]]) /\ UNCHANGED locker
       ELSE /\ Goto(c, "dial")
            /\ locker' = [locker EXCEPT ![held[c]] = c]
            /\ UNCHANGED result
    /\ UNCHANGED <<request, key, conns, allocated, held, gconn, dialled>>

(* Dialer.DialService and DialWithMatcher: a new ClientConn, cached. *)
Dialled(c) ==
    /\ pc[c] = "dial"
    /\ dialled' = dialled + 1
    /\ gconn' = [gconn EXCEPT ![held[c]] = dialled + 1]
    /\ locker' = [locker EXCEPT ![held[c]] = None]
    /\ Return(c, dialled + 1)
    /\ UNCHANGED <<request, key, conns, allocated, held>>

(* Mutated DialFailed: the lock is kept on the error path. *)
DialFailedLocked(c) ==
    /\ pc[c] = "dial"
    /\ Return(c, None)
    /\ UNCHANGED <<request, key, conns, allocated, held, locker, gconn, dialled>>

(* ... or an error: no etcd client, TLS files, the caller's context.  The     *)
(* conn object stays in the map, without a connection.                      *)
DialFailed(c) ==
    /\ pc[c] = "dial"
    /\ locker' = [locker EXCEPT ![held[c]] = None]
    /\ Return(c, None)
    /\ UNCHANGED <<request, key, conns, allocated, held, gconn, dialled>>

Step(c) ==
    \/ LookUp(c)
    \/ Look(c)
    \/ Insert(c)
    \/ Lock(c)
    \/ Dialled(c)
    \/ DialFailed(c)

Next == \E c \in Calls : Step(c)

Spec == Init /\ [][Next]_vars

(* Goroutines run, mutexes are not withheld for ever, and a dial ends (grpc   *)
(* dials without waiting for the connection unless it is asked to).          *)
FairSpec == Spec /\ \A c \in Calls : WF_vars(Step(c))
-----------------------------------------------------------------------------
(* Properties.                                                              *)

(* One connection per key: two calls never dial for the same key at the same *)
(* time, and all that succeed return the same connection, whichever of the   *)
(* two entry points they came through.                                      *)
OneConnPerKey ==
    \A c, d \in Calls :
        c # d /\ pc[c] # "start" /\ pc[d] # "start" /\ key[c] = key[d] =>
            /\ ~(pc[c] = "dial" /\ pc[d] = "dial")
            /\ result[c] # None /\ result[d] # None => result[c] = result[d]

(* The text holds no separator. *)
Bare(text) == \A i \in DOMAIN text : text[i] \notin Separators

(* The texts that the key of a request begins with or is made of hold none.  *)
Plain(r) ==
    IF r.api = "target" THEN Bare(r.path)
    ELSE IF Unnamed(r)
         THEN Bare(r.path) /\ \A k \in DOMAIN r.metadata : Bare(k) /\ Bare(r.metadata[k])
         ELSE Bare(r.name)

(* Calls for different services, targets, metadata or selectors do not share a   *)
(* connection, nor do they share one with a call that gives a Name, as long as *)
(* their texts hold no separators.  Without that condition they may: serviceKey *)
(* escapes nothing, {"a": "b;c,d"} and {"a": "b", "c": "d"} can have one key,   *)
(* and a Name may be the key of a service.                                   *)
NoSharing ==
    \A c, d \in Calls :
        /\ result[c] # None /\ result[c] = result[d]
        /\ Unnamed(request[c]) /\ Plain(request[c]) /\ Plain(request[d])
        => request[c] = request[d]

(* Every call returns; nobody keeps a lock. *)
CallsReturn == \A c \in Calls : <>(pc[c] = "done")
=============================================================================
