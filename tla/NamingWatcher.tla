---------------------------- MODULE NamingWatcher ----------------------------
(***************************************************************************)
(* The gRPCWatcher of grpc/naming/resolver.go between etcd and the RoundRobin  *)
(* balancer that modules/basework/dialer.go dials with.  Programs put and      *)
(* delete the addresses of a target (EtcdResolver.Update, or a lease that       *)
(* runs out); the watcher reads them once and then follows the watch channel;  *)
(* the balancer keeps the addresses it is told of.  etcd and the balancer       *)
(* (grpc v1.29.1) are external.                                             *)
(***************************************************************************)
EXTENDS NamingSelect

CONSTANTS
    Addrs,          \* addresses of the target
    MaxRev          \* bound: changes made to the target

ASSUME MaxRevAssumption == MaxRev \in Nat

VARIABLES
    filter,         \* the selector or matcher of the resolver
    wants,          \* the metadata it was written to let through
    log,            \* etcd's history of the target, one event per revision
    wpc,            \* whether the watcher has read, watches, or has failed
    next,           \* the revision the watch goes on from
    view            \* the addresses the balancer has

chosen == <<filter, wants>>
vars == <<chosen, log, wpc, next, view>>

Entries == [addr : Addrs, metadata : Metadata]

(* An event has the entry that was put or deleted, and what it leaves. *)
Events == [op : {"Add", "Delete"}, entry : Entries, after : SUBSET Entries]

(* What the target holds at a revision. *)
StoreAt(r) == IF r = 0 THEN {} ELSE log[r].after

Store == StoreAt(Len(log))

Having(f, v) == {m \in Metadata : m.map /\ m.field[f] = v}

(* Resolvers, with what their authors want: no filter, a matcher of at least one  *)
(* field (DialService), one MetaSelector, and combinations of two selectors.    *)
(* And wants what both want, Or what any of them does; but an Error that comes  *)
(* first holds everything back (selector.go:22-31).                         *)
By(s) == [by |-> "selector", selector |-> s]

Matching(t) == {m \in Metadata : m.map /\ \A f \in Fields : t[f] \in {Absent, m.field[f]}}

OneSelector(f, v) ==
    LET s == MetaSelector(f, v)
        w == Having(f, v)
        bad == Const("error")
    IN {<<By(s), w>>, <<By(And(<<s, bad>>)), {}>>, <<By(And(<<bad, s>>)), {}>>,
        <<By(Or(<<s, bad>>)), w>>, <<By(Or(<<bad, s>>)), {}>>,
        <<By(And(<<Const("true"), s>>)), w>>, <<By(Or(<<Const("false"), s>>)), w>>}

TwoSelectors(f, v, g, u) ==
    LET both == <<MetaSelector(f, v), MetaSelector(g, u)>>
    IN {<<By(And(both)), Having(f, v) \cap Having(g, u)>>,
        <<By(Or(both)), Having(f, v) \cup Having(g, u)>>}

Chosen ==
    {<<[by |-> "none"], Metadata>>}
        \cup {<<[by |-> "matcher", matcher |-> t], Matching(t)>> :
                t \in Matchers \ [Fields -> {Absent}]}
        \cup (UNION {OneSelector(f, v) : f \in Fields, v \in Values})
        \cup (UNION {TwoSelectors(f, v, g, u) : f \in Fields, v \in Values,
                                                g \in Fields, u \in Values})

(* Mutated fixMetadata: it is left as it was decoded. *)
fixMetadataNot(m) == m

(* The metadata of an address as the balancer compares it: the JSON text of an  *)
(* object, nothing if there is none.                                        *)
fixMetadata(m) == IF m.map THEN [json |-> <<m.field>>] ELSE [json |-> <<>>]

Address(e) == [addr |-> e.addr, metadata |-> fixMetadata(e.metadata)]

TypeOK ==
    /\ filter \in Filters
    /\ wants \subseteq Metadata
    /\ log \in Seq(Events)
    /\ \A r \in 1..Len(log) :
        \A e1, e2 \in log[r].after : e1.addr = e2.addr => e1 = e2
    /\ Len(log) <= MaxRev
    /\ wpc \in {"first", "watch", "failed"}
    /\ next \in 1..(Len(log) + 1)
    /\ view \subseteq [addr : Addrs,
                       metadata : [json : {<<>>} \cup {<<m.field>> : m \in Metadata}]]

Init ==
    /\ \E c \in Chosen : filter = c[1] /\ wants = c[2]
    /\ log = <<>>
    /\ wpc = "first"
    /\ next = 1
    /\ view = {}
-----------------------------------------------------------------------------
(* EtcdResolver.Update with Add: also over an entry of the same address.      *)
Put(a, m) ==
    /\ Len(log) < MaxRev
    /\ LET e == [addr |-> a, metadata |-> m]
       IN log' = Append(log, [op |-> "Add", entry |-> e,
                              after |-> {o \in Store : o.addr # a} \cup {e}])
    /\ UNCHANGED <<chosen, wpc, next, view>>

(* ... with Delete, or the end of the lease.  The event has the previous value. *)
Delete(a) ==
    /\ Len(log) < MaxRev
    /\ \E e \in Store :
        /\ e.addr = a
        /\ log' = Append(log, [op |-> "Delete", entry |-> e, after |-> Store \ {e}])
    /\ UNCHANGED <<chosen, wpc, next, view>>
-----------------------------------------------------------------------------
(* What the loop has kept of the updates it has come to. *)
selectUpdates(updates) ==
    LET kept[i \in 0..Len(updates)] ==
            IF i = 0 THEN <<>>
            ELSE IF Selected(filter, updates[i].entry.metadata) THEN Append(kept[i - 1], updates[i])
            ELSE kept[i - 1]
    IN kept[Len(updates)]

(* What RoundRobin does with an update. *)
Apply(addrs, u) ==
    IF u.op = "Add" THEN addrs \cup {Address(u.entry)} ELSE addrs \ {Address(u.entry)}

ApplyAll(addrs, updates) ==
    LET after[i \in 0..Len(updates)] ==
            IF i = 0 THEN addrs ELSE Apply(after[i - 1], updates[i])
    IN after[Len(updates)]

(* Mutated firstNext: the watch goes on from the present, not from the reply. *)
firstNextLate ==
    /\ wpc = "first"
    /\ \E r \in 0..Len(log) :
        view' = {Address(e) : e \in {e \in StoreAt(r) : Selected(filter, e.metadata)}}
    /\ wpc' = "watch"
    /\ next' = Len(log) + 1
    /\ UNCHANGED <<chosen, log>>

(* A serializable read, which may be answered from an old revision, and a watch *)
(* from the revision after it.                                              *)
firstNext ==
    /\ wpc = "first"
    /\ \E r \in 0..Len(log) :
        /\ view' = {Address(e) : e \in {e \in StoreAt(r) : Selected(filter, e.metadata)}}
        /\ next' = r + 1
    /\ wpc' = "watch"
    /\ UNCHANGED <<chosen, log>>

(* Mutated Next: a deletion is read from the value it leaves, which is empty. *)
watchNextNoPrev ==
    /\ wpc = "watch"
    /\ \E r \in next..Len(log) :
        /\ view' = ApplyAll(view, SelectSeq(selectUpdates(SubSeq(log, next, r)),
                                         LAMBDA u : u.op = "Add"))
        /\ next' = r + 1
    /\ UNCHANGED <<chosen, log, wpc>>

(* The events of one WatchResponse, in order. *)
watchNext ==
    /\ wpc = "watch"
    /\ \E r \in next..Len(log) :
        /\ view' = ApplyAll(view, selectUpdates(SubSeq(log, next, r)))
        /\ next' = r + 1
    /\ UNCHANGED <<chosen, log, wpc>>

(* The read fails, the watch is cancelled (a compacted revision, say), or the   *)
(* watcher is closed.  The balancer asks no more, and keeps what it has.      *)
Fail ==
    /\ wpc # "failed"
    /\ wpc' = "failed"
    /\ UNCHANGED <<chosen, log, next, view>>

Next ==
    \/ \E a \in Addrs, m \in Metadata : Put(a, m)
    \/ \E a \in Addrs : Delete(a)
    \/ firstNext
    \/ watchNext
    \/ Fail

Spec == Init /\ [][Next]_vars

(* The balancer's goroutine calls Next again and again, and etcd answers. *)
FairSpec == Spec /\ WF_vars(firstNext \/ watchNext)
-----------------------------------------------------------------------------
(* What the balancer should have after the events of a revision. *)
Expected(r) == {Address(e) : e \in {e \in StoreAt(r) : e.metadata \in wants}}

(* Addresses whose metadata a Put has replaced by another. *)
Overwritten(r) ==
    UNION {{Address(e) : e \in {e \in StoreAt(i - 1) : e.addr = log[i].entry.addr}}
                \ {Address(log[i].entry)} : i \in {i \in 1..r : log[i].op = "Add"}}

(* No event is lost or applied twice between the first read, however old its    *)
(* answer, and the watch: the balancer has every address that the filter was     *)
(* written to let through at the revision the watcher has come to.  What it has beyond that   *)
(* (dialer.go:15 promises only endpoints with the wanted metadata) is an        *)
(* address with metadata that was overwritten while it was registered.        *)
BalancerView ==
    wpc = "watch" =>
        /\ Expected(next - 1) \subseteq view
        /\ view \subseteq Expected(next - 1) \cup Overwritten(next - 1)

(* When the changes end, the balancer gets every address that is left, unless   *)
(* the watch fails.                                                         *)
CatchesUp == <>[](wpc = "failed" \/ Expected(Len(log)) \subseteq view)
=============================================================================
