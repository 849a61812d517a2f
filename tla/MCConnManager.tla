--------------------------- MODULE MCConnManager ----------------------------
(* Requests for the model checker: plain ones for one service, with no, one and   *)
(* two metadata entries, by Name and by target, and two that meet the key of    *)
(* another request: a value with separators in it, and a Name.                *)
EXTENDS ConnManager, TLC

CONSTANTS a, b, svc

MCCharacters == Separators \cup {"v", "2", "dash", "rbrace", "rbracket", a, b, svc}

NoEntry == [k \in {} |-> k]
OneEntry == <<a>> :> <<b>>
TwoEntries == <<a>> :> <<b>> @@ <<b>> :> <<a>>
JoinedEntries == <<a>> :> <<b, "semicolon", b, "comma", a>>

MCMetadata == {NoEntry, OneEntry, TwoEntries, JoinedEntries}

Service(name, m) == [api |-> "service", name |-> name, path |-> <<svc>>, metadata |-> m]

MCRequests ==
    {Service(<<>>, m) : m \in MCMetadata}
        \cup {Service(name, NoEntry) :
                name \in {<<a>>, <<"v", "2", "dash", svc, "lbrace", "rbrace">>}}
        \cup {[api |-> "target", path |-> <<svc>>, selector |-> s] : s \in {<<a>>, <<b>>}}
=============================================================================
