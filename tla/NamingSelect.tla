----------------------------- MODULE NamingSelect -----------------------------
(***************************************************************************)
(* Which addresses of a target a watcher lets through: grpc/naming/selector.go *)
(* and matcher.go, and selectUpdates of resolver.go.  A selector is the        *)
(* function it computes, from the metadata of an address to a result, and a    *)
(* combinator makes such a function from others.                            *)
(***************************************************************************)
EXTENDS Naturals, Sequences

CONSTANTS
    Fields,         \* names of metadata fields
    Values          \* string values of metadata fields

Absent == "absent"
NotString == "not a string"

ASSUME ValuesAssumption == Values \cap {Absent, NotString} = {}

(* Metadata as read from JSON: an object, or none (which stands for whatever   *)
(* else is not an object).                                                  *)
Metadata == [map : {TRUE}, field : [Fields -> Values \cup {Absent, NotString}]]
                \cup [map : {FALSE}, field : [Fields -> {Absent}]]

(* (true, nil), (false, nil), and false with an error. *)
Results == {"true", "false", "error"}

Selectors == [Metadata -> Results]

MetaSelector(name, target) ==
    [m \in Metadata |-> IF ~m.map THEN "error"
                        ELSE IF m.field[name] = target THEN "true" ELSE "false"]

Const(result) == [m \in Metadata |-> result]

(* The first result that ends the loop of a combinator, or what it returns     *)
(* when none does.                                                          *)
FirstNot(result, results) ==
    LET ends == {i \in DOMAIN results : results[i] # result}
    IN IF ends = {} THEN result
       ELSE results[CHOOSE i \in ends : \A j \in ends : i <= j]

(* Mutated And: errors are passed over. *)
AndSkip(selectors) ==
    [m \in Metadata |->
        IF \E i \in DOMAIN selectors : selectors[i][m] = "false" THEN "false" ELSE "true"]

And(selectors) ==
    [m \in Metadata |-> FirstNot("true", [i \in DOMAIN selectors |-> selectors[i][m]])]

Or(selectors) ==
    [m \in Metadata |-> FirstNot("false", [i \in DOMAIN selectors |-> selectors[i][m]])]

(* An EtcdMatcher: the value each field must have, Absent if any will do.      *)
Matchers == [Fields -> Values \cup {Absent}]

(* convertMetaData drops the fields that are not strings.                   *)
convertMetaData(m) ==
    [f \in Fields |-> IF m.field[f] = NotString THEN Absent ELSE m.field[f]]

(* Mutated MatchMetaData: metadata that is not an object matches. *)
MatchNil(matcher, m) ==
    m.map => \A f \in Fields : matcher[f] \in {Absent, convertMetaData(m)[f]}

MatchMetaData(matcher, m) ==
    IF m.map THEN \A f \in Fields : matcher[f] \in {Absent, convertMetaData(m)[f]}
    ELSE \A f \in Fields : matcher[f] = Absent

(* A resolver filters by its selector if it has one, else by its matcher if it *)
(* has one.                                                                 *)
Filters == [by : {"selector"}, selector : Selectors] \cup [by : {"matcher"}, matcher : Matchers]
                \cup [by : {"none"}]

Selected(filter, m) ==
    CASE filter.by = "selector" -> filter.selector[m] = "true"
      [] filter.by = "matcher" -> MatchMetaData(filter.matcher, m)
      [] filter.by = "none" -> TRUE
=============================================================================
