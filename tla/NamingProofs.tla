----------------------------- MODULE NamingProofs -----------------------------
(***************************************************************************)
(* Proofs about NamingSelect and NamingWatcher, for any sets of fields, values *)
(* and addresses and any number of changes: what And, Or and MatchMetaData      *)
(* compute of any number of parts, and that the balancer has what the filter     *)
(* was written to let through.                                              *)
(***************************************************************************)
EXTENDS NamingWatcher, SequenceTheorems, TLAPS, WellFoundedInduction

(* A non-empty set of naturals has a least element. *)
LEMMA LeastElement ==
    ASSUME NEW S \in SUBSET Nat, S # {}
    PROVE  \E x \in S : \A y \in S : x <= y
<1>1. PICK x \in S : \A y \in S : ~ (<<y, x>> \in OpToRel(<, Nat))
  BY WFMin, NatLessThanWellFounded
<1>2. ASSUME NEW y \in S
      PROVE  x <= y
  <2>1. y < x => <<y, x>> \in OpToRel(<, Nat)
    BY Zenon DEF OpToRel
  <2>2. ~ (y < x)
    BY <1>1, <2>1, Zenon
  <2> QED
    BY <2>2
<1> QED
  BY <1>2

(* The loop of a combinator returns its default only when no part ends it, and   *)
(* otherwise the first result that does.                                    *)
LEMMA FirstNotResult ==
    ASSUME NEW result, NEW results, NEW n \in Nat, DOMAIN results = 1..n
    PROVE  \/ /\ \A i \in 1..n : results[i] = result
              /\ FirstNot(result, results) = result
           \/ \E i \in 1..n :
                /\ results[i] # result
                /\ \A j \in 1..n : j < i => results[j] = result
                /\ FirstNot(result, results) = results[i]
<1> DEFINE ends == {i \in DOMAIN results : results[i] # result}
<1>1. CASE ends = {}
  BY <1>1 DEF FirstNot
<1>2. CASE ends # {}
  <2> DEFINE first == CHOOSE i \in ends : \A j \in ends : i <= j
  <2>1. \E i \in ends : \A j \in ends : i <= j
    <3>1. ends \in SUBSET Nat
      OBVIOUS
    <3> QED
      BY <1>2, <3>1, LeastElement
  <2>2. first \in ends /\ \A j \in ends : first <= j
    BY <2>1
  <2>3. FirstNot(result, results) = results[first]
    BY <1>2 DEF FirstNot
  <2>4. \A j \in 1..n : j < first => results[j] = result
    BY <2>2
  <2> HIDE DEF first
  <2> QED
    BY <2>2, <2>3, <2>4
<1> QED
  BY <1>1, <1>2

(* And "returns Selector that return true if all ss return true" (selector.go:22): *)
(* true only if all of them do, in whatever order they are written; no error of  *)
(* a part makes it true.                                                    *)
THEOREM AndIsAll ==
    ASSUME NEW selectors \in Seq(Selectors), NEW m \in Metadata
    PROVE  And(selectors)[m] = "true" <=> \A i \in DOMAIN selectors : selectors[i][m] = "true"
<1> DEFINE results == [i \in DOMAIN selectors |-> selectors[i][m]]
<1>1. PICK n \in Nat : DOMAIN selectors = 1..n
  OBVIOUS
<1>2. And(selectors)[m] = FirstNot("true", results)
  BY DEF And
<1>3. DOMAIN results = 1..n /\ \A i \in 1..n : results[i] = selectors[i][m]
  BY <1>1
<1> HIDE DEF results
<1> QED
  BY <1>1, <1>2, <1>3, FirstNotResult

(* Or "returns Selector that return true if any ss return true, if there is any    *)
(* error returns the first error encounters" (selector.go:27): true exactly if   *)
(* a part is true and none before it is an error.                           *)
THEOREM OrIsAnyBeforeError ==
    ASSUME NEW selectors \in Seq(Selectors), NEW m \in Metadata
    PROVE  Or(selectors)[m] = "true" <=>
             \E i \in DOMAIN selectors :
                /\ selectors[i][m] = "true"
                /\ \A j \in DOMAIN selectors : j < i => selectors[j][m] # "error"
<1> DEFINE results == [i \in DOMAIN selectors |-> selectors[i][m]]
<1>1. PICK n \in Nat : DOMAIN selectors = 1..n
  OBVIOUS
<1>2. Or(selectors)[m] = FirstNot("false", results)
  BY DEF Or
<1>3. DOMAIN results = 1..n /\ \A i \in 1..n : results[i] = selectors[i][m]
  BY <1>1
<1>4. \A i \in 1..n : results[i] \in {"true", "false", "error"}
  BY <1>1, <1>3 DEF Selectors, Results
<1> HIDE DEF results
<1>5. CASE \A i \in 1..n : results[i] = "false"
  BY <1>1, <1>2, <1>3, <1>5, FirstNotResult
<1>6. CASE ~ \A i \in 1..n : results[i] = "false"
  <2>1. PICK i \in 1..n : /\ results[i] # "false"
                          /\ \A j \in 1..n : j < i => results[j] = "false"
                          /\ FirstNot("false", results) = results[i]
    BY <1>3, <1>6, FirstNotResult, SMTT(30)
  <2>2. ASSUME results[i] = "true"
        PROVE  /\ results[i] = "true"
               /\ \A j \in 1..n : j < i => results[j] # "error"
    BY <2>1, <2>2
  <2>3. ASSUME NEW k \in 1..n, results[k] = "true",
               \A j \in 1..n : j < k => results[j] # "error"
        PROVE  results[i] = "true"
    <3>1. i <= k
      BY <2>1, <2>3
    <3>2. i = k \/ results[i] # "error"
      BY <2>3, <3>1
    <3> QED
      BY <1>4, <2>1, <2>3, <3>2
  <2> QED
    BY <1>1, <1>2, <1>3, <2>1, <2>2, <2>3
<1> QED
  BY <1>5, <1>6

(* The dialer's matcher and a resolver's selector can be exchanged: a matcher     *)
(* lets through what And of a MetaSelector for each of its fields does, in any   *)
(* order of the fields, also if it has none or the metadata is no object.      *)
THEOREM MatcherIsAnd ==
    ASSUME NEW matcher \in Matchers, NEW m \in Metadata, NEW order \in Seq(Fields),
           {order[i] : i \in DOMAIN order} = {f \in Fields : matcher[f] # Absent}
    PROVE  MatchMetaData(matcher, m) <=>
             And([i \in DOMAIN order |-> MetaSelector(order[i], matcher[order[i]])])[m] = "true"
<1> DEFINE parts == [i \in DOMAIN order |-> MetaSelector(order[i], matcher[order[i]])]
<1>1. parts \in Seq(Selectors)
  <2>1. \A f, v : MetaSelector(f, v) \in Selectors
    BY DEF MetaSelector, Selectors, Results
  <2>2. PICK n \in Nat : DOMAIN order = 1..n
    OBVIOUS
  <2> QED
    BY <2>1, <2>2
<1>2. And(parts)[m] = "true" <=> \A i \in DOMAIN order : parts[i][m] = "true"
  BY <1>1, AndIsAll
<1>3. ASSUME NEW i \in DOMAIN order
      PROVE  parts[i][m] = "true" <=> m.map /\ m.field[order[i]] = matcher[order[i]]
  BY DEF MetaSelector
<1>4. \A f \in Fields : matcher[f] # Absent <=> \E i \in DOMAIN order : order[i] = f
  OBVIOUS
<1>5. And(parts)[m] = "true" <=>
        \A f \in Fields : matcher[f] # Absent => m.map /\ m.field[f] = matcher[f]
  BY <1>2, <1>3, <1>4
<1>6. ASSUME NEW f \in Fields, m.map
      PROVE  matcher[f] \in {Absent, convertMetaData(m)[f]}
                <=> (matcher[f] # Absent => m.field[f] = matcher[f])
  <2>1. convertMetaData(m)[f] = IF m.field[f] = NotString THEN Absent ELSE m.field[f]
    BY DEF convertMetaData
  <2>2. matcher[f] # NotString
    BY ValuesAssumption DEF Matchers, Absent, NotString
  <2> QED
    BY <2>1, <2>2
<1>7. m.map \in BOOLEAN
  BY DEF Metadata
<1> QED
  BY <1>5, <1>6, <1>7 DEF MatchMetaData
-----------------------------------------------------------------------------
(* What the resolvers of NamingWatcher let through.                         *)

(* The filter lets through what its author wants. *)
Meant(f, w) ==
    /\ f \in Filters
    /\ w \subseteq Metadata
    /\ \A m \in Metadata : Selected(f, m) <=> m \in w

LEMMA SelectorMeant ==
    ASSUME NEW s \in Selectors, NEW w \in SUBSET Metadata,
           \A m \in Metadata : s[m] = "true" <=> m \in w
    PROVE  Meant(By(s), w)
  BY DEF Meant, By, Filters, Selected

LEMMA CombinedType ==
    ASSUME NEW selectors \in Seq(Selectors)
    PROVE  And(selectors) \in Selectors /\ Or(selectors) \in Selectors
<1>1. PICK n \in Nat : DOMAIN selectors = 1..n
  OBVIOUS
<1>2. ASSUME NEW m \in Metadata, NEW result \in Results
      PROVE  FirstNot(result, [i \in DOMAIN selectors |-> selectors[i][m]]) \in Results
  <2> DEFINE results == [i \in DOMAIN selectors |-> selectors[i][m]]
  <2>1. DOMAIN results = 1..n /\ \A i \in 1..n : results[i] \in Results
    BY <1>1 DEF Selectors
  <2> HIDE DEF results
  <2>2. FirstNot(result, results) \in Results
    BY <1>2, <2>1, FirstNotResult
  <2> QED
    BY <2>2 DEF results
<1>3. "true" \in Results /\ "false" \in Results
  BY DEF Results
<1> QED
  BY <1>2, <1>3 DEF And, Or, Selectors

LEMMA ConstValue ==
    ASSUME NEW result \in Results
    PROVE  Const(result) \in Selectors /\ \A m \in Metadata : Const(result)[m] = result
  BY DEF Const, Selectors

LEMMA MetaValue ==
    ASSUME NEW f \in Fields, NEW v \in Values
    PROVE  /\ MetaSelector(f, v) \in Selectors
           /\ Having(f, v) \in SUBSET Metadata
           /\ \A m \in Metadata :
                /\ MetaSelector(f, v)[m] = "true" <=> m \in Having(f, v)
                /\ MetaSelector(f, v)[m] = "error" <=> ~m.map
                /\ m \in Having(f, v) => m.map
<1>1. \A m \in Metadata : m.map \in BOOLEAN
  BY DEF Metadata
<1> QED
  BY <1>1 DEF MetaSelector, Having, Selectors, Results

LEMMA OfTwo ==
    ASSUME NEW a \in Selectors, NEW b \in Selectors
    PROVE  /\ And(<<a, b>>) \in Selectors /\ Or(<<a, b>>) \in Selectors
           /\ \A m \in Metadata :
                /\ And(<<a, b>>)[m] = "true" <=> a[m] = "true" /\ b[m] = "true"
                /\ Or(<<a, b>>)[m] = "true"
                     <=> a[m] = "true" \/ (a[m] # "error" /\ b[m] = "true")
<1>1. <<a, b>> \in Seq(Selectors) /\ DOMAIN <<a, b>> = 1..2
      /\ <<a, b>>[1] = a /\ <<a, b>>[2] = b
  OBVIOUS
<1> DEFINE both == <<a, b>>
<1>2. /\ both \in Seq(Selectors) /\ \A i \in DOMAIN both : i = 1 \/ i = 2
      /\ 1 \in DOMAIN both /\ 2 \in DOMAIN both
      /\ both[1] = a /\ both[2] = b
  BY <1>1
<1> HIDE DEF both
<1>3. And(both) \in Selectors /\ Or(both) \in Selectors
  BY <1>2, CombinedType
<1>4. ASSUME NEW m \in Metadata
      PROVE  And(both)[m] = "true" <=> a[m] = "true" /\ b[m] = "true"
  <2>1. And(both)[m] = "true" <=> \A i \in DOMAIN both : both[i][m] = "true"
    BY <1>2, AndIsAll
  <2> QED
    BY <1>2, <2>1
<1>5. ASSUME NEW m \in Metadata
      PROVE  Or(both)[m] = "true" <=> a[m] = "true" \/ (a[m] # "error" /\ b[m] = "true")
  <2>1. Or(both)[m] = "true" <=>
          \E i \in DOMAIN both :
             /\ both[i][m] = "true"
             /\ \A j \in DOMAIN both : j < i => both[j][m] # "error"
    BY <1>2, OrIsAnyBeforeError
  <2>2. 1 < 2 /\ ~(2 < 1) /\ ~(1 < 1) /\ ~(2 < 2)
    OBVIOUS
  <2> QED
    BY <1>2, <2>1, <2>2
<1> QED
  BY <1>3, <1>4, <1>5 DEF both

LEMMA MatcherMeant ==
    ASSUME NEW t \in Matchers \ [Fields -> {Absent}]
    PROVE  Meant([by |-> "matcher", matcher |-> t], Matching(t))
<1>1. ASSUME NEW m \in Metadata
      PROVE  MatchMetaData(t, m) <=> m.map /\ \A f \in Fields : t[f] \in {Absent, m.field[f]}
  <2>1. \E f \in Fields : t[f] # Absent
    BY DEF Matchers
  <2>2. \A f \in Fields : t[f] # NotString
    BY ValuesAssumption DEF Matchers, Absent, NotString
  <2>3. m.map \in BOOLEAN
    BY DEF Metadata
  <2>4. ASSUME NEW f \in Fields
        PROVE  t[f] \in {Absent, convertMetaData(m)[f]} <=> t[f] \in {Absent, m.field[f]}
    BY <2>2 DEF convertMetaData
  <2> QED
    BY <2>1, <2>3, <2>4 DEF MatchMetaData
<1> QED
  BY <1>1 DEF Meant, Matching, Filters, Selected

LEMMA ChosenMeant ==
    ASSUME NEW c \in Chosen
    PROVE  Meant(c[1], c[2])
<1>1. \/ c = <<[by |-> "none"], Metadata>>
      \/ \E t \in Matchers \ [Fields -> {Absent}] :
            c = <<[by |-> "matcher", matcher |-> t], Matching(t)>>
      \/ \E f \in Fields, v \in Values : c \in OneSelector(f, v)
      \/ \E f \in Fields, v \in Values, g \in Fields, u \in Values :
            c \in TwoSelectors(f, v, g, u)
  BY DEF Chosen
<1>2. {"true", "false", "error"} \subseteq Results
  BY DEF Results
<1>3. CASE c = <<[by |-> "none"], Metadata>>
  BY <1>3 DEF Meant, Filters, Selected
<1>4. ASSUME NEW t \in Matchers \ [Fields -> {Absent}],
             c = <<[by |-> "matcher", matcher |-> t], Matching(t)>>
      PROVE  Meant(c[1], c[2])
  BY <1>4, MatcherMeant
<1>5. ASSUME NEW f \in Fields, NEW v \in Values, c \in OneSelector(f, v)
      PROVE  Meant(c[1], c[2])
  <2> DEFINE s == MetaSelector(f, v)
             w == Having(f, v)
             bad == Const("error")
  <2>1. s \in Selectors /\ w \in SUBSET Metadata /\ \A m \in Metadata : s[m] = "true" <=> m \in w
    BY MetaValue
  <2>2. ASSUME NEW r \in Results
        PROVE  Const(r) \in Selectors /\ \A m \in Metadata : Const(r)[m] = r
    BY ConstValue
  <2> HIDE DEF s, w
  <2>3. ASSUME NEW r \in Results
        PROVE  /\ And(<<s, Const(r)>>) \in Selectors /\ And(<<Const(r), s>>) \in Selectors
               /\ Or(<<s, Const(r)>>) \in Selectors /\ Or(<<Const(r), s>>) \in Selectors
               /\ \A m \in Metadata :
                    /\ And(<<s, Const(r)>>)[m] = "true" <=> s[m] = "true" /\ r = "true"
                    /\ And(<<Const(r), s>>)[m] = "true" <=> s[m] = "true" /\ r = "true"
                    /\ Or(<<s, Const(r)>>)[m] = "true"
                         <=> s[m] = "true" \/ (s[m] # "error" /\ r = "true")
                    /\ Or(<<Const(r), s>>)[m] = "true"
                         <=> r = "true" \/ (r # "error" /\ s[m] = "true")
    BY <2>1, <2>2, OfTwo
  <2>4. Meant(By(s), w)
    BY <2>1, SelectorMeant
  <2>5. /\ Meant(By(And(<<s, bad>>)), {}) /\ Meant(By(And(<<bad, s>>)), {})
        /\ Meant(By(Or(<<s, bad>>)), w) /\ Meant(By(Or(<<bad, s>>)), {})
    BY <1>2, <2>1, <2>3, SelectorMeant
  <2>6. Meant(By(And(<<Const("true"), s>>)), w)
    BY <1>2, <2>1, <2>3, SelectorMeant
  <2>7. Meant(By(Or(<<Const("false"), s>>)), w)
    BY <1>2, <2>1, <2>3, SelectorMeant
  <2> QED
    BY <1>5, <2>4, <2>5, <2>6, <2>7 DEF OneSelector, s, w
<1>6. ASSUME NEW f \in Fields, NEW v \in Values, NEW g \in Fields, NEW u \in Values,
             c \in TwoSelectors(f, v, g, u)
      PROVE  Meant(c[1], c[2])
  <2> DEFINE s == MetaSelector(f, v)
             z == MetaSelector(g, u)
  <2>1. /\ s \in Selectors /\ z \in Selectors
        /\ Having(f, v) \in SUBSET Metadata /\ Having(g, u) \in SUBSET Metadata
        /\ \A m \in Metadata :
             /\ s[m] = "true" <=> m \in Having(f, v)
             /\ z[m] = "true" <=> m \in Having(g, u)
             /\ s[m] = "error" => ~m.map
             /\ m \in Having(g, u) => m.map
    BY MetaValue
  <2> HIDE DEF s, z
  <2>2. Meant(By(And(<<s, z>>)), Having(f, v) \cap Having(g, u))
    BY <2>1, OfTwo, SelectorMeant
  <2>3. Meant(By(Or(<<s, z>>)), Having(f, v) \cup Having(g, u))
    BY <2>1, OfTwo, SelectorMeant
  <2> QED
    BY <1>6, <2>2, <2>3 DEF TwoSelectors, s, z
<1> QED
  BY <1>1, <1>3, <1>4, <1>5, <1>6
-----------------------------------------------------------------------------
(* The loops over updates.                                                  *)

(* Induction, as a fact about a set. *)
LEMMA NatSet ==
    ASSUME NEW T, 0 \in T, \A k \in Nat : k \in T => k + 1 \in T
    PROVE  \A k \in Nat : k \in T
<1>1. SUFFICES ASSUME Nat \ T # {} PROVE FALSE
  OBVIOUS
<1>2. PICK k \in Nat \ T : \A j \in Nat \ T : k <= j
  BY <1>1, LeastElement
<1>3. k # 0 /\ k - 1 \in Nat /\ k - 1 \notin Nat \ T
  BY <1>2
<1> QED
  BY <1>2, <1>3

Kept(us) ==
    CHOOSE kept :
        kept = [i \in 0..Len(us) |->
                    IF i = 0 THEN <<>>
                    ELSE IF Selected(filter, us[i].entry.metadata) THEN Append(kept[i - 1], us[i])
                    ELSE kept[i - 1]]

LEMMA KeptSteps ==
    ASSUME NEW us, Len(us) \in Nat
    PROVE  /\ selectUpdates(us) = Kept(us)[Len(us)]
           /\ Kept(us)[0] = <<>>
           /\ \A i \in 1..Len(us) :
                Kept(us)[i] = IF Selected(filter, us[i].entry.metadata)
                              THEN Append(Kept(us)[i - 1], us[i]) ELSE Kept(us)[i - 1]
<1> DEFINE n == Len(us)
           Step(s, i) == IF Selected(filter, us[i].entry.metadata) THEN Append(s, us[i]) ELSE s
           IsKept(g, k) == g = [i \in 0..k |-> IF i = 0 THEN <<>> ELSE Step(g[i - 1], i)]
           T == {k \in Nat : \E g : IsKept(g, k)}
<1>1. 0 \in T
  <2>1. IsKept([i \in 0..0 |-> <<>>], 0)
    OBVIOUS
  <2> QED
    BY <2>1
<1> HIDE DEF Step
<1>2. ASSUME NEW k \in Nat, k \in T
      PROVE  k + 1 \in T
  <2>1. PICK g : IsKept(g, k)
    BY <1>2
  <2> DEFINE h == [i \in 0..(k + 1) |-> IF i = k + 1 THEN Step(g[k], k + 1) ELSE g[i]]
  <2>2. \A i \in 0..k : g[i] = IF i = 0 THEN <<>> ELSE Step(g[i - 1], i)
    BY <2>1
  <2>3. \A i \in 0..(k + 1) : h[i] = IF i = 0 THEN <<>> ELSE Step(h[i - 1], i)
    <3>1. CASE k = 0
      BY <2>2, <3>1
    <3>2. ASSUME NEW i \in 0..(k + 1), i # 0
          PROVE  h[i] = Step(h[i - 1], i)
      <4>1. h[i - 1] = g[i - 1]
        BY <3>2
      <4>2. h[i] = IF i = k + 1 THEN Step(g[k], k + 1) ELSE g[i]
        OBVIOUS
      <4> QED
        BY <2>2, <3>2, <4>1, <4>2
    <3>3. h[0] = <<>>
      BY <2>2
    <3> HIDE DEF h
    <3> QED
      BY <3>2, <3>3
  <2>4. h = [i \in 0..(k + 1) |-> h[i]]
    OBVIOUS
  <2> HIDE DEF h
  <2>5. IsKept(h, k + 1)
    BY <2>3, <2>4
  <2> QED
    BY <2>5
<1>3. n \in T
  <2> HIDE DEF T
  <2> QED
    BY <1>1, <1>2, NatSet
<1>4. IsKept(Kept(us), n)
  BY <1>3 DEF Kept, Step
<1>5. \A i \in 0..n : Kept(us)[i] = IF i = 0 THEN <<>> ELSE Step(Kept(us)[i - 1], i)
  BY <1>4
<1>6. selectUpdates(us) = Kept(us)[n]
  BY DEF selectUpdates, Kept
<1> QED
  BY <1>5, <1>6 DEF Step

After(addrs, us) ==
    CHOOSE after :
        after = [i \in 0..Len(us) |-> IF i = 0 THEN addrs ELSE Apply(after[i - 1], us[i])]

LEMMA AfterSteps ==
    ASSUME NEW addrs, NEW us, Len(us) \in Nat
    PROVE  /\ ApplyAll(addrs, us) = After(addrs, us)[Len(us)]
           /\ After(addrs, us)[0] = addrs
           /\ \A i \in 1..Len(us) : After(addrs, us)[i] = Apply(After(addrs, us)[i - 1], us[i])
<1> DEFINE n == Len(us)
           IsAfter(g, k) == g = [i \in 0..k |-> IF i = 0 THEN addrs ELSE Apply(g[i - 1], us[i])]
           T == {k \in Nat : \E g : IsAfter(g, k)}
<1>1. 0 \in T
  <2>1. IsAfter([i \in 0..0 |-> addrs], 0)
    OBVIOUS
  <2> QED
    BY <2>1
<1>2. ASSUME NEW k \in Nat, k \in T
      PROVE  k + 1 \in T
  <2>1. PICK g : IsAfter(g, k)
    BY <1>2
  <2> DEFINE h == [i \in 0..(k + 1) |-> IF i = k + 1 THEN Apply(g[k], us[k + 1]) ELSE g[i]]
  <2>2. \A i \in 0..k : g[i] = IF i = 0 THEN addrs ELSE Apply(g[i - 1], us[i])
    BY <2>1
  <2>3. ASSUME NEW i \in 0..(k + 1), i # 0
        PROVE  h[i] = Apply(h[i - 1], us[i])
    <3>1. h[i - 1] = g[i - 1]
      BY <2>3
    <3>2. h[i] = IF i = k + 1 THEN Apply(g[k], us[k + 1]) ELSE g[i]
      OBVIOUS
    <3> QED
      BY <2>2, <2>3, <3>1, <3>2
  <2>4. h[0] = addrs /\ h = [i \in 0..(k + 1) |-> h[i]]
    BY <2>2
  <2> HIDE DEF h
  <2>5. IsAfter(h, k + 1)
    BY <2>3, <2>4
  <2> QED
    BY <2>5
<1>3. n \in T
  <2> HIDE DEF T
  <2> QED
    BY <1>1, <1>2, NatSet
<1>4. IsAfter(After(addrs, us), n)
  BY <1>3 DEF After
<1>5. \A i \in 0..n :
        After(addrs, us)[i] = IF i = 0 THEN addrs ELSE Apply(After(addrs, us)[i - 1], us[i])
  BY <1>4
<1>6. ApplyAll(addrs, us) = After(addrs, us)[n]
  BY DEF ApplyAll, After
<1> QED
  BY <1>5, <1>6
-----------------------------------------------------------------------------
(* The invariant.                                                           *)

(* Each event says what it has done to the store before it. *)
LogInv ==
    \A r \in 1..Len(log) :
        /\ log[r].op = "Add" =>
             log[r].after = {o \in StoreAt(r - 1) : o.addr # log[r].entry.addr} \cup {log[r].entry}
        /\ log[r].op = "Delete" =>
             log[r].entry \in StoreAt(r - 1) /\ log[r].after = StoreAt(r - 1) \ {log[r].entry}

(* What the balancer may have when the watcher has come to revision p. *)
Right(p, addrs) == Expected(p) \subseteq addrs /\ addrs \subseteq Expected(p) \cup Overwritten(p)

WatchInv ==
    /\ LogInv
    /\ Meant(filter, wants)
    /\ wpc = "watch" => Right(next - 1, view)

LEMMA AddressInjective ==
    ASSUME NEW e \in Entries, NEW o \in Entries, Address(e) = Address(o)
    PROVE  e = o
<1>1. e.addr = o.addr /\ fixMetadata(e.metadata) = fixMetadata(o.metadata)
  BY DEF Address
<1>2. e.metadata \in Metadata /\ o.metadata \in Metadata
  BY DEF Entries
<1> DEFINE a == e.metadata
           b == o.metadata
<1>3. /\ a.map \in BOOLEAN /\ (~a.map => a.field = [f \in Fields |-> Absent])
      /\ b.map \in BOOLEAN /\ (~b.map => b.field = [f \in Fields |-> Absent])
      /\ a = [map |-> a.map, field |-> a.field] /\ b = [map |-> b.map, field |-> b.field]
  BY <1>2 DEF Metadata
<1>4. (IF a.map THEN <<a.field>> ELSE <<>>) = (IF b.map THEN <<b.field>> ELSE <<>>)
  <2>1. \A m : fixMetadata(m).json = IF m.map THEN <<m.field>> ELSE <<>>
    BY DEF fixMetadata
  <2> QED
    BY <1>1, <2>1
<1> HIDE DEF a, b
<1>5. a.map = b.map
  BY <1>3, <1>4
<1>6. a.field = b.field
  <2>1. CASE a.map
    <3>1. <<a.field>> = <<b.field>>
      BY <1>4, <1>5, <2>1
    <3> QED
      BY <3>1
  <2>2. CASE ~a.map
    BY <1>3, <1>5, <2>2
  <2> QED
    BY <1>3, <2>1, <2>2
<1> QED
  BY <1>1, <1>3, <1>5, <1>6 DEF Entries, a, b

LEMMA StoreType ==
    ASSUME TypeOK, NEW r \in 0..Len(log)
    PROVE  StoreAt(r) \subseteq Entries
<1>1. r # 0 => log[r] \in Events
  BY DEF TypeOK
<1> QED
  BY <1>1 DEF StoreAt, Events

(* One event of a batch. *)
LEMMA OneEvent ==
    ASSUME TypeOK, LogInv, Meant(filter, wants), NEW p \in Nat, p < Len(log),
           NEW addrs, Right(p, addrs)
    PROVE  Right(p + 1, IF Selected(filter, log[p + 1].entry.metadata)
                        THEN Apply(addrs, log[p + 1]) ELSE addrs)
<1> DEFINE u == log[p + 1]
           e == u.entry
           old == StoreAt(p)
           new == StoreAt(p + 1)
<1>1. /\ u \in Events /\ e \in Entries /\ e.metadata \in Metadata
      /\ old \subseteq Entries /\ new = u.after /\ new \subseteq Entries
      /\ u.op = "Add" \/ u.op = "Delete"
  <2>1. u \in Events
    BY DEF TypeOK
  <2>2. old \subseteq Entries /\ new \subseteq Entries
    BY StoreType DEF TypeOK
  <2>3. new = u.after
    BY DEF StoreAt
  <2> QED
    BY <2>1, <2>2, <2>3 DEF Events, Entries
<1>2. Selected(filter, e.metadata) <=> e.metadata \in wants
  BY <1>1 DEF Meant
<1>3. /\ u.op = "Add" => new = {o \in old : o.addr # e.addr} \cup {e}
      /\ u.op = "Delete" => e \in old /\ new = old \ {e}
  <2>1. p + 1 \in 1..Len(log) /\ (p + 1) - 1 = p
    BY DEF TypeOK
  <2> QED
    BY <1>1, <2>1 DEF LogInv
<1>4. /\ Expected(p) = {Address(o) : o \in {o \in old : o.metadata \in wants}}
      /\ Expected(p + 1) = {Address(o) : o \in {o \in new : o.metadata \in wants}}
  BY DEF Expected
<1>5. Overwritten(p) \subseteq Overwritten(p + 1)
  BY DEF Overwritten
<1>6. ASSUME u.op = "Add", NEW o \in old, o.addr = e.addr, Address(o) # Address(e)
      PROVE  Address(o) \in Overwritten(p + 1)
  <2>1. /\ p + 1 \in {i \in 1..(p + 1) : log[i].op = "Add"} /\ (p + 1) - 1 = p
    BY <1>6
  <2> DEFINE lost == {Address(x) : x \in {x \in StoreAt((p + 1) - 1) :
                                            x.addr = log[p + 1].entry.addr}}
                        \ {Address(log[p + 1].entry)}
  <2>2. Address(o) \in lost
    BY <1>6, <2>1
  <2>3. lost \subseteq Overwritten(p + 1)
    BY <2>1 DEF Overwritten
  <2> QED
    BY <2>2, <2>3
<1>7. \A o \in old \cup new : Address(o) = Address(e) => o = e
  BY <1>1, AddressInjective
<1>8. Apply(addrs, u) = IF u.op = "Add" THEN addrs \cup {Address(e)} ELSE addrs \ {Address(e)}
  BY DEF Apply
<1>9. Expected(p) \subseteq addrs /\ addrs \subseteq Expected(p) \cup Overwritten(p)
  BY DEF Right
<1> HIDE DEF u, e, old, new
<1>10. CASE e.metadata \in wants
  <2>1. CASE u.op = "Add"
    BY <1>2, <1>3, <1>4, <1>5, <1>6, <1>7, <1>8, <1>9, <1>10, <2>1 DEF Right, u, e
  <2>2. CASE u.op = "Delete"
    BY <1>2, <1>3, <1>4, <1>5, <1>7, <1>8, <1>9, <1>10, <2>2 DEF Right, u, e
  <2> QED
    BY <1>1, <2>1, <2>2
<1>11. CASE e.metadata \notin wants
  <2>1. CASE u.op = "Add"
    BY <1>2, <1>3, <1>4, <1>5, <1>6, <1>7, <1>9, <1>11, <2>1 DEF Right, u, e
  <2>2. CASE u.op = "Delete"
    BY <1>2, <1>3, <1>4, <1>5, <1>9, <1>11, <2>2 DEF Right, u, e
  <2> QED
    BY <1>1, <2>1, <2>2
<1> QED
  BY <1>10, <1>11

AddressType == [addr : Addrs, metadata : [json : {<<>>} \cup {<<m.field>> : m \in Metadata}]]

LEMMA AddressTyped == \A e \in Entries : Address(e) \in AddressType
<1>1. \A m \in Metadata :
        fixMetadata(m) \in [json : {<<>>} \cup {<<x.field>> : x \in Metadata}]
  BY DEF fixMetadata
<1> QED
  BY <1>1 DEF Address, AddressType, Entries

(* What is kept of a batch at any point is what the balancer gets of it first. *)
LEMMA KeptPrefix ==
    ASSUME NEW us \in Seq(Events), NEW i \in 0..Len(us)
    PROVE  /\ Kept(us)[i] \in Seq(Events)
           /\ selectUpdates(us) \in Seq(Events)
           /\ Len(Kept(us)[i]) <= Len(selectUpdates(us))
           /\ \A j \in 1..Len(Kept(us)[i]) : Kept(us)[i][j] = selectUpdates(us)[j]
<1> DEFINE n == Len(us)
           kept == Kept(us)
<1>1. /\ n \in Nat /\ kept[0] = <<>> /\ selectUpdates(us) = kept[n]
      /\ \A k \in 1..n : kept[k] = kept[k - 1] \/ kept[k] = Append(kept[k - 1], us[k])
  <2>1. Len(us) \in Nat
    OBVIOUS
  <2>2. /\ selectUpdates(us) = Kept(us)[Len(us)]
        /\ Kept(us)[0] = <<>>
        /\ \A k \in 1..Len(us) :
             Kept(us)[k] = IF Selected(filter, us[k].entry.metadata)
                           THEN Append(Kept(us)[k - 1], us[k]) ELSE Kept(us)[k - 1]
    BY <2>1, KeptSteps, Zenon
  <2> HIDE DEF kept
  <2> QED
    BY <2>1, <2>2 DEF kept
<1>2. \A k \in 1..n : us[k] \in Events
  OBVIOUS
<1> HIDE DEF n, kept
<1>3. \A k \in Nat : k <= n => kept[k] \in Seq(Events)
  <2> DEFINE T == {k \in Nat : k <= n => kept[k] \in Seq(Events)}
  <2>1. 0 \in T
    <3>1. kept[0] = <<>> /\ <<>> \in Seq(Events)
      BY <1>1
    <3>2. kept[0] \in Seq(Events)
      BY <3>1, Zenon
    <3> QED
      BY <3>2
  <2>2. ASSUME NEW k \in Nat, k \in T
        PROVE  k + 1 \in T
    <3>1. SUFFICES ASSUME k + 1 <= n PROVE kept[k + 1] \in Seq(Events)
      OBVIOUS
    <3>2. k + 1 \in 1..n /\ (k + 1) - 1 = k /\ kept[k] \in Seq(Events)
      BY <1>1, <2>2, <3>1
    <3>3. kept[k + 1] = kept[k] \/ kept[k + 1] = Append(kept[k], us[k + 1])
      BY <1>1, <3>2
    <3>4. us[k + 1] \in Events
      BY <1>2, <3>2
    <3>5. Append(kept[k], us[k + 1]) \in Seq(Events)
      BY <3>2, <3>4, AppendProperties
    <3> QED
      BY <3>2, <3>3, <3>5, Zenon
  <2> HIDE DEF T
  <2>3. \A k \in Nat : k \in T
    BY <2>1, <2>2, NatSet
  <2> QED
    BY <2>3 DEF T
<1> DEFINE Prefix(s, t) == Len(s) <= Len(t) /\ \A j \in 1..Len(s) : s[j] = t[j]
<1>4. \A d \in Nat : d <= n => Prefix(kept[n - d], kept[n])
  <2> DEFINE T == {d \in Nat : d <= n => Prefix(kept[n - d], kept[n])}
  <2>1. 0 \in T
    <3>1. n - 0 = n /\ kept[n] \in Seq(Events)
      BY <1>1, <1>3
    <3> QED
      BY <3>1
  <2>2. ASSUME NEW d \in Nat, d \in T
        PROVE  d + 1 \in T
    <3>1. SUFFICES ASSUME d + 1 <= n PROVE Prefix(kept[n - (d + 1)], kept[n])
      OBVIOUS
    <3> DEFINE a == kept[n - (d + 1)]
               b == kept[n - d]
               c == kept[n]
    <3>2. /\ n - d \in 1..n /\ (n - d) - 1 = n - (d + 1) /\ n - (d + 1) \in Nat
          /\ n - d \in Nat /\ n - (d + 1) <= n
      BY <1>1, <2>2, <3>1
    <3>3. /\ a \in Seq(Events) /\ b \in Seq(Events) /\ c \in Seq(Events)
          /\ Prefix(b, c) /\ (b = a \/ b = Append(a, us[n - d])) /\ us[n - d] \in Events
      BY <1>1, <1>2, <1>3, <2>2, <3>1, <3>2
    <3> HIDE DEF a, b, c
    <3>4. Prefix(a, b)
      <4>1. CASE b = a
        BY <3>3, <4>1
      <4>2. CASE b = Append(a, us[n - d])
        BY <3>3, <4>2, AppendProperties
      <4> QED
        BY <3>3, <4>1, <4>2
    <3>5. Prefix(a, c)
      BY <3>3, <3>4
    <3> QED
      BY <3>5 DEF a, c
  <2> HIDE DEF T, Prefix
  <2>3. \A d \in Nat : d \in T
    BY <2>1, <2>2, NatSet
  <2> QED
    BY <2>3 DEF T
<1>5. i \in Nat /\ i <= n /\ n - i \in Nat /\ n - i <= n /\ n - (n - i) = i
  BY <1>1 DEF n
<1>6. Prefix(kept[i], kept[n])
  <2> HIDE DEF Prefix
  <2> QED
    BY <1>4, <1>5
<1> QED
  BY <1>1, <1>3, <1>5, <1>6 DEF kept

(* The whole batch. *)
LEMMA Batch ==
    ASSUME TypeOK, WatchInv, wpc = "watch", NEW r \in next..Len(log)
    PROVE  LET addrs == ApplyAll(view, selectUpdates(SubSeq(log, next, r)))
           IN Right(r, addrs) /\ addrs \subseteq AddressType
<1> DEFINE us == SubSeq(log, next, r)
           n == Len(us)
           kept == Kept(us)
           chosenUs == selectUpdates(us)
           after == After(view, chosenUs)
           Done(k) == LET addrs == after[Len(kept[k])]
                      IN Right(next - 1 + k, addrs) /\ addrs \subseteq AddressType
           T == {k \in Nat : k <= n => Done(k)}
<1>1. /\ log \in Seq(Events) /\ next \in Nat /\ next >= 1 /\ r \in Nat
      /\ us \in Seq(Events) /\ n = r - next + 1 /\ n \in Nat
      /\ \A i \in 1..n : us[i] = log[next - 1 + i]
  <2>1. /\ log \in Seq(Events) /\ next \in Nat /\ next >= 1 /\ r \in Nat
        /\ next \in 1..(Len(log) + 1) /\ r \in next..Len(log) /\ Len(log) \in Nat
    BY DEF TypeOK
  <2> QED
    BY <2>1, SubSeqProperties
<1>2. \A k \in 0..n : /\ kept[k] \in Seq(Events) /\ chosenUs \in Seq(Events)
                      /\ Len(kept[k]) <= Len(chosenUs)
                      /\ \A j \in 1..Len(kept[k]) : kept[k][j] = chosenUs[j]
  BY <1>1, KeptPrefix
<1>3. /\ chosenUs = kept[n] /\ kept[0] = <<>>
      /\ \A k \in 1..n : kept[k] = IF Selected(filter, us[k].entry.metadata)
                                   THEN Append(kept[k - 1], us[k]) ELSE kept[k - 1]
  BY <1>1, KeptSteps
<1>4. Len(chosenUs) \in Nat
  BY <1>1, <1>2
<1>5. /\ ApplyAll(view, chosenUs) = after[Len(chosenUs)] /\ after[0] = view
      /\ \A j \in 1..Len(chosenUs) : after[j] = Apply(after[j - 1], chosenUs[j])
  <2> HIDE DEF chosenUs
  <2> QED
    BY <1>4, AfterSteps
<1> HIDE DEF us, n, kept, chosenUs, after
<1>6. 0 \in T
  <2>1. Len(kept[0]) = 0 /\ next - 1 + 0 = next - 1
    BY <1>1, <1>3
  <2> QED
    BY <1>5, <2>1 DEF WatchInv, TypeOK, AddressType
<1>7. ASSUME NEW k \in Nat, k \in T
      PROVE  k + 1 \in T
  <2>1. SUFFICES ASSUME k + 1 <= n PROVE Done(k + 1)
    OBVIOUS
  <2> DEFINE p == next - 1 + k
             u == log[p + 1]
             addrs == after[Len(kept[k])]
  <2>2. /\ k \in 0..n /\ k + 1 \in 0..n /\ k + 1 \in 1..n /\ (k + 1) - 1 = k
        /\ p \in Nat /\ p + 1 = next - 1 + (k + 1) /\ p < Len(log)
        /\ us[k + 1] = u
    BY <1>1, <2>1 DEF TypeOK
  <2>3. Right(p, addrs) /\ addrs \subseteq AddressType
    BY <1>7, <2>1, <2>2
  <2>4. after[Len(kept[k + 1])] = IF Selected(filter, u.entry.metadata) THEN Apply(addrs, u)
                                  ELSE addrs
    <3>1. CASE Selected(filter, u.entry.metadata)
      <4>1. kept[k + 1] = Append(kept[k], u)
        BY <1>3, <2>2, <3>1
      <4>2. kept[k] \in Seq(Events) /\ u \in Events
        BY <1>1, <1>2, <2>2
      <4>3. Len(kept[k + 1]) = Len(kept[k]) + 1 /\ kept[k + 1][Len(kept[k]) + 1] = u
            /\ Len(kept[k]) \in Nat
        BY <4>1, <4>2, AppendProperties
      <4>4. Len(kept[k]) + 1 \in 1..Len(chosenUs) /\ chosenUs[Len(kept[k]) + 1] = u
        <5>1. /\ Len(kept[k + 1]) <= Len(chosenUs)
              /\ \A j \in 1..Len(kept[k + 1]) : kept[k + 1][j] = chosenUs[j]
          BY <1>2, <2>2
        <5>2. Len(kept[k]) + 1 \in 1..Len(kept[k + 1])
          BY <4>3
        <5> DEFINE l == Len(kept[k])
                   m == Len(kept[k + 1])
        <5>3. l \in Nat /\ m = l + 1 /\ m <= Len(chosenUs) /\ l + 1 \in 1..m
          BY <4>3, <5>1, <5>2
        <5>4. chosenUs[l + 1] = u
          BY <4>3, <5>1, <5>3, Zenon
        <5> HIDE DEF l, m
        <5>5. l + 1 \in 1..Len(chosenUs)
          BY <1>4, <5>3
        <5> QED
          BY <5>4, <5>5, Zenon DEF l
      <4> QED
        BY <1>5, <3>1, <4>3, <4>4
    <3>2. CASE ~Selected(filter, u.entry.metadata)
      BY <1>3, <2>2, <3>2
    <3> QED
      BY <3>1, <3>2
  <2>5. Right(p + 1, IF Selected(filter, u.entry.metadata) THEN Apply(addrs, u) ELSE addrs)
    <3>1. LogInv /\ Meant(filter, wants)
      BY DEF WatchInv
    <3>2. p \in Nat /\ p < Len(log) /\ Right(p, addrs)
      BY <2>2, <2>3
    <3> HIDE DEF p, addrs
    <3> QED
      BY <3>1, <3>2, OneEvent
  <2>6. Apply(addrs, u) \subseteq AddressType
    <3>1. u.entry \in Entries
      <4>1. p + 1 \in 1..Len(log)
        BY <1>1, <2>2
      <4>2. u \in Events
        BY <1>1, <4>1
      <4> QED
        BY <4>2 DEF Events
    <3> QED
      BY <2>3, <3>1, AddressTyped DEF Apply
  <2> HIDE DEF p, u, addrs
  <2>7. next - 1 + (k + 1) = p + 1
    BY <2>2
  <2> QED
    BY <2>3, <2>4, <2>5, <2>6, <2>7
<1> HIDE DEF T, Done
<1>8. \A k \in Nat : k \in T
  BY <1>6, <1>7, NatSet
<1>9. Done(n)
  BY <1>1, <1>8 DEF T
<1>10. next - 1 + n = r
  BY <1>1
<1> QED
  BY <1>3, <1>5, <1>9, <1>10 DEF Done, us, chosenUs
-----------------------------------------------------------------------------
LEMMA WatchInit == Init => TypeOK /\ WatchInv
<1> SUFFICES ASSUME Init PROVE TypeOK /\ WatchInv
  OBVIOUS
<1>1. PICK c \in Chosen : filter = c[1] /\ wants = c[2]
  BY DEF Init
<1>2. Meant(filter, wants)
  BY <1>1, ChosenMeant
<1>3. log = <<>> /\ Len(log) = 0 /\ log \in Seq(Events) /\ wpc = "first" /\ next = 1 /\ view = {}
  BY DEF Init
<1>4. TypeOK
  BY <1>2, <1>3, MaxRevAssumption DEF TypeOK, Meant
<1>5. LogInv
  BY <1>3 DEF LogInv
<1> QED
  BY <1>2, <1>3, <1>4, <1>5 DEF WatchInv

(* Overwritten, one Put at a time. *)
Lost(i) ==
    {Address(e) : e \in {e \in StoreAt(i - 1) : e.addr = log[i].entry.addr}}
        \ {Address(log[i].entry)}

LEMMA OverwrittenSame ==
    ASSUME NEW p, \A i \in 1..p : log'[i] = log[i] /\ StoreAt(i - 1)' = StoreAt(i - 1)
    PROVE  Overwritten(p)' = Overwritten(p)
<1> DEFINE puts == {i \in 1..p : log[i].op = "Add"}
<1>1. Overwritten(p) = UNION {Lost(i) : i \in puts}
  BY DEF Overwritten, Lost
<1>2. Overwritten(p)' = UNION {Lost(i)' : i \in puts'}
  BY DEF Overwritten, Lost
<1>3. puts' = puts
  OBVIOUS
<1>4. \A i \in puts : Lost(i)' = Lost(i)
  <2> SUFFICES ASSUME NEW i \in 1..p PROVE Lost(i)' = Lost(i)
    OBVIOUS
  <2>1. log'[i] = log[i] /\ StoreAt(i - 1)' = StoreAt(i - 1)
    OBVIOUS
  <2> QED
    BY <2>1 DEF Lost, Address, fixMetadata
<1> HIDE DEF puts
<1> QED
  BY <1>1, <1>2, <1>3, <1>4

(* A change of the target: what is said of the revisions before it stays.     *)
LEMMA Changed ==
    ASSUME TypeOK, WatchInv, NEW ev \in Events, Len(log) < MaxRev,
           \A e1, e2 \in ev.after : e1.addr = e2.addr => e1 = e2,
           ev.op = "Add" => ev.after = {o \in Store : o.addr # ev.entry.addr} \cup {ev.entry},
           ev.op = "Delete" => ev.entry \in Store /\ ev.after = Store \ {ev.entry},
           log' = Append(log, ev), UNCHANGED <<chosen, wpc, next, view>>
    PROVE  TypeOK' /\ WatchInv'
<1> DEFINE n == Len(log)
<1>1. /\ log \in Seq(Events) /\ n \in Nat /\ log' \in Seq(Events) /\ Len(log') = n + 1
      /\ \A i \in 1..n : log'[i] = log[i]
      /\ log'[n + 1] = ev
  BY AppendProperties DEF TypeOK
<1>2. UNCHANGED <<filter, wants, wpc, next, view>>
  BY DEF chosen
<1>3. \A r \in 0..n : StoreAt(r)' = StoreAt(r)
  BY <1>1 DEF StoreAt
<1>4. TypeOK'
  <2>1. ASSUME NEW r \in 1..Len(log')
        PROVE  \A e1, e2 \in log'[r].after : e1.addr = e2.addr => e1 = e2
    <3>1. r \in 1..n \/ r = n + 1
      BY <1>1
    <3> QED
      BY <1>1, <3>1 DEF TypeOK
  <2> QED
    BY <1>1, <1>2, <2>1, MaxRevAssumption DEF TypeOK
<1>5. LogInv'
  <2>1. SUFFICES ASSUME NEW r \in 1..Len(log')
                 PROVE  /\ log'[r].op = "Add" =>
                             log'[r].after = {o \in StoreAt(r - 1)' : o.addr # log'[r].entry.addr}
                                               \cup {log'[r].entry}
                        /\ log'[r].op = "Delete" =>
                             /\ log'[r].entry \in StoreAt(r - 1)'
                             /\ log'[r].after = StoreAt(r - 1)' \ {log'[r].entry}
    BY DEF LogInv
  <2>2. r - 1 \in 0..n /\ StoreAt(r - 1)' = StoreAt(r - 1)
    BY <1>1, <1>3
  <2>3. CASE r \in 1..n
    BY <1>1, <2>2, <2>3 DEF WatchInv, LogInv
  <2>4. CASE r = n + 1
    <3>1. StoreAt(r - 1) = Store
      BY <1>1, <2>4 DEF Store
    <3> QED
      BY <1>1, <2>2, <2>4, <3>1
  <2> QED
    BY <1>1, <2>3, <2>4
<1>6. Meant(filter, wants)'
  BY <1>2 DEF WatchInv, Meant, Selected
<1>7. wpc = "watch" => Right(next - 1, view)'
  <2>1. next - 1 \in 0..n
    BY <1>1 DEF TypeOK
  <2>2. Expected(next - 1)' = Expected(next - 1)
    BY <1>2, <1>3, <2>1 DEF Expected
  <2>3. Overwritten(next - 1)' = Overwritten(next - 1)
    <3>1. \A i \in 1..(next - 1) : log'[i] = log[i] /\ StoreAt(i - 1)' = StoreAt(i - 1)
      BY <1>1, <1>3, <2>1
    <3> QED
      BY <1>2, <3>1, OverwrittenSame
  <2> QED
    BY <1>2, <2>2, <2>3 DEF WatchInv, Right
<1> QED
  BY <1>2, <1>4, <1>5, <1>6, <1>7 DEF WatchInv

LEMMA WatchStep == TypeOK /\ WatchInv /\ [Next]_vars => TypeOK' /\ WatchInv'
<1> SUFFICES ASSUME TypeOK, WatchInv, [Next]_vars PROVE TypeOK' /\ WatchInv'
  OBVIOUS
<1>1. /\ Store \subseteq Entries
      /\ \A e1, e2 \in Store : e1.addr = e2.addr => e1 = e2
  <2>1. log \in Seq(Events) /\ Len(log) \in Nat
    BY DEF TypeOK
  <2>2. CASE Len(log) = 0
    BY <2>2 DEF Store, StoreAt
  <2>3. CASE Len(log) # 0
    BY <2>1, <2>3, StoreType DEF TypeOK, Store, StoreAt
  <2> QED
    BY <2>2, <2>3
<1>2. ASSUME NEW a \in Addrs, NEW m \in Metadata, Put(a, m)
      PROVE  TypeOK' /\ WatchInv'
  <2> DEFINE e == [addr |-> a, metadata |-> m]
             ev == [op |-> "Add", entry |-> e, after |-> {o \in Store : o.addr # a} \cup {e}]
  <2>1. e \in Entries /\ e.addr = a
    BY DEF Entries
  <2>2. /\ ev \in Events /\ ev.op = "Add" /\ ev.entry = e
        /\ ev.after = {o \in Store : o.addr # a} \cup {e}
    BY <1>1, <2>1 DEF Events
  <2>3. /\ Len(log) < MaxRev /\ log' = Append(log, ev)
        /\ UNCHANGED <<chosen, wpc, next, view>>
    BY <1>2 DEF Put
  <2> HIDE DEF e, ev
  <2>4. \A e1, e2 \in ev.after : e1.addr = e2.addr => e1 = e2
    BY <1>1, <2>1, <2>2
  <2> QED
    BY <2>1, <2>2, <2>3, <2>4, Changed
<1>3. ASSUME NEW a \in Addrs, Delete(a)
      PROVE  TypeOK' /\ WatchInv'
  <2>1. PICK e \in Store :
            log' = Append(log, [op |-> "Delete", entry |-> e, after |-> Store \ {e}])
    BY <1>3 DEF Delete
  <2> DEFINE ev == [op |-> "Delete", entry |-> e, after |-> Store \ {e}]
  <2>2. ev \in Events /\ ev.op = "Delete" /\ ev.entry = e /\ ev.after = Store \ {e}
    BY <1>1 DEF Events
  <2>3. /\ Len(log) < MaxRev /\ log' = Append(log, ev)
        /\ UNCHANGED <<chosen, wpc, next, view>>
    BY <1>3, <2>1 DEF Delete
  <2> HIDE DEF ev
  <2>4. \A e1, e2 \in ev.after : e1.addr = e2.addr => e1 = e2
    BY <1>1, <2>2
  <2> QED
    BY <2>2, <2>3, <2>4, Changed
(* The watcher's own steps leave the target as it is. *)
<1>4. ASSUME UNCHANGED <<chosen, log>>
      PROVE  /\ LogInv' /\ Meant(filter, wants)'
             /\ \A p : Expected(p)' = Expected(p) /\ Overwritten(p)' = Overwritten(p)
  <2>1. log' = log /\ filter' = filter /\ wants' = wants
    BY <1>4 DEF chosen
  <2>2. \A r : StoreAt(r)' = StoreAt(r)
    BY <2>1 DEF StoreAt
  <2>3. LogInv'
    BY <2>1, <2>2 DEF WatchInv, LogInv
  <2>4. Meant(filter, wants)'
    BY <2>1 DEF WatchInv, Meant, Selected
  <2>5. \A p : Expected(p)' = Expected(p)
    BY <2>1, <2>2 DEF Expected
  <2>6. \A p : Overwritten(p)' = Overwritten(p)
    BY <2>1, <2>2, OverwrittenSame
  <2> QED
    BY <2>3, <2>4, <2>5, <2>6
<1>5. ASSUME firstNext
      PROVE  TypeOK' /\ WatchInv'
  <2>1. PICK r \in 0..Len(log) :
            /\ view' = {Address(e) : e \in {e \in StoreAt(r) : Selected(filter, e.metadata)}}
            /\ next' = r + 1
    BY <1>5 DEF firstNext
  <2>2. UNCHANGED <<chosen, log>> /\ wpc' = "watch"
    BY <1>5 DEF firstNext
  <2>3. StoreAt(r) \subseteq Entries
    BY StoreType
  <2>4. \A e \in StoreAt(r) : Selected(filter, e.metadata) <=> e.metadata \in wants
    BY <2>3 DEF Entries, WatchInv, Meant
  <2>5. view' = Expected(r)
    BY <2>1, <2>4 DEF Expected
  <2>6. view' \subseteq AddressType
    BY <2>1, <2>3, AddressTyped
  <2>7. Len(log) \in Nat /\ next' \in 1..(Len(log) + 1) /\ next' - 1 = r
    BY <2>1 DEF TypeOK
  <2>8. TypeOK'
    BY <2>2, <2>6, <2>7 DEF TypeOK, chosen, AddressType
  <2>9. Right(next - 1, view)'
    BY <1>4, <2>2, <2>5, <2>7 DEF Right
  <2> QED
    BY <1>4, <2>2, <2>8, <2>9 DEF WatchInv
<1>6. ASSUME watchNext
      PROVE  TypeOK' /\ WatchInv'
  <2>1. PICK r \in next..Len(log) :
            /\ view' = ApplyAll(view, selectUpdates(SubSeq(log, next, r)))
            /\ next' = r + 1
    BY <1>6 DEF watchNext
  <2>2. UNCHANGED <<chosen, log, wpc>> /\ wpc = "watch"
    BY <1>6 DEF watchNext
  <2>3. Right(r, view') /\ view' \subseteq AddressType
    BY <2>1, <2>2, Batch
  <2>4. Len(log) \in Nat /\ next' \in 1..(Len(log) + 1) /\ next' - 1 = r
    BY <2>1 DEF TypeOK
  <2>5. TypeOK'
    BY <2>2, <2>3, <2>4 DEF TypeOK, chosen, AddressType
  <2>6. Right(next - 1, view)'
    BY <1>4, <2>2, <2>3, <2>4 DEF Right
  <2> QED
    BY <1>4, <2>2, <2>5, <2>6 DEF WatchInv
<1>7. CASE Fail
  <2>1. UNCHANGED <<chosen, log, next, view>> /\ wpc' = "failed"
    BY <1>7 DEF Fail
  <2> QED
    BY <1>4, <2>1 DEF TypeOK, WatchInv, chosen
<1>8. CASE UNCHANGED vars
  <2>1. UNCHANGED <<chosen, log, wpc, next, view>>
    BY <1>8 DEF vars
  <2> QED
    BY <1>4, <2>1 DEF TypeOK, WatchInv, Right, chosen
<1> QED
  BY <1>2, <1>3, <1>5, <1>6, <1>7, <1>8 DEF Next

(* Every revision is well typed, the watcher is never ahead of etcd, and the    *)
(* balancer has only addresses.                                            *)
THEOREM WatcherTypeCorrect == Spec => []TypeOK
<1>1. Spec => [](TypeOK /\ WatchInv)
  BY WatchInit, WatchStep, PTL DEF Spec
<1> QED
  BY <1>1, PTL

(* Between the first read and the watch no event is lost or applied twice, for any *)
(* number of changes, any batches and every resolver of Chosen: the balancer has  *)
(* all that the filter was written to let through, and beyond that only         *)
(* addresses that were overwritten.                                         *)
THEOREM BalancerIsRight == Spec => []BalancerView
<1>1. Spec => [](TypeOK /\ WatchInv)
  BY WatchInit, WatchStep, PTL DEF Spec
<1>2. WatchInv => BalancerView
  BY DEF WatchInv, Right, BalancerView
<1> QED
  BY <1>1, <1>2, PTL
=============================================================================
