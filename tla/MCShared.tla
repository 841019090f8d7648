------------------------------ MODULE MCShared ------------------------------
(* Instances of the module Shared: documents of every shape. *)
EXTENDS Shared, FiniteSetsExt

One(key, node) == Table([k \in {key} |-> node])

(* Tables of limits: two keys, one key, none, and one that is misspelt. *)
Both == Table([long_position_limit |-> Value(10), allow_netting |-> Value(TRUE)])
Short == One("short_risk_exposure_limit", Value(2))
Typo == One("long_limit", Value(10))

(* What can stand under "accounts" or "users". *)
AnInstrument(limit) == One("n", One("e1", One("s1", limit)))
TwoExchanges == One("n", Table([e1 |-> One("s1", Both), e2 |-> One("s1", Short)]))
TwoNames == Table([n |-> One("e1", Table([s1 |-> Both, s2 |-> Table(NoEntries)])),
                   m |-> One("e2", One("s1", Short))])
Empties == Table([n |-> Table(NoEntries), m |-> One("e1", Table(NoEntries))])
Malformed == {Value(1), One("n", Value(1)), One("n", One("e1", Value(1))),
              AnInstrument(Value(1)), AnInstrument(Typo)}

Sections == {AnInstrument(Short), TwoExchanges, TwoNames, Empties}

MCDocuments ==
  LET symbols == {Value("s1"), Array({"s1", "s2"}), Array({})} IN
  (* well formed *)
     {Table([symbols |-> Array({"s1", "s2"}), accounts |-> a, users |-> u]) :
        a \in Sections, u \in {AnInstrument(Short), TwoExchanges}}
  \cup {Table([symbols |-> y]) : y \in symbols}
  \cup {Table([symbols |-> y, users |-> TwoExchanges]) : y \in symbols}
  (* fatal *)
  \cup {Table([symbols |-> Value("s1"), accounts |-> a]) : a \in Malformed}
  \cup {Table([symbols |-> Value("s1"), accounts |-> TwoNames, users |-> u]) : u \in Malformed}
  \cup {Table([accounts |-> TwoNames]), Table([symbols |-> One("e1", Array({"s1"}))]),
        Table([symbols |-> Value("s1"), strategies |-> TwoNames])}

MCPairs == {<<"e1", "s1">>, <<"e1", "s2">>, <<"e2", "s1">>}

MCTraders == {<<"n", "n">>, <<"m", "n">>, <<"n", "x">>, <<"x", "m">>}

(* The values in a document, and those that are subscribed to or found by  *)
(* a lookup.                                                               *)
RECURSIVE Values(_)
Values(node) ==
  IF node.kind = "value" THEN 1
  ELSE IF node.kind = "array" THEN Cardinality(node.items)
  ELSE MapThenSumSet(LAMBDA key : Values(Child(node, key)), Keys(node))

Readable ==
  Cardinality(Subscriptions(config).symbols \ {<<".*", "">>})
  + Cardinality({<<o, pair, key>> \in Owners \X Pairs \X LimitKeys :
                   LimitOf(o, pair[1], pair[2])[key] # NoLimit[key]})

(* A file with a key the program does not know, or a section of the wrong  *)
(* shape, ends the process, as check_empty and log::fatal intend: of a     *)
(* file that is accepted, every value is used.                             *)
EveryValueUsed == status = "running" => Readable = Values(document)
=============================================================================
