------------------------------- MODULE Config -------------------------------
(***************************************************************************)
(* The configuration file (config.cpp): which documents the constructor of *)
(* Config accepts, and the limits it reads from one.                       *)
(*                                                                         *)
(* A node of the TOML document is a value, an array of values, or a table  *)
(* of nodes; the document is a table.  find_and_remove erases each key it  *)
(* has read, and check_empty is fatal for the keys that are left.          *)
(***************************************************************************)

CONSTANTS
  EXCHANGE,  \* the one exchange the symbols are listed under
  NaN        \* a limit that is not set

Value(v) == [kind |-> "value", value |-> v]
Array(items) == [kind |-> "array", items |-> items]
Table(nodes) == [kind |-> "table", table |-> nodes]

is_table(node) == node.kind = "table"
Keys(node) == DOMAIN node.table
Child(node, key) == node.table[key]

LimitKeys ==
  {"long_position_limit", "short_position_limit", "long_risk_exposure_limit",
   "short_risk_exposure_limit", "allow_netting"}

(* A risk::Limit as it is constructed. *)
NoLimit == [key \in LimitKeys |-> IF key = "allow_netting" THEN FALSE ELSE NaN]

(* Mutant of UnexpectedLimit: the keys that are left are not looked at. *)
UnexpectedLimitLeft(node) == ~is_table(node)

(* The limits of one symbol are not a table, or keys are left once they    *)
(* are read.                                                               *)
UnexpectedLimit(node) == ~is_table(node) \/ Keys(node) \ LimitKeys # {}

(* The section is missing, with a warning, or it is a table of tables of   *)
(* tables of limits.                                                       *)
UnexpectedLimits(root, section) ==
  /\ section \in Keys(root)
  /\ LET node == Child(root, section) IN
     \/ ~is_table(node)
     \/ \E name \in Keys(node) :
          LET node_1 == Child(node, name) IN
          \/ ~is_table(node_1)
          \/ \E exchange \in Keys(node_1) :
               LET node_2 == Child(node_1, exchange) IN
               \/ ~is_table(node_2)
               \/ \E symbol \in Keys(node_2) : UnexpectedLimit(Child(node_2, symbol))

(* The limits of one symbol: those the table has, over the defaults. *)
ParseLimit(node) ==
  [key \in LimitKeys |-> IF key \in Keys(node) THEN Child(node, key).value ELSE NoLimit[key]]

(* name => exchange => symbol => limit *)
parse_limits(root, section) ==
  IF section \notin Keys(root) THEN [name \in {} |-> NoLimit]
  ELSE LET node == Child(root, section) IN
       [name \in Keys(node) |->
         [exchange \in Keys(Child(node, name)) |->
           [symbol \in Keys(Child(Child(node, name), exchange)) |->
             ParseLimit(Child(Child(Child(node, name), exchange), symbol))]]]

(* The symbols are required: one, or an array of them. *)
UnexpectedSymbols(root) == "symbols" \notin Keys(root) \/ is_table(Child(root, "symbols"))

(* exchange => symbols *)
parse_symbols(root) ==
  LET node == Child(root, "symbols")
      items == IF node.kind = "value" THEN {node.value} ELSE node.items
  IN [exchange \in IF items = {} THEN {} ELSE {EXCHANGE} |-> items]

(* The constructor ends the process: a section is malformed, or keys are   *)
(* left at the root.                                                       *)
Unexpected(root) ==
  \/ UnexpectedSymbols(root)
  \/ UnexpectedLimits(root, "accounts")
  \/ UnexpectedLimits(root, "users")
  \/ Keys(root) \ {"symbols", "accounts", "users"} # {}

(* What it reads.  It leaves the strategies empty. *)
ParseConfig(root) ==
  [symbols |-> parse_symbols(root), accounts |-> parse_limits(root, "accounts"),
   users |-> parse_limits(root, "users")]

(* Config::dispatch: what the gateways are asked for.  An account is a     *)
(* <<regex>>, a symbol a <<regex, exchange>>, the last one for currencies. *)
Subscriptions(conf) ==
  [accounts |-> {<<name>> : name \in DOMAIN conf.accounts},
   symbols |-> UNION {{<<item, exchange>> : item \in conf.symbols[exchange]} :
                        exchange \in DOMAIN conf.symbols} \cup {<<".*", "">>}]
=============================================================================
