------------------------------ MODULE Position ------------------------------
(***************************************************************************)
(* risk::Position (src/roq/risk_manager/risk/position.cpp): the position   *)
(* of one account, or of one user, in one instrument.                      *)
(*                                                                         *)
(* A trade update tu carries a side and its fills, a function from the     *)
(* external trade id of each fill to its quantity.  The ids of one update  *)
(* are distinct, so the order in which the code walks the fills does not   *)
(* show in the result.  Quantities are integers: the code adds doubles.    *)
(***************************************************************************)
EXTENDS Integers, Functions

(* utils::sign, a library function: the direction of a trade. *)
sign(side) == IF side = "BUY" THEN 1 ELSE IF side = "SELL" THEN -1 ELSE 0

(* std::max(x, 0.0) *)
Positive(x) == IF x > 0 THEN x ELSE 0

NewPosition ==
  [quantity |-> 0, long_position |-> 0, short_position |-> 0, fills |-> {}]

(* Loading a database::Position sets what is published, and nothing else:  *)
(* quantity and fills stay as they are.                                    *)
LoadPosition(p, row) ==
  [quantity |-> p.quantity, long_position |-> row.long_quantity,
   short_position |-> row.short_quantity, fills |-> p.fills]

(* The fills that fills_.emplace() has not seen before. *)
NewFills(p, tu) == DOMAIN tu.fills \ p.fills

(* A position that nets quantity q after the given fills. *)
Netted(q, fills) ==
  [quantity |-> q, long_position |-> Positive(q), short_position |-> Positive(-q),
   fills |-> fills]

(* Mutant of TradePosition: every fill counts, seen before or not. *)
TradePositionNoDedup(p, tu) ==
  Netted(p.quantity + sign(tu.side) * SumFunction(tu.fills), p.fills \cup DOMAIN tu.fills)

(* A trade update: every new fill moves the net quantity, and the long and *)
(* short positions are recomputed from it, also when they had been loaded. *)
(* An update without a new fill changes nothing.                           *)
TradePosition(p, tu) ==
  IF NewFills(p, tu) = {} THEN p
  ELSE Netted(p.quantity + sign(tu.side) * SumFunctionOnSet(tu.fills, NewFills(p, tu)),
              p.fills \cup DOMAIN tu.fills)
=============================================================================
