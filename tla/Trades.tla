------------------------------- MODULE Trades -------------------------------
(***************************************************************************)
(* The trades table of the SQLite database                                 *)
(* (src/roq/risk_manager/database/sqlite/trades.cpp): a set of rows, no    *)
(* two of them with the same primary key.  Exchange and symbol are one     *)
(* value, the instrument.  Price, external account, external order id and  *)
(* reason are not modelled: no query groups, filters or sums by them.      *)
(***************************************************************************)
EXTENDS Integers, Sequences, FiniteSetsExt

(* The external_trade_id of a correction is the empty string. *)
NoTradeId == <<0, 0>>

(* Mutant of Key: neither the time nor the trade id is part of the key. *)
KeyOfInstrument(r) == <<r.user, r.strategy_id, r.account, r.instrument, r.type>>

(* PRIMARY KEY of the table. *)
Key(r) ==
  <<r.user, r.strategy_id, r.account, r.instrument, r.exchange_time_utc,
    r.external_trade_id, r.type>>

(* INSERT OR REPLACE of rows with distinct keys. *)
InsertOrReplace(table, rows) ==
  {r \in table : \A x \in rows : Key(x) # Key(r)} \cup rows

(* The row of one fill of a trade update. *)
TradeRow(tu, id) ==
  [user |-> tu.user, strategy_id |-> tu.strategy_id, account |-> tu.account,
   instrument |-> tu.instrument, side |-> tu.side, quantity |-> tu.fills[id],
   exchange_time_utc |-> tu.create_time_utc, external_trade_id |-> id,
   type |-> "EXCHANGE"]

TradeRows(tu, ids) == {TradeRow(tu, id) : id \in ids}

(* insert(trades): one statement per fill and no transaction, so a failure *)
(* leaves the rows of the fills that came before it.  ids are the fills    *)
(* whose statement has been executed.                                      *)
InsertTrades(table, tu, ids) == InsertOrReplace(table, TradeRows(tu, ids))

(* Mutant of CorrectionRow: the time of the insert is not filled in. *)
CorrectionRowUntimed(c, now) ==
  [user |-> c.user, strategy_id |-> c.strategy_id, account |-> c.account,
   instrument |-> c.instrument, side |-> c.side, quantity |-> c.quantity,
   exchange_time_utc |-> c.exchange_time_utc, external_trade_id |-> NoTradeId,
   type |-> "MANUAL"]

(* The row of a correction, stamped with the time of the insert unless it  *)
(* has a time of its own.                                                  *)
CorrectionRow(c, now) ==
  [user |-> c.user, strategy_id |-> c.strategy_id, account |-> c.account,
   instrument |-> c.instrument, side |-> c.side, quantity |-> c.quantity,
   exchange_time_utc |-> IF c.exchange_time_utc # 0 THEN c.exchange_time_utc ELSE now,
   external_trade_id |-> NoTradeId, type |-> "MANUAL"]

(* What put_trade takes from an item of the request: everything but the    *)
(* exchange time, which it accepts and ignores.                            *)
ParseItem(item) == [item EXCEPT !.exchange_time_utc = 0]

(* An item read back with these names. *)
Renamed(item, names) ==
  [user |-> names.user, strategy_id |-> item.strategy_id, account |-> names.account,
   instrument |-> names.instrument, side |-> item.side, quantity |-> item.quantity,
   exchange_time_utc |-> item.exchange_time_utc]

(* The names of a Correction are string views.  When the body is a single  *)
(* object they point into the document.  When it is an array the loop      *)
(* takes each element by value, the views point into that copy, and insert *)
(* reads them when it is gone: the names are undefined.  The model takes   *)
(* any of the names it knows.  A batch of one item stands for an object.   *)
ReadBack(batch, users, accounts, instruments) ==
  IF Len(batch) = 1 THEN {batch}
  ELSE {[j \in 1 .. Len(batch) |-> Renamed(batch[j], names[j])] :
          names \in [1 .. Len(batch) ->
                       [user : users, account : accounts, instrument : instruments]]}

(* put_trade's insert(corrections): in order, so that of two rows of the   *)
(* batch with the same key the later one stays.                            *)
InsertCorrections(table, batch, now) ==
  LET row(j) == CorrectionRow(ParseItem(batch[j]), now) IN
  InsertOrReplace(table,
    {row(j) : j \in {k \in DOMAIN batch :
                       \A l \in DOMAIN batch : l > k => Key(row(l)) # Key(row(k))}})

-----------------------------------------------------------------------------
(***************************************************************************)
(* The queries behind load_positions.  Each one sums buys and sells per    *)
(* group in two sub-selects, t1 and t2, joins them with FULL OUTER JOIN,   *)
(* and aggregates the join once more with SUM and without GROUP BY.  The   *)
(* statement therefore returns exactly one row: its quantities are the     *)
(* totals over all groups, while the name, the instrument and the time     *)
(* come from one joined row, and SQLite does not say which.  The name and  *)
(* the instrument are columns of t1, NULL when the group has no buys.      *)
(* Over an empty join the row holds NULLs and the time is 0.               *)
(***************************************************************************)
Traded(table) == {r \in table : r.side \in {"BUY", "SELL"}}

Total(rows, side) ==
  MapThenSumSet(LAMBDA r : r.quantity, {r \in rows : r.side = side})

GroupOf(rows, key, r) ==
  {x \in rows : x[key] = r[key] /\ x.instrument = r.instrument}

(* The joined row of r's group is what the aggregate query shows. *)
PositionRow(rows, key, r, null) ==
  LET bought == \E x \in GroupOf(rows, key, r) : x.side = "BUY" IN
  [name |-> IF bought THEN r[key] ELSE null,
   instrument |-> IF bought THEN r.instrument ELSE null,
   long_quantity |-> Total(rows, "BUY"),
   short_quantity |-> Total(rows, "SELL"),
   exchange_time_utc |-> r.exchange_time_utc]

NullRow(null) ==
  [name |-> null, instrument |-> null, long_quantity |-> 0, short_quantity |-> 0,
   exchange_time_utc |-> 0]

(* The rows the query grouping by key may return: a group is represented   *)
(* by its latest trade, which gives the MAX of its exchange times.         *)
SelectPositions(rows, key, null) ==
  IF rows = {} THEN {NullRow(null)}
  ELSE {PositionRow(rows, key, r, null) :
          r \in {x \in rows : \A y \in GroupOf(rows, key, x) :
                                y.exchange_time_utc <= x.exchange_time_utc}}

SelectPositionsByUser(table, null) == SelectPositions(Traded(table), "user", null)

SelectPositionsByStrategy(table, null) ==
  SelectPositions({r \in Traded(table) : r.strategy_id > 0}, "strategy_id", null)

SelectPositionsByAccount(table, null) == SelectPositions(Traded(table), "account", null)
=============================================================================
