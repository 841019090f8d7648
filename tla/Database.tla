------------------------------ MODULE Database ------------------------------
(***************************************************************************)
(* The database on its own: trade updates, corrections and funds are       *)
(* inserted in any order, an update or a request possibly again and again, *)
(* and the queries read the tables back.  With the handlers of the account *)
(* events: FundsUpdate inserts and then caches, PositionUpdate only caches.*)
(*                                                                         *)
(* bought, sold and latest are the reference: running totals per account   *)
(* and instrument, kept by adding each fill and each correction once, and  *)
(* the funds with the greatest time so far.                                *)
(***************************************************************************)
EXTENDS Trades, Funds

CONSTANTS
  Users, Accounts, Instruments, Currencies,
  Home,             \* the source of each account's events
  Updates,          \* the trade updates that may arrive
  Batches,          \* the batches of corrections that may be submitted
  FundsUpdates,     \* the funds updates that may arrive
  PositionUpdates,  \* the position updates that may arrive
  MaxHostTimes,     \* bounds the inserts that are stamped by the host
  None

Sources == {Home[a] : a \in Accounts}

ASSUME UpdatesAssumption ==
  \A tu \in Updates, other \in Updates :
    tu # other => DOMAIN tu.fills \cap DOMAIN other.fills = {}

FundsRows == [account : Accounts, currency : Currencies, balance : Int, hold : Int,
              exchange_time_utc : Nat]

ASSUME FundsAssumption ==
  /\ None \notin FundsRows
  /\ FundsUpdates \subseteq [account : Accounts, currency : Currencies, balance : Int \cup {NaN},
                             hold : Int \cup {NaN}, exchange_time_utc : Nat]

ASSUME PositionsAssumption ==
  \A pu \in PositionUpdates : pu.account \in Accounts /\ pu.instrument \in Instruments

VARIABLES
  table,
  seen,                \* the updates that have been inserted
  stamped,             \* how many inserts have been stamped by the host
  submitted,           \* the rows of the last batch, in its order
  bought, sold,
  funds,
  latest,
  accounts_by_source   \* the cache: the last updates of each source

trading == <<table, seen, submitted, bought, sold>>
vars == <<table, seen, stamped, submitted, bought, sold, funds, latest, accounts_by_source>>

Empty == [positions |-> [a \in Accounts |-> [i \in Instruments |-> None]],
          funds |-> [a \in Accounts |-> [c \in Currencies |-> None]]]

Init ==
  /\ table = {}
  /\ seen = {}
  /\ stamped = 0
  /\ submitted = <<>>
  /\ bought = [a \in Accounts |-> [i \in Instruments |-> 0]]
  /\ sold = [a \in Accounts |-> [i \in Instruments |-> 0]]
  /\ funds = {}
  /\ latest = [a \in Accounts |-> [c \in Currencies |-> None]]
  /\ accounts_by_source = [s \in Sources |-> Empty]

(* The reference total after rows have been added. *)
Add(totals, rows, side) ==
  [a \in Accounts |-> [i \in Instruments |->
     totals[a][i] + Total({r \in rows : r.account = a /\ r.instrument = i}, side)]]

(* The insert of a trade update, the first time or after a download. *)
InsertUpdate(tu) ==
  LET rows == IF tu \in seen THEN {} ELSE TradeRows(tu, DOMAIN tu.fills) IN
  /\ table' = InsertTrades(table, tu, DOMAIN tu.fills)
  /\ seen' = seen \cup {tu}
  /\ bought' = Add(bought, rows, "BUY")
  /\ sold' = Add(sold, rows, "SELL")
  /\ UNCHANGED <<stamped, submitted, funds, latest, accounts_by_source>>

(* The host's clock: a new time for each insert, later than the exchange   *)
(* times of the trade updates.  Those of funds may be before or after it.  *)
HostTime == 100 + stamped

Stamp ==
  /\ stamped < MaxHostTimes
  /\ stamped' = stamped + 1

(* The insert of a batch.  A client that lost the answer submits it again, *)
(* and nothing tells the two requests apart: both count.                   *)
PutBatch(batch) ==
  /\ Stamp
  /\ \E read \in ReadBack(batch, Users, Accounts, Instruments) :
       table' = InsertCorrections(table, read, HostTime)
  /\ LET rows == [j \in DOMAIN batch |-> CorrectionRow(ParseItem(batch[j]), HostTime)] IN
     /\ submitted' = rows
     /\ bought' = Add(bought, {rows[j] : j \in DOMAIN rows}, "BUY")
     /\ sold' = Add(sold, {rows[j] : j \in DOMAIN rows}, "SELL")
  /\ UNCHANGED <<seen, funds, latest, accounts_by_source>>

(* The reference after a row: a row that is not older replaces it. *)
Later(row) ==
  LET old == latest[row.account][row.currency] IN
  IF old = None THEN row
  ELSE IF old.exchange_time_utc <= row.exchange_time_utc THEN row ELSE old

CacheFunds(s, fu) ==
  accounts_by_source' = [accounts_by_source EXCEPT ![s].funds[fu.account][fu.currency] = fu]

(* Mutant of FundsUpdate: an insert that throws does not stop the handler. *)
FundsUpdateSwallowed(s, fu) ==
  /\ IF fu.exchange_time_utc = 0 THEN Stamp ELSE UNCHANGED stamped
  /\ IF FundsAccepted(fu)
     THEN LET row == FundsRow(fu, HostTime) IN
          /\ funds' = InsertFunds(funds, fu, HostTime)
          /\ latest' = [latest EXCEPT ![row.account][row.currency] = Later(row)]
     ELSE UNCHANGED <<funds, latest>>
  /\ CacheFunds(s, fu)
  /\ UNCHANGED trading

(* The handler of FundsUpdate: insert, then cache.  An insert that throws  *)
(* leaves the handler.                                                     *)
FundsUpdate(s, fu) ==
  /\ IF fu.exchange_time_utc = 0 THEN Stamp ELSE UNCHANGED stamped
  /\ IF FundsAccepted(fu)
     THEN LET row == FundsRow(fu, HostTime) IN
          /\ funds' = InsertFunds(funds, fu, HostTime)
          /\ latest' = [latest EXCEPT ![row.account][row.currency] = Later(row)]
          /\ CacheFunds(s, fu)
     ELSE UNCHANGED <<funds, latest, accounts_by_source>>
  /\ UNCHANGED trading

(* The handler of PositionUpdate. *)
PositionUpdate(s, pu) ==
  /\ accounts_by_source' =
       [accounts_by_source EXCEPT ![s].positions[pu.account][pu.instrument] = pu]
  /\ UNCHANGED <<trading, stamped, funds, latest>>

(* The process ends, perhaps by the exception, and starts again. *)
Restart ==
  /\ accounts_by_source' = [s \in Sources |-> Empty]
  /\ UNCHANGED <<trading, stamped, funds, latest>>

Next ==
  \/ \E tu \in Updates : InsertUpdate(tu)
  \/ \E batch \in Batches : PutBatch(batch)
  \/ \E fu \in FundsUpdates : FundsUpdate(Home[fu.account], fu)
  \/ \E pu \in PositionUpdates : PositionUpdate(Home[pu.account], pu)
  \/ Restart

Spec == Init /\ [][Next]_vars

-----------------------------------------------------------------------------
(* row shows account a's totals in instrument i. *)
Shows(row, a, i) ==
  /\ row.name = a
  /\ row.instrument = i
  /\ row.long_quantity = bought[a][i]
  /\ row.short_quantity = sold[a][i]

Latest == Max({r.exchange_time_utc : r \in table})

(* While one account has traded one instrument, and has bought some of it, *)
(* the account query returns its running totals and its latest time,       *)
(* however often updates are inserted again and corrections are submitted  *)
(* again.                                                                  *)
OneGroupLoaded ==
  \A r \in table :
    /\ GroupOf(table, "account", r) = table
    /\ bought[r.account][r.instrument] > 0
    => \A row \in SelectPositionsByAccount(table, None) :
         Shows(row, r.account, r.instrument) /\ row.exchange_time_utc = Latest

(* "Computes current positions": the account query shows every account its *)
(* own totals, with any number of accounts that have bought.               *)
EveryBuyerLoaded ==
  (\A r \in table : bought[r.account][r.instrument] > 0) =>
    \A r \in table : \E row \in SelectPositionsByAccount(table, None) :
      Shows(row, r.account, r.instrument)

(* "Supports corrections": all the corrections of a batch that was         *)
(* accepted are in the table.                                              *)
BatchKept == \A j \in DOMAIN submitted : submitted[j] \in table

LatestFunds(account, currency) ==
  {r \in {latest[a][c] : a \in Accounts, c \in Currencies} \ {None} :
     Matches(r, account, currency)}

(* GET /funds, with any filter, lists each account and currency that has   *)
(* funds once, with the last of the updates of greatest time: no update    *)
(* that arrives late, again or without a time hides it or adds a row.      *)
FundsSelected ==
  \A account \in Accounts \cup {Every}, currency \in Currencies \cup {Every} :
    SelectFunds(funds, account, currency) = LatestFunds(account, currency)

(* What the process has cached of an account's funds is in the table: a    *)
(* failing insert leaves memory behind the database, never ahead of it.    *)
CachedAreStored ==
  \A s \in Sources, a \in Accounts, c \in Currencies :
    LET fu == accounts_by_source[s].funds[a][c] IN
    fu # None => \E r \in funds :
      /\ r.account = a /\ r.currency = c /\ r.balance = fu.balance
      /\ fu.exchange_time_utc # 0 => r.exchange_time_utc = fu.exchange_time_utc
=============================================================================
