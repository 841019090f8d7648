------------------------------- MODULE Funds --------------------------------
(***************************************************************************)
(* The funds table of the SQLite database                                  *)
(* (src/roq/risk_manager/database/sqlite/funds.cpp): a set of rows, no two *)
(* of them with the same primary key.  The external account, which no      *)
(* query filters or joins by, is not modelled.                             *)
(***************************************************************************)
EXTENDS Integers, FiniteSetsExt

CONSTANTS
  NaN,    \* a number that is missing
  Every   \* the empty name: no filter

(* PRIMARY KEY of the table. *)
FundsKey(r) == <<r.account, r.currency, r.exchange_time_utc>>

(* The row of an update: without a time of its own it has the time of the  *)
(* insert, and a missing hold is 0.                                        *)
FundsRow(fu, now) ==
  [account |-> fu.account, currency |-> fu.currency, balance |-> fu.balance,
   hold |-> IF fu.hold = NaN THEN 0 ELSE fu.hold,
   exchange_time_utc |-> IF fu.exchange_time_utc # 0 THEN fu.exchange_time_utc ELSE now]

(* A missing balance is written to the statement as it is, nan, which      *)
(* SQLite does not accept: the statement throws.                           *)
FundsAccepted(fu) == fu.balance # NaN

(* insert: INSERT OR REPLACE of one row. *)
InsertFunds(table, fu, now) ==
  LET row == FundsRow(fu, now) IN
  {r \in table : FundsKey(r) # FundsKey(row)} \cup {row}

(* The WHERE clause, without account or currency when they are empty. *)
Matches(r, account, currency) ==
  /\ account \in {Every, r.account}
  /\ currency \in {Every, r.currency}

(* The sub-select t2: the latest time of each account and currency, as the *)
(* key of a row.                                                           *)
LatestKeys(rows) ==
  {FundsKey(r) : r \in {x \in rows : \A y \in rows :
                          y.account = x.account /\ y.currency = x.currency
                          => y.exchange_time_utc <= x.exchange_time_utc}}

(* Mutant of SelectFunds: the currency is not joined. *)
SelectFundsJoined(table, account, currency) ==
  LET t2 == LatestKeys({r \in table : Matches(r, account, currency)}) IN
  {t1 \in table : \E k \in t2 : t1.account = k[1] /\ t1.exchange_time_utc = k[3]}

(* select: the rows of the table joined with the latest keys of those the  *)
(* filter selects.                                                         *)
SelectFunds(table, account, currency) ==
  LET t2 == LatestKeys({r \in table : Matches(r, account, currency)}) IN
  {t1 \in table : FundsKey(t1) \in t2}
=============================================================================
