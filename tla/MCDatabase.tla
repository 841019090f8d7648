----------------------------- MODULE MCDatabase -----------------------------
(* Constants for model checking Database. *)
EXTENDS Database, TLC

CONSTANTS A, B, u, x, y, c, d

HomeApart == [a \in Accounts |-> IF a = A THEN 0 ELSE 1]

Update(account, instrument, side, time, quantities) ==
  [user |-> u, strategy_id |-> 0, account |-> account, instrument |-> instrument,
   side |-> side, create_time_utc |-> time,
   fills |-> [id \in {<<time, j>> : j \in DOMAIN quantities} |-> quantities[id[2]]]]

(* Two fills of the same quantity bought, then some sold, then another     *)
(* instrument and another account.                                         *)
UpdatesMixed ==
  {Update(A, x, "BUY", 1, <<1, 1>>), Update(A, x, "SELL", 2, <<2>>),
   Update(A, x, "SELL", 3, <<3, 1>>), Update(A, y, "BUY", 4, <<1>>),
   Update(B, x, "BUY", 5, <<1>>)}

UpdatesTwoAccounts == {Update(A, x, "BUY", 1, <<1>>), Update(B, x, "BUY", 2, <<1>>)}

Correction(side, quantity, time) ==
  [user |-> u, strategy_id |-> 0, account |-> A, instrument |-> x, side |-> side,
   quantity |-> quantity, exchange_time_utc |-> time]

(* Funds with a time of the exchange that is before, between or after      *)
(* those of the host, at the same time in two currencies, without a time,  *)
(* and without a hold or a balance.                                        *)
FundsOf(account, currency, balance, hold, time) ==
  [account |-> account, currency |-> currency, balance |-> balance, hold |-> hold,
   exchange_time_utc |-> time]

FundsMixed ==
  {FundsOf(A, c, 1, 0, 101), FundsOf(A, c, 2, NaN, 0), FundsOf(A, c, 3, 1, 101),
   FundsOf(A, d, 1, 0, 101), FundsOf(B, c, 1, 1, 99), FundsOf(A, d, NaN, 0, 102)}
NoFunds == {}

OnePosition == {[account |-> A, instrument |-> x, long_quantity |-> 1, short_quantity |-> 0]}

(* One of them is submitted with the time of a trade. *)
BatchesApart ==
  {<<Correction("BUY", 2, 0)>>, <<Correction("SELL", 1, 0)>>, <<Correction("SELL", 1, 2)>>}
NoBatches == {}
BatchesTwice == {<<Correction("BUY", 2, 0), Correction("SELL", 1, 0)>>}
=============================================================================
