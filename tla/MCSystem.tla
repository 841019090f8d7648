------------------------------ MODULE MCSystem ------------------------------
(* Constants for model checking System. *)
EXTENDS Refinement, TLC

CONSTANTS A, B, u, v, x, y

MaxTime == 5

(* Trades of one fill, of quantity 1 or 2, and of two fills. *)
FillsOf(quantities) ==
  {[id \in {<<t, j>> : j \in DOMAIN q} |-> q[id[2]]] : t \in 1 .. MaxTime, q \in quantities}

OneUnit == FillsOf({<<1>>})
TwoFills == FillsOf({<<1, 2>>})

AllIds == (1 .. MaxTime) \X (1 .. 2)

OneSource == {0}
TwoSources == {0, 1}
HomeZero == [a \in Accounts |-> 0]
HomeApart == [a \in Accounts |-> IF a = A THEN 0 ELSE 1]

NoBatches == {}

(* Corrections of the account's position: submitted without an exchange    *)
(* time, or with that of the first trade.                                  *)
Correction(quantity, time) ==
  [user |-> u, strategy_id |-> 0, account |-> A, instrument |-> x, side |-> "BUY",
   quantity |-> quantity, exchange_time_utc |-> time]
OneCorrection == {<<Correction(1, 0)>>}
TwoCorrections == {<<Correction(1, 1), Correction(2, 0)>>}

Unused == [b \in Budgets |-> 0]
BoundReconnect ==
  [Unused EXCEPT !["trades"] = 2, !["disconnects"] = 1, !["redownloads"] = 1,
                 !["gateway_restarts"] = 1]
BoundWide == [Unused EXCEPT !["trades"] = 2, !["disconnects"] = 1]
BoundRestart == [Unused EXCEPT !["trades"] = 2, !["crashes"] = 2, !["disconnects"] = 1]
BoundCrash == [Unused EXCEPT !["trades"] = 2, !["crashes"] = 1]
BoundCorrect ==
  [Unused EXCEPT !["trades"] = 2, !["crashes"] = 1, !["corrections"] = 1]
BoundFaults ==
  [Unused EXCEPT !["trades"] = 2, !["crashes"] = 1, !["corrections"] = 1, !["db_errors"] = 1]
=============================================================================
