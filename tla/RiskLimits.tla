----------------------------- MODULE RiskLimits -----------------------------
(***************************************************************************)
(* What the risk manager promises a gateway: the gateway trades, and from  *)
(* time to time is shown positions.  All that is shown at once is the net  *)
(* of the same first trades of the gateway, and what is shown of a         *)
(* position never goes back to fewer trades.  Downloads, reconnects,       *)
(* sessions, sequence numbers and messages do not appear.                  *)
(***************************************************************************)
EXTENDS Integers, Sequences, FiniteSetsExt

CONSTANTS
  Sources, Owners, Instruments,
  Moves     \* what a trade does: a set of owners, an instrument, a quantity

VARIABLES
  moves,    \* per source, its trades
  shown     \* per source, owner and instrument: a position, and the number of
            \* trades it is the net of, -1 when nothing has been shown

vars == <<moves, shown>>

Nothing == [o \in Owners |-> [i \in Instruments |-> [trades |-> -1, position |-> 0]]]

Init ==
  /\ moves = [s \in Sources |-> <<>>]
  /\ shown = [s \in Sources |-> Nothing]

(* The position after the first n trades. *)
NetOfFirst(n, s, o, i) ==
  MapThenSumSet(LAMBDA k : moves[s][k].quantity,
    {k \in 1 .. n : o \in moves[s][k].owners /\ moves[s][k].instrument = i})

Trade(s) ==
  /\ UNCHANGED shown
  /\ \E m \in Moves : moves' = [moves EXCEPT ![s] = Append(@, m)]

(* Some positions are shown, all of them after the same trades. *)
Show(s) ==
  /\ UNCHANGED moves
  /\ \A r \in Sources \ {s} : shown'[r] = shown[r]
  /\ \E n \in 0 .. Len(moves[s]) : \A o \in Owners, i \in Instruments :
       \/ shown'[s][o][i] = shown[s][o][i]
       \/ /\ shown[s][o][i].trades <= n
          /\ shown'[s][o][i] = [trades |-> n, position |-> NetOfFirst(n, s, o, i)]

(* The gateway restarts. *)
Forget(s) ==
  /\ shown' = [shown EXCEPT ![s] = Nothing]
  /\ UNCHANGED moves

Next == \E s \in Sources : Show(s) \/ Trade(s) \/ Forget(s)

Spec == Init /\ [][Next]_vars
=============================================================================
