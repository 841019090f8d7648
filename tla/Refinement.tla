----------------------------- MODULE Refinement -----------------------------
(***************************************************************************)
(* The system implements RiskLimits, as long as every owner trades through *)
(* one gateway and no process has loaded its positions: the configurations *)
(* that check it have one source and no crashes.                           *)
(***************************************************************************)
EXTENDS System

(* What a trade does to positions. *)
Move(tu) ==
  [owners |-> OwnersOf(tu), instrument |-> tu.instrument,
   quantity |-> sign(tu.side) * SumFunction(tu.fills)]

AllMoves ==
  [owners : {{a, o} \cap Owners : a \in Accounts, o \in Users}, instrument : Instruments,
   quantity : {q * SumFunction(f) : q \in {-1, 1}, f \in Fills}]

(* The sequence number of the limits counts the trades. *)
ShownTo(s, o, i) ==
  LET l == limits[s][o][i] IN
  IF l.seqno = 0 THEN [trades |-> -1, position |-> 0]
  ELSE [trades |-> journal[s][l.seqno].count, position |-> l.long_position - l.short_position]

Promise ==
  INSTANCE RiskLimits WITH
    Moves <- AllMoves,
    moves <- [s \in Sources |-> [k \in 1 .. Len(log[s]) |-> Move(log[s][k])]],
    shown <- [s \in Sources |-> [o \in Owners |-> [i \in Instruments |-> ShownTo(s, o, i)]]]

(* "Publishes current positions risk limits to gateway (keyed by sequence  *)
(* number)": every step of the gateway, the links and the risk manager is  *)
(* a step of the promise or does not show.  A batch that mixes positions   *)
(* of different trades, or limits that arrive in another order than they   *)
(* were computed, would not be.                                            *)
KeepsPromise == Promise!Spec
=============================================================================
