-------------------------- MODULE ControllerProofs --------------------------
(***************************************************************************)
(* The handlers of the controller keep its state well formed: lemmas for   *)
(* SystemProofs, for all values of the constants.                          *)
(***************************************************************************)
EXTENDS Controller, TLAPS

(* A row that names an owner shows an instrument: both come from t1. *)
LEMMA SelectedInstrument ==
  ASSUME NEW rows \in SUBSET Rows, NEW key, NEW row \in SelectPositions(rows, key, None),
         row.name # None
  PROVE  row.instrument \in Instruments
<1>1. CASE rows = {}
  BY <1>1 DEF SelectPositions, NullRow
<1>2. CASE rows # {}
  BY <1>2 DEF SelectPositions, PositionRow, Rows
<1> QED
  BY <1>1, <1>2

(* Applying a trade keeps a position well formed. *)
LEMMA TradePositionType ==
  ASSUME NEW p \in Positions, NEW tu \in TradeUpdates
  PROVE  TradePosition(p, tu) \in Positions
<1>1. /\ DOMAIN tu.fills \subseteq TradeIds
      /\ SumFunctionOnSet(tu.fills, NewFills(p, tu)) \in Int
  BY FillsAssumption DEF TradeUpdates, NewFills
<1>2. sign(tu.side) \in Int
  BY DEF sign, TradeUpdates, Side
<1>3. p.quantity + sign(tu.side) * SumFunctionOnSet(tu.fills, NewFills(p, tu)) \in Int
  BY <1>1, <1>2 DEF Positions
<1>4. \A q \in Int, f \in SUBSET TradeIds : Netted(q, f) \in Positions
  BY DEF Netted, Positive, Positions
<1> QED
  BY <1>1, <1>3, <1>4 DEF TradePosition, Positions

(* The rows of a trade update are well formed, whichever of its fills are  *)
(* stored.                                                                 *)
LEMMA InsertTradesType ==
  ASSUME NEW table \in SUBSET Rows, NEW tu \in TradeUpdates, NEW ids \in SUBSET DOMAIN tu.fills
  PROVE  InsertTrades(table, tu, ids) \in SUBSET Rows
<1>1. \A id \in ids : id \in TradeIds /\ tu.fills[id] \in Nat
  BY FillsAssumption DEF TradeUpdates
<1>2. \A id \in ids : TradeRow(tu, id) \in Rows
  BY <1>1 DEF TradeRow, TradeUpdates, Rows
<1> QED
  BY <1>2 DEF InsertTrades, InsertOrReplace, TradeRows

(* The rows of a batch of corrections are well formed: put_trade leaves    *)
(* the time at zero, and the insert fills it in.                           *)
LEMMA InsertCorrectionsType ==
  ASSUME NEW table \in SUBSET Rows, NEW batch \in Seq(Corrections), NEW now \in Nat \ {0}
  PROVE  InsertCorrections(table, batch, now) \in SUBSET Rows
<1>1. \A c \in Corrections : CorrectionRow(ParseItem(c), now) \in Rows
  BY DEF CorrectionRow, ParseItem, Corrections, Rows
<1>2. \A j \in DOMAIN batch : batch[j] \in Corrections
  OBVIOUS
<1> QED
  BY <1>1, <1>2 DEF InsertCorrections, InsertOrReplace

-----------------------------------------------------------------------------
(* Type correctness of the handlers *)

(* A disconnect resets the state of its source. *)
LEMMA DisconnectedType ==
  ASSUME ControllerTypeOK, NEW s \in Sources, Disconnected(s)
  PROVE  ControllerTypeOK'
<1>1. NoState \in States
  BY DEF NoState, States
<1> QED
  BY <1>1 DEF ControllerTypeOK, Disconnected, DropOutbox, shared

Infos == [session_id : Nat, seqno : Nat]

(* The message info of an event gives a well-formed state. *)
LEMMA MessageInfoType ==
  ASSUME NEW st \in States, NEW info \in Infos
  PROVE  /\ WithMessageInfo(st, info) \in States
         /\ AsReady(WithMessageInfo(st, info), TRUE) \in States
         /\ \A a \in Accounts : Latch(WithMessageInfo(st, info), {a}) \in States
BY DEF WithMessageInfo, AsReady, Latch, States, Infos

(* The begin of a download keeps the types. *)
LEMMA DownloadBeginType ==
  ASSUME ControllerTypeOK, NEW s \in Sources, NEW info \in Infos,
         NEW account, DownloadBegin(s, info, account)
  PROVE  ControllerTypeOK'
BY MessageInfoType DEF ControllerTypeOK, DownloadBegin, shared

(* The end of a download latches a configured account and marks registered *)
(* instruments.                                                            *)
LEMMA DownloadEndType ==
  ASSUME ControllerTypeOK, NEW s \in Sources, NEW info \in Infos,
         NEW account \in Accounts \cup {None}, DownloadEnd(s, info, account)
  PROVE  ControllerTypeOK'
<1>1. CASE account = None \/ account \in state[s].latch_by_account
  <2>1. state' = [state EXCEPT ![s] = WithMessageInfo(@, info)]
    BY <1>1 DEF DownloadEnd
  <2>2. UNCHANGED <<shared, last_exchange_time_utc, outbox, trades>>
    BY <1>1 DEF DownloadEnd
  <2> QED
    BY <2>1, <2>2, MessageInfoType DEF ControllerTypeOK, shared
<1>2. CASE account # None /\ account \notin state[s].latch_by_account
  <2>1. account \in Accounts /\ account \in Owners
    BY <1>2 DEF Owners
  <2>2. state[s] \in States
    BY DEF ControllerTypeOK
  <2>3. Latch(WithMessageInfo(state[s], info), {account}) \in States
    BY <2>1, <2>2, MessageInfoType
  <2>4. /\ state' = [state EXCEPT ![s] = Latch(WithMessageInfo(@, info), {account})]
        /\ publish' = [publish EXCEPT ![account] = @ \cup instruments]
        /\ UNCHANGED <<instruments, held, positions, last_exchange_time_utc, outbox, trades>>
    BY <1>2 DEF DownloadEnd
  <2>5. state' \in [Sources -> States]
    BY <2>3, <2>4 DEF ControllerTypeOK
  <2>6. publish' \in [Owners -> SUBSET Instruments]
    BY <2>1, <2>4 DEF ControllerTypeOK
  <2> QED
    BY <2>4, <2>5, <2>6 DEF ControllerTypeOK
<1> QED
  BY <1>1, <1>2

(* Ready keeps the types. *)
LEMMA ReadyType ==
  ASSUME ControllerTypeOK, NEW s \in Sources, NEW info \in Infos, Ready(s, info)
  PROVE  ControllerTypeOK'
<1>1. state[s] \in States
  BY DEF ControllerTypeOK
<1>2. AsReady(WithMessageInfo(state[s], info), TRUE) \in States
  BY <1>1, MessageInfoType
<1>3. publish' \in [Owners -> SUBSET Instruments]
  BY DEF ControllerTypeOK, Ready
<1> QED
  BY <1>2, <1>3 DEF ControllerTypeOK, Ready

(* Reference data keeps the types. *)
LEMMA ReferenceDataType ==
  ASSUME ControllerTypeOK, NEW i \in Instruments, ReferenceData(i)
  PROVE  ControllerTypeOK'
BY DEF ControllerTypeOK, ReferenceData

(* A trade update keeps the types, dropped or accepted, and however many   *)
(* of its rows are stored.                                                 *)
LEMMA TradeUpdateType ==
  ASSUME ControllerTypeOK, NEW s \in Sources, NEW info \in Infos,
         NEW tu \in TradeUpdates, NEW stored \in SUBSET DOMAIN tu.fills,
         TradeUpdate(s, info, tu, stored)
  PROVE  ControllerTypeOK'
<1>1. state' \in [Sources -> States]
  BY MessageInfoType DEF ControllerTypeOK, TradeUpdate
<1>2. CASE ~Accepted(tu)
  BY <1>1, <1>2 DEF ControllerTypeOK, TradeUpdate, shared
<1>3. CASE Accepted(tu)
  <2>1. tu.instrument \in Instruments
    BY DEF TradeUpdates
  <2>2. InsertTrades(trades, tu, stored) \subseteq Rows
    BY InsertTradesType DEF ControllerTypeOK
  <2>3. DispatchTrade(tu) /\ trades' = InsertTrades(trades, tu, stored)
    BY <1>3 DEF TradeUpdate
  <2>4. \A o \in Owners : TradePosition(positions[o][tu.instrument], tu) \in Positions
    BY <2>1, TradePositionType DEF ControllerTypeOK
  <2>5. \A o \in Owners : [positions[o] EXCEPT ![tu.instrument] =
                             TradePosition(positions[o][tu.instrument], tu)]
                          \in [Instruments -> Positions]
    BY <2>4 DEF ControllerTypeOK
  <2>6. positions' \in [Owners -> [Instruments -> Positions]]
    BY <2>3, <2>5 DEF ControllerTypeOK, DispatchTrade
  <2>7. /\ instruments' \subseteq Instruments
        /\ held' \in [Owners -> SUBSET Instruments]
        /\ publish' \in [Owners -> SUBSET Instruments]
    BY <2>1, <2>3 DEF ControllerTypeOK, DispatchTrade, Marked
  <2>8. UNCHANGED <<last_exchange_time_utc, outbox>>
    BY DEF TradeUpdate
  <2> QED
    BY <1>1, <2>2, <2>3, <2>6, <2>7, <2>8 DEF ControllerTypeOK
<1> QED
  BY <1>2, <1>3

(* What one timer event sends to a source is well formed. *)
LEMMA PublishType ==
  ASSUME ControllerTypeOK, NEW s \in Sources
  PROVE  Publish(s) \in Seq(RiskLimitsBatches)
<1>1. \A o \in Owners, i \in Instruments : RiskLimit(o, i) \in RiskLimitItems
  BY DEF ControllerTypeOK, Positions, RiskLimit, RiskLimitItems
<1>2. \A o \in Owners : Publishable(o) \in SUBSET RiskLimitItems
  BY <1>1 DEF ControllerTypeOK, Publishable
<1>3. [o \in Owners |-> Publishable(o)] \in [Owners -> SUBSET RiskLimitItems]
  BY <1>2
<1>4. state[s].session_id \in Nat /\ state[s].seqno \in Nat
  BY DEF ControllerTypeOK, States
<1>5. [session_id |-> state[s].session_id, seqno |-> state[s].seqno,
       limits |-> [o \in Owners |-> Publishable(o)]] \in RiskLimitsBatches
  BY <1>3, <1>4 DEF RiskLimitsBatches
<1>6. outbox[s] \in Seq(RiskLimitsBatches)
  BY DEF ControllerTypeOK
<1> QED
  BY <1>5, <1>6 DEF Publish

(* A timer event keeps the types. *)
LEMMA TimerType ==
  ASSUME ControllerTypeOK, Timer
  PROVE  ControllerTypeOK'
<1>1. outbox' \in [Sources -> Seq(RiskLimitsBatches)]
  BY PublishType DEF ControllerTypeOK, Timer
<1>2. publish' \in [Owners -> SUBSET Instruments]
  BY DEF ControllerTypeOK, Timer
<1> QED
  BY <1>1, <1>2 DEF ControllerTypeOK, Timer

(* Corrections keep the types. *)
LEMMA PutTradeType ==
  ASSUME ControllerTypeOK, NEW batch \in Seq(Corrections), NEW n \in 0 .. Len(batch),
         NEW now \in Nat \ {0}, PutTrade(batch, n, now)
  PROVE  ControllerTypeOK'
<1>1. SubSeq(batch, 1, n) \in Seq(Corrections)
  OBVIOUS
<1>2. InsertCorrections(trades, SubSeq(batch, 1, n), now) \in SUBSET Rows
  BY <1>1, InsertCorrectionsType DEF ControllerTypeOK
<1> QED
  BY <1>2 DEF ControllerTypeOK, PutTrade, memory

(* A start over a well-formed table loads a well-formed state, whichever   *)
(* rows the queries return.                                                *)
LEMMA StartType ==
  ASSUME NEW table \in SUBSET Rows, Start(table)
  PROVE  ControllerTypeOK'
<1>1. PICK user_row \in SelectPositionsByUser(table, None),
           strategy_row \in SelectPositionsByStrategy(table, None),
           account_row \in SelectPositionsByAccount(table, None) :
        /\ user_row \in DatabasePositions(Users \cup {None})
        /\ strategy_row \in DatabasePositions(Strategies \cup {None})
        /\ account_row \in DatabasePositions(Accounts \cup {None})
        /\ LoadPositions(user_row, strategy_row, account_row)
  BY DEF Start
<1> DEFINE row(o) == IF o \in Accounts THEN account_row ELSE user_row
<1>2. Traded(table) \in SUBSET Rows
  BY DEF Traded
<1>3. \A o \in Owners : row(o).name = o => row(o).instrument \in Instruments
  <2>1. user_row.name # None => user_row.instrument \in Instruments
    BY <1>1, <1>2, SelectedInstrument DEF SelectPositionsByUser
  <2>2. account_row.name # None => account_row.instrument \in Instruments
    BY <1>1, <1>2, SelectedInstrument DEF SelectPositionsByAccount
  <2> QED
    BY <2>1, <2>2, NamesAssumption
<1>4. held' = [o \in Owners |-> IF row(o).name = o THEN {row(o).instrument} ELSE {}]
  BY <1>1 DEF LoadPositions
<1>5. held' \in [Owners -> SUBSET Instruments]
  BY <1>3, <1>4
<1>6. instruments' \subseteq Instruments
  BY <1>1, <1>5 DEF LoadPositions
<1>7. \A o \in Owners : LoadPosition(NewPosition, row(o)) \in Positions
  <2>1. \A long, short \in Int :
          [quantity |-> 0, long_position |-> long, short_position |-> short, fills |-> {}]
          \in Positions
    BY DEF Positions
  <2>2. \A o \in Owners : /\ row(o).long_quantity \in Int
                          /\ row(o).short_quantity \in Int
    BY <1>1 DEF DatabasePositions
  <2>3. \A o \in Owners : LoadPosition(NewPosition, row(o)) =
          [quantity |-> 0, long_position |-> row(o).long_quantity,
           short_position |-> row(o).short_quantity, fills |-> {}]
    BY DEF LoadPosition, NewPosition
  <2> QED
    BY <2>1, <2>2, <2>3
<1>8. NewPosition \in Positions
  BY DEF NewPosition, Positions
<1>9. positions' = [o \in Owners |-> [i \in Instruments |->
                      IF i \in held'[o] THEN LoadPosition(NewPosition, row(o))
                                        ELSE NewPosition]]
  BY <1>1 DEF LoadPositions
<1>10. positions' \in [Owners -> [Instruments -> Positions]]
  BY <1>7, <1>8, <1>9
<1>11. last_exchange_time_utc' \in Nat
  BY <1>1 DEF LoadPositions, DatabasePositions
<1>12. /\ publish' = [o \in Owners |-> {}]
       /\ state' = [s \in Sources |-> NoState]
       /\ outbox' = [s \in Sources |-> <<>>]
       /\ trades' = table
  BY DEF Start
<1>13. NoState \in States
  BY DEF NoState, States
<1> QED
  BY <1>5, <1>6, <1>10, <1>11, <1>12, <1>13 DEF ControllerTypeOK

(* The first start is well formed. *)
LEMMA ControllerInitType == ControllerInit => ControllerTypeOK
BY DEF ControllerInit, ControllerTypeOK, NewPosition, Positions, NoState, States

-----------------------------------------------------------------------------
(* What is marked or held stays registered *)

(* The end of a download marks no instrument but registered ones. *)
LEMMA DownloadEndMarks ==
  ASSUME ControllerTypeOK, MarkedAreRegistered, NEW s, NEW info,
         NEW account \in Accounts \cup {None}, DownloadEnd(s, info, account)
  PROVE  MarkedAreRegistered'
<1>1. CASE account = None \/ account \in state[s].latch_by_account
  <2>1. UNCHANGED shared
    BY <1>1 DEF DownloadEnd
  <2> QED
    BY <2>1 DEF MarkedAreRegistered, shared
<1>2. CASE account # None /\ account \notin state[s].latch_by_account
  <2>1. /\ publish' = [publish EXCEPT ![account] = @ \cup instruments]
        /\ UNCHANGED <<instruments, held>>
    BY <1>2 DEF DownloadEnd
  <2> QED
    BY <2>1 DEF MarkedAreRegistered, ControllerTypeOK
<1> QED
  BY <1>1, <1>2

(* Ready marks no instrument but registered ones. *)
LEMMA ReadyMarks ==
  ASSUME MarkedAreRegistered, NEW s, NEW info, Ready(s, info)
  PROVE  MarkedAreRegistered'
BY DEF MarkedAreRegistered, Ready

(* Reference data registers the instrument before any owner holds it. *)
LEMMA ReferenceDataMarks ==
  ASSUME MarkedAreRegistered, NEW i, ReferenceData(i)
  PROVE  MarkedAreRegistered'
BY DEF MarkedAreRegistered, ReferenceData

(* A trade registers its instrument before it is held or marked. *)
LEMMA TradeUpdateMarks ==
  ASSUME MarkedAreRegistered, NEW s, NEW info, NEW tu, NEW stored,
         TradeUpdate(s, info, tu, stored)
  PROVE  MarkedAreRegistered'
<1>1. CASE ~Accepted(tu)
  BY <1>1 DEF MarkedAreRegistered, TradeUpdate, shared
<1>2. CASE Accepted(tu)
  <2>1. DispatchTrade(tu)
    BY <1>2 DEF TradeUpdate
  <2>2. OwnersOf(tu) \subseteq Owners
    BY DEF OwnersOf
  <2> QED
    BY <2>1, <2>2 DEF MarkedAreRegistered, DispatchTrade, Marked
<1> QED
  BY <1>1, <1>2

(* Publication only clears marks. *)
LEMMA TimerMarks ==
  ASSUME MarkedAreRegistered, Timer
  PROVE  MarkedAreRegistered'
BY DEF MarkedAreRegistered, Timer

(* The positions that are loaded register their instruments, and nothing   *)
(* is marked.                                                              *)
LEMMA StartMarks ==
  ASSUME NEW table, Start(table)
  PROVE  MarkedAreRegistered'
<1>1. /\ publish' = [o \in Owners |-> {}]
      /\ instruments' = UNION {held'[o] : o \in Owners}
  BY DEF Start, LoadPositions
<1> QED
  BY <1>1 DEF MarkedAreRegistered
=============================================================================
