---------------------------- MODULE ActionProofs ----------------------------
(***************************************************************************)
(* What no step of System ever does, for all values of its constants: take *)
(* the limits a gateway holds back to earlier ones, or lose an exchange    *)
(* trade from the table.                                                   *)
(***************************************************************************)
EXTENDS OrderProofs

-----------------------------------------------------------------------------
(* What the risk manager does to every source *)

(* The risk manager handles a message.  Reference data leaves its state    *)
(* alone, every other handler takes over the number of the message.        *)
LEMMA DeliverStep ==
  ASSUME SystemInv, NEW s \in Sources, Deliver(s) \/ DeliverTradeUpdateDbError(s)
  PROVE  \A r \in Sources : Popped(r) \/ Same(r)
<1>1. /\ downlink \in [Sources -> Seq(Messages)] /\ journal \in [Sources -> Seq(Records)]
      /\ state \in [Sources -> States]
  BY DEF SystemInv, TypeOK, GatewayTypeOK, ControllerTypeOK
<1>2. downlink[s] # <<>> /\ Pop(s)
  BY DEF Deliver, DeliverDownloadBegin, DeliverDownloadEnd, DeliverReady,
         DeliverReferenceData, DeliverTradeUpdate, DeliverTradeUpdateDbError, Pending
<1>3. /\ outbox' = outbox
      /\ \/ state' = state
         \/ \E st : state' = [state EXCEPT ![s] = st] /\ st.seqno = Info(s).seqno
  <2> DEFINE st0 == WithMessageInfo(state[s], Info(s))
  <2>1. /\ st0.seqno = Info(s).seqno
        /\ AsReady(st0, TRUE).seqno = Info(s).seqno
        /\ \A names : Latch(st0, names).seqno = Info(s).seqno
    BY DEF WithMessageInfo, AsReady, Latch
  <2>2. CASE DeliverDownloadBegin(s)
    BY <2>1, <2>2, Zenon DEF DeliverDownloadBegin, DownloadBegin
  <2>3. CASE DeliverDownloadEnd(s)
    BY <2>1, <2>3 DEF DeliverDownloadEnd, DownloadEnd
  <2>4. CASE DeliverReady(s)
    BY <2>1, <2>4, Zenon DEF DeliverReady, Ready
  <2>5. CASE DeliverReferenceData(s)
    BY <2>5 DEF DeliverReferenceData, ReferenceData
  <2>6. CASE DeliverTradeUpdate(s) \/ DeliverTradeUpdateDbError(s)
    BY <2>1, <2>6 DEF DeliverTradeUpdate, DeliverTradeUpdateDbError, TradeUpdate
  <2> QED
    BY <2>2, <2>3, <2>4, <2>5, <2>6 DEF Deliver
<1>4. /\ \A r \in Sources : r # s => state'[r] = state[r]
      /\ state'[s] = state[s] \/ state'[s].seqno = Head(downlink[s]).seqno
  BY <1>1, <1>3 DEF Info
<1>5. /\ downlink'[s] = Tail(downlink[s])
      /\ \A r \in Sources : r # s => downlink'[r] = downlink[r]
      /\ UNCHANGED <<journal, limits>>
  BY <1>1, <1>2, Zenon DEF Pop, history
<1>6. Popped(s)
  BY <1>2, <1>3, <1>4, <1>5, Zenon DEF Popped
<1>7. \A r \in Sources : Len(journal'[r]) >= Len(journal[r])
  BY <1>1, <1>5
<1>8. \A r \in Sources : r # s => Same(r)
  BY <1>3, <1>4, <1>5, <1>7, Zenon DEF Same
<1> QED
  BY <1>6, <1>8, Zenon

(* The timer publishes to a source that is ready, under its last number. *)
LEMMA TimerStep ==
  ASSUME SystemInv, SystemInv', TimerEvent
  PROVE  \A r \in Sources : Published(r) \/ Same(r)
<1> SUFFICES ASSUME NEW r \in Sources PROVE Published(r) \/ Same(r)
  OBVIOUS
<1> DEFINE m == [session_id |-> state[r].session_id, seqno |-> state[r].seqno,
                 limits |-> [o \in Owners |-> Publishable(o)]]
<1>1. UNCHANGED <<journal, downlink, limits, state>>
  BY DEF TimerEvent, Timer, history
<1>2. \/ outbox'[r] = outbox[r]
      \/ state[r].ready /\ outbox'[r] = Append(outbox[r], m)
  BY DEF TimerEvent, Timer, FirstReady, Publish
<1>3. CASE outbox'[r] = outbox[r]
  <2>1. Len(journal[r]) >= Len(journal[r])
    BY QueueTypes
  <2> QED
    BY <1>1, <1>3, <2>1, Zenon DEF Same
<1>4. CASE state[r].ready /\ outbox'[r] = Append(outbox[r], m)
  <2>1. state[r] # NoState
    BY <1>4 DEF NoState
  <2>2. m \in RiskLimitsBatches
    <3>1. \A o \in Owners : Publishable(o) \in SUBSET RiskLimitItems
      <4>1. ControllerTypeOK
        BY DEF SystemInv, TypeOK
      <4>2. \A o \in Owners, i \in Instruments : RiskLimit(o, i) \in RiskLimitItems
        BY <4>1 DEF ControllerTypeOK, Positions, RiskLimit, RiskLimitItems
      <4> QED
        BY <4>1, <4>2 DEF ControllerTypeOK, Publishable
    <3> QED
      BY <3>1, QueueTypes DEF RiskLimitsBatches, States
  <2>3. m.seqno = state[r].seqno
    OBVIOUS
  <2> HIDE DEF m
  <2> QED
    BY <1>1, <1>4, <2>1, <2>2, <2>3, Zenon DEF Published
<1> QED
  BY <1>2, <1>3, <1>4

(* The gateway takes limits from the head of the outbox. *)
LEMMA ReceiveStep ==
  ASSUME SystemInv, NEW s \in Sources, ReceiveLimits(s)
  PROVE  \A r \in Sources : IF r = s THEN Held(r) ELSE Same(r)
<1> DEFINE m == Head(outbox[s])
<1>1. /\ outbox \in [Sources -> Seq(RiskLimitsBatches)]
      /\ limits \in [Sources -> [Owners -> [Instruments -> Limits]]]
      /\ \A r \in Sources : Len(journal[r]) >= Len(journal[r])
  BY QueueTypes DEF SystemInv, TypeOK, GatewayTypeOK, ControllerTypeOK
<1>2. /\ outbox[s] # <<>> /\ outbox' = [outbox EXCEPT ![s] = Tail(@)]
      /\ limits' = [limits EXCEPT ![s] = [o \in Owners |-> [i \in Instruments |->
                      IF About(m, o, i) = {} THEN limits[s][o][i] ELSE Received(m, o, i)]]]
      /\ UNCHANGED <<downlink, state, journal>>
  BY DEF ReceiveLimits, history
<1>3. /\ outbox'[s] = Tail(outbox[s])
      /\ \A r \in Sources : r # s => outbox'[r] = outbox[r] /\ limits'[r] = limits[r]
      /\ limits'[s] = [o \in Owners |-> [i \in Instruments |->
                         IF About(m, o, i) = {} THEN limits[s][o][i] ELSE Received(m, o, i)]]
  BY <1>1, <1>2, Zenon
<1>4. \A o, i : Received(m, o, i).seqno = m.seqno
  BY DEF Received
<1>5. \A o \in Owners, i \in Instruments :
        limits'[s][o][i] = limits[s][o][i] \/ limits'[s][o][i].seqno = m.seqno
  <2> TAKE o \in Owners, i \in Instruments
  <2>1. limits'[s][o][i] = IF About(m, o, i) = {} THEN limits[s][o][i] ELSE Received(m, o, i)
    BY <1>3
  <2> QED
    BY <1>4, <2>1, Zenon
<1>6. Held(s)
  BY <1>2, <1>3, <1>5, Zenon DEF Held
<1>7. \A r \in Sources : r # s => Same(r)
  BY <1>1, <1>2, <1>3, Zenon DEF Same
<1> QED
  BY <1>6, <1>7, Zenon

-----------------------------------------------------------------------------
(* Sequence numbers *)

(* A step does to each source one of the six things. *)
LEMMA NextStep ==
  ASSUME SystemInv, SystemInv', Ordered, [Next]_vars, NEW r \in Sources
  PROVE  Same(r) \/ Sent(r) \/ Dropped(r) \/ Popped(r) \/ Published(r) \/ Held(r)
<1>1. Len(journal[r]) >= Len(journal[r])
  BY QueueTypes
<1>2. CASE UNCHANGED <<outbox, state, downlink, journal, limits>>
  BY <1>1, <1>2 DEF Same
<1>3. ASSUME NEW s \in Sources,
             \/ Connect(s) \/ GatewayDownload(s)
             \/ \E tu \in NextTrades(s) : Execute(s, tu)
             \/ \E i \in Instruments : ListInstrument(s, i)
             \/ Disconnect(s) \/ GatewayRestart(s) \/ ReceiveLimits(s)
             \/ Deliver(s) \/ DeliverTradeUpdateDbError(s)
      PROVE  Same(r) \/ Sent(r) \/ Dropped(r) \/ Popped(r) \/ Held(r)
  BY <1>3, GatewayStep, ExecuteStep, DisconnectStep, ReceiveStep, DeliverStep, Zenon
<1>4. CASE TimerEvent
  BY <1>4, TimerStep
<1>5. CASE Crash \/ \E s \in Sources : CrashInTradeUpdate(s)
  BY <1>5, CrashStep
<1>6. CASE \E s \in Sources, a \in Accounts : Redownload(s, a)
  BY <1>2, <1>6 DEF Redownload, controllerVars
<1>7. CASE \E batch \in Batches : Correct(batch) \/ CorrectDbError(batch)
  BY <1>2, <1>7 DEF Correct, CorrectDbError, PutTrade, memory, history
<1>8. CASE UNCHANGED vars
  BY <1>2, <1>8 DEF vars, controllerVars
<1> QED
  BY <1>3, <1>4, <1>5, <1>6, <1>7, <1>8, Zenon DEF Next

(* Sequence numbers are in order at the first start. *)
LEMMA InitOrdered == Init => Ordered
<1> SUFFICES ASSUME Init, NEW s \in Sources PROVE OrderedAt(s)
  BY DEF Ordered
<1>1. /\ downlink[s] = <<>> /\ outbox[s] = <<>> /\ state[s] = NoState /\ journal[s] = <<>>
      /\ limits[s] = [o \in Owners |-> [i \in Instruments |-> NoLimit]]
  BY DEF Init, ControllerInit
<1>2. 1 .. Len(outbox[s]) = {} /\ Len(journal[s]) = 0 /\ NoLimit.seqno = 0
  BY <1>1 DEF NoLimit
<1>3. \A o \in Owners, i \in Instruments : limits[s][o][i].seqno <= Len(journal[s])
  BY <1>1, <1>2
<1> QED
  BY <1>1, <1>2, <1>3, EmptyOrder, Zenon
     DEF OrderedAt, DownlinkOrdered, OutboxOrdered, LimitsOrdered

(* Numbers stay in order on their way through the risk manager, whatever   *)
(* connections and processes are lost.                                     *)
THEOREM NumbersInOrder == Spec => []Ordered
<1>1. SystemInv /\ SystemInv' /\ Ordered /\ [Next]_vars => Ordered'
  <2> SUFFICES ASSUME SystemInv, SystemInv', Ordered, [Next]_vars, NEW r \in Sources
               PROVE  OrderedAt(r)'
    BY DEF Ordered
  <2>1. OrderedAt(r)
    BY DEF Ordered
  <2>2. Same(r) \/ Sent(r) \/ Dropped(r) \/ Popped(r) \/ Published(r) \/ Held(r)
    BY NextStep
  <2> QED
    BY <2>1, <2>2, SameOrdered, SentOrdered, DroppedOrdered, PoppedOrdered,
       PublishedOrdered, HeldOrdered
<1> QED
  BY InvariantHolds, InitOrdered, <1>1, PTL DEF Spec

(* In one session of the gateway a later limit is never replaced by an     *)
(* earlier one.                                                            *)
THEOREM NeverBack == Spec => LimitsAdvance
<1> DEFINE Advance == \A s \in Sources, o \in Owners, i \in Instruments :
             session'[s] = session[s] => limits'[s][o][i].seqno >= limits[s][o][i].seqno
<1>1. SystemInv /\ SystemInv' /\ Ordered /\ [Next]_vars => [Advance]_vars
  <2> SUFFICES ASSUME SystemInv, SystemInv', Ordered, Next,
                      NEW s \in Sources, NEW o \in Owners, NEW i \in Instruments,
                      session'[s] = session[s]
               PROVE  limits'[s][o][i].seqno >= limits[s][o][i].seqno
    BY Zenon DEF vars
  <2>1. limits[s][o][i].seqno \in Nat
    BY QueueTypes
  <2>2. CASE ReceiveLimits(s)
    <3>1. Held(s)
      BY <2>2, ReceiveStep
    <3>2. limits[s][o][i].seqno <= Head(outbox[s]).seqno
      <4>1. Ascending(outbox[s]) /\ AtLeast(outbox[s], limits[s][o][i].seqno)
        BY DEF Ordered, OrderedAt, OutboxOrdered, LimitsOrdered
      <4> QED
        BY <3>1, <4>1, QueueTypes, TailOrder, Zenon DEF Held
    <3>3. \/ limits'[s][o][i] = limits[s][o][i]
          \/ limits'[s][o][i].seqno = Head(outbox[s]).seqno
      BY <3>1, Zenon DEF Held
    <3>4. Head(outbox[s]).seqno \in Nat
      <4>1. outbox[s] # <<>> /\ outbox[s] \in Seq(RiskLimitsBatches)
        BY <3>1, QueueTypes, Zenon DEF Held
      <4>2. Head(outbox[s]) \in RiskLimitsBatches
        BY <4>1
      <4> QED
        BY <4>2, QueueTypes, Zenon
    <3> QED
      BY <2>1, <3>2, <3>3, <3>4
  <2>3. CASE ~ReceiveLimits(s)
    <3>1. limits'[s] = limits[s]
      <4>1. CASE \E r \in Sources : ReceiveLimits(r)
        <5>1. PICK r \in Sources : ReceiveLimits(r)
          BY <4>1
        <5> QED
          BY <2>3, <5>1, ReceiveStep DEF Same
      <4>2. CASE \E r \in Sources : GatewayRestart(r)
        <5>1. PICK r \in Sources : GatewayRestart(r)
          BY <4>2
        <5>2. session \in [Sources -> Nat]
          BY DEF SystemInv, TypeOK, GatewayTypeOK
        <5>3. r # s
          BY <5>1, <5>2 DEF GatewayRestart
        <5> QED
          BY <5>1, <5>3 DEF GatewayRestart
      <4>3. CASE UNCHANGED limits
        BY <4>3
      <4>4. \/ \E r \in Sources : ReceiveLimits(r) \/ GatewayRestart(r)
            \/ UNCHANGED limits
        <5>1. ASSUME NEW r \in Sources, Deliver(r) \/ DeliverTradeUpdateDbError(r)
              PROVE  UNCHANGED limits
          BY <5>1 DEF Deliver, DeliverDownloadBegin, DeliverDownloadEnd, DeliverReady,
             DeliverReferenceData, DeliverTradeUpdate, DeliverTradeUpdateDbError, Pop
        <5>2. ASSUME NEW r \in Sources, GatewayDownload(r) \/ Connect(r)
              PROVE  UNCHANGED limits
          BY <5>2 DEF Connect, GatewayDownload, DownloadReferenceData, EndReferenceData,
             BeginAccount, DownloadTrade, EndAccount, SendReady
        <5>3. ASSUME NEW r \in Sources,
                     \/ \E tu \in NextTrades(r) : Execute(r, tu)
                     \/ \E l \in Instruments : ListInstrument(r, l)
                     \/ \E a \in Accounts : Redownload(r, a)
                     \/ Disconnect(r) \/ CrashInTradeUpdate(r)
              PROVE  UNCHANGED limits
          BY <5>3 DEF Execute, ListInstrument, Redownload, Disconnect, CrashInTradeUpdate
        <5>4. ASSUME TimerEvent \/ Crash
                     \/ \E batch \in Batches : Correct(batch) \/ CorrectDbError(batch)
              PROVE  UNCHANGED limits
          BY <5>4 DEF TimerEvent, Crash, Correct, CorrectDbError
        <5> QED
          BY <5>1, <5>2, <5>3, <5>4, Zenon DEF Next
      <4> QED
        BY <4>1, <4>2, <4>3, <4>4
    <3> QED
      BY <2>1, <3>1
  <2> QED
    BY <2>2, <2>3
<1> QED
  BY InvariantHolds, NumbersInOrder, <1>1, PTL DEF Spec, LimitsAdvance

-----------------------------------------------------------------------------
(* The trades table *)

(* A row of the table is a fill of an executed trade. *)
Executed(r) ==
  \E s \in Sources : \E k \in 1 .. Len(log[s]) : \E id \in DOMAIN log[s][k].fills :
    r = TradeRow(log[s][k], id)

(* What TradesKept rests on: the exchange rows are fills of executed       *)
(* trades, and account and time tell two trades apart.  Two fills with the *)
(* same primary key are then the same fill.                                *)
LogTimed ==
  \A s \in Sources : \A k \in 1 .. Len(log[s]) :
    /\ Home[log[s][k].account] = s
    /\ log[s][k].create_time_utc <= clock
    /\ \A j \in 1 .. Len(log[s]) :
         log[s][j].create_time_utc = log[s][k].create_time_utc => j = k

RowsExecuted == \A r \in trades : r.type = "EXCHANGE" => Executed(r)

KeptInv == LogTimed /\ RowsExecuted

Kept == \A r \in trades : r.type = "EXCHANGE" => r \in trades'

(* A step that executes no trade. *)
LEMMA SameLog ==
  ASSUME log' = log
  PROVE  \A r : Executed(r) => Executed(r)'
  BY DEF Executed

(* The times of executed trades are numbers. *)
LEMMA LogTimes ==
  ASSUME SystemInv, KeptInv, NEW s \in Sources, NEW k \in 1 .. Len(log[s])
  PROVE  /\ clock \in Nat /\ log[s][k].create_time_utc \in Nat
         /\ log[s][k].create_time_utc <= clock
<1>1. log[s] \in Seq(TradeUpdates) /\ clock \in Nat
  BY DEF SystemInv, TypeOK, GatewayTypeOK
<1>2. log[s][k] \in TradeUpdates
  BY <1>1
<1>3. log[s][k].create_time_utc \in Nat
  BY <1>2 DEF TradeUpdates
<1> QED
  BY <1>1, <1>3 DEF KeptInv, LogTimed

(* Steps that leave the table and the log alone. *)
LEMMA UntouchedKept ==
  ASSUME KeptInv, UNCHANGED <<trades, log, clock>>
  PROVE  KeptInv' /\ Kept
<1>1. LogTimed'
  BY DEF KeptInv, LogTimed
<1>2. RowsExecuted'
  BY DEF KeptInv, RowsExecuted, Executed
<1>3. Kept
  BY DEF Kept
<1> QED
  BY <1>1, <1>2, <1>3 DEF KeptInv

(* The fills of an update that was inserted before replace themselves. *)
LEMMA InsertKept ==
  ASSUME KeptInv, UNCHANGED <<log, clock>>, NEW s \in Sources, NEW k \in 1 .. Len(log[s]),
         NEW ids \in SUBSET DOMAIN log[s][k].fills,
         trades' = InsertTrades(trades, log[s][k], ids)
  PROVE  KeptInv' /\ Kept
<1> DEFINE tu == log[s][k]
<1>1. trades' = {r \in trades : \A x \in TradeRows(tu, ids) : Key(x) # Key(r)} \cup TradeRows(tu, ids)
  BY DEF InsertTrades, InsertOrReplace
<1>2. \A x \in TradeRows(tu, ids) : \E id \in ids : x = TradeRow(tu, id)
  BY DEF TradeRows
<1>3. RowsExecuted'
  <2> SUFFICES ASSUME NEW r \in trades', r.type = "EXCHANGE" PROVE Executed(r)
    BY SameLog DEF RowsExecuted
  <2>1. CASE r \in trades
    BY <2>1 DEF KeptInv, RowsExecuted
  <2>2. CASE r \in TradeRows(tu, ids)
    BY <1>2, <2>2, Zenon DEF Executed
  <2> QED
    BY <1>1, <2>1, <2>2
<1>4. LogTimed'
  BY DEF KeptInv, LogTimed
<1>5. Kept
  <2> SUFFICES ASSUME NEW r \in trades, r.type = "EXCHANGE" PROVE r \in trades'
    BY DEF Kept
  <2> SUFFICES ASSUME NEW x \in TradeRows(tu, ids), Key(x) = Key(r) PROVE x = r
    BY <1>1
  <2>1. PICK id \in ids : x = TradeRow(tu, id)
    BY <1>2
  <2>2. Executed(r)
    BY DEF KeptInv, RowsExecuted
  <2>3. PICK t \in Sources : \E l \in 1 .. Len(log[t]) : \E i \in DOMAIN log[t][l].fills :
          r = TradeRow(log[t][l], i)
    BY <2>2 DEF Executed
  <2>4. PICK l \in 1 .. Len(log[t]) : \E i \in DOMAIN log[t][l].fills :
          r = TradeRow(log[t][l], i)
    BY <2>3
  <2>5. PICK i \in DOMAIN log[t][l].fills : r = TradeRow(log[t][l], i)
    BY <2>4
  <2>6. /\ tu.account = log[t][l].account /\ id = i
        /\ tu.create_time_utc = log[t][l].create_time_utc
    BY <2>1, <2>5 DEF Key, TradeRow
  <2>7. t = s
    BY <2>6 DEF KeptInv, LogTimed
  <2>8. l = k
    BY <2>6, <2>7 DEF KeptInv, LogTimed
  <2> QED
    BY <2>1, <2>5, <2>6, <2>7, <2>8
<1> QED
  BY <1>3, <1>4, <1>5 DEF KeptInv

(* Corrections have a type of their own in the primary key. *)
LEMMA CorrectKept ==
  ASSUME SystemInv, KeptInv, UNCHANGED log, clock' = clock + 1, NEW batch, NEW now,
         trades' = InsertCorrections(trades, batch, now)
  PROVE  KeptInv' /\ Kept
<1>1. PICK rows : /\ \A x \in rows : x.type = "MANUAL"
                  /\ trades' = {r \in trades : \A x \in rows : Key(x) # Key(r)} \cup rows
  <2> DEFINE row(j) == CorrectionRow(ParseItem(batch[j]), now)
             rows == {row(j) : j \in {k \in DOMAIN batch :
                       \A l \in DOMAIN batch : l > k => Key(row(l)) # Key(row(k))}}
  <2>1. \A j : row(j).type = "MANUAL"
    BY DEF CorrectionRow
  <2>2. \A x \in rows : x.type = "MANUAL"
    <3> HIDE DEF row
    <3> QED
      BY <2>1
  <2>3. trades' = {r \in trades : \A x \in rows : Key(x) # Key(r)} \cup rows
    BY Zenon DEF InsertCorrections, InsertOrReplace
  <2> QED
    BY <2>2, <2>3
<1>2. \A x \in rows : \A r : r.type = "EXCHANGE" => Key(x) # Key(r)
  BY <1>1 DEF Key
<1>3. Kept
  BY <1>1, <1>2, Zenon DEF Kept
<1>4. RowsExecuted'
  <2>1. \A r \in trades' : r.type = "EXCHANGE" => r \in trades
    BY <1>1
  <2> QED
    BY <2>1, SameLog DEF KeptInv, RowsExecuted
<1>5. LogTimed'
  <2>1. \A s \in Sources : \A k \in 1 .. Len(log[s]) : log[s][k].create_time_utc <= clock + 1
    BY LogTimes
  <2> QED
    BY <2>1 DEF KeptInv, LogTimed
<1> QED
  BY <1>3, <1>4, <1>5 DEF KeptInv

(* A new trade has a time of its own. *)
LEMMA ExecuteKept ==
  ASSUME SystemInv, KeptInv, NEW s \in Sources, NEW tu \in NextTrades(s), Execute(s, tu)
  PROVE  KeptInv' /\ Kept
<1>1. /\ log \in [Sources -> Seq(TradeUpdates)] /\ clock \in Nat
      /\ \A t \in Sources : Len(log[t]) \in Nat
  BY DEF SystemInv, TypeOK, GatewayTypeOK
<1>2. /\ UNCHANGED trades /\ clock' = clock + 1 /\ log' = [log EXCEPT ![s] = Append(@, tu)]
      /\ Home[tu.account] = s /\ tu.create_time_utc = clock + 1
  BY DEF Execute, controllerVars
<1>3. /\ \A t \in Sources : t # s => log'[t] = log[t]
      /\ Len(log'[s]) = Len(log[s]) + 1 /\ log'[s][Len(log[s]) + 1] = tu
      /\ \A k \in 1 .. Len(log[s]) : log'[s][k] = log[s][k]
  <2>1. log'[s] = Append(log[s], tu) /\ \A t \in Sources : t # s => log'[t] = log[t]
    BY <1>1, <1>2
  <2>2. log[s] \in Seq(TradeUpdates)
    BY <1>1
  <2> QED
    BY <2>1, <2>2
<1>4. /\ \A t \in Sources : \A k \in 1 .. Len(log[t]) : k \in 1 .. Len(log'[t]) /\ log'[t][k] = log[t][k]
      /\ \A k \in 1 .. Len(log'[s]) : k \in 1 .. Len(log[s]) \/ k = Len(log[s]) + 1
  BY <1>1, <1>3
<1>5. \A t \in Sources : \A k \in 1 .. Len(log[t]) :
        /\ log[t][k].create_time_utc <= clock + 1
        /\ log[t][k].create_time_utc # clock + 1
  BY LogTimes
<1>6. RowsExecuted'
  <2> SUFFICES ASSUME NEW r \in trades, r.type = "EXCHANGE" PROVE Executed(r)'
    BY <1>2 DEF RowsExecuted
  <2>1. Executed(r)
    BY DEF KeptInv, RowsExecuted
  <2>2. PICK t \in Sources : \E k \in 1 .. Len(log[t]) : \E id \in DOMAIN log[t][k].fills :
          r = TradeRow(log[t][k], id)
    BY <2>1 DEF Executed
  <2>3. PICK k \in 1 .. Len(log[t]) : \E id \in DOMAIN log[t][k].fills : r = TradeRow(log[t][k], id)
    BY <2>2
  <2>4. k \in 1 .. Len(log'[t]) /\ log'[t][k] = log[t][k]
    BY <1>4
  <2> QED
    BY <2>3, <2>4, Zenon DEF Executed
<1>7. LogTimed'
  <2> SUFFICES ASSUME NEW t \in Sources, NEW k \in 1 .. Len(log'[t])
               PROVE  /\ Home[log'[t][k].account] = t
                      /\ log'[t][k].create_time_utc <= clock'
                      /\ \A j \in 1 .. Len(log'[t]) :
                           log'[t][j].create_time_utc = log'[t][k].create_time_utc => j = k
    BY Zenon DEF LogTimed
  <2>1. CASE t # s
    <3>1. log'[t] = log[t]
      BY <1>3, <2>1
    <3> QED
      BY <1>2, <1>5, <3>1 DEF KeptInv, LogTimed
  <2>2. CASE t = s /\ k \in 1 .. Len(log[s])
    <3>1. /\ log'[t][k] = log[s][k] /\ Home[log[s][k].account] = s
          /\ log[s][k].create_time_utc <= clock'
      BY <1>2, <1>3, <1>5, <2>2 DEF KeptInv, LogTimed
    <3>2. ASSUME NEW j \in 1 .. Len(log'[s]),
                 log'[s][j].create_time_utc = log[s][k].create_time_utc
          PROVE  j = k
      <4>1. CASE j \in 1 .. Len(log[s])
        BY <1>3, <2>2, <3>2, <4>1 DEF KeptInv, LogTimed
      <4>2. CASE j = Len(log[s]) + 1
        BY <1>2, <1>3, <1>5, <2>2, <3>2, <4>2
      <4> QED
        BY <1>4, <4>1, <4>2
    <3> QED
      BY <2>2, <3>1, <3>2, Zenon
  <2>3. CASE t = s /\ k = Len(log[s]) + 1
    <3>1. clock + 1 <= clock + 1
      BY <1>1
    <3>2. ASSUME NEW j \in 1 .. Len(log'[s]), log'[s][j].create_time_utc = clock + 1
          PROVE  j = k
      BY <1>3, <1>4, <1>5, <2>3, <3>2
    <3>3. log'[t][k] = tu
      BY <1>3, <2>3
    <3> QED
      BY <1>2, <2>3, <3>1, <3>2, <3>3, Zenon
  <2> QED
    BY <1>4, <2>1, <2>2, <2>3
<1>8. Kept
  BY <1>2 DEF Kept
<1> QED
  BY <1>6, <1>7, <1>8 DEF KeptInv

(* The handling of a trade update, complete, failing or cut by a crash. *)
LEMMA TradeUpdateKept ==
  ASSUME SystemInv, KeptInv, NEW s \in Sources,
         DeliverTradeUpdate(s) \/ DeliverTradeUpdateDbError(s) \/ CrashInTradeUpdate(s)
  PROVE  KeptInv' /\ Kept
<1>1. UNCHANGED <<log, clock>>
  BY DEF DeliverTradeUpdate, DeliverTradeUpdateDbError, CrashInTradeUpdate, Pop, history
<1>2. \/ UNCHANGED trades
      \/ \E ids \in SUBSET DOMAIN HeadTrade(s).fills : trades' = InsertTrades(trades, HeadTrade(s), ids)
  <2>1. CASE DeliverTradeUpdate(s)
    BY <2>1, Zenon DEF DeliverTradeUpdate, TradeUpdate
  <2>2. CASE DeliverTradeUpdateDbError(s)
    BY <2>2, Zenon DEF DeliverTradeUpdateDbError, TradeUpdate
  <2>3. CASE CrashInTradeUpdate(s)
    BY <2>3, Zenon DEF CrashInTradeUpdate, Start
  <2> QED
    BY <2>1, <2>2, <2>3
<1>3. Head(downlink[s]).value \in 1 .. Len(log[s])
  <2>1. downlink[s] \in Seq(Messages) /\ downlink[s] # <<>> /\ Head(downlink[s]).type = "TradeUpdate"
    BY QueueTypes DEF DeliverTradeUpdate, DeliverTradeUpdateDbError, CrashInTradeUpdate, Pending
  <2>2. 1 \in 1 .. Len(downlink[s]) /\ Head(downlink[s]) = downlink[s][1]
    BY <2>1
  <2> QED
    BY <2>1, <2>2, Zenon DEF SystemInv, MessagesOfSession
<1> QED
  BY <1>1, <1>2, <1>3, UntouchedKept, InsertKept, Zenon DEF HeadTrade

(* Any number of gateways, trades, faults, corrections and restarts: an    *)
(* exchange trade that is in the table stays there.                        *)
THEOREM NeverLost == Spec => TradesKept
<1>1. Init => KeptInv
  <2> SUFFICES ASSUME Init PROVE KeptInv
    OBVIOUS
  <2>1. trades = {} /\ \A s \in Sources : Len(log[s]) = 0
    BY DEF Init, ControllerInit, Start
  <2> QED
    BY <2>1 DEF KeptInv, LogTimed, RowsExecuted
<1>2. SystemInv /\ KeptInv /\ [Next]_vars => KeptInv' /\ Kept
  <2> SUFFICES ASSUME SystemInv, KeptInv, [Next]_vars PROVE KeptInv' /\ Kept
    OBVIOUS
  <2>1. CASE UNCHANGED vars
    BY <2>1, UntouchedKept DEF vars, controllerVars
  <2>2. CASE TimerEvent \/ Crash
    BY <2>2, UntouchedKept DEF TimerEvent, Timer, Crash, Start, history
  <2>3. ASSUME NEW batch \in Batches, Correct(batch) \/ CorrectDbError(batch)
        PROVE  KeptInv' /\ Kept
    <3>1. UNCHANGED log /\ clock' = clock + 1
      BY <2>3 DEF Correct, CorrectDbError, history
    <3>2. \E b : trades' = InsertCorrections(trades, b, clock + 1)
      BY <2>3, Zenon DEF Correct, CorrectDbError, PutTrade
    <3> QED
      BY <3>1, <3>2, CorrectKept
  <2>4. ASSUME NEW s \in Sources, NEW tu \in NextTrades(s), Execute(s, tu)
        PROVE  KeptInv' /\ Kept
    BY <2>4, ExecuteKept
  <2>5. ASSUME NEW s \in Sources,
               DeliverTradeUpdate(s) \/ DeliverTradeUpdateDbError(s) \/ CrashInTradeUpdate(s)
        PROVE  KeptInv' /\ Kept
    BY <2>5, TradeUpdateKept
  <2>6. ASSUME NEW s \in Sources,
               \/ DeliverDownloadBegin(s) \/ DeliverDownloadEnd(s) \/ DeliverReady(s)
               \/ DeliverReferenceData(s)
        PROVE  KeptInv' /\ Kept
    <3>1. UNCHANGED <<trades, log, clock>>
      BY <2>6 DEF DeliverDownloadBegin, DeliverDownloadEnd, DeliverReady, DeliverReferenceData,
         DownloadBegin, DownloadEnd, Ready, ReferenceData, Pop, history
    <3> QED
      BY <3>1, UntouchedKept
  <2>7. ASSUME NEW s \in Sources, Connect(s) \/ GatewayDownload(s)
        PROVE  KeptInv' /\ Kept
    <3>1. UNCHANGED <<trades, log, clock>>
      BY <2>7 DEF Connect, GatewayDownload, DownloadReferenceData, EndReferenceData,
         BeginAccount, DownloadTrade, EndAccount, SendReady, controllerVars
    <3> QED
      BY <3>1, UntouchedKept
  <2>8. ASSUME NEW s \in Sources,
               \/ \E i \in Instruments : ListInstrument(s, i)
               \/ \E a \in Accounts : Redownload(s, a)
               \/ Disconnect(s) \/ GatewayRestart(s) \/ ReceiveLimits(s)
        PROVE  KeptInv' /\ Kept
    <3>1. UNCHANGED <<trades, log, clock>>
      BY <2>8 DEF ListInstrument, Redownload, Disconnect, GatewayRestart, ReceiveLimits,
         Disconnected, controllerVars, history
    <3> QED
      BY <3>1, UntouchedKept
  <2> QED
    BY <2>1, <2>2, <2>3, <2>4, <2>5, <2>6, <2>7, <2>8, Zenon DEF Next, Deliver
<1>3. Kept => [\A r \in trades : r.type = "EXCHANGE" => r \in trades']_vars
  BY DEF Kept
<1> QED
  BY InvariantHolds, <1>1, <1>2, <1>3, PTL DEF Spec, TradesKept
=============================================================================
