---------------------------- MODULE SystemProofs ----------------------------
(***************************************************************************)
(* Proofs about System, for all values of its constants: any number of     *)
(* gateways, accounts, users, instruments, trades and faults.  SystemInv   *)
(* is inductive; type correctness, MarkedAreRegistered and LimitsOfSession *)
(* are conjuncts of it.                                                    *)
(***************************************************************************)
EXTENDS GatewayProofs

(* Delivery of a message by a handler that sends nothing and records at    *)
(* most the session and the sequence number of the message.                *)
LEMMA PopInv ==
  ASSUME SystemInv, NEW s \in Sources, downlink[s] # <<>>, Pop(s),
         used' \in [Budgets -> Nat], ControllerTypeOK', MarkedAreRegistered',
         outbox' = outbox,
         \A r \in Sources : r # s => state'[r] = state[r],
         state'[s] = state[s] \/ /\ state'[s].session_id = Info(s).session_id
                                 /\ state'[s].seqno = Info(s).seqno
  PROVE  SystemInv'
<1> USE DEF SystemInv, TypeOK
<1>1. /\ downlink' = [downlink EXCEPT ![s] = Tail(@)]
      /\ UNCHANGED <<session, listed, log, net, journal, limits, clock>>
      /\ UNCHANGED download
  BY DEF Pop, history
<1>2. downlink' \in [Sources -> Seq(Messages)]
  <2>1. downlink \in [Sources -> Seq(Messages)]
    BY DEF GatewayTypeOK
  <2>2. Tail(downlink[s]) \in Seq(Messages)
    BY <2>1, TailType
  <2> QED
    BY <1>1, <2>1, <2>2
<1>3. GatewayTypeOK'
  BY <1>1, <1>2, Zenon DEF GatewayTypeOK, download
<1>4. MessagesOfSession'
  <2> SUFFICES ASSUME NEW r \in Sources, NEW k \in 1 .. Len(downlink'[r])
               PROVE  /\ downlink'[r][k].seqno \in 1 .. Len(journal[r])
                      /\ downlink'[r][k].type = "TradeUpdate" =>
                           downlink'[r][k].value \in 1 .. Len(log[r])
    BY <1>1, Zenon DEF MessagesOfSession
  <2>1. PICK j \in 1 .. Len(downlink[r]) : downlink'[r][k] = downlink[r][j]
    <3>1. CASE r = s
      <4>1. downlink'[s] = Tail(downlink[s]) /\ downlink[s] \in Seq(Messages)
        BY <1>1, Zenon DEF GatewayTypeOK
      <4>2. k + 1 \in 1 .. Len(downlink[s]) /\ Tail(downlink[s])[k] = downlink[s][k + 1]
        BY <3>1, <4>1, TailElements, Zenon
      <4> QED
        BY <3>1, <4>1, <4>2, Zenon
    <3>2. CASE r # s
      BY <1>1, <3>2, Zenon DEF GatewayTypeOK
    <3> QED
      BY <3>1, <3>2, Zenon
  <2> QED
    BY <2>1 DEF MessagesOfSession
<1>5. Info(s).session_id = session[s] /\ Info(s).seqno \in 1 .. Len(journal[s])
  <2>1. downlink[s] \in Seq(Messages)
    BY Zenon DEF GatewayTypeOK
  <2>2. 1 \in 1 .. Len(downlink[s]) /\ Head(downlink[s]) = downlink[s][1]
    BY <2>1
  <2> QED
    BY <2>2 DEF MessagesOfSession, Info
<1>6. StateOfSession'
  BY <1>1, <1>5, Zenon DEF StateOfSession
<1>7. LimitsOfSession'
  BY <1>1 DEF LimitsOfSession
<1> QED
  BY <1>3, <1>4, <1>6, <1>7

(* What the head of a link is, and what it refers to. *)
LEMMA HeadOK ==
  ASSUME SystemInv, NEW s \in Sources, downlink[s] # <<>>
  PROVE  /\ Info(s) \in Infos
         /\ Head(downlink[s]) \in Messages
         /\ Pending(s, "TradeUpdate") => HeadTrade(s) \in TradeUpdates
<1> USE DEF SystemInv, TypeOK
<1>1. downlink[s] \in Seq(Messages) /\ log[s] \in Seq(TradeUpdates)
  BY DEF GatewayTypeOK
<1>2. 1 \in 1 .. Len(downlink[s]) /\ Head(downlink[s]) = downlink[s][1]
  BY <1>1
<1>3. Head(downlink[s]) \in Messages
  BY <1>1, <1>2
<1>4. Info(s) \in Infos
  BY <1>3, MessageFields DEF Info, Infos, GatewayTypeOK
<1>5. Pending(s, "TradeUpdate") => Head(downlink[s]).value \in 1 .. Len(log[s])
  BY <1>2 DEF Pending, MessagesOfSession
<1> QED
  BY <1>1, <1>3, <1>4, <1>5 DEF HeadTrade

(* A trade update, with any of its rows stored, preserves the invariant. *)
LEMMA TradeUpdateInv ==
  ASSUME SystemInv, NEW s \in Sources, Pending(s, "TradeUpdate"),
         NEW stored \in SUBSET DOMAIN HeadTrade(s).fills,
         TradeUpdate(s, Info(s), HeadTrade(s), stored), Pop(s), used' \in [Budgets -> Nat]
  PROVE  SystemInv'
<1>1. downlink[s] # <<>>
  BY DEF Pending
<1>2. Info(s) \in Infos /\ HeadTrade(s) \in TradeUpdates
  BY <1>1, HeadOK
<1>3. ControllerTypeOK'
  BY <1>2, TradeUpdateType DEF SystemInv, TypeOK
<1>4. MarkedAreRegistered'
  BY TradeUpdateMarks DEF SystemInv
<1>5. outbox' = outbox /\ state' = [state EXCEPT ![s] = WithMessageInfo(@, Info(s))]
  BY DEF TradeUpdate
<1>6. /\ \A r \in Sources : r # s => state'[r] = state[r]
      /\ state'[s] = WithMessageInfo(state[s], Info(s))
  BY <1>5 DEF SystemInv, TypeOK, ControllerTypeOK
<1> QED
  BY <1>1, <1>3, <1>4, <1>5, <1>6, PopInv DEF WithMessageInfo

(* Every handler takes its session id and sequence number from the message *)
(* that is delivered, which is of the present session.                     *)
LEMMA DeliverInv ==
  ASSUME SystemInv, NEW s \in Sources, Deliver(s)
  PROVE  SystemInv'
<1> USE DEF SystemInv, TypeOK
<1>1. used \in [Budgets -> Nat] /\ state \in [Sources -> States]
  BY DEF GatewayTypeOK, ControllerTypeOK
<1>2. CASE DeliverDownloadBegin(s)
  <2>1. downlink[s] # <<>> /\ Pop(s) /\ used' \in [Budgets -> Nat]
    BY <1>1, <1>2 DEF DeliverDownloadBegin, Pending
  <2>2. DownloadBegin(s, Info(s), Head(downlink[s]).value)
    BY <1>2 DEF DeliverDownloadBegin
  <2>3. ControllerTypeOK'
    BY <2>1, <2>2, HeadOK, DownloadBeginType
  <2>4. MarkedAreRegistered' /\ outbox' = outbox
    BY <2>2 DEF DownloadBegin, shared, MarkedAreRegistered
  <2>5. /\ \A r \in Sources : r # s => state'[r] = state[r]
        /\ state'[s] = WithMessageInfo(state[s], Info(s))
    BY <1>1, <2>2 DEF DownloadBegin
  <2> QED
    BY <2>1, <2>3, <2>4, <2>5, PopInv DEF WithMessageInfo
<1>3. CASE DeliverDownloadEnd(s)
  <2>1. downlink[s] # <<>> /\ Pop(s) /\ used' \in [Budgets -> Nat]
    BY <1>1, <1>3 DEF DeliverDownloadEnd, Pending
  <2>2. DownloadEnd(s, Info(s), Head(downlink[s]).value)
    BY <1>3 DEF DeliverDownloadEnd
  <2>3. Head(downlink[s]).value \in Accounts \cup {None} /\ Info(s) \in Infos
    BY <1>3, <2>1, HeadOK, MessageFields, Zenon DEF DeliverDownloadEnd, Pending
  <2>4. ControllerTypeOK' /\ MarkedAreRegistered'
    BY <2>2, <2>3, DownloadEndType, DownloadEndMarks
  <2>5. \/ state' = [state EXCEPT ![s] = WithMessageInfo(@, Info(s))]
        \/ state' = [state EXCEPT ![s] = Latch(WithMessageInfo(@, Info(s)),
                                               {Head(downlink[s]).value})]
    BY <2>2 DEF DownloadEnd
  <2>6. /\ \A r \in Sources : r # s => state'[r] = state[r]
        /\ \/ state'[s] = WithMessageInfo(state[s], Info(s))
           \/ state'[s] = Latch(WithMessageInfo(state[s], Info(s)), {Head(downlink[s]).value})
    BY <1>1, <2>5
  <2>7. state'[s].session_id = Info(s).session_id /\ state'[s].seqno = Info(s).seqno
    BY <2>6 DEF WithMessageInfo, Latch
  <2>8. outbox' = outbox
    BY <2>2 DEF DownloadEnd
  <2> QED
    BY <2>1, <2>4, <2>6, <2>7, <2>8, PopInv, Zenon
<1>4. CASE DeliverReady(s)
  <2>1. downlink[s] # <<>> /\ Pop(s) /\ used' \in [Budgets -> Nat]
    BY <1>1, <1>4 DEF DeliverReady, Pending
  <2>2. Ready(s, Info(s))
    BY <1>4 DEF DeliverReady
  <2>3. ControllerTypeOK' /\ MarkedAreRegistered'
    BY <2>1, <2>2, HeadOK, ReadyType, ReadyMarks
  <2>4. /\ outbox' = outbox
        /\ state' = [state EXCEPT ![s] = AsReady(WithMessageInfo(@, Info(s)), TRUE)]
    BY <2>2 DEF Ready
  <2>5. /\ \A r \in Sources : r # s => state'[r] = state[r]
        /\ state'[s] = AsReady(WithMessageInfo(state[s], Info(s)), TRUE)
    BY <1>1, <2>4
  <2> QED
    BY <2>1, <2>3, <2>4, <2>5, PopInv DEF WithMessageInfo, AsReady
<1>5. CASE DeliverReferenceData(s)
  <2>1. downlink[s] # <<>> /\ Pop(s) /\ used' \in [Budgets -> Nat]
    BY <1>1, <1>5 DEF DeliverReferenceData, Pending
  <2>2. ReferenceData(Head(downlink[s]).value)
    BY <1>5 DEF DeliverReferenceData
  <2>3. Head(downlink[s]).value \in Instruments
    BY <1>5, <2>1, HeadOK, MessageFields DEF DeliverReferenceData, Pending
  <2>4. ControllerTypeOK' /\ MarkedAreRegistered'
    BY <2>2, <2>3, ReferenceDataType, ReferenceDataMarks
  <2>5. outbox' = outbox /\ state' = state
    BY <2>2 DEF ReferenceData
  <2> QED
    BY <2>1, <2>4, <2>5, PopInv, Zenon
<1>6. CASE DeliverTradeUpdate(s)
  BY <1>1, <1>6, TradeUpdateInv DEF DeliverTradeUpdate
<1> QED
  BY <1>2, <1>3, <1>4, <1>5, <1>6 DEF Deliver

(* A trade update whose insert fails preserves the invariant. *)
LEMMA TradeUpdateDbErrorInv ==
  ASSUME SystemInv, NEW s \in Sources, DeliverTradeUpdateDbError(s)
  PROVE  SystemInv'
<1>1. used' \in [Budgets -> Nat]
  BY SpendType DEF DeliverTradeUpdateDbError, Budgets, SystemInv, TypeOK
<1>2. PICK stored \in SUBSET DOMAIN HeadTrade(s).fills :
        TradeUpdate(s, Info(s), HeadTrade(s), stored)
  BY DEF DeliverTradeUpdateDbError
<1> QED
  BY <1>1, <1>2, TradeUpdateInv DEF DeliverTradeUpdateDbError

(* A ready source has seen a message of its session, and what the timer    *)
(* appends to its outbox is keyed by that message.                         *)
LEMMA TimerInv ==
  ASSUME SystemInv, TimerEvent
  PROVE  SystemInv'
<1> USE DEF SystemInv, TypeOK
<1>1. /\ Timer
      /\ UNCHANGED <<session, download, listed, log, net, journal, downlink, limits, clock, used>>
  BY DEF TimerEvent, history
<1>2. ControllerTypeOK' /\ MarkedAreRegistered'
  BY <1>1, TimerType, TimerMarks
<1>3. GatewayTypeOK'
  BY <1>1 DEF GatewayTypeOK, download
<1>4. MessagesOfSession' /\ StateOfSession'
  BY <1>1 DEF MessagesOfSession, StateOfSession, Timer
<1>5. LimitsOfSession'
  <2> SUFFICES ASSUME NEW s \in Sources, NEW k \in 1 .. Len(outbox'[s])
               PROVE  /\ outbox'[s][k].session_id = session[s]
                      /\ outbox'[s][k].seqno \in 1 .. Len(journal[s])
    BY <1>1 DEF LimitsOfSession
  <2> DEFINE m == [session_id |-> state[s].session_id, seqno |-> state[s].seqno,
                   limits |-> [o \in Owners |-> Publishable(o)]]
  <2>1. outbox[s] \in Seq(RiskLimitsBatches) /\ outbox'[s] \in Seq(RiskLimitsBatches)
    BY <1>2 DEF ControllerTypeOK
  <2>2. \/ outbox'[s] = outbox[s]
        \/ state[s].ready /\ outbox'[s] = Append(outbox[s], m)
    BY <1>1 DEF Timer, FirstReady, Publish
  <2>3. state[s].ready => /\ m.session_id = session[s]
                          /\ m.seqno \in 1 .. Len(journal[s])
    BY DEF StateOfSession, NoState
  <2> HIDE DEF m
  <2>4. CASE k \in 1 .. Len(outbox[s])
    <3>1. outbox'[s][k] = outbox[s][k]
      BY <2>1, <2>2, <2>4
    <3> QED
      BY <2>4, <3>1 DEF LimitsOfSession
  <2>5. CASE k \notin 1 .. Len(outbox[s])
    <3>1. state[s].ready /\ outbox'[s][k] = m
      BY <2>1, <2>2, <2>5
    <3> QED
      BY <2>3, <3>1
  <2> QED
    BY <2>4, <2>5
<1> QED
  BY <1>2, <1>3, <1>4, <1>5

(* Whatever the names of the items are read back as, they are corrections. *)
LEMMA ReadBackType ==
  ASSUME NEW batch \in Batches, NEW read \in ReadBack(batch, Users, Accounts, Instruments)
  PROVE  read \in Seq(Corrections) /\ Len(read) \in Nat
<1> DEFINE Names == [user : Users, account : Accounts, instrument : Instruments]
<1>1. batch \in Seq(Corrections) /\ Len(batch) \in Nat
  BY SystemAssumption
<1>2. CASE read = batch
  BY <1>1, <1>2
<1>3. CASE read # batch
  <2>1. PICK names \in [1 .. Len(batch) -> Names] :
          read = [j \in 1 .. Len(batch) |-> Renamed(batch[j], names[j])]
    BY <1>3, Zenon DEF ReadBack
  <2>2. ASSUME NEW j \in 1 .. Len(batch)
        PROVE  Renamed(batch[j], names[j]) \in Corrections
    <3>1. batch[j] \in Corrections
      BY <1>1
    <3>2. names[j] \in Names
      BY Zenon
    <3> QED
      BY <3>1, <3>2 DEF Renamed, Corrections
  <2>3. read \in [1 .. Len(batch) -> Corrections]
    BY <2>1, <2>2, Zenon
  <2> QED
    BY <1>1, <2>3
<1> QED
  BY <1>2, <1>3

(* Corrections change nothing but the table. *)
LEMMA PutTradeInv ==
  ASSUME SystemInv, NEW read \in Seq(Corrections), NEW n \in 0 .. Len(read),
         PutTrade(read, n, clock + 1), clock' = clock + 1, used' \in [Budgets -> Nat],
         UNCHANGED <<session, download, listed, history, downlink, limits>>
  PROVE  SystemInv'
<1> USE DEF SystemInv, TypeOK
<1>1. clock \in Nat /\ clock + 1 \in Nat \ {0}
  BY DEF GatewayTypeOK
<1>2. ControllerTypeOK'
  BY <1>1, PutTradeType
<1>3. GatewayTypeOK'
  BY <1>1 DEF GatewayTypeOK, download, history
<1>4. UNCHANGED <<instruments, held, publish, state, outbox, log, journal>>
  BY DEF PutTrade, memory, history
<1>5. MessagesOfSession'
  BY <1>4 DEF MessagesOfSession
<1>6. StateOfSession' /\ LimitsOfSession' /\ MarkedAreRegistered'
  BY <1>4 DEF StateOfSession, LimitsOfSession, MarkedAreRegistered
<1> QED
  BY <1>2, <1>3, <1>5, <1>6

(* Corrections preserve the invariant, complete or cut short by an error. *)
LEMMA CorrectInv ==
  ASSUME SystemInv, NEW batch \in Batches, Correct(batch) \/ CorrectDbError(batch)
  PROVE  SystemInv'
<1>1. \A read \in ReadBack(batch, Users, Accounts, Instruments) :
        read \in Seq(Corrections) /\ Len(read) \in Nat
  BY ReadBackType
<1>2. CASE Correct(batch)
  <2>1. used' \in [Budgets -> Nat]
    BY <1>2, SpendType DEF Correct, Budgets, SystemInv, TypeOK
  <2>2. PICK read \in ReadBack(batch, Users, Accounts, Instruments) :
          PutTrade(read, Len(read), clock + 1)
    BY <1>2 DEF Correct
  <2>3. read \in Seq(Corrections) /\ Len(read) \in 0 .. Len(read)
    BY <1>1, <2>2
  <2> QED
    BY <1>2, <2>1, <2>2, <2>3, PutTradeInv, Zenon DEF Correct
<1>3. CASE CorrectDbError(batch)
  <2>1. used' \in [Budgets -> Nat]
    <3>1. /\ used \in [Budgets -> Nat]
          /\ used' = [used EXCEPT !["corrections"] = @ + 1, !["db_errors"] = @ + 1]
      BY <1>3 DEF CorrectDbError, SystemInv, TypeOK, GatewayTypeOK
    <3>2. \A w \in [Budgets -> Nat] : \A b \in Budgets :
            [w EXCEPT ![b] = @ + 1] \in [Budgets -> Nat]
      OBVIOUS
    <3> QED
      BY <3>1, <3>2, Zenon DEF Budgets
  <2>2. PICK read \in ReadBack(batch, Users, Accounts, Instruments) :
          \E n \in 0 .. (Len(read) - 1) : PutTrade(read, n, clock + 1)
    BY <1>3 DEF CorrectDbError
  <2>3. PICK n \in 0 .. (Len(read) - 1) : PutTrade(read, n, clock + 1)
    BY <2>2
  <2>4. read \in Seq(Corrections) /\ n \in 0 .. Len(read)
    BY <1>1, <2>2
  <2> QED
    BY <1>3, <2>1, <2>3, <2>4, PutTradeInv, Zenon DEF CorrectDbError
<1> QED
  BY <1>2, <1>3, Zenon

(* A new process knows nothing of any session, and nothing is under way. *)
LEMMA StartInv ==
  ASSUME SystemInv, NEW table \in SUBSET Rows, Start(table), Drop(Sources),
         used' \in [Budgets -> Nat],
         UNCHANGED <<session, listed, refs, accounts, cursor, log, net, journal, limits, clock>>
  PROVE  SystemInv'
<1> USE DEF SystemInv, TypeOK
<1>1. ControllerTypeOK' /\ MarkedAreRegistered'
  BY StartType, StartMarks
<1>2. GatewayTypeOK'
  BY DropType, Zenon DEF GatewayTypeOK
<1>3. MessagesOfSession'
  <2>1. \A r \in Sources : downlink'[r] = <<>>
    BY Zenon DEF Drop
  <2>2. \A r \in Sources : 1 .. Len(downlink'[r]) = {}
    BY <2>1, NoElements, Zenon
  <2> QED
    BY <2>2, Zenon DEF MessagesOfSession
<1>4. StateOfSession'
  <2>1. \A r \in Sources : state'[r] = NoState
    BY DEF Start
  <2> QED
    BY <2>1, Zenon DEF StateOfSession
<1>5. LimitsOfSession'
  <2>1. \A r \in Sources : outbox'[r] = <<>>
    BY DEF Start
  <2>2. \A r \in Sources : 1 .. Len(outbox'[r]) = {}
    BY <2>1, NoElements, Zenon
  <2> QED
    BY <2>2, Zenon DEF LimitsOfSession
<1> QED
  BY <1>1, <1>2, <1>3, <1>4, <1>5

(* A crash leaves no connection and a process that has just been started   *)
(* over the rows stored so far.                                            *)
LEMMA CrashInv ==
  ASSUME SystemInv, Crash \/ \E s \in Sources : CrashInTradeUpdate(s)
  PROVE  SystemInv'
<1>1. used' \in [Budgets -> Nat]
  BY SpendType DEF Crash, CrashInTradeUpdate, Budgets, SystemInv, TypeOK
<1>2. CASE Crash
  <2>1. trades \in SUBSET Rows
    BY DEF SystemInv, TypeOK, ControllerTypeOK
  <2> QED
    BY <1>1, <1>2, <2>1, StartInv DEF Crash
<1>3. ASSUME NEW s \in Sources, CrashInTradeUpdate(s)
      PROVE  SystemInv'
  <2>1. HeadTrade(s) \in TradeUpdates
    BY <1>3, HeadOK, Zenon DEF CrashInTradeUpdate, Pending
  <2>2. PICK stored \in SUBSET DOMAIN HeadTrade(s).fills :
          Start(InsertTrades(trades, HeadTrade(s), stored))
    BY <1>3 DEF CrashInTradeUpdate
  <2>3. InsertTrades(trades, HeadTrade(s), stored) \in SUBSET Rows
    BY <2>1, InsertTradesType DEF SystemInv, TypeOK, ControllerTypeOK
  <2> QED
    BY <1>1, <1>3, <2>2, <2>3, StartInv, Zenon DEF CrashInTradeUpdate
<1> QED
  BY <1>2, <1>3

-----------------------------------------------------------------------------
(* The theorems *)

(* The invariant holds at the first start. *)
LEMMA InitInv == Init => SystemInv
<1> SUFFICES ASSUME Init PROVE SystemInv
  OBVIOUS
<1>1. ControllerTypeOK
  BY ControllerInitType DEF Init
<1>2. /\ net \in [Sources -> NetPositions]
      /\ limits \in [Sources -> [Owners -> [Instruments -> Limits]]]
  BY DEF Init, NetPositions, NoLimit, Limits
<1>3. GatewayTypeOK
  <2>1. DownloadTypeOK
    BY DEF Init, DownloadTypeOK
  <2>2. /\ log \in [Sources -> Seq(TradeUpdates)]
        /\ journal \in [Sources -> Seq(Records)]
        /\ downlink \in [Sources -> Seq(Messages)]
    BY DEF Init
  <2>3. session \in [Sources -> Nat] /\ clock \in Nat /\ used \in [Budgets -> Nat]
    BY DEF Init
  <2> QED
    BY <1>2, <2>1, <2>2, <2>3 DEF GatewayTypeOK, DownloadTypeOK
<1>4. MessagesOfSession /\ LimitsOfSession
  <2>1. \A s \in Sources : downlink[s] = <<>> /\ outbox[s] = <<>>
    BY DEF Init, ControllerInit
  <2>2. \A s \in Sources : 1 .. Len(downlink[s]) = {} /\ 1 .. Len(outbox[s]) = {}
    BY <2>1, NoElements, Zenon
  <2> QED
    BY <2>2, Zenon DEF MessagesOfSession, LimitsOfSession
<1>5. StateOfSession
  BY DEF Init, ControllerInit, StateOfSession
<1>6. MarkedAreRegistered
  BY DEF Init, ControllerInit, MarkedAreRegistered
<1> QED
  BY <1>1, <1>3, <1>4, <1>5, <1>6 DEF SystemInv, TypeOK

(* A step that changes nothing preserves the invariant. *)
LEMMA StutterInv ==
  ASSUME SystemInv, UNCHANGED vars
  PROVE  SystemInv'
<1>1. ControllerTypeOK' /\ MarkedAreRegistered'
  BY Zenon DEF SystemInv, TypeOK, ControllerTypeOK, MarkedAreRegistered, vars, controllerVars
<1>2. GatewayTypeOK'
  BY Zenon DEF SystemInv, TypeOK, GatewayTypeOK, vars
<1>3. MessagesOfSession'
  BY Zenon DEF SystemInv, MessagesOfSession, vars
<1>4. StateOfSession' /\ LimitsOfSession'
  BY DEF SystemInv, StateOfSession, LimitsOfSession, vars, controllerVars
<1> QED
  BY <1>1, <1>2, <1>3, <1>4 DEF SystemInv, TypeOK

(* SystemInv is an invariant: it holds initially, and every event handler  *)
(* of the controller, every step of a gateway, every fault and every       *)
(* restart keeps it.                                                       *)
THEOREM InvariantHolds == Spec => []SystemInv
<1>1. SystemInv /\ [Next]_vars => SystemInv'
  <2> SUFFICES ASSUME SystemInv, [Next]_vars PROVE SystemInv'
    OBVIOUS
  <2>1. CASE UNCHANGED vars
    BY <2>1, StutterInv
  <2>2. ASSUME NEW s \in Sources,
               \/ Connect(s) \/ GatewayDownload(s)
               \/ \E tu \in NextTrades(s) : Execute(s, tu)
               \/ \E i \in Instruments : ListInstrument(s, i)
               \/ \E a \in Accounts : Redownload(s, a)
        PROVE  SystemInv'
    BY <2>2, ConnectInv, GatewayDownloadInv, ExecuteInv, ListInstrumentInv, RedownloadInv
  <2>3. ASSUME NEW s \in Sources,
               Disconnect(s) \/ GatewayRestart(s) \/ ReceiveLimits(s) \/ Deliver(s)
               \/ DeliverTradeUpdateDbError(s) \/ CrashInTradeUpdate(s)
        PROVE  SystemInv'
    BY <2>3, DisconnectInv, GatewayRestartInv, ReceiveLimitsInv, DeliverInv,
       TradeUpdateDbErrorInv, CrashInv
  <2>4. CASE TimerEvent
    BY <2>4, TimerInv
  <2>5. CASE \E batch \in Batches : Correct(batch) \/ CorrectDbError(batch)
    BY <2>5, CorrectInv
  <2>6. CASE Crash
    BY <2>6, CrashInv
  <2> QED
    BY <2>1, <2>2, <2>3, <2>4, <2>5, <2>6 DEF Next
<1> QED
  BY InitInv, <1>1, PTL DEF Spec

(* The state of the controller, of the database and of the gateways stays  *)
(* well formed whatever happens.                                           *)
THEOREM TypesHold == Spec => []TypeOK
<1>1. SystemInv => TypeOK
  BY DEF SystemInv
<1> QED
  BY InvariantHolds, <1>1, PTL

(* get_publish_by_account and get_publish_by_user never find an instrument *)
(* id that is not in instruments_: "XXX should never happen" never does.   *)
THEOREM NeverUnregistered == Spec => []MarkedAreRegistered
<1>1. SystemInv => MarkedAreRegistered
  BY DEF SystemInv
<1> QED
  BY InvariantHolds, <1>1, PTL

(* Risk limits are only ever under way within the session whose sequence   *)
(* numbers they are keyed by, across reconnects and gateway restarts.      *)
THEOREM LimitsStayInSession == Spec => []LimitsOfSession
<1>1. SystemInv => LimitsOfSession
  BY DEF SystemInv
<1> QED
  BY InvariantHolds, <1>1, PTL
=============================================================================
