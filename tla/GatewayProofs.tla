---------------------------- MODULE GatewayProofs ----------------------------
(***************************************************************************)
(* The steps of a gateway and of its links preserve SystemInv: lemmas for  *)
(* SystemProofs, for all values of the constants.                          *)
(***************************************************************************)
EXTENDS System, ControllerProofs

(* What a message of each type carries. *)
LEMMA MessageFields ==
  ASSUME NEW m \in Messages
  PROVE  /\ m.seqno \in Nat
         /\ m.type \in {"DownloadBegin", "DownloadEnd"} => m.value \in Accounts \cup {None}
         /\ m.type = "ReferenceData" => m.value \in Instruments
BY DEF Messages

(* The messages the gateway builds are messages. *)
LEMMA MessageType ==
  ASSUME GatewayTypeOK, NEW s \in Sources
  PROVE  /\ \A a \in Accounts \cup {None} : /\ Message(s, "DownloadBegin", a) \in Messages
                                            /\ Message(s, "DownloadEnd", a) \in Messages
         /\ \A i \in Instruments : Message(s, "ReferenceData", i) \in Messages
         /\ \A k \in Nat : Message(s, "TradeUpdate", k) \in Messages
         /\ Message(s, "Ready", None) \in Messages
<1>1. Len(journal[s]) + 1 \in Nat
  BY DEF GatewayTypeOK
<1> QED
  BY <1>1 DEF Message, Messages

(* What is left of a queue was in it. *)
LEMMA TailElements ==
  ASSUME NEW S, NEW q \in Seq(S), q # <<>>, NEW k \in 1 .. Len(Tail(q))
  PROVE  k + 1 \in 1 .. Len(q) /\ Tail(q)[k] = q[k + 1]
<1>1. Len(q) \in Nat /\ Len(q) > 0
  OBVIOUS
<1>2. Len(Tail(q)) = Len(q) - 1
  BY <1>1
<1> QED
  BY <1>1, <1>2

(* What is left of a queue has its type. *)
LEMMA TailType ==
  ASSUME NEW S, NEW q \in Seq(S), q # <<>>
  PROVE  Tail(q) \in Seq(S)
OBVIOUS

(* An empty queue has no elements. *)
LEMMA NoElements == \A q : q = <<>> => 1 .. Len(q) = {}
OBVIOUS

(* Using a budget keeps its type. *)
LEMMA SpendType ==
  ASSUME GatewayTypeOK, NEW b \in Budgets, Spend(b)
  PROVE  used' \in [Budgets -> Nat]
BY DEF GatewayTypeOK, Spend

(* The conjuncts of GatewayTypeOK about the progress of a download. *)
DownloadTypeOK ==
  /\ phase \in [Sources -> {"down", "reference", "accounts", "ready"}]
  /\ listed \in [Sources -> SUBSET Instruments]
  /\ refs \in [Sources -> SUBSET Instruments]
  /\ accounts \in [Sources -> SUBSET Accounts]
  /\ current \in [Sources -> Accounts \cup {None}]
  /\ cursor \in [Sources -> Nat]

(* A step in which the gateway only sends a message keeps the invariant:   *)
(* the journal grows by the record of that message, and so the sequence    *)
(* numbers in use stay within it.                                          *)
LEMMA SendKeepsInv ==
  ASSUME SystemInv, NEW s \in Sources, NEW type, NEW value,
         Message(s, type, value) \in Messages,
         type = "TradeUpdate" => value \in 1 .. Len(log[s]),
         Send(s, type, value), DownloadTypeOK',
         UNCHANGED <<controllerVars, session, log, net, limits, clock, used>>
  PROVE  SystemInv'
<1> USE DEF SystemInv, TypeOK
<1>1. Record(net[s], Len(log[s])) \in Records
  BY DEF GatewayTypeOK, Record, Records
<1>2. journal' = [journal EXCEPT ![s] = Append(@, Record(net[s], Len(log[s])))]
  BY DEF Send
<1>3. journal' \in [Sources -> Seq(Records)]
  BY <1>1, <1>2 DEF GatewayTypeOK
<1>4. downlink' = [downlink EXCEPT ![s] = Append(@, Message(s, type, value))]
  BY DEF Send
<1>5. downlink' \in [Sources -> Seq(Messages)]
  BY <1>4 DEF GatewayTypeOK
<1>6. \A r \in Sources : Len(journal[r]) \in Nat /\ Len(journal'[r]) >= Len(journal[r])
  BY <1>1, <1>2 DEF GatewayTypeOK
<1>7. Len(journal'[s]) = Len(journal[s]) + 1
  BY <1>1, <1>2 DEF GatewayTypeOK
<1>8. MessagesOfSession'
  <2> SUFFICES ASSUME NEW r \in Sources, NEW k \in 1 .. Len(downlink'[r])
               PROVE  /\ downlink'[r][k].seqno \in 1 .. Len(journal'[r])
                      /\ downlink'[r][k].type = "TradeUpdate" =>
                           downlink'[r][k].value \in 1 .. Len(log[r])
    BY DEF MessagesOfSession, controllerVars
  <2>1. CASE k \in 1 .. Len(downlink[r])
    <3>1. downlink'[r][k] = downlink[r][k]
      BY <1>4, <2>1 DEF GatewayTypeOK
    <3> QED
      BY <1>6, <2>1, <3>1 DEF MessagesOfSession
  <2>2. CASE k \notin 1 .. Len(downlink[r])
    <3>1. r = s /\ downlink'[r][k] = Message(s, type, value)
      BY <1>4, <2>2 DEF GatewayTypeOK
    <3>2. Message(s, type, value).seqno = Len(journal[s]) + 1
      BY DEF Message
    <3> QED
      BY <1>6, <1>7, <3>1, <3>2 DEF Message
  <2> QED
    BY <2>1, <2>2
<1>9. StateOfSession'
  BY <1>6 DEF StateOfSession, controllerVars
<1>10. LimitsOfSession'
  BY <1>6 DEF LimitsOfSession, controllerVars
<1>11. MarkedAreRegistered'
  BY DEF MarkedAreRegistered, controllerVars
<1>12. ControllerTypeOK'
  BY DEF ControllerTypeOK, controllerVars
<1>13. GatewayTypeOK'
  BY <1>3, <1>5 DEF GatewayTypeOK, DownloadTypeOK
<1> QED
  BY <1>8, <1>9, <1>10, <1>11, <1>12, <1>13

-----------------------------------------------------------------------------
(* The gateway's download *)

(* A connection begins with a message of the present session. *)
LEMMA ConnectInv ==
  ASSUME SystemInv, NEW s \in Sources, Connect(s)
  PROVE  SystemInv'
<1>1. Message(s, "DownloadBegin", None) \in Messages
  BY MessageType DEF SystemInv, TypeOK
<1>2. DownloadTypeOK'
  BY DEF SystemInv, TypeOK, GatewayTypeOK, DownloadTypeOK, Connect
<1> QED
  BY <1>1, <1>2, SendKeepsInv DEF Connect

(* Every message of a download has the next number of its session, and a   *)
(* trade of the log.                                                       *)
LEMMA GatewayDownloadInv ==
  ASSUME SystemInv, NEW s \in Sources, GatewayDownload(s)
  PROVE  SystemInv'
<1>1. ASSUME NEW i \in Instruments, DownloadReferenceData(s, i)
      PROVE  SystemInv'
  <2>1. Message(s, "ReferenceData", i) \in Messages
    BY MessageType DEF SystemInv, TypeOK, GatewayTypeOK
  <2>2. DownloadTypeOK'
    BY <1>1 DEF SystemInv, TypeOK, GatewayTypeOK, DownloadTypeOK, DownloadReferenceData
  <2> QED
    BY <1>1, <2>1, <2>2, SendKeepsInv DEF DownloadReferenceData
<1>2. ASSUME EndReferenceData(s)
      PROVE  SystemInv'
  <2>1. Message(s, "DownloadEnd", None) \in Messages
    BY MessageType DEF SystemInv, TypeOK, GatewayTypeOK
  <2>2. DownloadTypeOK'
    BY <1>2 DEF SystemInv, TypeOK, GatewayTypeOK, DownloadTypeOK, EndReferenceData
  <2> QED
    BY <1>2, <2>1, <2>2, SendKeepsInv DEF EndReferenceData
<1>3. ASSUME NEW a \in Accounts, BeginAccount(s, a)
      PROVE  SystemInv'
  <2>1. Message(s, "DownloadBegin", a) \in Messages
    BY MessageType DEF SystemInv, TypeOK, GatewayTypeOK
  <2>2. DownloadTypeOK'
    BY <1>3 DEF SystemInv, TypeOK, GatewayTypeOK, DownloadTypeOK, BeginAccount
  <2> QED
    BY <1>3, <2>1, <2>2, SendKeepsInv DEF BeginAccount
<1>4. ASSUME NEW k \in 1 .. Len(log[s]), DownloadTrade(s, k)
      PROVE  SystemInv'
  <2>1. Message(s, "TradeUpdate", k) \in Messages
    BY MessageType DEF SystemInv, TypeOK, GatewayTypeOK
  <2>2. DownloadTypeOK'
    BY <1>4 DEF SystemInv, TypeOK, GatewayTypeOK, DownloadTypeOK, DownloadTrade
  <2> QED
    BY <1>4, <2>1, <2>2, SendKeepsInv DEF DownloadTrade
<1>5. ASSUME EndAccount(s)
      PROVE  SystemInv'
  <2>1. Message(s, "DownloadEnd", current[s]) \in Messages
    BY MessageType DEF SystemInv, TypeOK, GatewayTypeOK
  <2>2. DownloadTypeOK'
    BY <1>5 DEF SystemInv, TypeOK, GatewayTypeOK, DownloadTypeOK, EndAccount
  <2> QED
    BY <1>5, <2>1, <2>2, SendKeepsInv DEF EndAccount
<1>6. ASSUME SendReady(s)
      PROVE  SystemInv'
  <2>1. Message(s, "Ready", None) \in Messages
    BY MessageType DEF SystemInv, TypeOK, GatewayTypeOK
  <2>2. DownloadTypeOK'
    BY <1>6 DEF SystemInv, TypeOK, GatewayTypeOK, DownloadTypeOK, SendReady
  <2> QED
    BY <1>6, <2>1, <2>2, SendKeepsInv DEF SendReady
<1> QED
  BY <1>1, <1>2, <1>3, <1>4, <1>5, <1>6 DEF GatewayDownload

(* A new listing is one more message of the session. *)
LEMMA ListInstrumentInv ==
  ASSUME SystemInv, NEW s \in Sources, NEW i \in Instruments, ListInstrument(s, i)
  PROVE  SystemInv'
<1>1. Message(s, "ReferenceData", i) \in Messages
  BY MessageType DEF SystemInv, TypeOK
<1>2. DownloadTypeOK'
  BY DEF SystemInv, TypeOK, GatewayTypeOK, DownloadTypeOK, ListInstrument
<1> QED
  BY <1>1, <1>2, SendKeepsInv DEF ListInstrument

(* Asking for an account again sends nothing yet. *)
LEMMA RedownloadInv ==
  ASSUME SystemInv, NEW s \in Sources, NEW a \in Accounts, Redownload(s, a)
  PROVE  SystemInv'
<1>1. ControllerTypeOK'
  BY DEF SystemInv, TypeOK, ControllerTypeOK, Redownload, controllerVars
<1>2. used' \in [Budgets -> Nat]
  BY SpendType DEF SystemInv, TypeOK, Redownload, Budgets
<1>3. GatewayTypeOK'
  BY <1>2 DEF SystemInv, TypeOK, GatewayTypeOK, Redownload
<1>4. /\ UNCHANGED <<publish, held, instruments, state, outbox>>
      /\ UNCHANGED <<session, journal, log, downlink>>
  BY DEF Redownload, controllerVars
<1>5. MessagesOfSession'
  BY <1>4 DEF SystemInv, MessagesOfSession
<1>6. StateOfSession' /\ LimitsOfSession'
  BY <1>4 DEF SystemInv, StateOfSession, LimitsOfSession
<1>7. MarkedAreRegistered'
  BY <1>4 DEF SystemInv, MarkedAreRegistered
<1> QED
  BY <1>1, <1>3, <1>5, <1>6, <1>7 DEF SystemInv, TypeOK

-----------------------------------------------------------------------------
(* Trading, and the links *)

(* A trade moves net positions by an integer. *)
LEMMA NetAfterType ==
  ASSUME NEW n \in NetPositions, NEW tu \in TradeUpdates
  PROVE  NetAfter(n, tu) \in NetPositions
<1>1. SumFunctionOnSet(tu.fills, DOMAIN tu.fills) \in Int
  BY FillsAssumption DEF TradeUpdates
<1>2. sign(tu.side) \in Int
  BY DEF sign, TradeUpdates, Side
<1>3. sign(tu.side) * SumFunctionOnSet(tu.fills, DOMAIN tu.fills) \in Int
  BY <1>1, <1>2
<1>4. \A o \in Owners :
        [n[o] EXCEPT ![tu.instrument] =
           @ + sign(tu.side) * SumFunctionOnSet(tu.fills, DOMAIN tu.fills)]
        \in [Instruments -> Int]
  BY <1>3 DEF NetPositions, TradeUpdates
<1> QED
  BY <1>4 DEF NetAfter, NetPositions

(* A trade extends the log and the journal, so that earlier references to  *)
(* both stay good.                                                         *)
LEMMA ExecuteInv ==
  ASSUME SystemInv, NEW s \in Sources, NEW tu \in NextTrades(s), Execute(s, tu)
  PROVE  SystemInv'
<1> USE DEF SystemInv, TypeOK
<1>1. clock \in Nat /\ listed[s] \subseteq Instruments /\ tu.fills \in Fills
  BY DEF GatewayTypeOK, NextTrades, FillsAt
<1>2. tu \in TradeUpdates
  BY <1>1 DEF NextTrades, TradeUpdates
<1>3. NetAfter(net[s], tu) \in NetPositions
  BY <1>2, NetAfterType DEF GatewayTypeOK
<1>4. Record(NetAfter(net[s], tu), Len(log[s]) + 1) \in Records
  BY <1>3 DEF Record, Records, GatewayTypeOK
<1>5. Len(log[s]) + 1 \in Nat /\ Message(s, "TradeUpdate", Len(log[s]) + 1) \in Messages
  BY MessageType DEF GatewayTypeOK
<1>6. /\ log' = [log EXCEPT ![s] = Append(@, tu)]
      /\ net' = [net EXCEPT ![s] = NetAfter(@, tu)]
      /\ journal' = [journal EXCEPT ![s] =
                       Append(@, Record(NetAfter(net[s], tu), Len(log[s]) + 1))]
      /\ clock' = clock + 1
      /\ UNCHANGED <<controllerVars, session, phase, listed, refs, accounts, current, cursor,
                     limits>>
  BY DEF Execute
<1>7. used' \in [Budgets -> Nat]
  BY SpendType DEF Execute, Budgets
<1>8. \/ downlink' = downlink
      \/ downlink' = [downlink EXCEPT ![s] =
                        Append(@, Message(s, "TradeUpdate", Len(log[s]) + 1))]
  BY DEF Execute
<1>9. downlink' \in [Sources -> Seq(Messages)]
  <2>1. downlink[s] \in Seq(Messages)
    BY DEF GatewayTypeOK
  <2>2. Append(downlink[s], Message(s, "TradeUpdate", Len(log[s]) + 1)) \in Seq(Messages)
    BY <1>5, <2>1
  <2> QED
    BY <1>8, <2>2, Zenon DEF GatewayTypeOK
<1>10. log' \in [Sources -> Seq(TradeUpdates)] /\ net' \in [Sources -> NetPositions]
  BY <1>2, <1>3, <1>6 DEF GatewayTypeOK
<1>11. journal' \in [Sources -> Seq(Records)]
  BY <1>4, <1>6 DEF GatewayTypeOK
<1>12. GatewayTypeOK'
  BY <1>1, <1>6, <1>7, <1>9, <1>10, <1>11 DEF GatewayTypeOK
<1>13. ControllerTypeOK'
  BY <1>6 DEF ControllerTypeOK, controllerVars
<1>14. /\ \A r \in Sources : /\ Len(journal[r]) \in Nat /\ Len(journal'[r]) \in Nat
                             /\ Len(journal'[r]) >= Len(journal[r])
       /\ Len(journal'[s]) = Len(journal[s]) + 1
  BY <1>4, <1>6 DEF GatewayTypeOK
<1>15. /\ \A r \in Sources : /\ Len(log[r]) \in Nat /\ Len(log'[r]) \in Nat
                             /\ Len(log'[r]) >= Len(log[r])
       /\ Len(log'[s]) = Len(log[s]) + 1
  BY <1>2, <1>6 DEF GatewayTypeOK
<1>16. MessagesOfSession'
  <2> SUFFICES ASSUME NEW r \in Sources, NEW k \in 1 .. Len(downlink'[r])
               PROVE  /\ downlink'[r][k].seqno \in 1 .. Len(journal'[r])
                      /\ downlink'[r][k].type = "TradeUpdate" =>
                           downlink'[r][k].value \in 1 .. Len(log'[r])
    BY DEF MessagesOfSession
  <2>1. CASE k \in 1 .. Len(downlink[r])
    <3>1. downlink[r] \in Seq(Messages) /\ downlink \in [Sources -> Seq(Messages)]
      BY DEF GatewayTypeOK
    <3>2. downlink'[r][k] = downlink[r][k]
      <4>1. CASE downlink' = downlink
        BY <4>1
      <4>2. CASE downlink' # downlink
        <5>1. downlink'[s] = Append(downlink[s], Message(s, "TradeUpdate", Len(log[s]) + 1))
          BY <1>8, <3>1, <4>2
        <5>2. r # s => downlink'[r] = downlink[r]
          BY <1>8, <3>1, <4>2
        <5>3. Message(s, "TradeUpdate", Len(log[s]) + 1) \in Messages
          BY <1>5
        <5>4. CASE r = s
          <6>1. Append(downlink[s], Message(s, "TradeUpdate", Len(log[s]) + 1))[k] = downlink[s][k]
            BY <2>1, <3>1, <5>3, <5>4
          <6> QED
            BY <5>1, <5>4, <6>1
        <5> QED
          BY <5>2, <5>4
      <4> QED
        BY <4>1, <4>2
    <3>3. /\ downlink[r][k].seqno \in 1 .. Len(journal[r])
          /\ downlink[r][k].type = "TradeUpdate" => downlink[r][k].value \in 1 .. Len(log[r])
      BY <2>1 DEF MessagesOfSession
    <3>4. downlink[r][k].seqno \in 1 .. Len(journal'[r])
      BY <1>14, <3>3
    <3>5. downlink[r][k].type = "TradeUpdate" => downlink[r][k].value \in 1 .. Len(log'[r])
      BY <1>15, <3>3
    <3> QED
      BY <3>2, <3>4, <3>5, Zenon
  <2>2. CASE k \notin 1 .. Len(downlink[r])
    <3>1. r = s /\ downlink'[r][k] = Message(s, "TradeUpdate", Len(log[s]) + 1)
      <4>1. downlink \in [Sources -> Seq(Messages)]
        BY Zenon DEF GatewayTypeOK
      <4>2. downlink' # downlink
        BY <2>2, Zenon
      <4>3. /\ downlink'[s] = Append(downlink[s], Message(s, "TradeUpdate", Len(log[s]) + 1))
            /\ r # s => downlink'[r] = downlink[r]
        BY <1>8, <4>1, <4>2
      <4>4. r = s
        BY <2>2, <4>3, Zenon
      <4>5. downlink[s] \in Seq(Messages) /\ Message(s, "TradeUpdate", Len(log[s]) + 1) \in Messages
        BY <1>5, <4>1
      <4>6. k = Len(downlink[s]) + 1
        BY <2>2, <4>3, <4>4, <4>5
      <4> QED
        BY <4>3, <4>4, <4>5, <4>6
    <3> QED
      BY <1>14, <1>15, <3>1 DEF Message
  <2> QED
    BY <2>1, <2>2
<1>17. StateOfSession'
  BY <1>6, <1>14 DEF StateOfSession, controllerVars
<1>18. LimitsOfSession'
  BY <1>6, <1>14 DEF LimitsOfSession, controllerVars
<1>19. MarkedAreRegistered'
  BY <1>6 DEF MarkedAreRegistered, controllerVars
<1> QED
  BY <1>12, <1>13, <1>16, <1>17, <1>18, <1>19

(* What is left of a connection is well formed. *)
LEMMA DropType ==
  ASSUME GatewayTypeOK, NEW S \in SUBSET Sources, Drop(S)
  PROVE  /\ phase' \in [Sources -> {"down", "reference", "accounts", "ready"}]
         /\ current' \in [Sources -> Accounts \cup {None}]
         /\ downlink' \in [Sources -> Seq(Messages)]
BY DEF GatewayTypeOK, Drop

(* A disconnect leaves nothing of the connection under way. *)
LEMMA DisconnectInv ==
  ASSUME SystemInv, NEW s \in Sources, Disconnect(s)
  PROVE  SystemInv'
<1> USE DEF SystemInv, TypeOK
<1>1. Disconnected(s) /\ Drop({s})
      /\ UNCHANGED <<session, listed, refs, accounts, cursor, log, net, journal, limits, clock>>
  BY DEF Disconnect
<1>2. ControllerTypeOK'
  BY <1>1, DisconnectedType
<1>3. used' \in [Budgets -> Nat]
  BY SpendType DEF Disconnect, Budgets
<1>4. GatewayTypeOK'
  BY <1>1, <1>3, DropType, Zenon DEF GatewayTypeOK
<1>5. \A r \in Sources : downlink'[r] = IF r = s THEN <<>> ELSE downlink[r]
  BY <1>1, Zenon DEF Drop
<1>6. MessagesOfSession'
  <2> SUFFICES ASSUME NEW r \in Sources, NEW k \in 1 .. Len(downlink'[r])
               PROVE  /\ downlink'[r][k].seqno \in 1 .. Len(journal'[r])
                      /\ downlink'[r][k].type = "TradeUpdate" =>
                           downlink'[r][k].value \in 1 .. Len(log'[r])
    BY Zenon DEF MessagesOfSession
  <2>1. r # s
    BY <1>5, NoElements
  <2>2. downlink'[r] = downlink[r] /\ journal' = journal /\ log' = log
    BY <1>1, <1>5, <2>1
  <2> QED
    BY <2>2, Zenon DEF MessagesOfSession
<1>7. \A r \in Sources : /\ state'[r] = IF r = s THEN NoState ELSE state[r]
                         /\ outbox'[r] = IF r = s THEN <<>> ELSE outbox[r]
  BY <1>1 DEF Disconnected, DropOutbox, ControllerTypeOK
<1>8. StateOfSession'
  BY <1>1, <1>7, Zenon DEF StateOfSession
<1>9. LimitsOfSession'
  BY <1>1, <1>7 DEF LimitsOfSession
<1>10. MarkedAreRegistered'
  BY <1>1 DEF MarkedAreRegistered, Disconnected, shared
<1> QED
  BY <1>2, <1>4, <1>6, <1>8, <1>9, <1>10

(* A restart of the gateway empties the journal, and with it all that      *)
(* refers to it: the links, the state of the source and its outbox.        *)
LEMMA GatewayRestartInv ==
  ASSUME SystemInv, NEW s \in Sources, GatewayRestart(s)
  PROVE  SystemInv'
<1> USE DEF SystemInv, TypeOK
<1>1. /\ Disconnected(s) /\ Drop({s})
      /\ session' = [session EXCEPT ![s] = @ + 1]
      /\ journal' = [journal EXCEPT ![s] = <<>>]
      /\ limits' = [limits EXCEPT ![s] = [o \in Owners |-> [i \in Instruments |-> NoLimit]]]
      /\ UNCHANGED <<listed, refs, accounts, cursor, log, net, clock>>
  BY DEF GatewayRestart
<1>2. ControllerTypeOK'
  BY <1>1, DisconnectedType
<1>3. used' \in [Budgets -> Nat]
  BY SpendType DEF GatewayRestart, Budgets
<1>4. [o \in Owners |-> [i \in Instruments |-> NoLimit]] \in [Owners -> [Instruments -> Limits]]
  BY DEF NoLimit, Limits
<1>5. limits' \in [Sources -> [Owners -> [Instruments -> Limits]]]
  BY <1>1, <1>4, Zenon DEF GatewayTypeOK
<1>6. session' \in [Sources -> Nat] /\ journal' \in [Sources -> Seq(Records)]
  BY <1>1 DEF GatewayTypeOK
<1>7. GatewayTypeOK'
  BY <1>1, <1>3, <1>5, <1>6, DropType, Zenon DEF GatewayTypeOK
<1>8. \A r \in Sources : /\ downlink'[r] = IF r = s THEN <<>> ELSE downlink[r]
                         /\ state'[r] = IF r = s THEN NoState ELSE state[r]
                         /\ outbox'[r] = IF r = s THEN <<>> ELSE outbox[r]
  BY <1>1, Zenon DEF Disconnected, DropOutbox, Drop, ControllerTypeOK
<1>9. \A r \in Sources : r # s => journal'[r] = journal[r] /\ session'[r] = session[r]
  BY <1>1 DEF GatewayTypeOK
<1>10. MessagesOfSession'
  <2> SUFFICES ASSUME NEW r \in Sources, NEW k \in 1 .. Len(downlink'[r])
               PROVE  /\ downlink'[r][k].seqno \in 1 .. Len(journal'[r])
                      /\ downlink'[r][k].type = "TradeUpdate" =>
                           downlink'[r][k].value \in 1 .. Len(log'[r])
    BY Zenon DEF MessagesOfSession
  <2>1. r # s
    BY <1>8, NoElements
  <2>2. downlink'[r] = downlink[r] /\ journal'[r] = journal[r] /\ log' = log
    BY <1>1, <1>8, <1>9, <2>1
  <2> QED
    BY <2>2, Zenon DEF MessagesOfSession
<1>11. StateOfSession'
  BY <1>8, <1>9 DEF StateOfSession
<1>12. LimitsOfSession'
  BY <1>8, <1>9 DEF LimitsOfSession
<1>13. MarkedAreRegistered'
  BY <1>1 DEF MarkedAreRegistered, Disconnected, shared
<1> QED
  BY <1>2, <1>7, <1>10, <1>11, <1>12, <1>13

(* What the gateway takes from a batch is a limit under its seqno. *)
LEMMA ReceivedType ==
  ASSUME NEW m \in RiskLimitsBatches, NEW o \in Owners, NEW i \in Instruments,
         About(m, o, i) # {}
  PROVE  Received(m, o, i) \in Limits /\ Received(m, o, i).seqno = m.seqno
<1> DEFINE l == CHOOSE l \in About(m, o, i) : TRUE
<1>1. l \in About(m, o, i)
  OBVIOUS
<1>2. l \in RiskLimitItems
  BY <1>1 DEF About, RiskLimitsBatches
<1>3. Received(m, o, i) = [seqno |-> m.seqno, long_position |-> l.long_position,
                           short_position |-> l.short_position]
  BY DEF Received
<1> HIDE DEF l
<1> QED
  BY <1>2, <1>3 DEF Limits, RiskLimitItems, RiskLimitsBatches

(* The gateway takes over limits from the head of the outbox. *)
LEMMA ReceiveLimitsInv ==
  ASSUME SystemInv, NEW s \in Sources, ReceiveLimits(s)
  PROVE  SystemInv'
<1> USE DEF SystemInv, TypeOK
<1> DEFINE m == Head(outbox[s])
<1>1. /\ outbox[s] \in Seq(RiskLimitsBatches)
      /\ outbox[s] # <<>>
      /\ outbox' = [outbox EXCEPT ![s] = Tail(@)]
      /\ limits' = [limits EXCEPT ![s] = [o \in Owners |-> [i \in Instruments |->
                      IF About(m, o, i) = {} THEN limits[s][o][i] ELSE Received(m, o, i)]]]
      /\ UNCHANGED <<shared, last_exchange_time_utc, state, trades, session, download, listed,
                     history, downlink, clock, used>>
  BY DEF ReceiveLimits, ControllerTypeOK
<1>2. m \in RiskLimitsBatches
  BY <1>1
<1>3. outbox' \in [Sources -> Seq(RiskLimitsBatches)]
  <2>1. outbox \in [Sources -> Seq(RiskLimitsBatches)]
    BY DEF ControllerTypeOK
  <2>2. Tail(outbox[s]) \in Seq(RiskLimitsBatches)
    BY <1>1, <2>1, TailType
  <2> QED
    BY <1>1, <2>1, <2>2
<1>4. ControllerTypeOK'
  BY <1>1, <1>3 DEF ControllerTypeOK, shared
<1> HIDE DEF m
<1>5. \A o \in Owners, i \in Instruments :
        (IF About(m, o, i) = {} THEN limits[s][o][i] ELSE Received(m, o, i)) \in Limits
  <2> SUFFICES ASSUME NEW o \in Owners, NEW i \in Instruments
               PROVE  (IF About(m, o, i) = {} THEN limits[s][o][i] ELSE Received(m, o, i)) \in Limits
    BY Zenon
  <2>1. limits \in [Sources -> [Owners -> [Instruments -> Limits]]]
    BY Zenon DEF GatewayTypeOK
  <2>2. limits[s][o][i] \in Limits
    BY <2>1
  <2>3. About(m, o, i) # {} => Received(m, o, i) \in Limits
    BY <1>2, ReceivedType, Zenon
  <2> QED
    BY <2>2, <2>3, Zenon
<1>6. limits' \in [Sources -> [Owners -> [Instruments -> Limits]]]
  BY <1>1, <1>5 DEF GatewayTypeOK
<1>7. GatewayTypeOK'
  BY <1>1, <1>6, Zenon DEF GatewayTypeOK, download, history
<1>8. MessagesOfSession' /\ StateOfSession'
  BY <1>1 DEF MessagesOfSession, StateOfSession, history
<1>9. LimitsOfSession'
  <2> SUFFICES ASSUME NEW r \in Sources, NEW k \in 1 .. Len(outbox'[r])
               PROVE  /\ outbox'[r][k].session_id = session[r]
                      /\ outbox'[r][k].seqno \in 1 .. Len(journal[r])
    BY <1>1, Zenon DEF LimitsOfSession, history
  <2>1. PICK j \in 1 .. Len(outbox[r]) : outbox'[r][k] = outbox[r][j]
    <3>1. CASE r = s
      <4>1. outbox'[s] = Tail(outbox[s])
        BY <1>1 DEF ControllerTypeOK
      <4>2. k + 1 \in 1 .. Len(outbox[s]) /\ Tail(outbox[s])[k] = outbox[s][k + 1]
        BY <1>1, <3>1, <4>1, TailElements, Zenon
      <4> QED
        BY <3>1, <4>1, <4>2
    <3>2. CASE r # s
      BY <1>1, <3>2 DEF ControllerTypeOK
    <3> QED
      BY <3>1, <3>2
  <2> QED
    BY <2>1 DEF LimitsOfSession
<1>10. MarkedAreRegistered'
  BY <1>1 DEF MarkedAreRegistered, shared
<1> QED
  BY <1>4, <1>7, <1>8, <1>9, <1>10
=============================================================================
