----------------------------- MODULE OrderProofs -----------------------------
(***************************************************************************)
(* The six things a step can do to the queues between the risk manager and *)
(* one gateway, and that each of them keeps sequence numbers in order.     *)
(***************************************************************************)
EXTENDS SystemProofs

-----------------------------------------------------------------------------
(* Queues of numbered messages *)

(* A message that is not before the others goes to the end. *)
LEMMA AppendAscending ==
  ASSUME NEW S, NEW q \in Seq(S), NEW m \in S, \A x \in S : x.seqno \in Nat,
         Ascending(q), \A k \in 1 .. Len(q) : q[k].seqno <= m.seqno
  PROVE  Ascending(Append(q, m))
<1> SUFFICES ASSUME NEW j \in 1 .. Len(Append(q, m)), NEW k \in 1 .. Len(Append(q, m)), j < k
             PROVE  Append(q, m)[j].seqno <= Append(q, m)[k].seqno
  BY DEF Ascending
<1>1. /\ Len(q) \in Nat /\ Len(Append(q, m)) = Len(q) + 1
      /\ Append(q, m)[Len(q) + 1] = m
      /\ \A l \in 1 .. Len(q) : Append(q, m)[l] = q[l]
  OBVIOUS
<1>2. j \in 1 .. Len(q) /\ Append(q, m)[j] = q[j]
  BY <1>1
<1>3. CASE k \in 1 .. Len(q)
  BY <1>1, <1>2, <1>3 DEF Ascending
<1>4. CASE k = Len(q) + 1
  BY <1>1, <1>2, <1>4
<1>5. k \in 1 .. Len(q) \/ k = Len(q) + 1
  BY <1>1
<1> QED
  BY <1>3, <1>4, <1>5, Zenon

(* It keeps a lower bound that it respects. *)
LEMMA AppendAtLeast ==
  ASSUME NEW S, NEW q \in Seq(S), NEW m \in S, NEW n, AtLeast(q, n), n <= m.seqno
  PROVE  AtLeast(Append(q, m), n)
<1> SUFFICES ASSUME NEW k \in 1 .. Len(Append(q, m))
             PROVE  n <= Append(q, m)[k].seqno
  BY DEF AtLeast
<1>1. /\ Len(q) \in Nat /\ Len(Append(q, m)) = Len(q) + 1
      /\ Append(q, m)[Len(q) + 1] = m
      /\ \A l \in 1 .. Len(q) : Append(q, m)[l] = q[l]
  OBVIOUS
<1>2. CASE k \in 1 .. Len(q)
  BY <1>1, <1>2 DEF AtLeast
<1>3. CASE k = Len(q) + 1
  BY <1>1, <1>3
<1> QED
  BY <1>1, <1>2, <1>3

(* What is left behind the head is in order, and not before the head. *)
LEMMA TailOrder ==
  ASSUME NEW S, NEW q \in Seq(S), q # <<>>, Ascending(q)
  PROVE  /\ Ascending(Tail(q))
         /\ AtLeast(Tail(q), Head(q).seqno)
         /\ \A n : AtLeast(q, n) => AtLeast(Tail(q), n) /\ n <= Head(q).seqno
<1>1. /\ 1 \in 1 .. Len(q) /\ Head(q) = q[1]
      /\ \A k \in 1 .. Len(Tail(q)) : k \in Nat /\ 1 < k + 1
  OBVIOUS
<1>2. \A k \in 1 .. Len(Tail(q)) : k + 1 \in 1 .. Len(q) /\ Tail(q)[k] = q[k + 1]
  BY TailElements
<1>3. Ascending(Tail(q))
  <2> SUFFICES ASSUME NEW j \in 1 .. Len(Tail(q)), NEW k \in 1 .. Len(Tail(q)), j < k
               PROVE  Tail(q)[j].seqno <= Tail(q)[k].seqno
    BY DEF Ascending
  <2>1. j + 1 < k + 1
    OBVIOUS
  <2> QED
    BY <1>2, <2>1, Zenon DEF Ascending
<1>4. AtLeast(Tail(q), Head(q).seqno)
  BY <1>1, <1>2, Zenon DEF Ascending, AtLeast
<1>5. \A n : AtLeast(q, n) => AtLeast(Tail(q), n) /\ n <= Head(q).seqno
  BY <1>1, <1>2, Zenon DEF AtLeast
<1> QED
  BY <1>3, <1>4, <1>5

(* An empty queue is in order. *)
LEMMA EmptyOrder ==
  ASSUME NEW q, q = <<>>
  PROVE  Ascending(q) /\ \A n : AtLeast(q, n)
BY NoElements, Zenon DEF Ascending, AtLeast

-----------------------------------------------------------------------------
(* What a step can do to one source *)

(* The types this module relies on. *)
LEMMA QueueTypes ==
  ASSUME SystemInv, NEW s \in Sources
  PROVE  /\ downlink[s] \in Seq(Messages) /\ \A m \in Messages : m.seqno \in Nat
         /\ outbox[s] \in Seq(RiskLimitsBatches)
         /\ \A m \in RiskLimitsBatches : m.seqno \in Nat
         /\ state[s] \in States /\ state[s].seqno \in Nat
         /\ Len(journal[s]) \in Nat
         /\ \A o \in Owners, i \in Instruments : limits[s][o][i].seqno \in Nat
<1> USE DEF SystemInv, TypeOK
<1>1. downlink[s] \in Seq(Messages) /\ Len(journal[s]) \in Nat
  BY DEF GatewayTypeOK
<1>2. outbox[s] \in Seq(RiskLimitsBatches) /\ state[s] \in States
  BY DEF ControllerTypeOK
<1>3. \A o \in Owners, i \in Instruments : limits[s][o][i] \in Limits
  BY DEF GatewayTypeOK
<1>4. /\ \A m \in Messages : m.seqno \in Nat
      /\ \A m \in RiskLimitsBatches : m.seqno \in Nat
      /\ \A l \in Limits : l.seqno \in Nat
      /\ \A st \in States : st.seqno \in Nat
  BY DEF Messages, RiskLimitsBatches, Limits, States
<1> QED
  BY <1>1, <1>2, <1>3, <1>4, Zenon

(* The source is not concerned, or it has written a number to its journal  *)
(* that it does not send.                                                  *)
Same(s) ==
  /\ downlink'[s] = downlink[s] /\ outbox'[s] = outbox[s] /\ state'[s] = state[s]
  /\ limits'[s] = limits[s] /\ Len(journal'[s]) >= Len(journal[s])

(* The source sends the next message. *)
Sent(s) ==
  /\ \E m \in Messages : /\ m.seqno = Len(journal[s]) + 1
                         /\ downlink'[s] = Append(downlink[s], m)
  /\ outbox'[s] = outbox[s] /\ state'[s] = state[s]
  /\ limits'[s] = limits[s] /\ Len(journal'[s]) = Len(journal[s]) + 1

(* The connection is lost. *)
Dropped(s) ==
  /\ downlink'[s] = <<>> /\ outbox'[s] = <<>> /\ state'[s] = NoState
  /\ \A o \in Owners, i \in Instruments : limits'[s][o][i].seqno <= Len(journal'[s])

(* The risk manager receives a message. *)
Popped(s) ==
  /\ downlink[s] # <<>> /\ downlink'[s] = Tail(downlink[s]) /\ outbox'[s] = outbox[s]
  /\ state'[s] = state[s] \/ state'[s].seqno = Head(downlink[s]).seqno
  /\ limits'[s] = limits[s] /\ journal'[s] = journal[s]

(* The risk manager publishes. *)
Published(s) ==
  /\ \E m \in RiskLimitsBatches : /\ m.seqno = state[s].seqno
                                  /\ outbox'[s] = Append(outbox[s], m)
  /\ state[s] # NoState
  /\ downlink'[s] = downlink[s] /\ state'[s] = state[s]
  /\ limits'[s] = limits[s] /\ journal'[s] = journal[s]

(* The gateway receives limits. *)
Held(s) ==
  /\ outbox[s] # <<>> /\ outbox'[s] = Tail(outbox[s])
  /\ downlink'[s] = downlink[s] /\ state'[s] = state[s] /\ journal'[s] = journal[s]
  /\ \A o \in Owners, i \in Instruments :
       \/ limits'[s][o][i] = limits[s][o][i]
       \/ limits'[s][o][i].seqno = Head(outbox[s]).seqno

(* Nothing that matters has changed. *)
LEMMA SameOrdered ==
  ASSUME SystemInv, SystemInv', NEW s \in Sources, OrderedAt(s), Same(s)
  PROVE  OrderedAt(s)'
<1>1. DownlinkOrdered(s)' /\ OutboxOrdered(s)'
  BY Zenon DEF OrderedAt, DownlinkOrdered, OutboxOrdered, Same
<1>2. \A o \in Owners, i \in Instruments : limits[s][o][i].seqno <= Len(journal'[s])
  <2>1. Len(journal[s]) \in Nat /\ Len(journal'[s]) \in Nat
    BY QueueTypes DEF SystemInv, TypeOK, GatewayTypeOK
  <2>2. \A o \in Owners, i \in Instruments : limits[s][o][i].seqno \in Nat
    BY QueueTypes
  <2> QED
    BY <2>1, <2>2 DEF OrderedAt, LimitsOrdered, Same
<1>3. LimitsOrdered(s)'
  BY <1>2, Zenon DEF OrderedAt, LimitsOrdered, Same
<1> QED
  BY <1>1, <1>3 DEF OrderedAt

(* The next message is after all that is known. *)
LEMMA SentOrdered ==
  ASSUME SystemInv, NEW s \in Sources, OrderedAt(s), Sent(s)
  PROVE  OrderedAt(s)'
<1>1. PICK m \in Messages : /\ m.seqno = Len(journal[s]) + 1
                            /\ downlink'[s] = Append(downlink[s], m)
  BY DEF Sent
<1>2. \A k \in 1 .. Len(downlink[s]) : downlink[s][k].seqno <= m.seqno
  BY <1>1, QueueTypes DEF SystemInv, MessagesOfSession
<1>3. state[s].seqno <= m.seqno
  <2>1. state[s].seqno = 0 \/ state[s].seqno \in 1 .. Len(journal[s])
    BY DEF SystemInv, StateOfSession, NoState
  <2> QED
    BY <1>1, <2>1, QueueTypes
<1>4. DownlinkOrdered(s)'
  <2>1. Ascending(Append(downlink[s], m))
    BY <1>2, QueueTypes, AppendAscending DEF OrderedAt, DownlinkOrdered
  <2>2. AtLeast(Append(downlink[s], m), state[s].seqno)
    BY <1>3, QueueTypes, AppendAtLeast DEF OrderedAt, DownlinkOrdered
  <2> QED
    BY <1>1, <2>1, <2>2, Zenon DEF DownlinkOrdered, Sent
<1>5. OutboxOrdered(s)'
  BY Zenon DEF OrderedAt, OutboxOrdered, Sent
<1>6. ASSUME NEW o \in Owners, NEW i \in Instruments
      PROVE  /\ limits[s][o][i].seqno <= Len(journal[s]) + 1
             /\ AtLeast(Append(downlink[s], m), limits[s][o][i].seqno)
  <2>1. /\ limits[s][o][i].seqno <= Len(journal[s])
        /\ AtLeast(downlink[s], limits[s][o][i].seqno)
    BY DEF OrderedAt, LimitsOrdered
  <2>2. limits[s][o][i].seqno <= Len(journal[s]) + 1
    BY <2>1, QueueTypes
  <2> QED
    BY <1>1, <2>1, <2>2, QueueTypes, AppendAtLeast
<1>7. LimitsOrdered(s)'
  BY <1>1, <1>6, Zenon DEF OrderedAt, LimitsOrdered, Sent
<1> QED
  BY <1>4, <1>5, <1>7 DEF OrderedAt

(* Nothing is left to be in order. *)
LEMMA DroppedOrdered ==
  ASSUME NEW s \in Sources, Dropped(s)
  PROVE  OrderedAt(s)'
<1>1. 1 .. Len(outbox'[s]) = {}
  BY NoElements DEF Dropped
<1>2. DownlinkOrdered(s)' /\ OutboxOrdered(s)'
  BY <1>1, EmptyOrder, Zenon DEF DownlinkOrdered, OutboxOrdered, Dropped
<1>3. LimitsOrdered(s)'
  BY EmptyOrder, Zenon DEF LimitsOrdered, Dropped
<1> QED
  BY <1>2, <1>3 DEF OrderedAt

(* The message that is received is not before the last one, and not after  *)
(* those behind it.                                                        *)
LEMMA PoppedOrdered ==
  ASSUME SystemInv, SystemInv', NEW s \in Sources, OrderedAt(s), Popped(s)
  PROVE  OrderedAt(s)'
<1> DEFINE n == Head(downlink[s]).seqno
<1>1. /\ Ascending(Tail(downlink[s])) /\ AtLeast(Tail(downlink[s]), n)
      /\ \A b : AtLeast(downlink[s], b) => AtLeast(Tail(downlink[s]), b) /\ b <= n
  BY QueueTypes, TailOrder DEF OrderedAt, DownlinkOrdered, Popped
<1>2. state[s].seqno <= n /\ n \in Nat
  <2>1. Head(downlink[s]) \in Messages
    BY QueueTypes DEF Popped
  <2> QED
    BY <1>1, <2>1, QueueTypes DEF OrderedAt, DownlinkOrdered
<1> HIDE DEF n
<1>3. state'[s] = state[s] \/ state'[s].seqno = n
  BY DEF Popped, n
<1>4. AtLeast(Tail(downlink[s]), state'[s].seqno)
  BY <1>1, <1>3, Zenon DEF OrderedAt, DownlinkOrdered
<1>5. DownlinkOrdered(s)'
  BY <1>1, <1>4, Zenon DEF DownlinkOrdered, Popped
<1>6. OutboxOrdered(s)'
  <2>1. \A k \in 1 .. Len(outbox[s]) : outbox[s][k].seqno <= state'[s].seqno
    BY <1>2, <1>3, QueueTypes DEF OrderedAt, OutboxOrdered
  <2> QED
    BY <2>1, Zenon DEF OrderedAt, OutboxOrdered, Popped
<1>7. ASSUME NEW o \in Owners, NEW i \in Instruments
      PROVE  /\ AtLeast(Tail(downlink[s]), limits[s][o][i].seqno)
             /\ state'[s] # NoState => limits[s][o][i].seqno <= state'[s].seqno
  BY <1>1, <1>3, Zenon DEF OrderedAt, LimitsOrdered
<1>8. LimitsOrdered(s)'
  BY <1>7, Zenon DEF OrderedAt, LimitsOrdered, Popped
<1> QED
  BY <1>5, <1>6, <1>8 DEF OrderedAt

(* What is published has the last number seen, which is not before what    *)
(* is under way or held.                                                   *)
LEMMA PublishedOrdered ==
  ASSUME SystemInv, NEW s \in Sources, OrderedAt(s), Published(s)
  PROVE  OrderedAt(s)'
<1>1. PICK m \in RiskLimitsBatches : /\ m.seqno = state[s].seqno
                                     /\ outbox'[s] = Append(outbox[s], m)
  BY DEF Published
<1>2. DownlinkOrdered(s)'
  BY Zenon DEF OrderedAt, DownlinkOrdered, Published
<1>3. OutboxOrdered(s)'
  <2>1. Ascending(Append(outbox[s], m))
    BY <1>1, QueueTypes, AppendAscending DEF OrderedAt, OutboxOrdered
  <2>2. /\ Len(outbox[s]) \in Nat /\ Len(Append(outbox[s], m)) = Len(outbox[s]) + 1
        /\ Append(outbox[s], m)[Len(outbox[s]) + 1] = m
        /\ \A l \in 1 .. Len(outbox[s]) : Append(outbox[s], m)[l] = outbox[s][l]
    BY QueueTypes
  <2>3. ASSUME NEW k \in 1 .. Len(Append(outbox[s], m))
        PROVE  Append(outbox[s], m)[k].seqno <= state[s].seqno
    <3>1. k \in 1 .. Len(outbox[s]) \/ k = Len(outbox[s]) + 1
      BY <2>2
    <3>2. state[s].seqno <= state[s].seqno
      BY QueueTypes
    <3> QED
      BY <1>1, <2>2, <3>1, <3>2, Zenon DEF OrderedAt, OutboxOrdered
  <2> QED
    BY <1>1, <2>1, <2>3, Zenon DEF OutboxOrdered, Published
<1>4. ASSUME NEW o \in Owners, NEW i \in Instruments
      PROVE  AtLeast(Append(outbox[s], m), limits[s][o][i].seqno)
  BY <1>1, QueueTypes, AppendAtLeast DEF OrderedAt, LimitsOrdered, Published
<1>5. LimitsOrdered(s)'
  BY <1>1, <1>4, Zenon DEF OrderedAt, LimitsOrdered, Published
<1> QED
  BY <1>2, <1>3, <1>5 DEF OrderedAt

(* What the gateway receives is not after what is behind it, nor after     *)
(* what the risk manager has seen and has yet to see.                      *)
LEMMA HeldOrdered ==
  ASSUME SystemInv, NEW s \in Sources, OrderedAt(s), Held(s)
  PROVE  OrderedAt(s)'
<1> DEFINE n == Head(outbox[s]).seqno
<1>1. /\ Ascending(Tail(outbox[s])) /\ AtLeast(Tail(outbox[s]), n)
      /\ \A b : AtLeast(outbox[s], b) => AtLeast(Tail(outbox[s]), b) /\ b <= n
  BY QueueTypes, TailOrder DEF OrderedAt, OutboxOrdered, Held
<1>2. 1 \in 1 .. Len(outbox[s]) /\ Head(outbox[s]) = outbox[s][1]
  BY QueueTypes DEF Held
<1>3. n \in 1 .. Len(journal[s]) /\ n <= state[s].seqno
  BY <1>2 DEF SystemInv, LimitsOfSession, OrderedAt, OutboxOrdered
<1>4. AtLeast(downlink[s], n)
  BY <1>3, QueueTypes, MessageFields DEF OrderedAt, DownlinkOrdered, AtLeast
<1> HIDE DEF n
<1>5. DownlinkOrdered(s)'
  BY Zenon DEF OrderedAt, DownlinkOrdered, Held
<1>6. OutboxOrdered(s)'
  <2>1. \A k \in 1 .. Len(Tail(outbox[s])) :
          k + 1 \in 1 .. Len(outbox[s]) /\ Tail(outbox[s])[k] = outbox[s][k + 1]
    BY QueueTypes, TailElements DEF Held
  <2> QED
    BY <1>1, <2>1, Zenon DEF OrderedAt, OutboxOrdered, Held
<1>7. ASSUME NEW o \in Owners, NEW i \in Instruments
      PROVE  /\ limits'[s][o][i].seqno <= Len(journal[s])
             /\ AtLeast(Tail(outbox[s]), limits'[s][o][i].seqno)
             /\ AtLeast(downlink[s], limits'[s][o][i].seqno)
             /\ state[s] # NoState => limits'[s][o][i].seqno <= state[s].seqno
  <2>1. CASE limits'[s][o][i] = limits[s][o][i]
    BY <1>1, <2>1, Zenon DEF OrderedAt, LimitsOrdered
  <2>2. CASE limits'[s][o][i].seqno = n
    <3>1. n <= Len(journal[s])
      BY <1>3, QueueTypes
    <3> QED
      BY <1>1, <1>3, <1>4, <2>2, <3>1, Zenon
  <2> QED
    BY <2>1, <2>2, Zenon DEF Held, n
<1>8. LimitsOrdered(s)'
  BY <1>7, Zenon DEF LimitsOrdered, Held
<1> QED
  BY <1>5, <1>6, <1>8 DEF OrderedAt

-----------------------------------------------------------------------------
(* What a gateway, and a crash, does to every source *)

(* A step that sends, and no other part of which concerns the order. *)
LEMMA SendStep ==
  ASSUME SystemInv, NEW s \in Sources, NEW type, NEW value,
         Message(s, type, value) \in Messages, Send(s, type, value),
         UNCHANGED <<controllerVars, limits>>
  PROVE  \A r \in Sources : IF r = s THEN Sent(r) ELSE Same(r)
<1>1. /\ downlink \in [Sources -> Seq(Messages)] /\ journal \in [Sources -> Seq(Records)]
      /\ net[s] \in NetPositions /\ log[s] \in Seq(TradeUpdates)
  BY DEF SystemInv, TypeOK, GatewayTypeOK
<1>2. Record(net[s], Len(log[s])) \in Records
  BY <1>1 DEF Record, Records
<1>3. /\ downlink'[s] = Append(downlink[s], Message(s, type, value))
      /\ journal'[s] = Append(journal[s], Record(net[s], Len(log[s])))
      /\ \A r \in Sources : r # s => downlink'[r] = downlink[r] /\ journal'[r] = journal[r]
  BY <1>1 DEF Send
<1>4. Len(journal'[s]) = Len(journal[s]) + 1 /\ \A r \in Sources : Len(journal[r]) \in Nat
  BY <1>1, <1>2, <1>3
<1>5. Message(s, type, value).seqno = Len(journal[s]) + 1
  BY DEF Message
<1>6. Sent(s)
  BY <1>3, <1>4, <1>5, Zenon DEF Sent, controllerVars
<1>7. \A r \in Sources : r # s => Same(r)
  BY <1>3, <1>4 DEF Same, controllerVars
<1> QED
  BY <1>6, <1>7, Zenon

(* The gateway's own steps send the next message, if any. *)
LEMMA GatewayStep ==
  ASSUME SystemInv, NEW s \in Sources,
         \/ Connect(s) \/ GatewayDownload(s) \/ \E i \in Instruments : ListInstrument(s, i)
  PROVE  \A r \in Sources : Sent(r) \/ Same(r)
<1>1. GatewayTypeOK /\ current[s] \in Accounts \cup {None} /\ Len(log[s]) \in Nat
  BY DEF SystemInv, TypeOK, GatewayTypeOK
<1>2. CASE Connect(s)
  BY <1>1, <1>2, MessageType, SendStep DEF Connect
<1>3. ASSUME NEW i \in Instruments, DownloadReferenceData(s, i) \/ ListInstrument(s, i)
      PROVE  \A r \in Sources : Sent(r) \/ Same(r)
  BY <1>1, <1>3, MessageType, SendStep DEF DownloadReferenceData, ListInstrument
<1>4. CASE EndReferenceData(s)
  BY <1>1, <1>4, MessageType, SendStep DEF EndReferenceData
<1>5. ASSUME NEW a \in Accounts, BeginAccount(s, a)
      PROVE  \A r \in Sources : Sent(r) \/ Same(r)
  BY <1>1, <1>5, MessageType, SendStep DEF BeginAccount
<1>6. ASSUME NEW k \in 1 .. Len(log[s]), DownloadTrade(s, k)
      PROVE  \A r \in Sources : Sent(r) \/ Same(r)
  <2>1. k \in Nat
    BY <1>1
  <2> QED
    BY <1>1, <1>6, <2>1, MessageType, SendStep DEF DownloadTrade
<1>7. CASE EndAccount(s)
  BY <1>1, <1>7, MessageType, SendStep DEF EndAccount
<1>8. CASE SendReady(s)
  BY <1>1, <1>8, MessageType, SendStep DEF SendReady
<1> QED
  BY <1>2, <1>3, <1>4, <1>5, <1>6, <1>7, <1>8 DEF GatewayDownload

(* A trade takes a number, and is sent when there is a connection. *)
LEMMA ExecuteStep ==
  ASSUME SystemInv, NEW s \in Sources, NEW tu \in NextTrades(s), Execute(s, tu)
  PROVE  \A r \in Sources : Sent(r) \/ Same(r)
<1> DEFINE m == Message(s, "TradeUpdate", Len(log[s]) + 1)
           rec == Record(NetAfter(net[s], tu), Len(log[s]) + 1)
<1>1. /\ downlink \in [Sources -> Seq(Messages)] /\ journal \in [Sources -> Seq(Records)]
      /\ Len(log[s]) + 1 \in Nat
  BY DEF SystemInv, TypeOK, GatewayTypeOK
<1>2. m \in Messages /\ m.seqno = Len(journal[s]) + 1
  <2>1. GatewayTypeOK
    BY DEF SystemInv, TypeOK
  <2>2. m \in Messages
    BY <1>1, <2>1, MessageType
  <2> QED
    BY <2>2, Zenon DEF Message
<1>3. /\ downlink' = downlink \/ downlink' = [downlink EXCEPT ![s] = Append(@, m)]
      /\ journal' = [journal EXCEPT ![s] = Append(@, rec)]
      /\ UNCHANGED <<controllerVars, limits>>
  BY DEF Execute
<1> HIDE DEF m, rec
<1>4. /\ downlink'[s] = downlink[s] \/ downlink'[s] = Append(downlink[s], m)
      /\ journal'[s] = Append(journal[s], rec)
      /\ \A r \in Sources : r # s => downlink'[r] = downlink[r] /\ journal'[r] = journal[r]
  BY <1>1, <1>3
<1>5. Len(journal'[s]) = Len(journal[s]) + 1 /\ \A r \in Sources : Len(journal[r]) \in Nat
  BY <1>1, <1>4
<1>6. UNCHANGED <<outbox, state, limits>>
  BY <1>3 DEF controllerVars
<1>7. Sent(s) \/ Same(s)
  <2>1. CASE downlink'[s] = downlink[s]
    BY <1>5, <1>6, <2>1 DEF Same
  <2>2. CASE downlink'[s] = Append(downlink[s], m)
    BY <1>2, <1>5, <1>6, <2>2, Zenon DEF Sent
  <2> QED
    BY <1>4, <2>1, <2>2
<1>8. \A r \in Sources : r # s => Same(r)
  BY <1>4, <1>5, <1>6 DEF Same
<1> QED
  BY <1>7, <1>8, Zenon

(* A lost connection, with or without a restart of the gateway. *)
LEMMA DisconnectStep ==
  ASSUME SystemInv, Ordered, NEW s \in Sources, Disconnect(s) \/ GatewayRestart(s)
  PROVE  \A r \in Sources : Dropped(r) \/ Same(r)
<1>1. /\ journal \in [Sources -> Seq(Records)]
      /\ limits \in [Sources -> [Owners -> [Instruments -> Limits]]]
  BY DEF SystemInv, TypeOK, GatewayTypeOK
<1>2. Disconnected(s) /\ Drop({s})
  BY DEF Disconnect, GatewayRestart
<1>3. \A r \in Sources : /\ downlink'[r] = IF r = s THEN <<>> ELSE downlink[r]
                         /\ state'[r] = IF r = s THEN NoState ELSE state[r]
                         /\ outbox'[r] = IF r = s THEN <<>> ELSE outbox[r]
  BY <1>2, Zenon DEF Disconnected, DropOutbox, Drop, SystemInv, TypeOK, ControllerTypeOK
<1>4. \A r \in Sources : r # s => journal'[r] = journal[r] /\ limits'[r] = limits[r]
  BY <1>1 DEF Disconnect, GatewayRestart
<1>5. \A r \in Sources : r # s => Same(r)
  BY <1>1, <1>3, <1>4 DEF Same
<1>6. \A o \in Owners, i \in Instruments : limits'[s][o][i].seqno <= Len(journal'[s])
  <2>1. CASE Disconnect(s)
    BY <2>1, Zenon DEF Disconnect, Ordered, OrderedAt, LimitsOrdered
  <2>2. CASE GatewayRestart(s)
    <3>1. /\ journal'[s] = <<>>
          /\ limits'[s] = [o \in Owners |-> [i \in Instruments |-> NoLimit]]
      BY <1>1, <2>2, Zenon DEF GatewayRestart
    <3>2. Len(journal'[s]) = 0 /\ NoLimit.seqno = 0
      BY <3>1 DEF NoLimit
    <3> QED
      BY <3>1, <3>2
  <2> QED
    BY <2>1, <2>2
<1> QED
  BY <1>3, <1>5, <1>6, Zenon DEF Dropped

(* A crash loses every connection. *)
LEMMA CrashStep ==
  ASSUME SystemInv, Ordered, Crash \/ \E s \in Sources : CrashInTradeUpdate(s)
  PROVE  \A r \in Sources : Dropped(r)
<1>1. /\ \E table : Start(table)
      /\ Drop(Sources) /\ UNCHANGED <<journal, limits>>
  BY Zenon DEF Crash, CrashInTradeUpdate
<1>2. \A r \in Sources : downlink'[r] = <<>> /\ state'[r] = NoState /\ outbox'[r] = <<>>
  BY <1>1, Zenon DEF Start, Drop
<1> QED
  BY <1>1, <1>2, Zenon DEF Dropped, Ordered, OrderedAt, LimitsOrdered
=============================================================================
