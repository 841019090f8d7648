--------------------------- MODULE ControlProofs ---------------------------
(* Proof that the control interface's subscribers are its READY sessions. *)
EXTENDS Control, TLAPS

(* The invariant holds before the first connection. *)
LEMMA ControlInitInv == Init => ControlInv
<1> SUFFICES ASSUME Init PROVE ControlInv
  OBVIOUS
<1> USE ControlAssumption DEF Init, SessionIds, Tables
<1>1. ControlTypeOK
  BY DEF ControlTypeOK
<1>2. SubscribersReady
  BY DEF SubscribersReady
<1>3. SessionsOfLinks
  BY DEF SessionsOfLinks
<1> QED
  BY <1>1, <1>2, <1>3 DEF ControlInv

(* Steps that leave the sessions, the manager's sets and the links alone   *)
(* preserve what relates them.                                             *)
LEMMA Untouched ==
  ASSUME SubscribersReady, SessionsOfLinks,
         UNCHANGED <<next_session_id, sessions, subscribers, zombies, link>>
  PROVE  SubscribersReady' /\ SessionsOfLinks'
BY DEF SubscribersReady, SessionsOfLinks

(* Closing a connection is not yet its end: the session stays as it is. *)
LEMMA CloseInv ==
  ASSUME ControlInv, NEW id \in SessionIds, link[id] = "open", close(id),
         UNCHANGED <<next_session_id, sessions, subscribers, zombies>>
  PROVE  /\ SubscribersReady' /\ SessionsOfLinks'
         /\ link' \in [SessionIds -> {"none", "open", "closing", "closed"}]
BY DEF ControlInv, ControlTypeOK, SubscribersReady, SessionsOfLinks, close

(* A request answers, or closes its connection, and keeps the invariant. *)
LEMMA RequestInv ==
  ASSUME ControlInv, NEW id \in SessionIds, NEW r \in Requests, Request(id, r)
  PROVE  ControlInv'
<1>1. link[id] = "open"
  BY DEF Request, Open
<1>2. UNCHANGED <<next_session_id, subscribers, zombies, next_cleanup, sessions, broadcasts, cut,
                  feed, since>>
  BY DEF Request, manager, trading
<1>3. rows' \subseteq Tables
  BY DEF Request, ControlInv, ControlTypeOK, Tables
<1>4. PICK outcome \in route(r) : Answer(id, r, outcome)
  BY DEF Request
<1>5. awaiting' \subseteq SessionIds
  BY <1>4 DEF Answer, ControlInv, ControlTypeOK
<1>6. close(id) \/ UNCHANGED link
  BY <1>4 DEF Answer, send
<1>7. /\ SubscribersReady' /\ SessionsOfLinks'
      /\ link' \in [SessionIds -> {"none", "open", "closing", "closed"}]
  <2>1. CASE close(id)
    BY <1>1, <1>2, <2>1, CloseInv
  <2>2. CASE UNCHANGED link
    BY <1>2, <2>2, Untouched DEF ControlInv, ControlTypeOK
  <2> QED
    BY <1>6, <2>1, <2>2
<1>8. ControlTypeOK'
  BY <1>2, <1>3, <1>5, <1>7 DEF ControlInv, ControlTypeOK
<1> QED
  BY <1>7, <1>8 DEF ControlInv

(* An upgrade makes a session READY and a subscriber at once. *)
LEMMA UpgradeInv ==
  ASSUME ControlInv, NEW id \in SessionIds, Upgrade(id)
  PROVE  ControlInv'
<1> USE DEF ControlInv, Upgrade, Upgraded, Open
<1>1. ControlTypeOK'
  BY DEF ControlTypeOK, trading
<1>2. SubscribersReady'
  BY DEF ControlTypeOK, SubscribersReady
<1>3. SessionsOfLinks'
  BY DEF ControlTypeOK, SessionsOfLinks
<1> QED
  BY <1>1, <1>2, <1>3

(* A failed upgrade and a malformed message close the connection, and do   *)
(* nothing else.                                                           *)
LEMMA ClosingInv ==
  ASSUME ControlInv, NEW id \in SessionIds, UpgradeThrows(id) \/ Text(id)
  PROVE  ControlInv'
<1>1. link[id] = "open" /\ (close(id) \/ UNCHANGED link)
  BY DEF UpgradeThrows, Text, Open, process
<1>2. UNCHANGED <<next_session_id, subscribers, zombies, next_cleanup, sessions, broadcasts, cut,
                  feed, since, rows>>
  BY DEF UpgradeThrows, Text, manager, trading
<1>3. awaiting' \subseteq SessionIds
  BY DEF UpgradeThrows, Text, ControlInv, ControlTypeOK
<1>4. /\ SubscribersReady' /\ SessionsOfLinks'
      /\ link' \in [SessionIds -> {"none", "open", "closing", "closed"}]
  <2>1. CASE close(id)
    BY <1>1, <1>2, <2>1, CloseInv
  <2>2. CASE UNCHANGED link
    BY <1>2, <2>2, Untouched DEF ControlInv, ControlTypeOK
  <2> QED
    BY <1>1, <2>1, <2>2
<1>5. ControlTypeOK'
  BY <1>2, <1>3, <1>4 DEF ControlInv, ControlTypeOK
<1> QED
  BY <1>4, <1>5 DEF ControlInv

(* The end of a connection makes the session a zombie and ends its         *)
(* subscription at once.                                                   *)
LEMMA DisconnectedInv ==
  ASSUME ControlInv, NEW id \in SessionIds, Disconnected(id)
  PROVE  ControlInv'
<1> USE DEF ControlInv, Disconnected, Detected
<1>1. ControlTypeOK'
  BY DEF ControlTypeOK, trading
<1>2. SubscribersReady'
  BY DEF ControlTypeOK, SubscribersReady
<1>3. SessionsOfLinks'
  BY DEF ControlTypeOK, SessionsOfLinks
<1> QED
  BY <1>1, <1>2, <1>3

(* A new session has an id that no session has had. *)
LEMMA AcceptInv ==
  ASSUME ControlInv, Accept
  PROVE  ControlInv'
<1> USE ControlAssumption DEF ControlInv, Accept
<1>1. ControlTypeOK'
  BY DEF ControlTypeOK, trading, SessionIds
<1>2. next_session_id + 1 \in SessionIds /\ sessions[next_session_id + 1] = "NONE"
  BY DEF ControlTypeOK, SessionsOfLinks, SessionIds
<1>3. SubscribersReady'
  BY <1>2 DEF ControlTypeOK, SubscribersReady
<1>4. SessionsOfLinks'
  BY <1>2 DEF ControlTypeOK, SessionsOfLinks, SessionIds
<1> QED
  BY <1>1, <1>3, <1>4

(* The cleanup removes zombies, and a zombie is not READY. *)
LEMMA TimerInv ==
  ASSUME ControlInv, NEW d \in Nat, Timer(d)
  PROVE  ControlInv'
<1>1. UNCHANGED <<next_session_id, subscribers, link, awaiting, broadcasts, cut, feed, since, rows>>
  BY DEF Timer, trading
<1>2. next_cleanup' \in -1 .. CleanupFrequency
  BY ControlAssumption DEF Timer, Left, ControlInv, ControlTypeOK
<1>3. CASE UNCHANGED <<sessions, zombies>>
  <2>1. SubscribersReady' /\ SessionsOfLinks'
    BY <1>1, <1>3, Untouched DEF ControlInv
  <2> QED
    BY <1>1, <1>2, <1>3, <2>1 DEF ControlInv, ControlTypeOK
<1>4. CASE remove_zombies
  <2>1. ControlTypeOK'
    BY <1>1, <1>2, <1>4 DEF ControlInv, ControlTypeOK, remove_zombies
  <2>2. SubscribersReady'
    BY <1>1, <1>4 DEF ControlInv, ControlTypeOK, SubscribersReady, SessionsOfLinks, remove_zombies
  <2>3. SessionsOfLinks'
    BY <1>1, <1>4 DEF ControlInv, ControlTypeOK, SessionsOfLinks, remove_zombies
  <2> QED
    BY <2>1, <2>2, <2>3 DEF ControlInv
<1> QED
  BY <1>3, <1>4 DEF Timer

(* Trades and funds change neither sessions nor subscribers. *)
LEMMA TradingInv ==
  ASSUME ControlInv, Broadcast \/ BroadcastThrows \/ InsertFunds
  PROVE  ControlInv'
<1>1. UNCHANGED <<next_session_id, subscribers, zombies, next_cleanup, sessions, link, awaiting, since>>
  BY DEF Broadcast, BroadcastThrows, InsertFunds, manager
<1>2. SubscribersReady' /\ SessionsOfLinks'
  BY <1>1, Untouched DEF ControlInv
<1>3. rows' \subseteq Tables
  BY DEF Broadcast, BroadcastThrows, InsertFunds, ControlInv, ControlTypeOK, Tables
<1>4. broadcasts' \in 0 .. MaxTrades /\ cut' \subseteq 1 .. MaxTrades
  <2>1. broadcasts \in 0 .. MaxTrades /\ cut \subseteq 1 .. MaxTrades
    BY DEF ControlInv, ControlTypeOK
  <2>2. \/ broadcasts' = broadcasts /\ cut' = cut
        \/ /\ broadcasts < MaxTrades
           /\ broadcasts' = broadcasts + 1
           /\ cut' = cut \/ cut' = cut \cup {broadcasts + 1}
    BY DEF Broadcast, BroadcastThrows, InsertFunds, trading
  <2>3. broadcasts < MaxTrades => broadcasts + 1 \in 0 .. MaxTrades /\ broadcasts + 1 \in 1 .. MaxTrades
    BY <2>1, ControlAssumption
  <2>4. broadcasts' \in 0 .. MaxTrades
    BY <2>1, <2>2, <2>3
  <2>5. cut' \subseteq 1 .. MaxTrades
    BY <2>1, <2>2, <2>3, Zenon
  <2> QED
    BY <2>4, <2>5
<1>5. feed' \in [SessionIds -> SUBSET (1 .. MaxTrades)]
  <2>1. broadcasts < MaxTrades =>
          \A served : Feed(served) \in [SessionIds -> SUBSET (1 .. MaxTrades)]
    BY ControlAssumption DEF Feed, ControlInv, ControlTypeOK
  <2>2. CASE Broadcast
    BY <2>1, <2>2 DEF Broadcast
  <2>3. CASE BroadcastThrows
    BY <2>1, <2>3 DEF BroadcastThrows
  <2>4. CASE InsertFunds
    BY <2>4 DEF InsertFunds, trading, ControlInv, ControlTypeOK
  <2> QED
    BY <2>2, <2>3, <2>4
<1> QED
  BY <1>1, <1>2, <1>3, <1>4, <1>5 DEF ControlInv, ControlTypeOK

(* Whatever sessions, clients, the timer and trades do, in any order, the  *)
(* invariant of the control interface holds.                               *)
THEOREM ControlInvariant == Spec => []ControlInv
<1>1. ControlInv /\ [Next]_vars => ControlInv'
  <2> SUFFICES ASSUME ControlInv, [Next]_vars PROVE ControlInv'
    OBVIOUS
  <2>1. CASE UNCHANGED vars
    BY <2>1, Untouched DEF vars, ControlInv, ControlTypeOK
  <2>2. CASE Accept
    BY <2>2, AcceptInv
  <2>3. CASE TimerEvent
    BY <2>3, TimerInv, ControlAssumption DEF TimerEvent
  <2>4. CASE Broadcast \/ BroadcastThrows \/ InsertFunds
    BY <2>4, TradingInv
  <2>5. ASSUME NEW id \in SessionIds, NEW r \in Requests, Request(id, r) PROVE ControlInv'
    BY <2>5, RequestInv
  <2>6. ASSUME NEW id \in SessionIds,
               Upgrade(id) \/ UpgradeThrows(id) \/ Text(id) \/ Disconnected(id)
        PROVE  ControlInv'
    BY <2>6, UpgradeInv, ClosingInv, DisconnectedInv
  <2> QED
    BY <2>1, <2>2, <2>3, <2>4, <2>5, <2>6 DEF Next
<1> QED
  BY ControlInitInv, <1>1, PTL DEF Spec

(* Any number of sessions and trades: the subscribers are the READY        *)
(* sessions, so that assert(ready()) never fails.                          *)
THEOREM AssertReadyHolds == Spec => []SubscribersReady
BY ControlInvariant, PTL DEF ControlInv

-----------------------------------------------------------------------------
(* The feed of a websocket *)

(* What FeedComplete rests on: a session that is not yet upgraded has been *)
(* sent nothing, and an upgrade is not later than the last trade.          *)
Unfed == \A id \in SessionIds :
  /\ link[id] = "none" \/ sessions[id] = "WAITING" => feed[id] = {}
  /\ since[id] <= broadcasts

FeedInv == FeedComplete /\ Unfed

(* Steps that send nothing and upgrade no session keep it. *)
LEMMA SilentFeed ==
  ASSUME FeedInv, UNCHANGED <<broadcasts, cut, feed, since>>,
         \A id \in SessionIds :
           /\ sessions'[id] = "READY" => sessions[id] = "READY"
           /\ link'[id] = "none" \/ sessions'[id] = "WAITING" =>
                link[id] = "none" \/ sessions[id] = "WAITING"
  PROVE  FeedInv'
<1>1. FeedComplete'
  BY Zenon DEF FeedInv, FeedComplete
<1>2. Unfed'
  BY Zenon DEF FeedInv, Unfed
<1> QED
  BY <1>1, <1>2 DEF FeedInv

(* Clients, the manager and the timer. *)
LEMMA SessionFeed ==
  ASSUME ControlInv, FeedInv,
         \/ Accept \/ TimerEvent \/ InsertFunds
         \/ \E id \in SessionIds : \/ \E r \in Requests : Request(id, r)
                                   \/ UpgradeThrows(id) \/ Text(id) \/ Disconnected(id)
  PROVE  FeedInv'
<1> USE DEF ControlInv, ControlTypeOK
<1>1. UNCHANGED <<broadcasts, cut, feed, since>>
  BY DEF Accept, TimerEvent, Timer, InsertFunds, Request, UpgradeThrows, Text, Disconnected, trading
<1>2. CASE Accept
  <2>1. next_session_id + 1 \in SessionIds /\ link[next_session_id + 1] = "none"
    BY <1>2, ControlAssumption DEF Accept, SessionsOfLinks, SessionIds
  <2> QED
    BY <1>1, <1>2, <2>1, SilentFeed DEF Accept
<1>3. CASE TimerEvent
  BY <1>1, <1>3, SilentFeed DEF TimerEvent, Timer, remove_zombies
<1>4. CASE InsertFunds
  BY <1>1, <1>4, SilentFeed DEF InsertFunds
<1>5. ASSUME NEW id \in SessionIds,
             (\E r \in Requests : Request(id, r)) \/ UpgradeThrows(id) \/ Text(id)
      PROVE  FeedInv'
  <2>1. sessions' = sessions /\ (close(id) \/ UNCHANGED link)
    BY <1>5 DEF Request, Answer, send, UpgradeThrows, Text, process
  <2>2. \A j \in SessionIds : link'[j] = "none" => link[j] = "none"
    BY <2>1 DEF close
  <2> QED
    BY <1>1, <2>1, <2>2, SilentFeed
<1>6. ASSUME NEW id \in SessionIds, Disconnected(id)
      PROVE  FeedInv'
  BY <1>1, <1>6, SilentFeed DEF Disconnected
<1> QED
  BY <1>2, <1>3, <1>4, <1>5, <1>6

(* The feed of a session starts empty at its upgrade. *)
LEMMA UpgradeFeed ==
  ASSUME ControlInv, FeedInv, NEW id \in SessionIds, Upgrade(id)
  PROVE  FeedInv'
<1>1. /\ UNCHANGED <<broadcasts, cut, feed, link>>
      /\ sessions'[id] = "READY" /\ since'[id] = broadcasts /\ feed[id] = {}
      /\ link[id] = "open"
      /\ \A j \in SessionIds : j # id => sessions'[j] = sessions[j] /\ since'[j] = since[j]
  BY DEF Upgrade, Open, trading, ControlInv, ControlTypeOK, FeedInv, Unfed
<1>2. since'[id] + 1 .. broadcasts' = {}
  BY <1>1 DEF ControlInv, ControlTypeOK
<1>3. FeedComplete'
  BY <1>1, <1>2, Zenon DEF FeedInv, FeedComplete
<1>4. Unfed'
  <2>1. since'[id] <= broadcasts
    BY <1>1 DEF ControlInv, ControlTypeOK
  <2> QED
    BY <1>1, <2>1, Zenon DEF FeedInv, Unfed
<1> QED
  BY <1>3, <1>4 DEF FeedInv

(* A trade is sent to the READY sessions, unless sending is cut short. *)
LEMMA BroadcastFeed ==
  ASSUME ControlInv, FeedInv, Broadcast \/ BroadcastThrows
  PROVE  FeedInv'
<1> DEFINE n == broadcasts + 1
<1>1. /\ broadcasts' = n /\ UNCHANGED <<sessions, link, since>>
      /\ broadcasts \in Nat /\ feed \in [SessionIds -> SUBSET (1 .. MaxTrades)]
      /\ \A id \in SessionIds : since[id] \in Nat
  BY ControlAssumption DEF Broadcast, BroadcastThrows, ControlInv, ControlTypeOK
<1>2. Receivers = {id \in SessionIds : sessions[id] = "READY"}
  BY DEF Receivers, ControlInv, SubscribersReady
<1>3. PICK served \in SUBSET Receivers :
        /\ feed' = Feed(served)
        /\ (served = Receivers /\ cut' = cut) \/ cut' = cut \cup {n}
  BY DEF Broadcast, BroadcastThrows
<1>4. \A id \in SessionIds : feed'[id] = IF id \in served THEN feed[id] \cup {n} ELSE feed[id]
  BY <1>3 DEF Feed
<1>5. FeedComplete'
  <2> SUFFICES ASSUME NEW id \in SessionIds, sessions[id] = "READY"
               PROVE  /\ (since[id] + 1 .. n) \ cut' \subseteq feed'[id]
                      /\ feed'[id] \subseteq since[id] + 1 .. n
    BY <1>1 DEF FeedComplete
  <2>1. /\ (since[id] + 1 .. broadcasts) \ cut \subseteq feed[id]
        /\ feed[id] \subseteq since[id] + 1 .. broadcasts
    BY DEF FeedInv, FeedComplete
  <2>2. id \in Receivers
    BY <1>2
  <2>3. since[id] <= broadcasts
    BY DEF FeedInv, Unfed
  <2>4. since[id] + 1 .. n = (since[id] + 1 .. broadcasts) \cup {n}
    BY <1>1, <2>3
  <2> HIDE DEF n
  <2>5. (since[id] + 1 .. n) \ cut' \subseteq feed'[id]
    BY <1>3, <1>4, <2>1, <2>2, <2>4, Zenon
  <2>6. feed'[id] \subseteq since[id] + 1 .. n
    BY <1>4, <2>1, <2>4, Zenon
  <2> QED
    BY <2>5, <2>6
<1>6. Unfed'
  <2> SUFFICES ASSUME NEW id \in SessionIds, link[id] = "none" \/ sessions[id] = "WAITING"
               PROVE  feed'[id] = {}
    <3>1. \A id \in SessionIds : since[id] <= n
      BY <1>1 DEF FeedInv, Unfed
    <3> QED
      BY <1>1, <3>1 DEF Unfed
  <2>1. sessions[id] # "READY" /\ feed[id] = {}
    BY DEF FeedInv, Unfed, ControlInv, SessionsOfLinks
  <2> QED
    BY <1>2, <1>3, <1>4, <2>1, Zenon
<1> QED
  BY <1>5, <1>6 DEF FeedInv

(* Any number of sessions and trades: a websocket has been sent exactly    *)
(* the trades since its upgrade whose broadcast was not cut short.         *)
THEOREM FeedHolds == Spec => []FeedComplete
<1>1. Init => FeedInv
  BY ControlAssumption DEF Init, FeedInv, FeedComplete, Unfed
<1>2. ControlInv /\ FeedInv /\ [Next]_vars => FeedInv'
  <2> SUFFICES ASSUME ControlInv, FeedInv, [Next]_vars PROVE FeedInv'
    OBVIOUS
  <2>1. CASE UNCHANGED vars
    BY <2>1, SilentFeed DEF vars
  <2>2. CASE Broadcast \/ BroadcastThrows
    BY <2>2, BroadcastFeed
  <2>3. CASE \E id \in SessionIds : Upgrade(id)
    BY <2>3, UpgradeFeed
  <2> QED
    BY <2>1, <2>2, <2>3, SessionFeed, Zenon DEF Next
<1>3. FeedInv => FeedComplete
  BY DEF FeedInv
<1> QED
  BY ControlInvariant, <1>1, <1>2, <1>3, PTL DEF Spec
=============================================================================
