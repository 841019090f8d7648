------------------------------ MODULE Control ------------------------------
(***************************************************************************)
(* The control interface: control::Manager (control/manager.cpp), its      *)
(* sessions (control/session.cpp) and their responses                      *)
(* (control/response.cpp).  A session answers HTTP requests until it is    *)
(* upgraded to a websocket; from then on it is a subscriber and is sent    *)
(* every trade.  The web server and its clients are external: link is      *)
(* the state of a connection, and the end of a connection is reported by   *)
(* an event of its own.                                                    *)
(*                                                                         *)
(* Of the database only this is kept: which tables have rows.  Time is     *)
(* next_cleanup_ minus now, cut off below zero.                            *)
(***************************************************************************)
EXTENDS Integers, FiniteSets

CONSTANTS
  MaxSessions,        \* bound on the connections that are made
  MaxTrades,          \* bound on the trades that are broadcast
  Requests,           \* the HTTP requests of the clients
  CleanupFrequency    \* CLEANUP_FREQUENCY, in timer intervals

ASSUME ControlAssumption ==
  MaxSessions \in Nat /\ MaxTrades \in Nat /\ CleanupFrequency \in Nat

SessionIds == 1 .. MaxSessions
Tables == {"trades", "funds"}

VARIABLES
  next_session_id,
  sessions,           \* sessions_: the state_ of each session, "NONE" if there is none
  subscribers,
  zombies,
  next_cleanup,       \* next_cleanup_ - now
  link,               \* per session, its connection
  awaiting,           \* the sessions whose client awaits an answer
  broadcasts,         \* the number of trades broadcast
  cut,                \* the trades whose broadcast an exception has cut short
  since,              \* per session, the trades broadcast before its upgrade
  feed,               \* per session, the trades it has been sent
  rows                \* the tables that have rows

manager == <<next_session_id, subscribers, zombies, next_cleanup>>
trading == <<broadcasts, cut, feed>>
vars == <<next_session_id, sessions, subscribers, zombies, next_cleanup, link, awaiting,
          broadcasts, cut, since, feed, rows>>

Init ==
  /\ next_session_id = 0
  /\ sessions = [id \in SessionIds |-> "NONE"]
  /\ subscribers = {}
  /\ zombies = {}
  /\ next_cleanup = -1
  /\ link = [id \in SessionIds |-> "none"]
  /\ awaiting = {}
  /\ broadcasts = 0
  /\ cut = {}
  /\ since = [id \in SessionIds |-> 0]
  /\ feed = [id \in SessionIds |-> {}]
  /\ rows \in SUBSET Tables

-----------------------------------------------------------------------------
(* Requests.  A request has a method, the resource its path names after    *)
(* the prefix has been dropped ("" when the path is empty, has further     *)
(* parts or names none), the keys of its query, the value of its time      *)
(* parameter ("", "number" or "text") and a body ("", "valid" or           *)
(* "invalid").  A time parameter without a value is left out of the keys.  *)
(* Each handler gives the outcomes it may have: a status, or "throw".      *)
(* Every call of the database may throw.                                   *)

(* convert_to_timestamp throws. *)
BadTime(r) == r.time = "text"

(* The status of a query of a table, which may find nothing when it is     *)
(* filtered.                                                               *)
Found(table, filtered) ==
  {"throw"} \cup IF table \notin rows THEN {"NOT_FOUND"}
                 ELSE IF filtered THEN {"OK", "NOT_FOUND"} ELSE {"OK"}

SelectAccounts == Found("trades", FALSE)
SelectTrades(r) == Found("trades", r.query # {})
SelectFunds(r) == Found("funds", r.query # {})

get_accounts(r) == IF r.query # {} THEN {"throw"} ELSE SelectAccounts

(* The position queries return a row even from an empty table. *)
get_positions(r) == IF r.query # {} THEN {"throw"} ELSE {"OK", "throw"}

get_trades(r) ==
  IF ~(r.query \subseteq {"account", "start_time"}) \/ BadTime(r) THEN {"throw"}
  ELSE SelectTrades(r)

get_funds(r) ==
  IF ~(r.query \subseteq {"account", "currency"}) THEN {"throw"}
  ELSE SelectFunds(r)

(* A body that can be parsed is inserted, statement by statement. *)
put_trade(r) ==
  IF r.body = "" THEN {"NOT_FOUND"} ELSE IF r.body = "invalid" THEN {"throw"} ELSE {"OK", "throw"}

(* The end time comes from the query or from the body, and not from both.  *)
(* compress itself is empty.                                               *)
put_compress(r) ==
  IF \/ ~(r.query \subseteq {"end_time"})
     \/ r.body = "invalid"
     \/ r.body # "" /\ r.query # {}
     \/ r.time = ""
     \/ BadTime(r)
  THEN {"throw"} ELSE {"OK"}

(* A request that is not routed is not answered either. *)
route(r) ==
  IF r.method = "GET" /\ r.resource = "accounts" THEN get_accounts(r)
  ELSE IF r.method = "GET" /\ r.resource = "positions" THEN get_positions(r)
  ELSE IF r.method = "GET" /\ r.resource = "trades" THEN get_trades(r)
  ELSE IF r.method = "GET" /\ r.resource = "funds" THEN get_funds(r)
  ELSE IF r.method = "PUT" /\ r.resource = "trade" THEN put_trade(r)
  ELSE IF r.method = "PUT" /\ r.resource = "compress" THEN put_compress(r)
  ELSE {"none"}

Inserts(r) == r.method = "PUT" /\ r.resource = "trade" /\ r.body = "valid"

-----------------------------------------------------------------------------
(* Session *)

close(id) == link' = [link EXCEPT ![id] = "closing"]

(* Response::send closes the connection unless the status is OK and the    *)
(* client has asked for it to be kept.                                     *)
send(id, r, status) ==
  IF status = "OK" /\ r.keep_alive THEN UNCHANGED link ELSE close(id)

Open(id, st) == link[id] = "open" /\ sessions[id] = st /\ id \notin awaiting


(* The end of the request handler: the answer, or the end of the           *)
(* connection.  A request that is not routed gets neither; nobody awaits   *)
(* its answer in the model.                                                *)
Answer(id, r, outcome) ==
  /\ IF outcome = "none" THEN UNCHANGED link
     ELSE IF outcome = "throw" THEN close(id)
     ELSE send(id, r, outcome)
  /\ awaiting' = IF outcome = "throw" THEN awaiting \cup {id} ELSE awaiting

Request(id, r) ==
  /\ Open(id, "WAITING")
  /\ \E outcome \in route(r) :
       /\ Answer(id, r, outcome)
       /\ \/ ~Inserts(r) /\ UNCHANGED rows
          \/ Inserts(r) /\ rows' = rows \cup {"trades"}
          \/ Inserts(r) /\ outcome = "throw" /\ UNCHANGED rows
  /\ UNCHANGED <<manager, sessions, trading, since>>

(* Mutant of Upgraded: the session is not made a subscriber. *)
UpgradedNot(id) == UNCHANGED subscribers

(* Manager: a session has been upgraded. *)
Upgraded(id) == subscribers' = subscribers \cup {id}

(* A request to upgrade. *)
Upgrade(id) ==
  /\ Open(id, "WAITING")
  /\ sessions' = [sessions EXCEPT ![id] = "READY"]
  /\ Upgraded(id)
  /\ since' = [since EXCEPT ![id] = broadcasts]
  /\ UNCHANGED <<next_session_id, zombies, next_cleanup, link, awaiting, trading, rows>>

(* upgrade() throws. *)
UpgradeThrows(id) ==
  /\ Open(id, "WAITING")
  /\ close(id)
  /\ awaiting' = awaiting \cup {id}
  /\ UNCHANGED <<manager, sessions, trading, since, rows>>

(* A websocket message is answered with an error, or not at all when its   *)
(* id is neither a string nor a number ("odd"); a malformed one ends the   *)
(* connection.                                                             *)
process(id, message) == IF message = "malformed" THEN close(id) ELSE UNCHANGED link

Text(id) ==
  /\ Open(id, "READY")
  /\ \E message \in {"call", "odd", "malformed"} : process(id, message)
  /\ UNCHANGED <<manager, sessions, awaiting, trading, since, rows>>

(* Mutant of Detected: the session stays a subscriber. *)
DetectedSubscribed(id) ==
  /\ zombies' = zombies \cup {id}
  /\ UNCHANGED subscribers

(* Manager: a session's connection has ended. *)
Detected(id) ==
  /\ zombies' = zombies \cup {id}
  /\ subscribers' = subscribers \ {id}

(* The server reports the end of a connection. *)
Disconnected(id) ==
  /\ link[id] \in {"open", "closing"}
  /\ link' = [link EXCEPT ![id] = "closed"]
  /\ awaiting' = awaiting \ {id}
  /\ sessions' = [sessions EXCEPT ![id] = "ZOMBIE"]
  /\ Detected(id)
  /\ UNCHANGED <<next_session_id, next_cleanup, trading, since, rows>>

-----------------------------------------------------------------------------
(* Manager *)

(* A client connects. *)
Accept ==
  /\ next_session_id < MaxSessions
  /\ next_session_id' = next_session_id + 1
  /\ sessions' = [sessions EXCEPT ![next_session_id + 1] = "WAITING"]
  /\ link' = [link EXCEPT ![next_session_id + 1] = "open"]
  /\ UNCHANGED <<subscribers, zombies, next_cleanup, awaiting, trading, since, rows>>

(* Mutant of remove_zombies: the list of zombies is not cleared. *)
RemoveNotCleared ==
  /\ sessions' = [id \in SessionIds |-> IF id \in zombies THEN "NONE" ELSE sessions[id]]
  /\ UNCHANGED zombies

remove_zombies ==
  /\ sessions' = [id \in SessionIds |-> IF id \in zombies THEN "NONE" ELSE sessions[id]]
  /\ zombies' = {}

(* What is left of next_cleanup_ - now after a time d. *)
Left(d) == IF next_cleanup - d < 0 THEN -1 ELSE next_cleanup - d

(* Mutant of Timer: the comparison with next_cleanup_ is swapped. *)
TimerSwapped(d) ==
  /\ IF Left(d) > 0
     THEN next_cleanup' = CleanupFrequency /\ remove_zombies
     ELSE next_cleanup' = Left(d) /\ UNCHANGED <<sessions, zombies>>
  /\ UNCHANGED <<next_session_id, subscribers, link, awaiting, trading, since, rows>>

(* A timer event, the time d after the previous one. *)
Timer(d) ==
  /\ IF Left(d) < 0
     THEN next_cleanup' = CleanupFrequency /\ remove_zombies
     ELSE next_cleanup' = Left(d) /\ UNCHANGED <<sessions, zombies>>
  /\ UNCHANGED <<next_session_id, subscribers, link, awaiting, trading, since, rows>>

(* The sessions a trade is sent to: the subscribers that are found. *)
Receivers == {id \in subscribers : sessions[id] # "NONE"}

Feed(served) ==
  [id \in SessionIds |-> IF id \in served THEN feed[id] \cup {broadcasts + 1} ELSE feed[id]]

(* A trade: Controller hands it to the subscribers, then inserts it. *)
Broadcast ==
  /\ broadcasts < MaxTrades
  /\ broadcasts' = broadcasts + 1
  /\ feed' = Feed(Receivers)
  /\ rows' = rows \cup {"trades"}
  /\ UNCHANGED <<manager, sessions, link, awaiting, cut, since>>

(* Sending to one of the subscribers throws: the ones after it are not     *)
(* sent the trade, and Controller does not insert it.                      *)
BroadcastThrows ==
  /\ broadcasts < MaxTrades
  /\ Receivers # {}
  /\ broadcasts' = broadcasts + 1
  /\ \E served \in SUBSET Receivers : served # Receivers /\ feed' = Feed(served)
  /\ cut' = cut \cup {broadcasts + 1}
  /\ UNCHANGED <<manager, sessions, link, awaiting, since, rows>>

(* A funds update is inserted. *)
InsertFunds ==
  /\ rows' = rows \cup {"funds"}
  /\ UNCHANGED <<manager, sessions, link, awaiting, trading, since>>

-----------------------------------------------------------------------------
TimerEvent == \E d \in 1 .. CleanupFrequency + 1 : Timer(d)

Closed(id) == link[id] = "closing" /\ Disconnected(id)

Next ==
  \/ Accept
  \/ TimerEvent
  \/ Broadcast
  \/ BroadcastThrows
  \/ InsertFunds
  \/ \E id \in SessionIds :
       \/ \E r \in Requests : Request(id, r)
       \/ Upgrade(id)
       \/ UpgradeThrows(id)
       \/ Text(id)
       \/ Disconnected(id)

Spec == Init /\ [][Next]_vars

(* The timer fires, and a connection that is being closed ends. *)
Fairness == WF_vars(TimerEvent) /\ \A id \in SessionIds : WF_vars(Closed(id))

FairSpec == Spec /\ Fairness

-----------------------------------------------------------------------------
(* The type invariant. *)
ControlTypeOK ==
  /\ next_session_id \in 0 .. MaxSessions
  /\ sessions \in [SessionIds -> {"NONE", "WAITING", "READY", "ZOMBIE"}]
  /\ subscribers \subseteq SessionIds
  /\ zombies \subseteq SessionIds
  /\ next_cleanup \in -1 .. CleanupFrequency
  /\ link \in [SessionIds -> {"none", "open", "closing", "closed"}]
  /\ awaiting \subseteq SessionIds
  /\ broadcasts \in 0 .. MaxTrades
  /\ cut \subseteq 1 .. MaxTrades
  /\ since \in [SessionIds -> 0 .. MaxTrades]
  /\ feed \in [SessionIds -> SUBSET (1 .. MaxTrades)]
  /\ rows \subseteq Tables

(* The subscribers are the sessions that are READY, no more and no fewer:  *)
(* the assert(ready()) of Session's trade handler never fails, a session   *)
(* that was removed is no subscriber, and no websocket is left out.        *)
SubscribersReady == subscribers = {id \in SessionIds : sessions[id] = "READY"}

(* What SubscribersReady rests on: the sessions up to next_session_id_     *)
(* have had a connection, its end makes the session a zombie until it is   *)
(* removed, and the ids after that are new.                                *)
SessionsOfLinks ==
  \A id \in SessionIds :
    /\ id > next_session_id => link[id] = "none"
    /\ link[id] = "none" => sessions[id] = "NONE"
    /\ link[id] \in {"open", "closing"} => sessions[id] \in {"WAITING", "READY"}
    /\ link[id] = "closed" => sessions[id] \in {"ZOMBIE", "NONE"}
    /\ sessions[id] = "ZOMBIE" <=> id \in zombies

(* The inductive invariant of ControlProofs. *)
ControlInv == ControlTypeOK /\ SubscribersReady /\ SessionsOfLinks

(* A websocket that is READY has been sent every trade since its upgrade,  *)
(* and none from before it, however sessions come and go in between;       *)
(* except for trades whose broadcast was cut short by an exception.        *)
FeedComplete ==
  \A id \in SessionIds : sessions[id] = "READY" =>
    /\ (since[id] + 1 .. broadcasts) \ cut \subseteq feed[id]
    /\ feed[id] \subseteq since[id] + 1 .. broadcasts

(* A session whose connection has ended is removed in the end. *)
ZombiesRemoved ==
  \A id \in SessionIds : link[id] = "closed" ~> sessions[id] = "NONE"

=============================================================================
