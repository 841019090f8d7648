----------------------------- MODULE Controller -----------------------------
(***************************************************************************)
(* The risk manager's process: Controller (controller.cpp), Shared         *)
(* (shared.cpp), the accounts and users it owns (risk/account.cpp,         *)
(* risk/user.cpp), and its database.  One action per event handler.  The   *)
(* handlers run on one thread, so an action is a whole handler; a crash    *)
(* can fall between two statements of a handler, see Start and the         *)
(* parameter stored of TradeUpdate.                                        *)
(*                                                                         *)
(* Accounts and users go through the same code, twice.  The model calls    *)
(* either one an owner.  An instrument stands for exchange, symbol and the *)
(* instrument id that get_instrument_id allocates for the two.             *)
(***************************************************************************)
EXTENDS Position, Trades

CONSTANTS
  Sources,      \* the gateways, numbered from 0
  Accounts,     \* the accounts of the config file
  Users,        \* every user that trades
  ConfigUsers,  \* the users of the config file
  Instruments,
  Described,    \* the instruments whose reference data has a min_trade_vol
  Strategies,   \* strategy ids, 0 for none
  Fills,        \* what a trade update can carry: functions from ids to quantities
  TradeIds,     \* the external trade ids
  None          \* the empty account name, and NULL

Owners == Accounts \cup ConfigUsers

(* Sums of fills are numbers: a fact about every finite set of integers,   *)
(* stated here for the proofs.                                             *)
ASSUME FillsAssumption ==
  \A f \in Fills : /\ DOMAIN f \subseteq TradeIds
                   /\ DOMAIN f # {}
                   /\ \A id \in DOMAIN f : f[id] \in Nat
                   /\ \A S \in SUBSET DOMAIN f : SumFunctionOnSet(f, S) \in Int

ASSUME NamesAssumption ==
  /\ Sources \subseteq Nat
  /\ Strategies \subseteq Nat
  /\ ConfigUsers \subseteq Users
  /\ Accounts \cap Users = {}
  /\ Described \subseteq Instruments
  /\ None \notin Owners
  /\ NoTradeId \notin TradeIds

VARIABLES
  instruments,             \* the instruments registered with get_instrument
  held,                    \* per owner, the instruments it has a position in
  positions,               \* per owner and instrument, the Position
  publish,                 \* per owner, publish_by_account_ / publish_by_user_
  last_exchange_time_utc,
  state,                   \* state_, per source
  outbox,                  \* per source, the RiskLimits given to the dispatcher
  trades                   \* the trades table of the database

shared == <<instruments, held, positions, publish>>
memory == <<instruments, held, positions, publish, last_exchange_time_utc, state, outbox>>
controllerVars == <<instruments, held, positions, publish, last_exchange_time_utc, state,
                    outbox, trades>>

Side == {"BUY", "SELL"}

TradeUpdates ==
  [user : Users, strategy_id : Strategies, account : Accounts, instrument : Instruments,
   side : Side, create_time_utc : Nat \ {0}, fills : Fills]

Corrections ==
  [user : Users, strategy_id : Strategies, account : Accounts, instrument : Instruments,
   side : Side, quantity : Nat, exchange_time_utc : Nat]

Rows ==
  [user : Users, strategy_id : Strategies, account : Accounts, instrument : Instruments,
   side : Side, quantity : Nat, exchange_time_utc : Nat \ {0},
   external_trade_id : TradeIds \cup {NoTradeId}, type : {"EXCHANGE", "MANUAL"}]

Positions ==
  [quantity : Int, long_position : Int, short_position : Int, fills : SUBSET TradeIds]

(* database::Position, what a row of the queries is read into. *)
DatabasePositions(names) ==
  [name : names, instrument : Instruments \cup {None}, long_quantity : Int,
   short_quantity : Int, exchange_time_utc : Nat]

States ==
  [session_id : Nat, seqno : Nat, ready : BOOLEAN, latch_by_account : SUBSET Accounts]

RiskLimitItems == [instrument : Instruments, long_position : Int, short_position : Int]

RiskLimitsBatches ==
  [session_id : Nat, seqno : Nat, limits : [Owners -> SUBSET RiskLimitItems]]

-----------------------------------------------------------------------------
(* Start and restart *)

NoState == [session_id |-> 0, seqno |-> 0, ready |-> FALSE, latch_by_account |-> {}]

(* load_positions: the row of the user query goes to its user, that of the *)
(* account query to its account, unless it is NULL or not configured.  The *)
(* row of the strategy query goes nowhere, only its time counts.           *)
LoadPositions(user_row, strategy_row, account_row) ==
  LET row(o) == IF o \in Accounts THEN account_row ELSE user_row
      times == {user_row.exchange_time_utc, strategy_row.exchange_time_utc,
                account_row.exchange_time_utc}
  IN
  /\ held' = [o \in Owners |-> IF row(o).name = o THEN {row(o).instrument} ELSE {}]
  /\ instruments' = UNION {held'[o] : o \in Owners}
  /\ positions' = [o \in Owners |-> [i \in Instruments |->
                     IF i \in held'[o] THEN LoadPosition(NewPosition, row(o))
                                       ELSE NewPosition]]
  /\ last_exchange_time_utc' \in {t \in times : \A u \in times : u <= t}

(* The constructor, run over the given table: by the first start, and by   *)
(* the start that follows a crash.                                         *)
Start(table) ==
  /\ trades' = table
  /\ \E user_row \in SelectPositionsByUser(table, None),
        strategy_row \in SelectPositionsByStrategy(table, None),
        account_row \in SelectPositionsByAccount(table, None) :
       /\ user_row \in DatabasePositions(Users \cup {None})
       /\ strategy_row \in DatabasePositions(Strategies \cup {None})
       /\ account_row \in DatabasePositions(Accounts \cup {None})
       /\ LoadPositions(user_row, strategy_row, account_row)
  /\ publish' = [o \in Owners |-> {}]
  /\ state' = [s \in Sources |-> NoState]
  /\ outbox' = [s \in Sources |-> <<>>]

(* The first start finds a new database. *)
ControllerInit ==
  /\ trades = {}
  /\ instruments = {}
  /\ held = [o \in Owners |-> {}]
  /\ positions = [o \in Owners |-> [i \in Instruments |-> NewPosition]]
  /\ publish = [o \in Owners |-> {}]
  /\ last_exchange_time_utc = 0
  /\ state = [s \in Sources |-> NoState]
  /\ outbox = [s \in Sources |-> <<>>]

-----------------------------------------------------------------------------
(* Event handlers.  info is the MessageInfo of the event: the session id   *)
(* and the sequence number of the source.                                  *)

(* operator()(MessageInfo) *)
WithMessageInfo(st, info) ==
  [session_id |-> info.session_id, seqno |-> info.seqno, ready |-> st.ready,
   latch_by_account |-> st.latch_by_account]

AsReady(st, ready) == [st EXCEPT !.ready = ready]

Latch(st, names) == [st EXCEPT !.latch_by_account = @ \cup names]

(* What was given to the dispatcher and not yet delivered is lost with the *)
(* connection.                                                             *)
DropOutbox(s) == outbox' = [outbox EXCEPT ![s] = <<>>]

(* Mutant of Disconnected: the source stays ready. *)
DisconnectedStaysReady(s) ==
  /\ state' = [state EXCEPT ![s] = AsReady(NoState, state[s].ready)]
  /\ DropOutbox(s)
  /\ UNCHANGED <<shared, last_exchange_time_utc, trades>>

(* Mutant of Disconnected: the latches survive the connection. *)
DisconnectedKeepsLatch(s) ==
  /\ state' = [state EXCEPT ![s] = Latch(NoState, state[s].latch_by_account)]
  /\ DropOutbox(s)
  /\ UNCHANGED <<shared, last_exchange_time_utc, trades>>

Disconnected(s) ==
  /\ state' = [state EXCEPT ![s] = NoState]
  /\ DropOutbox(s)
  /\ UNCHANGED <<shared, last_exchange_time_utc, trades>>

DownloadBegin(s, info, account) ==
  /\ state' = [state EXCEPT ![s] = WithMessageInfo(@, info)]
  /\ UNCHANGED <<shared, last_exchange_time_utc, outbox, trades>>

(* The end of an account's first download in this connection marks all     *)
(* registered instruments for publication.                                 *)
DownloadEnd(s, info, account) ==
  \/ /\ \/ account = None
        \/ account \in state[s].latch_by_account
     /\ state' = [state EXCEPT ![s] = WithMessageInfo(@, info)]
     /\ UNCHANGED <<shared, last_exchange_time_utc, outbox, trades>>
  \/ /\ account # None
     /\ account \notin state[s].latch_by_account
     /\ state' = [state EXCEPT ![s] = Latch(WithMessageInfo(@, info), {account})]
     /\ publish' = [publish EXCEPT ![account] = @ \cup instruments]
     /\ UNCHANGED <<instruments, held, positions, last_exchange_time_utc, outbox, trades>>

(* The first Ready of a connection marks all registered instruments of all *)
(* users for publication.                                                  *)
Ready(s, info) ==
  /\ state' = [state EXCEPT ![s] = AsReady(WithMessageInfo(@, info), TRUE)]
  /\ publish' = IF state[s].ready THEN publish
                ELSE [o \in Owners |-> IF o \in ConfigUsers THEN publish[o] \cup instruments
                                                            ELSE publish[o]]
  /\ UNCHANGED <<instruments, held, positions, last_exchange_time_utc, outbox, trades>>

(* Mutant of ReferenceData: the instrument is not registered. *)
ReferenceDataUnregistered(i) ==
  /\ held' = IF i \in Described THEN [o \in Owners |-> held[o] \cup {i}] ELSE held
  /\ UNCHANGED <<instruments, positions, publish, last_exchange_time_utc, state, outbox, trades>>

(* Reference data registers the instrument.  With a min_trade_vol it also  *)
(* gives every owner a position.  It leaves the source's seqno alone.      *)
ReferenceData(i) ==
  /\ instruments' = instruments \cup {i}
  /\ held' = IF i \in Described THEN [o \in Owners |-> held[o] \cup {i}] ELSE held
  /\ UNCHANGED <<positions, publish, last_exchange_time_utc, state, outbox, trades>>

(* The configured owners of a trade: its account, and its user. *)
OwnersOf(tu) == {tu.account, tu.user} \cap Owners

(* Mutant of Accepted: off by one. *)
AcceptedLate(tu) == tu.create_time_utc > last_exchange_time_utc + 1

(* Trades not after the last exchange time that was loaded are dropped. *)
Accepted(tu) == tu.create_time_utc > last_exchange_time_utc

(* Mutant of Marked: a trade is not marked for publication. *)
NotMarked(tu) == publish

(* What is marked for publication after a trade. *)
Marked(tu) ==
  [o \in Owners |-> IF o \in OwnersOf(tu) THEN publish[o] \cup {tu.instrument} ELSE publish[o]]

(* dispatch of risk::Account and risk::User: register the instrument, find *)
(* or create the position, apply the trade and mark it for publication.    *)
DispatchTrade(tu) ==
  LET i == tu.instrument IN
  /\ instruments' = IF OwnersOf(tu) = {} THEN instruments ELSE instruments \cup {i}
  /\ held' = [o \in Owners |-> IF o \in OwnersOf(tu) THEN held[o] \cup {i} ELSE held[o]]
  /\ positions' = [o \in Owners |->
                     IF o \in OwnersOf(tu)
                     THEN [positions[o] EXCEPT ![i] = TradePosition(positions[o][i], tu)]
                     ELSE positions[o]]
  /\ publish' = Marked(tu)

(* stored are the fills whose insert has succeeded: all of them, or fewer  *)
(* when a statement throws, or none when sending a trade to a subscriber   *)
(* throws first.  The handler ignores the exception.                       *)
TradeUpdate(s, info, tu, stored) ==
  /\ state' = [state EXCEPT ![s] = WithMessageInfo(@, info)]
  /\ \/ /\ ~Accepted(tu)
        /\ UNCHANGED <<shared, trades>>
     \/ /\ Accepted(tu)
        /\ DispatchTrade(tu)
        /\ trades' = InsertTrades(trades, tu, stored)
  /\ UNCHANGED <<last_exchange_time_utc, outbox>>

RiskLimit(o, i) ==
  [instrument |-> i, long_position |-> positions[o][i].long_position,
   short_position |-> positions[o][i].short_position]

(* get_publish_by_account / get_publish_by_user: the marked instruments    *)
(* the owner has a position in, with what is published of each.            *)
Publishable(o) == {RiskLimit(o, i) : i \in publish[o] \cap held[o]}

(* Mutant of Publish: a batch overtakes those that wait. *)
PublishOvertakes(s) ==
  IF \A o \in Owners : Publishable(o) = {} THEN outbox[s]
  ELSE <<[session_id |-> state[s].session_id, seqno |-> state[s].seqno,
          limits |-> [o \in Owners |-> Publishable(o)]]>> \o outbox[s]

(* publish_accounts and publish_users: one RiskLimits per owner that has   *)
(* something to publish.  What one timer event sends is kept together as   *)
(* a batch, and an owner without limits in it is sent nothing.             *)
Publish(s) ==
  IF \A o \in Owners : Publishable(o) = {} THEN outbox[s]
  ELSE Append(outbox[s], [session_id |-> state[s].session_id, seqno |-> state[s].seqno,
                          limits |-> [o \in Owners |-> Publishable(o)]])

(* The sources are visited in order and the first ready one clears the     *)
(* marks: there is nothing left to publish to the ones after it.           *)
FirstReady(s) == state[s].ready /\ \A r \in Sources : r < s => ~state[r].ready

(* Mutant of Timer: limits are published before Ready. *)
TimerNotReady ==
  /\ outbox' = [s \in Sources |-> IF state[s].seqno > 0 THEN Publish(s) ELSE outbox[s]]
  /\ publish' = [o \in Owners |-> {}]
  /\ UNCHANGED <<instruments, held, positions, last_exchange_time_utc, state, trades>>

(* Mutant of Timer: the marks are cleared while no source is ready. *)
TimerForgets ==
  /\ outbox' = [s \in Sources |-> IF FirstReady(s) THEN Publish(s) ELSE outbox[s]]
  /\ publish' = [o \in Owners |-> {}]
  /\ UNCHANGED <<instruments, held, positions, last_exchange_time_utc, state, trades>>

Timer ==
  /\ outbox' = [s \in Sources |-> IF FirstReady(s) THEN Publish(s) ELSE outbox[s]]
  /\ publish' = IF \E s \in Sources : state[s].ready THEN [o \in Owners |-> {}] ELSE publish
  /\ UNCHANGED <<instruments, held, positions, last_exchange_time_utc, state, trades>>

(* PUT /trade of the control interface: corrections go to the database and *)
(* nowhere else.  batch is what the insert reads, see ReadBack.  The first *)
(* n of it are inserted, fewer than all when a statement throws.  Requests *)
(* are handled from context_.drain() of the timer event; as they touch     *)
(* only the database, the publication that follows does not depend on      *)
(* them, and they are an action of their own.                              *)
PutTrade(batch, n, now) ==
  /\ trades' = InsertCorrections(trades, SubSeq(batch, 1, n), now)
  /\ UNCHANGED memory

-----------------------------------------------------------------------------
(* The type invariant. *)
ControllerTypeOK ==
  /\ instruments \subseteq Instruments
  /\ held \in [Owners -> SUBSET Instruments]
  /\ positions \in [Owners -> [Instruments -> Positions]]
  /\ publish \in [Owners -> SUBSET Instruments]
  /\ last_exchange_time_utc \in Nat
  /\ state \in [Sources -> States]
  /\ outbox \in [Sources -> Seq(RiskLimitsBatches)]
  /\ trades \subseteq Rows

(* The lines marked "XXX should never happen" of get_publish_by_account    *)
(* and get_publish_by_user are never reached: what is marked for           *)
(* publication, and what an owner holds, is a registered instrument.       *)
MarkedAreRegistered ==
  \A o \in Owners : publish[o] \cup held[o] \subseteq instruments
=============================================================================
