------------------------------- MODULE System -------------------------------
(***************************************************************************)
(* The risk manager and its gateways.  The gateway is not part of this     *)
(* repository: it is modelled from the events the controller handles and   *)
(* from the design section of README.md.                                   *)
(*                                                                         *)
(* A gateway executes trades, keeps its own net position, and numbers      *)
(* every message it emits.  On a new connection it downloads, in one       *)
(* burst, the reference data, the trades of each account and Ready.  Later *)
(* trades follow live.  Messages of one connection arrive in order; those  *)
(* in flight are lost when it breaks.                                      *)
(***************************************************************************)
EXTENDS Controller

CONSTANTS
  Home,       \* the gateway of each account
  Late,       \* instruments that are listed while the system runs
  Batches,    \* the batches of corrections a user may submit
  Bound       \* bounds on what the environment does, see Budgets

Budgets == {"trades", "corrections", "disconnects", "gateway_restarts", "crashes",
            "db_errors", "redownloads"}

ASSUME SystemAssumption ==
  /\ Home \in [Accounts -> Sources]
  /\ Late \subseteq Instruments
  /\ Batches \subseteq Seq(Corrections)
  /\ Bound \in [Budgets -> Nat]
  /\ TradeIds \subseteq (Nat \ {0}) \X Nat

VARIABLES
  session,    \* the gateway's session id, new with each start of the gateway
  phase,      \* of the connection
  listed,     \* the instruments of the gateway
  refs,       \* reference data still to be downloaded
  accounts,   \* accounts still to be downloaded
  current,    \* the account whose trades are being downloaded, or None
  cursor,     \* how far in the log that download has come
  log,        \* the trades executed, in the order of execution
  net,        \* the gateway's net position, of each owner and instrument
  journal,    \* history: net and Len(log) at each sequence number
  downlink,   \* messages to the risk manager
  limits,     \* the last risk limits received, seqno 0 if none
  clock,      \* exchange time, also the clock of the risk manager's host
  used        \* what has been used of each budget

download == <<phase, refs, accounts, current, cursor>>
history == <<log, net, journal>>
vars == <<controllerVars, session, phase, listed, refs, accounts, current, cursor, log, net,
          journal, downlink, limits, clock, used>>

Messages ==
       [type : {"DownloadBegin", "DownloadEnd"}, seqno : Nat, value : Accounts \cup {None}]
  \cup [type : {"ReferenceData"}, seqno : Nat, value : Instruments]
  \cup [type : {"TradeUpdate"}, seqno : Nat, value : Nat]
  \cup [type : {"Ready"}, seqno : Nat, value : {None}]

NetPositions == [Owners -> [Instruments -> Int]]

Records == [net : NetPositions, count : Nat]

NoLimit == [seqno |-> 0, long_position |-> 0, short_position |-> 0]
Limits == [seqno : Nat, long_position : Int, short_position : Int]

Init ==
  /\ ControllerInit
  /\ session = [s \in Sources |-> 1]
  /\ phase = [s \in Sources |-> "down"]
  /\ listed = [s \in Sources |-> Instruments \ Late]
  /\ refs = [s \in Sources |-> {}]
  /\ accounts = [s \in Sources |-> {}]
  /\ current = [s \in Sources |-> None]
  /\ cursor = [s \in Sources |-> 0]
  /\ log = [s \in Sources |-> <<>>]
  /\ net = [s \in Sources |-> [o \in Owners |-> [i \in Instruments |-> 0]]]
  /\ journal = [s \in Sources |-> <<>>]
  /\ downlink = [s \in Sources |-> <<>>]
  /\ limits = [s \in Sources |-> [o \in Owners |-> [i \in Instruments |-> NoLimit]]]
  /\ clock = 0
  /\ used = [b \in Budgets |-> 0]

Spend(b) ==
  /\ used[b] < Bound[b]
  /\ used' = [used EXCEPT ![b] = @ + 1]

-----------------------------------------------------------------------------
(* Gateway: download *)

(* A download is one burst of the gateway: nothing else happens between    *)
(* its messages being sent.  They are delivered one by one.                *)
Idle == \A s \in Sources : phase[s] \in {"down", "ready"}

(* The gateway's position as of its next sequence number. *)
Record(position, trade_count) == [net |-> position, count |-> trade_count]

Message(s, type, value) ==
  [type |-> type, seqno |-> Len(journal[s]) + 1, value |-> value]

Send(s, type, value) ==
  /\ journal' = [journal EXCEPT ![s] = Append(@, Record(net[s], Len(log[s])))]
  /\ downlink' = [downlink EXCEPT ![s] = Append(@, Message(s, type, value))]

Connect(s) ==
  /\ Idle
  /\ phase[s] = "down"
  /\ phase' = [phase EXCEPT ![s] = "reference"]
  /\ refs' = [refs EXCEPT ![s] = listed[s]]
  /\ accounts' = [accounts EXCEPT ![s] = {a \in Accounts : Home[a] = s}]
  /\ Send(s, "DownloadBegin", None)
  /\ UNCHANGED <<controllerVars, session, listed, current, cursor, log, net, limits, clock, used>>

DownloadReferenceData(s, i) ==
  /\ phase[s] = "reference"
  /\ i \in refs[s]
  /\ refs' = [refs EXCEPT ![s] = @ \ {i}]
  /\ Send(s, "ReferenceData", i)
  /\ UNCHANGED <<controllerVars, session, phase, listed, accounts, current, cursor, log, net,
                 limits, clock, used>>

EndReferenceData(s) ==
  /\ phase[s] = "reference"
  /\ refs[s] = {}
  /\ phase' = [phase EXCEPT ![s] = "accounts"]
  /\ Send(s, "DownloadEnd", None)
  /\ UNCHANGED <<controllerVars, session, listed, refs, accounts, current, cursor, log, net,
                 limits, clock, used>>

BeginAccount(s, a) ==
  /\ phase[s] = "accounts"
  /\ current[s] = None
  /\ a \in accounts[s]
  /\ current' = [current EXCEPT ![s] = a]
  /\ cursor' = [cursor EXCEPT ![s] = 0]
  /\ Send(s, "DownloadBegin", a)
  /\ UNCHANGED <<controllerVars, session, phase, listed, refs, accounts, log, net, limits,
                 clock, used>>

(* The next trade of the account, in the order of execution. *)
DownloadTrade(s, k) ==
  /\ current[s] # None
  /\ k > cursor[s]
  /\ log[s][k].account = current[s]
  /\ \A j \in (cursor[s] + 1) .. (k - 1) : log[s][j].account # current[s]
  /\ cursor' = [cursor EXCEPT ![s] = k]
  /\ Send(s, "TradeUpdate", k)
  /\ UNCHANGED <<controllerVars, session, phase, listed, refs, accounts, current, log, net,
                 limits, clock, used>>

EndAccount(s) ==
  /\ current[s] # None
  /\ \A j \in (cursor[s] + 1) .. Len(log[s]) : log[s][j].account # current[s]
  /\ accounts' = [accounts EXCEPT ![s] = @ \ {current[s]}]
  /\ current' = [current EXCEPT ![s] = None]
  /\ Send(s, "DownloadEnd", current[s])
  /\ UNCHANGED <<controllerVars, session, phase, listed, refs, cursor, log, net, limits, clock,
                 used>>

SendReady(s) ==
  /\ phase[s] = "accounts"
  /\ current[s] = None
  /\ accounts[s] = {}
  /\ phase' = [phase EXCEPT ![s] = "ready"]
  /\ Send(s, "Ready", None)
  /\ UNCHANGED <<controllerVars, session, listed, refs, accounts, current, cursor, log, net,
                 limits, clock, used>>

-----------------------------------------------------------------------------
(* Gateway: trading, and the links *)

FillsAt(t) == {f \in Fills : \A id \in DOMAIN f : id[1] = t}

NetAfter(n, tu) ==
  [o \in Owners |->
     IF o \in OwnersOf(tu)
     THEN [n[o] EXCEPT ![tu.instrument] =
             @ + sign(tu.side) * SumFunctionOnSet(tu.fills, DOMAIN tu.fills)]
     ELSE n[o]]

(* A trade is executed.  Exchange times increase strictly.  It goes out    *)
(* live when the download is complete; without a connection it takes a     *)
(* sequence number and is left to the next download.                       *)
Execute(s, tu) ==
  /\ Idle
  /\ Home[tu.account] = s
  /\ tu.instrument \in listed[s]
  /\ tu.create_time_utc = clock + 1
  /\ tu.fills \in FillsAt(clock + 1)
  /\ Spend("trades")
  /\ clock' = clock + 1
  /\ log' = [log EXCEPT ![s] = Append(@, tu)]
  /\ net' = [net EXCEPT ![s] = NetAfter(@, tu)]
  /\ journal' = [journal EXCEPT ![s] =
                   Append(@, Record(NetAfter(net[s], tu), Len(log[s]) + 1))]
  /\ downlink' = IF phase[s] = "down" THEN downlink
                 ELSE [downlink EXCEPT ![s] =
                         Append(@, Message(s, "TradeUpdate", Len(log[s]) + 1))]
  /\ UNCHANGED <<controllerVars, session, phase, listed, refs, accounts, current, cursor, limits>>

(* The trades the gateway may execute next. *)
NextTrades(s) ==
  [user : Users, strategy_id : Strategies, account : {a \in Accounts : Home[a] = s},
   instrument : listed[s], side : Side, create_time_utc : {clock + 1}, fills : FillsAt(clock + 1)]

(* A new instrument: its reference data is sent live. *)
ListInstrument(s, i) ==
  /\ Idle
  /\ phase[s] = "ready"
  /\ i \in Late \ listed[s]
  /\ listed' = [listed EXCEPT ![s] = @ \cup {i}]
  /\ Send(s, "ReferenceData", i)
  /\ UNCHANGED <<controllerVars, session, phase, refs, accounts, current, cursor, log, net,
                 limits, clock, used>>

(* The gateway downloads an account again, after it has lost the exchange. *)
Redownload(s, a) ==
  /\ Idle
  /\ phase[s] = "ready"
  /\ Home[a] = s
  /\ Spend("redownloads")
  /\ phase' = [phase EXCEPT ![s] = "accounts"]
  /\ accounts' = [accounts EXCEPT ![s] = {a}]
  /\ UNCHANGED <<controllerVars, session, listed, refs, current, cursor, log, net, journal,
                 downlink, limits, clock>>

(* What is left of connections to the sources S. *)
Drop(S) ==
  /\ phase' = [s \in Sources |-> IF s \in S THEN "down" ELSE phase[s]]
  /\ current' = [s \in Sources |-> IF s \in S THEN None ELSE current[s]]
  /\ downlink' = [s \in Sources |-> IF s \in S THEN <<>> ELSE downlink[s]]

(* The connection breaks. *)
Disconnect(s) ==
  /\ Idle
  /\ phase[s] # "down"
  /\ Spend("disconnects")
  /\ Drop({s})
  /\ Disconnected(s)
  /\ UNCHANGED <<session, listed, refs, accounts, cursor, log, net, journal, limits, clock>>

(* The gateway restarts, with a new session and without limits.  It has    *)
(* the trades again from the exchange.                                     *)
GatewayRestart(s) ==
  /\ Idle
  /\ Spend("gateway_restarts")
  /\ session' = [session EXCEPT ![s] = @ + 1]
  /\ journal' = [journal EXCEPT ![s] = <<>>]
  /\ limits' = [limits EXCEPT ![s] = [o \in Owners |-> [i \in Instruments |-> NoLimit]]]
  /\ Drop({s})
  /\ Disconnected(s)
  /\ UNCHANGED <<listed, refs, accounts, cursor, log, net, clock>>

(* What a batch says about an owner and an instrument. *)
About(m, o, i) == {l \in m.limits[o] : l.instrument = i}

Received(m, o, i) ==
  LET l == CHOOSE l \in About(m, o, i) : TRUE IN
  [seqno |-> m.seqno, long_position |-> l.long_position, short_position |-> l.short_position]

(* The gateway receives risk limits. *)
ReceiveLimits(s) ==
  /\ Idle
  /\ outbox[s] # <<>>
  /\ LET m == Head(outbox[s]) IN
     limits' = [limits EXCEPT ![s] = [o \in Owners |-> [i \in Instruments |->
                  IF About(m, o, i) = {} THEN limits[s][o][i] ELSE Received(m, o, i)]]]
  /\ outbox' = [outbox EXCEPT ![s] = Tail(@)]
  /\ UNCHANGED <<shared, last_exchange_time_utc, state, trades, session, download, listed,
                 history, downlink, clock, used>>

-----------------------------------------------------------------------------
(* Risk manager: the events it receives *)

Pending(s, type) == downlink[s] # <<>> /\ Head(downlink[s]).type = type

Info(s) == [session_id |-> session[s], seqno |-> Head(downlink[s]).seqno]

Pop(s) ==
  /\ downlink' = [downlink EXCEPT ![s] = Tail(@)]
  /\ UNCHANGED <<session, download, listed, history, limits, clock>>

DeliverDownloadBegin(s) ==
  /\ Idle
  /\ Pending(s, "DownloadBegin")
  /\ DownloadBegin(s, Info(s), Head(downlink[s]).value)
  /\ Pop(s)
  /\ UNCHANGED used

DeliverDownloadEnd(s) ==
  /\ Idle
  /\ Pending(s, "DownloadEnd")
  /\ DownloadEnd(s, Info(s), Head(downlink[s]).value)
  /\ Pop(s)
  /\ UNCHANGED used

DeliverReady(s) ==
  /\ Idle
  /\ Pending(s, "Ready")
  /\ Ready(s, Info(s))
  /\ Pop(s)
  /\ UNCHANGED used

DeliverReferenceData(s) ==
  /\ Idle
  /\ Pending(s, "ReferenceData")
  /\ ReferenceData(Head(downlink[s]).value)
  /\ Pop(s)
  /\ UNCHANGED used

HeadTrade(s) == log[s][Head(downlink[s]).value]

DeliverTradeUpdate(s) ==
  /\ Idle
  /\ Pending(s, "TradeUpdate")
  /\ TradeUpdate(s, Info(s), HeadTrade(s), DOMAIN HeadTrade(s).fills)
  /\ Pop(s)
  /\ UNCHANGED used

(* A statement fails and the exception is swallowed. *)
DeliverTradeUpdateDbError(s) ==
  /\ Idle
  /\ Pending(s, "TradeUpdate")
  /\ Spend("db_errors")
  /\ \E stored \in SUBSET DOMAIN HeadTrade(s).fills :
       /\ stored # DOMAIN HeadTrade(s).fills
       /\ TradeUpdate(s, Info(s), HeadTrade(s), stored)
  /\ Pop(s)

TimerEvent ==
  /\ Idle
  /\ Timer
  /\ UNCHANGED <<session, download, listed, history, downlink, limits, clock, used>>

(* A user submits corrections through the control interface. *)
Correct(batch) ==
  /\ Idle
  /\ Spend("corrections")
  /\ clock' = clock + 1
  /\ \E read \in ReadBack(batch, Users, Accounts, Instruments) :
       PutTrade(read, Len(read), clock + 1)
  /\ UNCHANGED <<session, download, listed, history, downlink, limits>>

(* The same, and the n-th statement fails. *)
CorrectDbError(batch) ==
  /\ Idle
  /\ used["corrections"] < Bound["corrections"]
  /\ used["db_errors"] < Bound["db_errors"]
  /\ used' = [used EXCEPT !["corrections"] = @ + 1, !["db_errors"] = @ + 1]
  /\ clock' = clock + 1
  /\ \E read \in ReadBack(batch, Users, Accounts, Instruments) :
       \E n \in 0 .. (Len(read) - 1) : PutTrade(read, n, clock + 1)
  /\ UNCHANGED <<session, download, listed, history, downlink, limits>>

(* The risk manager crashes between two events, and restarts. *)
Crash ==
  /\ Idle
  /\ Spend("crashes")
  /\ Start(trades)
  /\ Drop(Sources)
  /\ UNCHANGED <<session, listed, refs, accounts, cursor, log, net, journal, limits, clock>>

(* The risk manager crashes while it inserts the fills of a trade update. *)
CrashInTradeUpdate(s) ==
  /\ Idle
  /\ Pending(s, "TradeUpdate")
  /\ Accepted(HeadTrade(s))
  /\ Spend("crashes")
  /\ \E stored \in SUBSET DOMAIN HeadTrade(s).fills :
       Start(InsertTrades(trades, HeadTrade(s), stored))
  /\ Drop(Sources)
  /\ UNCHANGED <<session, listed, refs, accounts, cursor, log, net, journal, limits, clock>>

-----------------------------------------------------------------------------
GatewayDownload(s) ==
  \/ \E i \in Instruments : DownloadReferenceData(s, i)
  \/ EndReferenceData(s)
  \/ \E a \in Accounts : BeginAccount(s, a)
  \/ \E k \in 1 .. Len(log[s]) : DownloadTrade(s, k)
  \/ EndAccount(s)
  \/ SendReady(s)

Deliver(s) ==
  \/ DeliverDownloadBegin(s)
  \/ DeliverDownloadEnd(s)
  \/ DeliverReady(s)
  \/ DeliverReferenceData(s)
  \/ DeliverTradeUpdate(s)

Next ==
  \/ \E s \in Sources :
       \/ Connect(s)
       \/ GatewayDownload(s)
       \/ \E tu \in NextTrades(s) : Execute(s, tu)
       \/ \E i \in Instruments : ListInstrument(s, i)
       \/ \E a \in Accounts : Redownload(s, a)
       \/ Disconnect(s)
       \/ GatewayRestart(s)
       \/ ReceiveLimits(s)
       \/ Deliver(s)
       \/ DeliverTradeUpdateDbError(s)
       \/ CrashInTradeUpdate(s)
  \/ TimerEvent
  \/ \E batch \in Batches : Correct(batch) \/ CorrectDbError(batch)
  \/ Crash

Spec == Init /\ [][Next]_vars

(* The risk manager reconnects, the gateway completes a download that it   *)
(* has begun, the link delivers in both directions, and the timer fires.   *)
Fairness ==
  /\ \A s \in Sources :
       /\ WF_vars(Connect(s))
       /\ WF_vars(GatewayDownload(s))
       /\ WF_vars(Deliver(s))
       /\ WF_vars(ReceiveLimits(s))
  /\ WF_vars(TimerEvent)

FairSpec == Spec /\ Fairness

-----------------------------------------------------------------------------
GatewayTypeOK ==
  /\ session \in [Sources -> Nat]
  /\ phase \in [Sources -> {"down", "reference", "accounts", "ready"}]
  /\ listed \in [Sources -> SUBSET Instruments]
  /\ refs \in [Sources -> SUBSET Instruments]
  /\ accounts \in [Sources -> SUBSET Accounts]
  /\ current \in [Sources -> Accounts \cup {None}]
  /\ cursor \in [Sources -> Nat]
  /\ log \in [Sources -> Seq(TradeUpdates)]
  /\ net \in [Sources -> NetPositions]
  /\ journal \in [Sources -> Seq(Records)]
  /\ downlink \in [Sources -> Seq(Messages)]
  /\ limits \in [Sources -> [Owners -> [Instruments -> Limits]]]
  /\ clock \in Nat
  /\ used \in [Budgets -> Nat]

(* The type invariant of the whole system. *)
TypeOK == ControllerTypeOK /\ GatewayTypeOK

(* The process started from an empty database. *)
Fresh == last_exchange_time_utc = 0

(* All the trades of o went through the gateway s. *)
Exclusive(o, s) ==
  \A r \in Sources \ {s} : \A k \in 1 .. Len(log[r]) : o \notin OwnersOf(log[r][k])

(* long and short are the gateway's own net position at its message n. *)
ExactAt(s, o, i, n, long, short) ==
  /\ n \in 1 .. Len(journal[s])
  /\ long = Positive(journal[s][n].net[o][i])
  /\ short = Positive(-journal[s][n].net[o][i])

OutboxExact(s, o) ==
  \A k \in 1 .. Len(outbox[s]) : \A l \in outbox[s][k].limits[o] :
    ExactAt(s, o, l.instrument, outbox[s][k].seqno, l.long_position, l.short_position)

ReceivedExact(s, o) ==
  \A i \in Instruments : LET l == limits[s][o][i] IN
    l.seqno # 0 => ExactAt(s, o, i, l.seqno, l.long_position, l.short_position)

(* "Publishes current positions risk limits to gateway (keyed by sequence  *)
(* number)": the position that is published under a sequence number is the *)
(* net of exactly the trades up to that number, however downloads, live    *)
(* trades, reconnects and timer events interleave: none missing, none      *)
(* counted twice.  The gateway extrapolates from it.                       *)
LimitsExact ==
  Fresh => \A s \in Sources, o \in Owners :
             Exclusive(o, s) => OutboxExact(s, o) /\ ReceivedExact(s, o)

(* The same for every process, also one that loaded its positions. *)
LimitsExactAfterRestart ==
  \A s \in Sources, o \in Owners :
     Exclusive(o, s) => OutboxExact(s, o) /\ ReceivedExact(s, o)

(* Risk limits are sent and received within one session of the gateway:    *)
(* the session id and the sequence number of a message under way are those *)
(* of the session it will be matched against.                              *)
LimitsOfSession ==
  \A s \in Sources : \A k \in 1 .. Len(outbox[s]) :
    /\ outbox[s][k].session_id = session[s]
    /\ outbox[s][k].seqno \in 1 .. Len(journal[s])

(* What LimitsOfSession rests on: the messages on their way to the risk    *)
(* manager, and the message it has last seen of a connection, are of the   *)
(* gateway's present session.  A trade update refers to an executed trade. *)
MessagesOfSession ==
  \A s \in Sources : \A k \in 1 .. Len(downlink[s]) :
    /\ downlink[s][k].seqno \in 1 .. Len(journal[s])
    /\ downlink[s][k].type = "TradeUpdate" => downlink[s][k].value \in 1 .. Len(log[s])

StateOfSession ==
  \A s \in Sources :
    \/ state[s] = NoState
    \/ state[s].session_id = session[s] /\ state[s].seqno \in 1 .. Len(journal[s])

(* The inductive invariant of SystemProofs. *)
SystemInv ==
  TypeOK /\ MessagesOfSession /\ StateOfSession /\ LimitsOfSession /\ MarkedAreRegistered

Ascending(q) == \A j \in 1 .. Len(q), k \in 1 .. Len(q) : j < k => q[j].seqno <= q[k].seqno

AtLeast(q, n) == \A k \in 1 .. Len(q) : n <= q[k].seqno

DownlinkOrdered(s) ==
  /\ Ascending(downlink[s])
  /\ AtLeast(downlink[s], state[s].seqno)

OutboxOrdered(s) ==
  /\ Ascending(outbox[s])
  /\ \A k \in 1 .. Len(outbox[s]) : outbox[s][k].seqno <= state[s].seqno

LimitsOrdered(s) ==
  \A o \in Owners, i \in Instruments :
    /\ limits[s][o][i].seqno <= Len(journal[s])
    /\ AtLeast(outbox[s], limits[s][o][i].seqno)
    /\ AtLeast(downlink[s], limits[s][o][i].seqno)
    /\ state[s] # NoState => limits[s][o][i].seqno <= state[s].seqno

OrderedAt(s) == DownlinkOrdered(s) /\ OutboxOrdered(s) /\ LimitsOrdered(s)

(* The way of a sequence number through the system, from the gateway to    *)
(* the risk manager and back: what the gateway holds is not after what is  *)
(* under way to it, that not after what the risk manager has seen last,    *)
(* and that not after what it has yet to see, also when a connection was   *)
(* lost or a process restarted in between.                                 *)
Ordered == \A s \in Sources : OrderedAt(s)

(* The limits a gateway holds never go back to an earlier sequence number, *)
(* unless it restarts.                                                     *)
LimitsAdvance ==
  [][\A s \in Sources, o \in Owners, i \in Instruments :
       session'[s] = session[s] => limits'[s][o][i].seqno >= limits[s][o][i].seqno]_vars

(* The limits the gateway s will hold for o and i when it has received all *)
(* that is under way.                                                      *)
SentAbout(s, o, i) == {k \in 1 .. Len(outbox[s]) : About(outbox[s][k], o, i) # {}}

LastSent(s, o, i) ==
  IF SentAbout(s, o, i) = {} THEN limits[s][o][i]
  ELSE Received(outbox[s][Max(SentAbout(s, o, i))], o, i)

(* Once a source is ready, every position of the accounts it serves and of *)
(* the users is either marked for publication, or the source has been sent *)
(* its present value: no change of a position is forgotten, and "Gateway   *)
(* will NOT allow trading until the risk manager has published limits"     *)
(* does not leave an instrument behind.                                    *)
NothingForgotten ==
  \A s \in Sources, o \in Owners :
    state[s].ready /\ (o \in Accounts => Home[o] = s) =>
      \A i \in held[o] \ publish[o] :
        /\ LastSent(s, o, i).seqno # 0
        /\ LastSent(s, o, i).long_position = positions[o][i].long_position
        /\ LastSent(s, o, i).short_position = positions[o][i].short_position

Persisted(tu) == \A id \in DOMAIN tu.fills : TradeRow(tu, id) \in trades

(* "Receives trade updates (including downloaded)", "Persists trades into  *)
(* a databsae": when the gateway holds limits under a sequence number, all *)
(* its trades up to that number are in the database, so that a restart can *)
(* rebuild what has been published.                                        *)
PublishedArePersisted ==
  \A s \in Sources, o \in Owners, i \in Instruments :
    LET n == limits[s][o][i].seqno IN
    n # 0 => \A k \in 1 .. journal[s][n].count : Persisted(log[s][k])

(* "Computes current positions": a trade update moves the position of an   *)
(* owner by its fills, or not at all when they have been seen before, also *)
(* when the position was loaded from the database.                         *)
UpdatesAddUp ==
  [][\A s \in Sources : DeliverTradeUpdate(s) =>
       LET tu == HeadTrade(s)
           net_of(p) == p.long_position - p.short_position
       IN \A o \in OwnersOf(tu) :
            net_of(positions'[o][tu.instrument]) - net_of(positions[o][tu.instrument])
            \in {0, sign(tu.side) * SumFunction(tu.fills)}]_vars

(* The database never loses an exchange trade, whatever is inserted,       *)
(* corrected or restarted.                                                 *)
TradesKept ==
  [][\A r \in trades : r.type = "EXCHANGE" => r \in trades']_vars

(* Each trade the gateway has executed comes back in risk limits: with the *)
(* environment's faults used up, the gateway ends with limits that show    *)
(* its own net position in every instrument that was traded.               *)
Settled(s) ==
  \A o \in Owners, i \in Instruments :
    (\E k \in 1 .. Len(log[s]) : o \in OwnersOf(log[s][k]) /\ log[s][k].instrument = i) =>
      /\ limits[s][o][i].seqno # 0
      /\ limits[s][o][i].long_position - limits[s][o][i].short_position = net[s][o][i]

EventuallySettled == \A s \in Sources : <>[]Settled(s)
=============================================================================
