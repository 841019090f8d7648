------------------------------- MODULE Shared -------------------------------
(***************************************************************************)
(* Shared (shared.cpp, shared.hpp) with the accounts and users it owns,    *)
(* below the abstraction of the module Controller: instruments are         *)
(* registered under ids, positions and publication marks are kept under    *)
(* ids, and a position copies its limits from the configuration when it is *)
(* created.  The events are those of Controller, reduced to the instrument *)
(* and the owners they concern.  No event reaches a strategy.              *)
(***************************************************************************)
EXTENDS Config, Naturals

CONSTANTS
  Documents,    \* the configuration files
  Pairs,        \* the <<exchange, symbol>> of the instruments
  MaxIds,       \* bound: how many instruments are registered
  Traders       \* the <<account, user>> a trade can carry

ASSUME PairsAssumption == \A pair \in Pairs : pair = <<pair[1], pair[2]>>

VARIABLES
  document,            \* the file this process was started with
  status,              \* "starting", "running", or "fatal" once log::fatal was called
  config,
  next_instrument_id,
  instrument_lookup,   \* exchange and symbol => id
  instruments,         \* id => exchange and symbol
  positions,           \* per owner, id => position
  publish              \* per owner, the ids in publish_by_account_ ...

vars == <<document, status, config, next_instrument_id, instrument_lookup, instruments,
          positions, publish>>

(* The map with one more entry. *)
Put(map, key, value) == [k \in DOMAIN map \cup {key} |-> IF k = key THEN value ELSE map[k]]

NoEntries == [key \in {} |-> 0]

(* An account and a user of one name are different owners. *)
OwnersIn(section) == {<<section, name>> : name \in DOMAIN config[section]}

Owners == OwnersIn("accounts") \cup OwnersIn("users")

-----------------------------------------------------------------------------
(* Limits *)

Lookup(limits, name, exchange, symbol) ==
  IF /\ name \in DOMAIN limits
     /\ exchange \in DOMAIN limits[name]
     /\ symbol \in DOMAIN limits[name][exchange]
  THEN limits[name][exchange][symbol]
  ELSE NoLimit

get_limit_by_account(account, exchange, symbol) ==
  Lookup(config.accounts, account, exchange, symbol)

get_limit_by_user(user, exchange, symbol) ==
  Lookup(config.users, user, exchange, symbol)

LimitOf(owner, exchange, symbol) ==
  IF owner[1] = "accounts" THEN get_limit_by_account(owner[2], exchange, symbol)
                           ELSE get_limit_by_user(owner[2], exchange, symbol)

-----------------------------------------------------------------------------
(* Instruments *)

(* The id in instrument_lookup_, zero when there is none. *)
Id(exchange, symbol) ==
  IF <<exchange, symbol>> \in DOMAIN instrument_lookup
  THEN instrument_lookup[<<exchange, symbol>>] ELSE 0

(* Mutant of get_instrument_id: the counter is read before it is advanced. *)
get_instrument_id_before(exchange, symbol) ==
  IF Id(exchange, symbol) = 0 THEN next_instrument_id ELSE Id(exchange, symbol)

get_instrument_id(exchange, symbol) ==
  IF Id(exchange, symbol) = 0 THEN next_instrument_id + 1 ELSE Id(exchange, symbol)

get_instrument(exchange, symbol) ==
  LET id == get_instrument_id(exchange, symbol) IN
  /\ next_instrument_id' = next_instrument_id + (IF Id(exchange, symbol) = 0 THEN 1 ELSE 0)
  /\ instrument_lookup' = Put(instrument_lookup, <<exchange, symbol>>, id)
  /\ instruments' = IF id \in DOMAIN instruments THEN instruments
                    ELSE Put(instruments, id, <<exchange, symbol>>)

(* Mutant of NewPosition: the limit is not looked up. *)
NewPositionUnlimited(owner, exchange, symbol) == [limit |-> NoLimit, of |-> {}]

(* A new position copies its limit; "of" are the instruments whose events  *)
(* have been applied to it.                                                *)
NewPosition(owner, exchange, symbol) == [limit |-> LimitOf(owner, exchange, symbol), of |-> {}]

(* Account::dispatch and User::dispatch: find or create the position under *)
(* the instrument's id and apply the event to it.                          *)
Dispatched(owner, exchange, symbol) ==
  LET id == get_instrument_id(exchange, symbol)
      position == IF id \in DOMAIN positions[owner] THEN positions[owner][id]
                  ELSE NewPosition(owner, exchange, symbol)
  IN Put(positions[owner], id,
         [limit |-> position.limit, of |-> position.of \cup {<<exchange, symbol>>}])

dispatch(owners, exchange, symbol) ==
  positions' = [o \in Owners |-> IF o \in owners THEN Dispatched(o, exchange, symbol)
                                                 ELSE positions[o]]

-----------------------------------------------------------------------------
(* Start and events *)

Init ==
  /\ document \in Documents
  /\ status = "starting"
  /\ config = [symbols |-> NoEntries, accounts |-> NoEntries, users |-> NoEntries]
  /\ next_instrument_id = 0
  /\ instrument_lookup = NoEntries
  /\ instruments = NoEntries
  /\ positions = NoEntries
  /\ publish = NoEntries

(* Config::parse_file and the constructor of Shared: owners without        *)
(* positions, and nothing to publish.                                      *)
Start ==
  /\ status = "starting"
  /\ IF Unexpected(document)
     THEN /\ status' = "fatal"
          /\ UNCHANGED <<config, positions, publish>>
     ELSE /\ status' = "running"
          /\ config' = ParseConfig(document)
          /\ positions' = [o \in Owners' |-> NoEntries]
          /\ publish' = [o \in Owners' |-> {}]
  /\ UNCHANGED <<document, next_instrument_id, instrument_lookup, instruments>>

Running == status = "running" /\ UNCHANGED <<document, status, config>>

Bounded(exchange, symbol) == Id(exchange, symbol) # 0 \/ next_instrument_id < MaxIds

(* A row of the database is loaded into one account or user, if it is      *)
(* configured.  All rows are loaded before the first event; here a row may *)
(* also come later, which only adds behaviours.                            *)
LoadPosition(owner, exchange, symbol) ==
  /\ Running /\ Bounded(exchange, symbol)
  /\ get_instrument(exchange, symbol)
  /\ dispatch({owner}, exchange, symbol)
  /\ UNCHANGED publish

(* Reference data registers the instrument, and reaches all accounts and   *)
(* users when it has a min_trade_vol.                                      *)
ReferenceData(exchange, symbol, described) ==
  /\ Running /\ Bounded(exchange, symbol)
  /\ get_instrument(exchange, symbol)
  /\ dispatch(IF described THEN Owners ELSE {}, exchange, symbol)
  /\ UNCHANGED publish

(* The configured ones of a trade's account and user. *)
OwnersOf(trader) == {<<"accounts", trader[1]>>, <<"users", trader[2]>>} \cap Owners

TradeUpdate(trader, exchange, symbol) ==
  /\ Running /\ Bounded(exchange, symbol)
  /\ OwnersOf(trader) # {}
  /\ get_instrument(exchange, symbol)
  /\ dispatch(OwnersOf(trader), exchange, symbol)
  /\ publish' = [o \in Owners |->
                   IF o \in OwnersOf(trader)
                   THEN publish[o] \cup {get_instrument_id(exchange, symbol)}
                   ELSE publish[o]]

(* publish_account, at the end of the account's download. *)
publish_account(owner) ==
  /\ Running
  /\ owner \in OwnersIn("accounts")
  /\ publish' = [publish EXCEPT ![owner] = @ \cup DOMAIN instruments]
  /\ UNCHANGED <<next_instrument_id, instrument_lookup, instruments, positions>>

(* publish_user for every user, when a gateway is ready. *)
publish_users ==
  /\ Running
  /\ publish' = [o \in Owners |-> IF o[1] = "users" THEN publish[o] \cup DOMAIN instruments
                                                    ELSE publish[o]]
  /\ UNCHANGED <<next_instrument_id, instrument_lookup, instruments, positions>>

(* What publish_accounts and publish_users of the controller read: the     *)
(* positions under the marked ids, with the names of the instruments.      *)
RiskLimits(owner) ==
  {[pair |-> instruments[id], limit |-> positions[owner][id].limit,
    of |-> positions[owner][id].of] :
     id \in publish[owner] \cap DOMAIN instruments \cap DOMAIN positions[owner]}

(* The timer, with a gateway ready, clears the marks. *)
Publish ==
  /\ Running
  /\ publish' = [o \in Owners |-> {}]
  /\ UNCHANGED <<next_instrument_id, instrument_lookup, instruments, positions>>

Next ==
  \/ Start
  \/ \E pair \in Pairs :
       \/ \E owner \in Owners : LoadPosition(owner, pair[1], pair[2])
       \/ \E described \in BOOLEAN : ReferenceData(pair[1], pair[2], described)
       \/ \E trader \in Traders : TradeUpdate(trader, pair[1], pair[2])
  \/ \E owner \in Owners : publish_account(owner)
  \/ publish_users
  \/ Publish

Spec == Init /\ [][Next]_vars

-----------------------------------------------------------------------------
(* Properties *)

(* What the file says of one limit, read along its path. *)
Says(owner, pair, key) ==
  /\ owner[1] \in Keys(document)
  /\ owner[2] \in Keys(Child(document, owner[1]))
  /\ pair[1] \in Keys(Child(Child(document, owner[1]), owner[2]))
  /\ pair[2] \in Keys(Child(Child(Child(document, owner[1]), owner[2]), pair[1]))
  /\ key \in Keys(Child(Child(Child(Child(document, owner[1]), owner[2]), pair[1]), pair[2]))

Configured(owner, pair) ==
  [key \in LimitKeys |->
    IF Says(owner, pair, key)
    THEN Child(Child(Child(Child(Child(document, owner[1]), owner[2]), pair[1]), pair[2]), key).value
    ELSE NoLimit[key]]

(* Instruments and ids correspond one to one, in whatever order accounts,  *)
(* users, reference data and the database ask for them first:              *)
(* get_instrument_id takes an id of zero for none, and positions_ is keyed *)
(* by the id alone.                                                        *)
OneIdPerInstrument ==
  /\ \A pair \in DOMAIN instrument_lookup :
       /\ instrument_lookup[pair] \in DOMAIN instruments
       /\ instruments[instrument_lookup[pair]] = pair
  /\ \A id \in DOMAIN instruments :
       /\ instruments[id] \in DOMAIN instrument_lookup
       /\ instrument_lookup[instruments[id]] = id

(* What is published for an instrument carries the limits the file has for *)
(* this owner, exchange and symbol, unset where it has none, and a         *)
(* position made of this instrument's events only.                         *)
PublishedAsConfigured ==
  status = "running" =>
    \A owner \in Owners : \A item \in RiskLimits(owner) :
      /\ item.limit = Configured(owner, item.pair)
      /\ item.of = {item.pair}

(* The inductive invariant of the proofs: positions are under the ids of   *)
(* registered instruments, with their limits.                              *)
PositionsOfInstruments ==
  \A owner \in Owners : \A id \in DOMAIN positions[owner] :
    /\ id \in DOMAIN instruments
    /\ positions[owner][id] = [limit |-> Configured(owner, instruments[id]),
                               of |-> {instruments[id]}]

IdsCounted ==
  /\ next_instrument_id \in Nat
  /\ \A id \in DOMAIN instruments : id \in 1 .. next_instrument_id

ConfigOfDocument ==
  /\ status \in {"starting", "running", "fatal"}
  /\ status = "running" => ~Unexpected(document) /\ config = ParseConfig(document)
  /\ status # "running" => config = [symbols |-> NoEntries, accounts |-> NoEntries,
                                     users |-> NoEntries]

SharedInv ==
  /\ ConfigOfDocument
  /\ IdsCounted
  /\ OneIdPerInstrument
  /\ PositionsOfInstruments
=============================================================================
