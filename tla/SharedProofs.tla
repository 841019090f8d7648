---------------------------- MODULE SharedProofs ----------------------------
(***************************************************************************)
(* Instruments have one id, and limits are published as configured, for    *)
(* every configuration file and any number of instruments.                 *)
(***************************************************************************)
EXTENDS Shared, TLAPS

(* A lookup finds what the file says: the nested maps of parse_limits have *)
(* the keys of the nested tables.                                          *)
LEMMA LookupSection ==
  ASSUME NEW section, NEW name, NEW pair
  PROVE  Lookup(parse_limits(document, section), name, pair[1], pair[2]) =
         Configured(<<section, name>>, pair)
<1> DEFINE limits == parse_limits(document, section)
           node == Child(document, section)
           node_1 == Child(node, name)
           node_2 == Child(node_1, pair[1])
           node_3 == Child(node_2, pair[2])
<1>1. CASE section \notin Keys(document)
  <2>1. DOMAIN limits = {}
    BY <1>1 DEF parse_limits
  <2>2. Lookup(limits, name, pair[1], pair[2]) = NoLimit
    BY <2>1 DEF Lookup
  <2>3. \A key : ~Says(<<section, name>>, pair, key)
    BY <1>1 DEF Says
  <2> QED
    BY <2>2, <2>3, Zenon DEF Configured, NoLimit
<1>2. CASE section \in Keys(document)
  <2>1. limits = [n \in Keys(node) |->
                    [exchange \in Keys(Child(node, n)) |->
                      [symbol \in Keys(Child(Child(node, n), exchange)) |->
                        ParseLimit(Child(Child(Child(node, n), exchange), symbol))]]]
    BY <1>2 DEF parse_limits
  <2>2. CASE name \in Keys(node) /\ pair[1] \in Keys(node_1) /\ pair[2] \in Keys(node_2)
    <3>1. Lookup(limits, name, pair[1], pair[2]) = ParseLimit(node_3)
      BY <2>1, <2>2 DEF Lookup
    <3>2. \A key : Says(<<section, name>>, pair, key) <=> key \in Keys(node_3)
      BY <1>2, <2>2 DEF Says
    <3> QED
      BY <3>1, <3>2 DEF Configured, ParseLimit
  <2>3. CASE ~(name \in Keys(node) /\ pair[1] \in Keys(node_1) /\ pair[2] \in Keys(node_2))
    <3>1. Lookup(limits, name, pair[1], pair[2]) = NoLimit
      <4>1. CASE name \notin Keys(node)
        BY <2>1, <4>1 DEF Lookup
      <4>2. CASE name \in Keys(node) /\ pair[1] \notin Keys(node_1)
        BY <2>1, <4>2 DEF Lookup
      <4>3. CASE name \in Keys(node) /\ pair[1] \in Keys(node_1) /\ pair[2] \notin Keys(node_2)
        BY <2>1, <4>3 DEF Lookup
      <4> QED
        BY <2>3, <4>1, <4>2, <4>3
    <3>2. \A key : ~Says(<<section, name>>, pair, key)
      BY <2>3 DEF Says
    <3> QED
      BY <3>1, <3>2, Zenon DEF Configured, NoLimit
  <2> QED
    BY <2>2, <2>3
<1> QED
  BY <1>1, <1>2

(* The limit a new position copies is the one the file has. *)
LEMMA LimitConfigured ==
  ASSUME config = ParseConfig(document), NEW owner \in Owners, NEW pair
  PROVE  LimitOf(owner, pair[1], pair[2]) = Configured(owner, pair)
<1>1. PICK section \in {"accounts", "users"} :
        \E name \in DOMAIN config[section] : owner = <<section, name>>
  BY DEF Owners, OwnersIn
<1>2. CASE section = "accounts"
  BY <1>1, <1>2, LookupSection DEF LimitOf, get_limit_by_account, ParseConfig
<1>3. CASE section = "users"
  BY <1>1, <1>3, LookupSection DEF LimitOf, get_limit_by_user, ParseConfig
<1> QED
  BY <1>2, <1>3

(* Registering an instrument keeps the ids of the others, and gives a new  *)
(* one an id that none has.                                                *)
LEMMA GetInstrument ==
  ASSUME IdsCounted, OneIdPerInstrument, NEW pair \in Pairs, pair = <<pair[1], pair[2]>>,
         get_instrument(pair[1], pair[2])
  PROVE  /\ IdsCounted' /\ OneIdPerInstrument'
         /\ get_instrument_id(pair[1], pair[2]) \in DOMAIN instruments'
         /\ instruments'[get_instrument_id(pair[1], pair[2])] = pair
         /\ \A id \in DOMAIN instruments : id \in DOMAIN instruments' /\ instruments'[id] = instruments[id]
<1> DEFINE id == get_instrument_id(pair[1], pair[2])
<1>1. CASE pair \in DOMAIN instrument_lookup
  <2>1. id = instrument_lookup[pair] /\ id # 0 /\ id \in DOMAIN instruments /\ instruments[id] = pair
    BY <1>1 DEF get_instrument_id, Id, IdsCounted, OneIdPerInstrument
  <2>2. next_instrument_id' = next_instrument_id
    BY <1>1, <2>1 DEF get_instrument, Id, IdsCounted
  <2>3. instruments' = instruments
    BY <2>1 DEF get_instrument
  <2>4. instrument_lookup' = Put(instrument_lookup, pair, id)
    BY DEF get_instrument
  <2>5. DOMAIN instrument_lookup' = DOMAIN instrument_lookup
        /\ \A p \in DOMAIN instrument_lookup : instrument_lookup'[p] = instrument_lookup[p]
    BY <1>1, <2>1, <2>4 DEF Put
  <2> QED
    BY <2>1, <2>2, <2>3, <2>5 DEF IdsCounted, OneIdPerInstrument
<1>2. CASE pair \notin DOMAIN instrument_lookup
  <2>1. id = next_instrument_id + 1 /\ next_instrument_id' = next_instrument_id + 1
    BY <1>2 DEF get_instrument_id, get_instrument, Id
  <2>2. id \notin DOMAIN instruments
    BY <2>1 DEF IdsCounted
  <2>3. instruments' = Put(instruments, id, pair)
    BY <2>2 DEF get_instrument
  <2>4. instrument_lookup' = Put(instrument_lookup, pair, id)
    BY DEF get_instrument
  <2>5. DOMAIN instruments' = DOMAIN instruments \cup {id}
        /\ instruments'[id] = pair
        /\ \A x \in DOMAIN instruments : instruments'[x] = instruments[x]
    BY <2>2, <2>3 DEF Put
  <2>6. DOMAIN instrument_lookup' = DOMAIN instrument_lookup \cup {pair}
        /\ instrument_lookup'[pair] = id
        /\ \A p \in DOMAIN instrument_lookup : instrument_lookup'[p] = instrument_lookup[p]
    BY <1>2, <2>4 DEF Put
  <2>7. IdsCounted'
    BY <2>1, <2>5 DEF IdsCounted
  <2>8. OneIdPerInstrument'
    BY <1>2, <2>2, <2>5, <2>6 DEF OneIdPerInstrument
  <2> QED
    BY <2>5, <2>7, <2>8
<1> QED
  BY <1>1, <1>2

(* An event applied to the positions of some owners leaves every position  *)
(* under the id of its instrument.                                         *)
LEMMA DispatchPositions ==
  ASSUME SharedInv, status = "running", Running, NEW pair \in Pairs, pair = <<pair[1], pair[2]>>,
         get_instrument(pair[1], pair[2]),
         NEW owners, dispatch(owners, pair[1], pair[2])
  PROVE  SharedInv'
<1> DEFINE id == get_instrument_id(pair[1], pair[2])
<1>1. /\ IdsCounted' /\ OneIdPerInstrument'
      /\ id \in DOMAIN instruments' /\ instruments'[id] = pair
      /\ \A x \in DOMAIN instruments : x \in DOMAIN instruments' /\ instruments'[x] = instruments[x]
  BY GetInstrument DEF SharedInv
<1>2. config' = config /\ document' = document /\ status' = status
  BY DEF Running
<1>3. Owners' = Owners
  BY <1>2 DEF Owners, OwnersIn
<1>4. \A o, p : Configured(o, p)' = Configured(o, p)
  BY <1>2 DEF Configured, Says
<1>5. ConfigOfDocument'
  BY <1>2 DEF SharedInv, ConfigOfDocument
<1>6. ASSUME NEW o \in Owners, NEW x \in DOMAIN positions'[o]
      PROVE  /\ x \in DOMAIN instruments'
             /\ positions'[o][x] = [limit |-> Configured(o, instruments'[x]), of |-> {instruments'[x]}]
  <2>1. \A y \in DOMAIN positions[o] :
          /\ y \in DOMAIN instruments
          /\ positions[o][y] = [limit |-> Configured(o, instruments[y]), of |-> {instruments[y]}]
    BY DEF SharedInv, PositionsOfInstruments
  <2>2. CASE o \notin owners
    <3>1. positions'[o] = positions[o]
      BY <2>2 DEF dispatch
    <3> QED
      BY <1>1, <2>1, <3>1, Zenon
  <2>3. CASE o \in owners
    <3>1. positions'[o] = Dispatched(o, pair[1], pair[2])
      BY <2>3 DEF dispatch
    <3> DEFINE position == IF id \in DOMAIN positions[o] THEN positions[o][id]
                           ELSE NewPosition(o, pair[1], pair[2])
               new == [limit |-> position.limit, of |-> position.of \cup {pair}]
    <3>2. Dispatched(o, pair[1], pair[2]) = Put(positions[o], id, new)
      BY DEF Dispatched
    <3>3. new = [limit |-> Configured(o, pair), of |-> {pair}]
      <4>1. CASE id \in DOMAIN positions[o]
        <5>1. instruments[id] = pair
          BY <1>1, <2>1, <4>1, Zenon
        <5>2. positions[o][id] = [limit |-> Configured(o, pair), of |-> {pair}]
          BY <2>1, <4>1, <5>1
        <5>3. position = positions[o][id]
          BY <4>1
        <5> HIDE DEF position
        <5> QED
          BY <5>2, <5>3
      <4>2. CASE id \notin DOMAIN positions[o]
        <5>1. LimitOf(o, pair[1], pair[2]) = Configured(o, pair)
          BY LimitConfigured DEF SharedInv, ConfigOfDocument
        <5> QED
          BY <4>2, <5>1 DEF NewPosition
      <4> QED
        BY <4>1, <4>2
    <3> HIDE DEF new, position, id
    <3>4. CASE x = id
      BY <1>1, <3>1, <3>2, <3>3, <3>4 DEF Put
    <3>5. CASE x # id
      <4>1. x \in DOMAIN positions[o] /\ positions'[o][x] = positions[o][x]
        BY <3>1, <3>2, <3>5 DEF Put
      <4> QED
        BY <1>1, <2>1, <4>1, Zenon
    <3> QED
      BY <3>4, <3>5
  <2> QED
    BY <2>2, <2>3
<1>7. PositionsOfInstruments'
  BY <1>3, <1>4, <1>6 DEF PositionsOfInstruments
<1> QED
  BY <1>1, <1>5, <1>7 DEF SharedInv

(* Steps that touch neither registry nor positions. *)
LEMMA MarksOnly ==
  ASSUME SharedInv, UNCHANGED <<document, status, config, next_instrument_id, instrument_lookup,
                                instruments, positions>>
  PROVE  SharedInv'
BY DEF SharedInv, ConfigOfDocument, IdsCounted, OneIdPerInstrument, PositionsOfInstruments,
       Owners, OwnersIn, Configured, Says

(* A start has no positions yet, whether it succeeds or not. *)
LEMMA StartInv ==
  ASSUME SharedInv, Start
  PROVE  SharedInv'
<1>1. UNCHANGED <<document, next_instrument_id, instrument_lookup, instruments>>
  BY DEF Start
<1>2. IdsCounted' /\ OneIdPerInstrument'
  BY <1>1 DEF SharedInv, IdsCounted, OneIdPerInstrument
<1>3. CASE Unexpected(document)
  <2>1. status = "starting" /\ status' = "fatal" /\ UNCHANGED <<config, positions>>
    BY <1>3 DEF Start
  <2>2. ConfigOfDocument'
    BY <2>1 DEF SharedInv, ConfigOfDocument
  <2>3. PositionsOfInstruments'
    BY <1>1, <2>1 DEF SharedInv, PositionsOfInstruments, Owners, OwnersIn, Configured, Says
  <2> QED
    BY <1>2, <2>2, <2>3 DEF SharedInv
<1>4. CASE ~Unexpected(document)
  <2>1. /\ status' = "running" /\ config' = ParseConfig(document)
        /\ positions' = [o \in Owners' |-> NoEntries]
    BY <1>4 DEF Start
  <2>2. ConfigOfDocument'
    <3>1. Unexpected(document)' = Unexpected(document)
          /\ ParseConfig(document)' = ParseConfig(document)
      BY <1>1 DEF Unexpected, UnexpectedSymbols, UnexpectedLimits, UnexpectedLimit, ParseConfig,
                  parse_limits, parse_symbols
    <3> QED
      BY <1>4, <2>1, <3>1 DEF ConfigOfDocument
  <2>3. PositionsOfInstruments'
    BY <2>1 DEF PositionsOfInstruments, NoEntries
  <2> QED
    BY <1>2, <2>2, <2>3 DEF SharedInv
<1> QED
  BY <1>3, <1>4

(* Before the start there is nothing. *)
LEMMA InitInv == Init => SharedInv
BY DEF Init, SharedInv, ConfigOfDocument, IdsCounted, OneIdPerInstrument, PositionsOfInstruments,
       Owners, OwnersIn, NoEntries

(* Whichever file is read and in whatever order instruments are met:       *)
(* positions are kept under the ids of their instruments, with the limits  *)
(* of the file.                                                            *)
THEOREM SharedInvariant == Spec => []SharedInv
<1>1. SharedInv /\ [Next]_vars => SharedInv'
  <2> SUFFICES ASSUME SharedInv, [Next]_vars PROVE SharedInv'
    OBVIOUS
  <2>1. CASE UNCHANGED vars
    BY <2>1, MarksOnly DEF vars
  <2>2. CASE Start
    BY <2>2, StartInv
  <2>3. ASSUME NEW pair \in Pairs, NEW owner \in Owners, LoadPosition(owner, pair[1], pair[2])
        PROVE  SharedInv'
    BY <2>3, PairsAssumption, DispatchPositions DEF LoadPosition, Running
  <2>4. ASSUME NEW pair \in Pairs, NEW described \in BOOLEAN,
               ReferenceData(pair[1], pair[2], described)
        PROVE  SharedInv'
    BY <2>4, PairsAssumption, DispatchPositions DEF ReferenceData, Running
  <2>5. ASSUME NEW pair \in Pairs, NEW trader \in Traders, TradeUpdate(trader, pair[1], pair[2])
        PROVE  SharedInv'
    BY <2>5, PairsAssumption, DispatchPositions DEF TradeUpdate, Running
  <2>6. ASSUME NEW owner \in Owners, publish_account(owner)
        PROVE  SharedInv'
    BY <2>6, MarksOnly DEF publish_account, Running
  <2>7. CASE publish_users \/ Publish
    BY <2>7, MarksOnly DEF publish_users, Publish, Running
  <2> QED
    BY <2>1, <2>2, <2>3, <2>4, <2>5, <2>6, <2>7 DEF Next
<1> QED
  BY InitInv, <1>1, PTL DEF Spec

(* For any number of instruments, and in any order of registration, every  *)
(* instrument has one id and every id one instrument.                      *)
THEOREM InstrumentIdsUnique == Spec => []OneIdPerInstrument
BY SharedInvariant, PTL DEF SharedInv

(* For every configuration file: what is published for an owner and an     *)
(* instrument carries the limits the file has for them.                    *)
THEOREM LimitsAsConfigured == Spec => []PublishedAsConfigured
<1>1. SharedInv => PublishedAsConfigured
  <2> SUFFICES ASSUME SharedInv, NEW owner \in Owners, NEW item \in RiskLimits(owner)
               PROVE  item.limit = Configured(owner, item.pair) /\ item.of = {item.pair}
    BY DEF PublishedAsConfigured
  <2>1. PICK id \in DOMAIN positions[owner] :
          item = [pair |-> instruments[id], limit |-> positions[owner][id].limit,
                  of |-> positions[owner][id].of]
    BY DEF RiskLimits
  <2>2. positions[owner][id] = [limit |-> Configured(owner, instruments[id]),
                                of |-> {instruments[id]}]
    BY DEF SharedInv, PositionsOfInstruments
  <2> QED
    BY <2>1, <2>2
<1> QED
  BY SharedInvariant, <1>1, PTL
=============================================================================
