--------------------------- MODULE DatabaseProofs ---------------------------
(***************************************************************************)
(* The funds table: what GET /funds lists, and what is cached of it, for   *)
(* all values of the constants of Database.                                *)
(***************************************************************************)
EXTENDS Database, TLAPS

(* No two rows have the same primary key. *)
FundsKeyed == \A r \in funds, q \in funds : FundsKey(r) = FundsKey(q) => r = q

(* latest is of the account and the currency it is kept for, in the table, *)
(* and not before any other row of them.                                   *)
LatestStored ==
  \A a \in Accounts, c \in Currencies : latest[a][c] # None =>
    /\ latest[a][c] \in funds
    /\ latest[a][c].account = a
    /\ latest[a][c].currency = c
    /\ \A r \in funds : r.account = a /\ r.currency = c =>
         r.exchange_time_utc <= latest[a][c].exchange_time_utc

(* The inductive invariant: with it, latest is the one row of its account  *)
(* and currency that the join finds.                                       *)
FundsInv ==
  /\ stamped \in Nat
  /\ funds \subseteq FundsRows
  /\ latest \in [Accounts -> [Currencies -> FundsRows \cup {None}]]
  /\ FundsKeyed
  /\ LatestStored
  /\ \A r \in funds : latest[r.account][r.currency] # None

(* What is inserted for an update that does not throw. *)
LEMMA FundsRowType ==
  ASSUME NEW fu \in FundsUpdates, NEW now \in Nat, FundsAccepted(fu)
  PROVE  /\ FundsRow(fu, now) \in FundsRows
         /\ FundsRow(fu, now).account = fu.account
         /\ FundsRow(fu, now).currency = fu.currency
         /\ FundsRow(fu, now).balance = fu.balance
         /\ fu.exchange_time_utc # 0 => FundsRow(fu, now).exchange_time_utc = fu.exchange_time_utc
BY FundsAssumption DEF FundsAccepted, FundsRow, FundsRows

(* The insert of a row, and the reference after it. *)
LEMMA InsertInv ==
  ASSUME FundsInv, NEW row \in FundsRows,
         stamped' \in Nat,
         funds' = {r \in funds : FundsKey(r) # FundsKey(row)} \cup {row},
         latest' = [latest EXCEPT ![row.account][row.currency] = Later(row)]
  PROVE  FundsInv'
<1> DEFINE a0 == row.account
           c0 == row.currency
           old == latest[a0][c0]
<1>1. /\ a0 \in Accounts /\ c0 \in Currencies /\ row.exchange_time_utc \in Nat
      /\ old \in FundsRows \cup {None} /\ row # None
  BY FundsAssumption DEF FundsRows, FundsInv
<1>2. \A r \in FundsRows : r.account \in Accounts /\ r.currency \in Currencies
                           /\ r.exchange_time_utc \in Nat
  BY DEF FundsRows
<1>3. Later(row) = IF old = None THEN row
                   ELSE IF old.exchange_time_utc <= row.exchange_time_utc THEN row ELSE old
  BY DEF Later
<1>4. Later(row) \in FundsRows
  BY <1>1, <1>3
<1>5. /\ latest' \in [Accounts -> [Currencies -> FundsRows \cup {None}]]
      /\ latest'[a0][c0] = Later(row)
      /\ \A a \in Accounts, c \in Currencies :
           a # a0 \/ c # c0 => latest'[a][c] = latest[a][c]
  BY <1>1, <1>4 DEF FundsInv
<1>6. funds' \subseteq FundsRows
  BY DEF FundsInv
<1>7. FundsKeyed'
  BY Zenon DEF FundsInv, FundsKeyed
<1>8. ASSUME NEW a \in Accounts, NEW c \in Currencies, latest'[a][c] # None
      PROVE  /\ latest'[a][c] \in funds'
             /\ latest'[a][c].account = a
             /\ latest'[a][c].currency = c
             /\ \A r \in funds' : r.account = a /\ r.currency = c =>
                  r.exchange_time_utc <= latest'[a][c].exchange_time_utc
  <2>1. CASE a # a0 \/ c # c0
    <3>1. latest'[a][c] = latest[a][c] /\ latest[a][c] \in funds
      BY <1>5, <1>8, <2>1 DEF FundsInv, LatestStored
    <3>2. /\ latest[a][c].account = a /\ latest[a][c].currency = c
          /\ \A r \in funds : r.account = a /\ r.currency = c =>
               r.exchange_time_utc <= latest[a][c].exchange_time_utc
      BY <1>8, <3>1 DEF FundsInv, LatestStored
    <3>3. FundsKey(latest[a][c]) # FundsKey(row)
      BY <2>1, <3>2 DEF FundsKey
    <3>4. latest[a][c] \in funds'
      BY <3>1, <3>3
    <3>5. ASSUME NEW r \in funds', r.account = a, r.currency = c
          PROVE  r \in funds
      BY <2>1, <3>5
    <3> QED
      BY <3>1, <3>2, <3>4, <3>5, Zenon
  <2>2. CASE a = a0 /\ c = c0 /\ Later(row) = row
    <3>1. ASSUME NEW r \in funds, r.account = a, r.currency = c
          PROVE  r.exchange_time_utc <= row.exchange_time_utc
      <4>1. old # None
        BY <2>2, <3>1 DEF FundsInv
      <4>2. old.exchange_time_utc <= row.exchange_time_utc \/ old = row
        BY <1>3, <2>2, <4>1
      <4>3. r.exchange_time_utc <= old.exchange_time_utc
        BY <2>2, <3>1, <4>1, <1>1 DEF FundsInv, LatestStored
      <4>4. r \in FundsRows /\ old \in FundsRows
        BY <1>1, <4>1 DEF FundsInv
      <4> QED
        BY <1>1, <1>2, <4>2, <4>3, <4>4
    <3>2. row.exchange_time_utc <= row.exchange_time_utc
      BY <1>1
    <3> QED
      BY <1>5, <2>2, <3>1, <3>2, Zenon
  <2>3. CASE a = a0 /\ c = c0 /\ Later(row) # row
    <3>1. old # None /\ Later(row) = old /\ ~(old.exchange_time_utc <= row.exchange_time_utc)
      BY <1>3, <2>3
    <3>2. /\ old \in funds /\ old.account = a /\ old.currency = c
          /\ \A r \in funds : r.account = a /\ r.currency = c =>
               r.exchange_time_utc <= old.exchange_time_utc
      BY <2>3, <3>1 DEF FundsInv, LatestStored
    <3>3. FundsKey(old) # FundsKey(row)
      BY <1>1, <3>1 DEF FundsKey
    <3>4. row.exchange_time_utc <= old.exchange_time_utc
      BY <1>1, <1>2, <3>1
    <3>5. old \in funds' /\ latest'[a][c] = old
      BY <1>5, <2>3, <3>1, <3>2, <3>3
    <3>6. \A r \in funds' : r \in funds \/ r = row
      BY <1>5
    <3> QED
      BY <3>1, <3>2, <3>4, <3>5, <3>6, Zenon
  <2> QED
    BY <1>3, <2>1, <2>2, <2>3
<1>9. \A r \in funds' : latest'[r.account][r.currency] # None
  <2> SUFFICES ASSUME NEW r \in funds' PROVE latest'[r.account][r.currency] # None
    OBVIOUS
  <2>1. r.account \in Accounts /\ r.currency \in Currencies
    BY <1>2, <1>6
  <2>2. CASE r.account = a0 /\ r.currency = c0
    BY <1>4, <1>5, <2>2, FundsAssumption
  <2>3. CASE ~(r.account = a0 /\ r.currency = c0)
    <3>1. r \in funds
      BY <2>3
    <3> QED
      BY <1>5, <2>1, <2>3, <3>1 DEF FundsInv
  <2> QED
    BY <2>2, <2>3
<1> QED
  BY <1>5, <1>6, <1>7, <1>8, <1>9 DEF FundsInv, LatestStored

(* The join finds exactly the latest rows that the filter selects. *)
LEMMA SelectLatest ==
  ASSUME FundsInv
  PROVE  FundsSelected
<1> SUFFICES ASSUME NEW account \in Accounts \cup {Every}, NEW currency \in Currencies \cup {Every}
             PROVE  SelectFunds(funds, account, currency) = LatestFunds(account, currency)
  BY DEF FundsSelected
<1> DEFINE S == {r \in funds : Matches(r, account, currency)}
<1>1. \A r \in funds : r.account \in Accounts /\ r.currency \in Currencies
                       /\ r.exchange_time_utc \in Nat
  BY DEF FundsInv, FundsRows
<1>2. ASSUME NEW r \in SelectFunds(funds, account, currency)
      PROVE  /\ r \in {latest[a][c] : a \in Accounts, c \in Currencies} \ {None}
             /\ Matches(r, account, currency)
  <2>1. r \in funds /\ FundsKey(r) \in LatestKeys(S)
    BY <1>2 DEF SelectFunds
  <2>2. PICK q \in S : /\ FundsKey(r) = FundsKey(q)
                       /\ \A y \in S : y.account = q.account /\ y.currency = q.currency
                            => y.exchange_time_utc <= q.exchange_time_utc
    BY <2>1 DEF LatestKeys
  <2>3. q = r
    BY <2>1, <2>2 DEF FundsInv, FundsKeyed
  <2> DEFINE l == latest[r.account][r.currency]
  <2>4. /\ l # None /\ l \in funds /\ l.account = r.account /\ l.currency = r.currency
        /\ r.exchange_time_utc <= l.exchange_time_utc
    BY <1>1, <2>1 DEF FundsInv, LatestStored
  <2>5. l \in S
    BY <2>2, <2>3, <2>4 DEF Matches
  <2>6. l.exchange_time_utc <= r.exchange_time_utc
    BY <2>2, <2>3, <2>4, <2>5
  <2>7. l.exchange_time_utc = r.exchange_time_utc
    BY <1>1, <2>1, <2>4, <2>6
  <2>8. l = r
    BY <2>1, <2>4, <2>7 DEF FundsInv, FundsKeyed, FundsKey
  <2> QED
    BY <1>1, <2>1, <2>2, <2>3, <2>4, <2>8
<1>3. ASSUME NEW a \in Accounts, NEW c \in Currencies, latest[a][c] # None,
             Matches(latest[a][c], account, currency)
      PROVE  latest[a][c] \in SelectFunds(funds, account, currency)
  <2> DEFINE l == latest[a][c]
  <2>1. /\ l \in funds /\ l.account = a /\ l.currency = c
        /\ \A r \in funds : r.account = a /\ r.currency = c =>
             r.exchange_time_utc <= l.exchange_time_utc
    BY <1>3 DEF FundsInv, LatestStored
  <2>2. FundsKey(l) \in LatestKeys(S)
    BY <1>3, <2>1 DEF LatestKeys
  <2> QED
    BY <2>1, <2>2 DEF SelectFunds
<1> QED
  BY <1>2, <1>3 DEF LatestFunds

(* Any number of accounts, currencies and updates, with times of the       *)
(* exchange and of the host in any order: GET /funds lists the latest.     *)
THEOREM LatestFundsListed == Spec => []FundsSelected
<1>1. Init => FundsInv
  BY DEF Init, FundsInv, FundsKeyed, LatestStored
<1>2. FundsInv /\ [Next]_vars => FundsInv'
  <2> SUFFICES ASSUME FundsInv, [Next]_vars PROVE FundsInv'
    OBVIOUS
  <2>0. stamped' \in Nat
    <3>1. stamped' = stamped \/ stamped' = stamped + 1
      BY DEF Next, InsertUpdate, PutBatch, FundsUpdate, PositionUpdate, Restart, Stamp, vars
    <3> QED
      BY <3>1 DEF FundsInv
  <2>1. CASE UNCHANGED <<funds, latest>>
    BY <2>0, <2>1 DEF FundsInv, FundsKeyed, LatestStored
  <2>2. ASSUME NEW fu \in FundsUpdates, NEW s, FundsUpdate(s, fu), FundsAccepted(fu)
        PROVE  FundsInv'
    <3>1. stamped \in Nat
      BY DEF FundsInv
    <3>2. FundsRow(fu, HostTime) \in FundsRows
      BY <2>2, <3>1, FundsRowType DEF HostTime
    <3> QED
      BY <2>0, <2>2, <3>2, InsertInv DEF FundsUpdate, InsertFunds
  <2>3. ASSUME NEW fu \in FundsUpdates, NEW s, FundsUpdate(s, fu), ~FundsAccepted(fu)
        PROVE  UNCHANGED <<funds, latest>>
    BY <2>3 DEF FundsUpdate
  <2>4. ASSUME \/ \E tu \in Updates : InsertUpdate(tu)
               \/ \E batch \in Batches : PutBatch(batch)
               \/ \E pu \in PositionUpdates : PositionUpdate(Home[pu.account], pu)
               \/ Restart
               \/ UNCHANGED vars
        PROVE  UNCHANGED <<funds, latest>>
    BY <2>4 DEF InsertUpdate, PutBatch, PositionUpdate, Restart, vars
  <2> QED
    BY <2>1, <2>2, <2>3, <2>4, Zenon DEF Next
<1> QED
  BY <1>1, <1>2, SelectLatest, PTL DEF Spec

-----------------------------------------------------------------------------
(* What is cached *)

Cache == [positions : [Accounts -> [Instruments -> PositionUpdates \cup {None}]],
          funds : [Accounts -> [Currencies -> FundsUpdates \cup {None}]]]

(* An update is cached for the source of its account only. *)
CacheInv ==
  /\ accounts_by_source \in [Sources -> Cache]
  /\ CachedAreStored
  /\ \A s \in Sources, a \in Accounts, c \in Currencies :
       accounts_by_source[s].funds[a][c] # None => s = Home[a]

(* The handler of FundsUpdate. *)
LEMMA FundsUpdateCached ==
  ASSUME CacheInv, stamped \in Nat, NEW fu \in FundsUpdates, FundsUpdate(Home[fu.account], fu)
  PROVE  CacheInv'
<1> DEFINE s0 == Home[fu.account]
           row == FundsRow(fu, HostTime)
           cached(s, a, c) == accounts_by_source[s].funds[a][c]
<1>1. fu.account \in Accounts /\ fu.currency \in Currencies /\ s0 \in Sources
  BY FundsAssumption DEF Sources
<1>2. CASE ~FundsAccepted(fu)
  BY <1>2 DEF FundsUpdate, CacheInv, CachedAreStored
<1>3. CASE FundsAccepted(fu)
  <2>1. /\ row.account = fu.account /\ row.currency = fu.currency /\ row.balance = fu.balance
        /\ fu.exchange_time_utc # 0 => row.exchange_time_utc = fu.exchange_time_utc
    BY <1>3, FundsRowType DEF HostTime
  <2>2. funds' = {r \in funds : FundsKey(r) # FundsKey(row)} \cup {row}
    BY <1>3 DEF FundsUpdate, InsertFunds
  <2>3. /\ accounts_by_source' \in [Sources -> Cache]
        /\ accounts_by_source'[s0].funds[fu.account][fu.currency] = fu
        /\ \A s \in Sources, a \in Accounts, c \in Currencies :
             s # s0 \/ a # fu.account \/ c # fu.currency =>
               accounts_by_source'[s].funds[a][c] = accounts_by_source[s].funds[a][c]
    <3> DEFINE old == accounts_by_source[s0]
               new == [positions |-> old.positions,
                       funds |-> [old.funds EXCEPT ![fu.account][fu.currency] = fu]]
    <3>1. old \in Cache
      BY <1>1 DEF CacheInv
    <3>2. accounts_by_source' = [accounts_by_source EXCEPT ![s0] = new]
      BY <1>1, <1>3, <3>1 DEF FundsUpdate, CacheFunds, CacheInv, Cache
    <3>3. /\ new \in Cache /\ new.funds[fu.account][fu.currency] = fu
          /\ \A a \in Accounts, c \in Currencies :
               a # fu.account \/ c # fu.currency => new.funds[a][c] = old.funds[a][c]
      BY <1>1, <3>1 DEF Cache
    <3> HIDE DEF new
    <3> QED
      BY <1>1, <3>2, <3>3 DEF CacheInv
  <2> HIDE DEF row
  <2>4. ASSUME NEW s \in Sources, NEW a \in Accounts, NEW c \in Currencies,
               accounts_by_source'[s].funds[a][c] # None
        PROVE  /\ s = Home[a]
               /\ \E r \in funds' :
                    /\ r.account = a /\ r.currency = c
                    /\ r.balance = accounts_by_source'[s].funds[a][c].balance
                    /\ accounts_by_source'[s].funds[a][c].exchange_time_utc # 0 =>
                         r.exchange_time_utc = accounts_by_source'[s].funds[a][c].exchange_time_utc
    <3>1. CASE s = s0 /\ a = fu.account /\ c = fu.currency
      BY <2>1, <2>2, <2>3, <3>1
    <3>2. CASE ~(s = s0 /\ a = fu.account /\ c = fu.currency)
      <4>1. accounts_by_source'[s].funds[a][c] = cached(s, a, c)
        BY <2>3, <3>2
      <4>2. s = Home[a] /\ (a # fu.account \/ c # fu.currency)
        BY <2>4, <3>2, <4>1 DEF CacheInv
      <4>3. PICK r \in funds :
              /\ r.account = a /\ r.currency = c /\ r.balance = cached(s, a, c).balance
              /\ cached(s, a, c).exchange_time_utc # 0 =>
                   r.exchange_time_utc = cached(s, a, c).exchange_time_utc
        BY <2>4, <4>1 DEF CacheInv, CachedAreStored
      <4>4. r \in funds'
        BY <2>1, <2>2, <4>2, <4>3 DEF FundsKey
      <4> QED
        BY <4>1, <4>2, <4>3, <4>4, Zenon
    <3> QED
      BY <3>1, <3>2
  <2>5. CachedAreStored'
    BY <2>4 DEF CachedAreStored
  <2> QED
    BY <2>3, <2>4, <2>5 DEF CacheInv
<1> QED
  BY <1>2, <1>3

(* Writing a position leaves the cached funds alone. *)
LEMMA WritePosition ==
  ASSUME NEW cache \in [Sources -> Cache], NEW h \in Sources, NEW a \in Accounts,
         NEW i \in Instruments, NEW pu \in PositionUpdates, NEW after,
         after = [cache EXCEPT ![h].positions[a][i] = pu]
  PROVE  /\ after \in [Sources -> Cache]
         /\ \A s \in Sources : after[s].funds = cache[s].funds
<1>1. /\ after \in [Sources -> [positions : {after[s].positions : s \in Sources},
                                funds : {after[s].funds : s \in Sources}]]
      /\ \A s \in Sources : /\ s # h => after[s] = cache[s]
                            /\ after[s].funds = cache[s].funds
  BY DEF Cache
<1>2. after[h].positions = [cache[h].positions EXCEPT ![a][i] = pu]
  BY DEF Cache
<1>3. \A s \in Sources : /\ cache[s].positions \in [Accounts -> [Instruments -> PositionUpdates \cup {None}]]
                         /\ cache[s].funds \in [Accounts -> [Currencies -> FundsUpdates \cup {None}]]
  BY DEF Cache
<1>4. after[h].positions \in [Accounts -> [Instruments -> PositionUpdates \cup {None}]]
  BY <1>2, <1>3
<1> QED
  BY <1>1, <1>3, <1>4 DEF Cache

(* The handler of PositionUpdate leaves funds alone. *)
LEMMA PositionUpdateCached ==
  ASSUME CacheInv, NEW pu \in PositionUpdates, PositionUpdate(Home[pu.account], pu)
  PROVE  CacheInv'
<1>1. /\ accounts_by_source' \in [Sources -> Cache]
      /\ \A s \in Sources : accounts_by_source'[s].funds = accounts_by_source[s].funds
      /\ UNCHANGED funds
  <2>1. Home[pu.account] \in Sources /\ pu.account \in Accounts /\ pu.instrument \in Instruments
    BY PositionsAssumption DEF Sources
  <2> QED
    BY <2>1, WritePosition DEF PositionUpdate, CacheInv
<1>2. CachedAreStored'
  BY <1>1 DEF CacheInv, CachedAreStored
<1> QED
  BY <1>1, <1>2 DEF CacheInv

(* Whatever updates arrive, fail or are repeated: memory is never ahead of *)
(* the table.                                                              *)
THEOREM CacheNeverAhead == Spec => []CachedAreStored
<1> DEFINE Inv == stamped \in Nat /\ CacheInv
<1>1. Init => Inv
  BY DEF Init, CacheInv, CachedAreStored, Empty, Cache
<1>2. Inv /\ [Next]_vars => Inv'
  <2> SUFFICES ASSUME Inv, [Next]_vars PROVE Inv'
    OBVIOUS
  <2>1. stamped' \in Nat
    <3>1. stamped' = stamped \/ stamped' = stamped + 1
      BY DEF Next, InsertUpdate, PutBatch, FundsUpdate, PositionUpdate, Restart, Stamp, vars
    <3> QED
      BY <3>1
  <2>2. CASE UNCHANGED <<funds, accounts_by_source>>
    BY <2>1, <2>2 DEF CacheInv, CachedAreStored
  <2>3. CASE \E fu \in FundsUpdates : FundsUpdate(Home[fu.account], fu)
    BY <2>1, <2>3, FundsUpdateCached
  <2>4. CASE \E pu \in PositionUpdates : PositionUpdate(Home[pu.account], pu)
    BY <2>1, <2>4, PositionUpdateCached
  <2>5. CASE Restart
    <3>1. accounts_by_source' = [s \in Sources |-> Empty]
      BY <2>5 DEF Restart
    <3> QED
      BY <2>1, <3>1 DEF CacheInv, CachedAreStored, Empty, Cache
  <2>6. ASSUME \/ \E tu \in Updates : InsertUpdate(tu)
               \/ \E batch \in Batches : PutBatch(batch)
               \/ UNCHANGED vars
        PROVE  UNCHANGED <<funds, accounts_by_source>>
    BY <2>6 DEF InsertUpdate, PutBatch, vars
  <2> QED
    BY <2>2, <2>3, <2>4, <2>5, <2>6, Zenon DEF Next
<1>3. Inv => CachedAreStored
  BY DEF CacheInv
<1> QED
  BY <1>1, <1>2, <1>3, PTL DEF Spec
=============================================================================
