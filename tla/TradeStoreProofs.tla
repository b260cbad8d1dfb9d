--------------------------- MODULE TradeStoreProofs ---------------------------
(***************************************************************************)
(* What holds of the persisted account for every number of symbols,        *)
(* positions, settlements, crashes and resets, and whatever order writes   *)
(* land in and whichever are lost, proved with TLAPS.                      *)
(***************************************************************************)
EXTENDS TradeStore, SequenceTheorems, WellFoundedInduction, TLAPS

-----------------------------------------------------------------------------
(* Sequences and sets *)

LEMMA RangeOf == ASSUME NEW S, NEW q \in Seq(S) PROVE Range(q) = {q[k] : k \in 1..Len(q)}
  BY LenProperties DEF Range

LEMMA InRange == ASSUME NEW S, NEW q \in Seq(S) PROVE Range(q) \subseteq S
  BY RangeOf, ElementOfSeq

LEMMA EmptyRange == Range(<<>>) = {}
  BY DEF Range

LEMMA Appended ==
  ASSUME NEW S, NEW q \in Seq(S), NEW w \in S
  PROVE  Append(q, w) \in Seq(S) /\ Range(Append(q, w)) = Range(q) \cup {w}
<1>1. Append(q, w) \in Seq(S) /\ Len(q) \in Nat
  BY AppendProperties, LenProperties
<1>2. Range(Append(q, w)) = {Append(q, w)[k] : k \in 1..(Len(q) + 1)}
  <2>1. Len(Append(q, w)) = Len(q) + 1
    BY AppendProperties
  <2>2. QED
    BY <1>1, <2>1, RangeOf
<1>3. \A k \in 1..(Len(q) + 1) : Append(q, w)[k] = IF k = Len(q) + 1 THEN w ELSE q[k]
  BY <1>1, AppendProperties
<1>4. Range(q) = {q[k] : k \in 1..Len(q)}
  BY RangeOf
<1>5. Range(q) \cup {w} \subseteq Range(Append(q, w))
  <2>1. \A k \in 1..Len(q) : k \in 1..(Len(q) + 1) /\ k # Len(q) + 1
    BY <1>1
  <2>2. Len(q) + 1 \in 1..(Len(q) + 1)
    BY <1>1
  <2>3. QED
    BY <1>2, <1>3, <1>4, <2>1, <2>2
<1>6. Range(Append(q, w)) \subseteq Range(q) \cup {w}
  <2>1. \A k \in 1..(Len(q) + 1) : k # Len(q) + 1 => k \in 1..Len(q)
    BY <1>1
  <2>2. QED
    BY <1>2, <1>3, <1>4, <2>1
<1>7. QED
  BY <1>1, <1>5, <1>6

LEMMA Removed ==
  ASSUME NEW S, NEW q \in Seq(S), NEW i \in DOMAIN q
  PROVE  RemoveAt(q, i) \in Seq(S) /\ Range(RemoveAt(q, i)) \subseteq Range(q)
<1>1. Len(q) \in Nat /\ DOMAIN q = 1..Len(q) /\ i \in 1..Len(q) /\ \A k \in 1..Len(q) : q[k] \in Range(q)
  BY LenProperties, RangeOf
<1>2. \A k \in 1..Len(q) : q[k] \in S
  BY <1>1, ElementOfSeq
<1> DEFINE T == Range(q) \cap S
           front == SubSeq(q, 1, i - 1)
           back == SubSeq(q, i + 1, Len(q))
<1>3. front \in Seq(T)
  <2>1. \A k \in 1..(i - 1) : q[k] \in T
    BY <1>1, <1>2
  <2>2. QED
    BY <1>1, <2>1, SubSeqProperties
<1>4. back \in Seq(T)
  <2>1. \A k \in (i + 1)..Len(q) : q[k] \in T
    BY <1>1, <1>2
  <2>2. QED
    BY <1>1, <2>1, SubSeqProperties
<1> HIDE DEF T, front, back
<1>5. front \o back \in Seq(T)
  BY <1>3, <1>4, ConcatProperties
<1>6. Range(front \o back) \subseteq T
  BY <1>5, InRange
<1>7. T \subseteq S /\ T \subseteq Range(q)
  BY DEF T
<1>8. front \o back \in Seq(S)
  BY <1>5, <1>7, SeqMonotonic
<1>9. QED
  BY <1>6, <1>7, <1>8 DEF RemoveAt, front, back

LEMMA Replaced ==
  ASSUME NEW S, NEW q \in Seq(S), NEW i \in DOMAIN q, NEW w \in S
  PROVE  ReplaceAt(q, i, w) \in Seq(S) /\ Range(ReplaceAt(q, i, w)) \subseteq Range(q) \cup {w}
<1> DEFINE r == [q EXCEPT ![i] = w]
<1>1. i \in 1..Len(q)
  BY LenProperties
<1>2. r \in Seq(S) /\ Len(r) = Len(q) /\ \A j \in 1..Len(q) : r[j] = IF j = i THEN w ELSE q[j]
  BY <1>1, ExceptSeq
<1> HIDE DEF r
<1>3. Range(r) = {r[k] : k \in 1..Len(q)} /\ Range(q) = {q[k] : k \in 1..Len(q)}
  BY <1>2, RangeOf
<1>4. Range(r) \subseteq Range(q) \cup {w}
  BY <1>2, <1>3
<1>5. QED
  BY <1>2, <1>4 DEF r, ReplaceAt

LEMMA MinIsIn ==
  ASSUME NEW S, S \subseteq Nat, S # {}
  PROVE  Min(S) \in S
<1> DEFINE R == {ss \in Nat \X Nat : ss[1] < ss[2]}
<1>1. IsWellFoundedOn(R, Nat)
  BY NatLessThanWellFounded DEF OpToRel
<1> HIDE DEF R
<1>2. \E x \in S : \A y \in S : ~(<<y, x>> \in R)
  BY <1>1, WFMin
<1>3. \E x \in S : \A y \in S : x =< y
  <2>1. \A x, y \in Nat : ~(<<y, x>> \in R) => x =< y
    BY DEF R
  <2>2. QED
    BY <1>2, <2>1
<1>4. QED
  BY <1>3 DEF Min

-----------------------------------------------------------------------------
(* Types of the values the actions build *)

LEMMA WriteFields ==
  ASSUME NEW w \in Write
  PROVE  /\ w.kind = "open" => w.id \in Ids /\ w.symbol \in Symbols /\ w.at \in 0..MaxTime
         /\ w.kind = "close" => w.id \in Ids /\ w.realized \in Balance /\ w.halted \in BOOLEAN
         /\ w.kind = "account" => w.realized \in Balance /\ w.halted \in BOOLEAN
         /\ w.kind = "funding" => w.key \in Key /\ w.id \in Ids /\ w.final \in BOOLEAN
         /\ w.kind = "confirm" => w.key \in Key
  BY DEF Write

LEMMA Writes ==
  /\ \A id \in Ids, s \in Symbols, at \in 0..MaxTime :
        [kind |-> "open", id |-> id, symbol |-> s, at |-> at] \in Write
  /\ \A id \in Ids, b \in Balance, h \in BOOLEAN :
        /\ [kind |-> "close", id |-> id, realized |-> b, halted |-> h] \in Write
        /\ [kind |-> "account", realized |-> b, halted |-> h] \in Write
  /\ \A key \in Key, id \in Ids, final \in BOOLEAN :
        [kind |-> "funding", key |-> key, id |-> id, final |-> final] \in Write
  /\ \A key \in Key : [kind |-> "confirm", key |-> key] \in Write
  /\ [kind |-> "reset"] \in Write /\ [kind |-> "zero"] \in Write
  BY DEF Write

LEMMA Balances ==
  /\ Empty \in Balance
  /\ \A b \in Balance, e \in Entry : Plus(b, e) \in Balance
  BY DEF Empty, Balance, Plus

LEMMA Entries ==
  ASSUME NEW id \in Ids, NEW at \in Times
  PROVE  /\ Fee(id) \in Entry /\ Result(id) \in Entry
         /\ Funding(id, at) \in Entry /\ Correction(id, at) \in Entry
  BY DEF Entry, Fee, Result, Funding, Correction

LEMMA InitTypes == Init => TypeOK
<1> SUFFICES ASSUME Init PROVE TypeOK
  OBVIOUS
<1>1. wire \in Seq(Write)
  BY EmptySeq DEF Init
<1>2. /\ 0 \in 0..MaxTime /\ 1 \in 1..(MaxIds + 1) /\ 0 \in 0..MaxCrashes /\ 0 \in 0..MaxResets
  BY StoreAssumption
<1>3. /\ realized \in Balance /\ account \in [realized : Balance, halted : BOOLEAN]
  BY Balances DEF Init
<1>4. ordered \in BOOLEAN
  BY StoreAssumption DEF Init
<1>5. QED
  BY <1>1, <1>2, <1>3, <1>4 DEF Init, TypeOK

LEMMA OpenTypes ==
  ASSUME TypeOK, UNCHANGED ordered, NEW s \in Symbols, Open(s)
  PROVE  TypeOK'
<1>1. nextId \in Ids /\ nextId + 1 \in 1..(MaxIds + 1) /\ now \in 0..MaxTime
  BY StoreAssumption DEF Open, TypeOK, Ids
<1>2. book' \in [Symbols -> [id : Ids, watermark : 0..MaxTime] \cup {None}]
  BY <1>1 DEF Open, TypeOK
<1>3. realized' \in Balance
  <2>1. Fee(nextId) \in Entry
    BY <1>1 DEF Fee, Entry
  <2>2. QED
    BY <2>1, Balances DEF Open, TypeOK
<1>4. wire' \in Seq(Write)
  BY <1>1, Writes, Appended DEF Open, Send, TypeOK
<1>5. QED
  BY <1>1, <1>2, <1>3, <1>4 DEF Open, TypeOK, database, counters, history

LEMMA CloseTypes ==
  ASSUME TypeOK, UNCHANGED ordered, NEW s \in Symbols, NEW breach \in BOOLEAN, Close(s, breach)
  PROVE  TypeOK'
<1> DEFINE id == book[s].id
<1>1. id \in Ids
  BY DEF Close, TypeOK
<1>2. realized' \in Balance
  <2>1. Result(id) \in Entry
    BY <1>1 DEF Result, Entry
  <2>2. QED
    BY <2>1, Balances DEF Close, TypeOK
<1>3. wire' \in Seq(Write)
  <2>1. [kind |-> "close", id |-> id, realized |-> realized', halted |-> halted] \in Write
    BY <1>1, <1>2, Writes DEF TypeOK
  <2>2. QED
    BY <2>1, Appended DEF Close, Send, TypeOK
<1>4. book' \in [Symbols -> [id : Ids, watermark : 0..MaxTime] \cup {None}] /\ halted' \in BOOLEAN
  BY DEF Close, TypeOK
<1>5. QED
  BY <1>2, <1>3, <1>4 DEF Close, TypeOK, database, counters, history

LEMMA FundingWriteTypes ==
  ASSUME wire \in Seq(Write), NEW key \in Key, NEW id \in Ids, NEW final \in BOOLEAN,
         FundingWrite(key, id, final)
  PROVE  /\ wire' \in Seq(Write)
         /\ Range(wire') \subseteq Range(wire) \cup {[kind |-> "funding", key |-> key, id |-> id, final |-> final]}
<1> DEFINE w == [kind |-> "funding", key |-> key, id |-> id, final |-> final]
<1>1. w \in Write
  BY Writes
<1>2. wire' = Append(wire, w) \/ wire' = wire
  BY DEF FundingWrite, Send
<1> HIDE DEF w
<1>3. /\ Append(wire, w) \in Seq(Write)
      /\ Range(Append(wire, w)) = Range(wire) \cup {w}
  BY <1>1, Appended
<1>4. wire' \in Seq(Write) /\ Range(wire') \subseteq Range(wire) \cup {w}
  BY <1>2, <1>3
<1>5. QED
  BY <1>4 DEF w

LEMMA AccrueTypes ==
  ASSUME TypeOK, UNCHANGED ordered, NEW s \in Symbols, NEW final \in BOOLEAN, Accrue(s, final)
  PROVE  TypeOK'
<1> DEFINE at == book[s].watermark + 1
           id == book[s].id
           key == <<s, at>>
<1>1. id \in Ids /\ at \in Times /\ at \in 0..MaxTime /\ key \in Key
  BY StoreAssumption DEF Accrue, Owed, TypeOK, Times, Key
<1>2. book' \in [Symbols -> [id : Ids, watermark : 0..MaxTime] \cup {None}]
  BY <1>1 DEF Accrue, TypeOK
<1>3. CASE key \in settledAt
  BY <1>2, <1>3 DEF Accrue, TypeOK, database, counters
<1>4. CASE key \notin settledAt
  <2>1. realized' \in Balance
    BY <1>1, <1>4, Entries, Balances DEF Accrue, TypeOK
  <2>2. settledAt' \subseteq Key
    BY <1>1, <1>4 DEF Accrue, TypeOK
  <2>3. events' \in [Key -> [id : Ids, final : BOOLEAN] \cup {None}]
    <3>1. events' = [events EXCEPT ![key] = [id |-> id, final |-> final]]
      BY <1>4 DEF Accrue
    <3>2. [id |-> id, final |-> final] \in [id : Ids, final : BOOLEAN]
      BY <1>1
    <3>3. events \in [Key -> [id : Ids, final : BOOLEAN] \cup {None}]
      BY DEF TypeOK
    <3> HIDE DEF key, id
    <3>4. QED
      BY <1>1, <3>1, <3>2, <3>3
  <2>4. wire' \in Seq(Write)
    BY <1>1, <1>4, FundingWriteTypes DEF Accrue, TypeOK
  <2>5. offRecord' \subseteq Ids \X Times
    BY <1>1, <1>4 DEF Accrue, FundingWrite, TypeOK
  <2>6. QED
    BY <1>2, <2>1, <2>2, <2>3, <2>4, <2>5 DEF Accrue, TypeOK, database, counters
<1>5. QED
  BY <1>3, <1>4

LEMMA ReconcileTypes ==
  ASSUME TypeOK, UNCHANGED ordered, NEW key \in Key, Reconcile(key)
  PROVE  TypeOK'
<1>1. events[key].id \in Ids /\ key[2] \in Times
  BY DEF Reconcile, TypeOK, Key
<1>2. realized' \in Balance
  BY <1>1, Entries, Balances DEF Reconcile, TypeOK
<1>3. events' \in [Key -> [id : Ids, final : BOOLEAN] \cup {None}]
  BY DEF Reconcile, TypeOK
<1>4. wire' \in Seq(Write)
  BY <1>1, FundingWriteTypes DEF Reconcile, TypeOK
<1>5. offRecord' \subseteq Ids \X Times
  BY <1>1 DEF Reconcile, FundingWrite, TypeOK
<1>6. QED
  BY <1>2, <1>3, <1>4, <1>5 DEF Reconcile, TypeOK, database, counters

LEMMA ResetTypes ==
  ASSUME TypeOK, UNCHANGED ordered, Reset
  PROVE  TypeOK'
<1>1. wire' \in Seq(Write) /\ resets' \in 0..MaxResets
  BY Writes, Appended, StoreAssumption DEF Reset, Send, TypeOK
<1>2. realized' \in Balance
  BY Balances DEF Reset
<1>3. QED
  BY <1>1, <1>2 DEF Reset, TypeOK, database, history
-----------------------------------------------------------------------------
(* A write in flight, taken off the wire or replaced by its second statement *)

LEMMA InFlight ==
  ASSUME TypeOK, NEW i \in DOMAIN wire
  PROVE  wire[i] \in Write /\ wire[i] \in Range(wire)
<1>1. wire \in Seq(Write) /\ DOMAIN wire = 1..Len(wire)
  BY LenProperties DEF TypeOK
<1>2. QED
  BY <1>1, ElementOfSeq, RangeOf

LEMMA LandsTypes ==
  ASSUME TypeOK, NEW i \in DOMAIN wire, Lands(i)
  PROVE  wire' \in Seq(Write) /\ Range(wire') \subseteq Range(wire)
  BY Removed DEF Lands, TypeOK

LEMMA ContinuesTypes ==
  ASSUME TypeOK, NEW i \in DOMAIN wire, NEW w \in Write, Continues(i, w)
  PROVE  wire' \in Seq(Write) /\ Range(wire') \subseteq Range(wire) \cup {w}
  BY Replaced DEF Continues, TypeOK

LEMMA LandTypes ==
  ASSUME TypeOK, UNCHANGED ordered, NEW i \in DOMAIN wire, Land(i)
  PROVE  TypeOK'
<1>1. wire[i] \in Write
  BY InFlight
<1>2. CASE LandOpen(i)
  <2>1. [symbol |-> wire[i].symbol, at |-> wire[i].at, open |-> TRUE]
            \in [symbol : Symbols, at : 0..MaxTime, open : BOOLEAN] /\ wire[i].id \in Ids
    BY <1>1, <1>2, WriteFields DEF LandOpen
  <2>2. rows' \in [Ids -> [symbol : Symbols, at : 0..MaxTime, open : BOOLEAN] \cup {None}]
    BY <1>2, <2>1 DEF LandOpen, TypeOK
  <2>3. wire' \in Seq(Write)
    BY <1>2, LandsTypes DEF LandOpen
  <2>4. QED
    BY <1>2, <2>2, <2>3 DEF Land, LandOpen, TypeOK, memory, counters, history
<1>3. CASE LandClose(i)
  <2>1. wire[i].id \in Ids /\ wire[i].realized \in Balance /\ wire[i].halted \in BOOLEAN
    BY <1>1, <1>3, WriteFields DEF LandClose
  <2> DEFINE Row == [symbol : Symbols, at : 0..MaxTime, open : BOOLEAN]
  <2>2. rows' \in [Ids -> Row \cup {None}] /\ missed' \subseteq Ids
    <3>1. CASE rows[wire[i].id] = None
      BY <1>3, <2>1, <3>1 DEF LandClose, TypeOK
    <3>2. CASE rows[wire[i].id] # None
      <4>1. rows \in [Ids -> Row \cup {None}] /\ missed \subseteq Ids
        BY DEF TypeOK
      <4>2. rows[wire[i].id] \in Row
        BY <2>1, <3>2, <4>1
      <4>3. [rows[wire[i].id] EXCEPT !.open = FALSE] \in Row
        BY <4>2
      <4>4. rows' = [rows EXCEPT ![wire[i].id] = [rows[wire[i].id] EXCEPT !.open = FALSE]] /\ missed' = missed
        BY <1>3, <3>2 DEF LandClose, AfterClose
      <4> HIDE DEF Row
      <4>5. QED
        BY <2>1, <4>1, <4>3, <4>4
    <3>3. QED
      BY <3>1, <3>2
  <2>3. wire' \in Seq(Write)
    <3>1. [kind |-> "account", realized |-> wire[i].realized, halted |-> wire[i].halted] \in Write
      BY <2>1, Writes
    <3>2. QED
      BY <1>3, <3>1, ContinuesTypes DEF LandClose
  <2>4. QED
    BY <1>3, <2>2, <2>3 DEF Land, LandClose, TypeOK, memory, counters
<1>4. CASE LandAccount(i)
  <2>1. wire[i].realized \in Balance /\ wire[i].halted \in BOOLEAN
    BY <1>1, <1>4, WriteFields DEF LandAccount
  <2>2. account' \in [realized : Balance, halted : BOOLEAN]
    <3>1. account' = [realized |-> wire[i].realized, halted |-> StoredHalt(account.halted, wire[i].halted)]
      BY <1>4 DEF LandAccount
    <3>2. account.halted \in BOOLEAN
      BY DEF TypeOK
    <3>3. StoredHalt(account.halted, wire[i].halted) \in BOOLEAN
      BY <2>1, <3>2 DEF StoredHalt
    <3>4. QED
      BY <2>1, <3>1, <3>3
  <2>3. wire' \in Seq(Write)
    BY <1>4, LandsTypes DEF LandAccount
  <2>4. QED
    BY <1>4, <2>2, <2>3 DEF Land, LandAccount, TypeOK, memory, counters, history
<1>5. CASE LandFunding(i)
  <2>1. wire[i].key \in Key /\ wire[i].id \in Ids /\ wire[i].final \in BOOLEAN
    BY <1>1, <1>5, WriteFields DEF LandFunding
  <2>2. ledger' \in [Key -> [id : Ids, final : BOOLEAN] \cup {None}]
    BY <1>5, <2>1 DEF LandFunding, OnConflict, TypeOK
  <2>3. wire' \in Seq(Write)
    <3>1. [kind |-> "confirm", key |-> wire[i].key] \in Write
      BY <2>1, Writes
    <3>2. QED
      BY <1>5, <3>1, LandsTypes, ContinuesTypes DEF LandFunding
  <2>4. QED
    BY <1>5, <2>2, <2>3 DEF Land, LandFunding, TypeOK, memory, counters, history
<1>6. CASE LandConfirm(i)
  <2>1. wire[i].key \in Key
    BY <1>1, <1>6, WriteFields DEF LandConfirm
  <2>2. ledger' \in [Key -> [id : Ids, final : BOOLEAN] \cup {None}]
    BY <1>6, <2>1 DEF LandConfirm, TypeOK
  <2>3. wire' \in Seq(Write)
    BY <1>6, LandsTypes DEF LandConfirm
  <2>4. QED
    BY <1>6, <2>2, <2>3 DEF Land, LandConfirm, TypeOK, memory, counters, history
<1>7. CASE LandReset(i)
  <2>1. rows' \in [Ids -> [symbol : Symbols, at : 0..MaxTime, open : BOOLEAN] \cup {None}]
    BY <1>7 DEF LandReset, TypeOK
  <2>2. wire' \in Seq(Write)
    BY <1>7, Writes, ContinuesTypes DEF LandReset
  <2>3. QED
    BY <1>7, <2>1, <2>2 DEF Land, LandReset, TypeOK, memory, counters, history
<1>8. CASE LandZero(i)
  <2>1. wire' \in Seq(Write)
    BY <1>8, LandsTypes DEF LandZero
  <2>2. account' \in [realized : Balance, halted : BOOLEAN]
    BY <1>8, Balances DEF LandZero
  <2>3. QED
    BY <1>8, <2>1, <2>2 DEF Land, LandZero, TypeOK, memory, counters
<1>9. QED
  BY <1>2, <1>3, <1>4, <1>5, <1>6, <1>7, <1>8 DEF Land

LEMMA OpenRowsAre ==
  ASSUME TypeOK, NEW s \in Symbols, OpenRows(s) # {}
  PROVE  Min(OpenRows(s)) \in OpenRows(s)
<1>1. OpenRows(s) \subseteq Nat
  BY DEF OpenRows, Ids
<1>2. QED
  BY <1>1, MinIsIn

LEMMA SeedsAreKeys == \A seed \in Seeds : seed \subseteq Recorded /\ seed \subseteq Key
  BY DEF Seeds, Recorded

LEMMA BootTypes ==
  ASSUME TypeOK, UNCHANGED ordered, NEW who \in Drivers, BootTrades(who)
  PROVE  TypeOK'
<1>1. ASSUME NEW s \in Symbols, OpenRows(s) # {}
      PROVE  [id |-> Min(OpenRows(s)), watermark |-> rows[Min(OpenRows(s))].at] \in [id : Ids, watermark : 0..MaxTime]
  <2>1. Min(OpenRows(s)) \in OpenRows(s)
    BY <1>1, OpenRowsAre
  <2>2. Min(OpenRows(s)) \in Ids /\ rows[Min(OpenRows(s))] # None
    BY <2>1 DEF OpenRows
  <2>3. QED
    BY <2>2 DEF TypeOK
<1>2. book' \in [Symbols -> [id : Ids, watermark : 0..MaxTime] \cup {None}]
  BY <1>1 DEF BootTrades
<1>3. realized' \in Balance /\ halted' \in BOOLEAN
  BY DEF BootTrades, TypeOK
<1>4. settledAt' \subseteq Key
  BY SeedsAreKeys DEF BootTrades
<1>5. unread' \subseteq Key
  BY DEF BootTrades, Recorded
<1>6. QED
  BY <1>2, <1>3, <1>4, <1>5 DEF BootTrades, TypeOK, database, counters

(* Every step keeps every variable in its type. *)
LEMMA StepTypes == TypeOK /\ [Next]_vars => TypeOK'
<1> SUFFICES ASSUME TypeOK, [Next]_vars PROVE TypeOK'
  OBVIOUS
<1>1. CASE UNCHANGED vars
  BY <1>1 DEF TypeOK, vars, memory, database, counters, history
<1>2. ASSUME Next PROVE TypeOK'
  <2> USE <1>2
  <2>0. UNCHANGED ordered /\ Step
    BY DEF Next
  <2>1. CASE Engine
    BY <2>0, <2>1, OpenTypes, CloseTypes, AccrueTypes, ReconcileTypes, ResetTypes DEF Engine, Replay
  <2>2. ASSUME NEW i \in DOMAIN wire, Land(i) PROVE TypeOK'
    BY <2>0, <2>2, LandTypes
  <2>3. ASSUME NEW i \in DOMAIN wire, Drop(i) PROVE TypeOK'
    <3>1. wire' \in Seq(Write)
      BY <2>3, LandsTypes DEF Drop
    <3>2. QED
      BY <2>0, <2>3, <3>1 DEF Drop, TypeOK, memory, database, counters, history
  <2>4. CASE Crash
    <3>1. crashes' \in 0..MaxCrashes /\ realized' \in Balance
      BY <2>4, Balances, StoreAssumption DEF Crash, TypeOK
    <3>2. QED
      BY <2>0, <2>4, <3>1 DEF Crash, TypeOK, database, history
  <2>5. CASE BootAccount
    BY <2>0, <2>5 DEF BootAccount, TypeOK, database, counters, history
  <2>6. ASSUME NEW who \in Drivers, BootTrades(who) PROVE TypeOK'
    BY <2>0, <2>6, BootTypes
  <2>7. CASE OperatorHalt
    BY <2>0, <2>7 DEF OperatorHalt, TypeOK, memory, counters
  <2>8. CASE OperatorResume
    BY <2>0, <2>8 DEF OperatorResume, TypeOK, memory, counters
  <2>9. CASE Tick
    <3>1. now' \in 0..MaxTime
      BY <2>9, StoreAssumption DEF Tick, TypeOK
    <3>2. QED
      BY <2>0, <2>9, <3>1 DEF Tick, TypeOK, memory, database, counters, history
  <2>10. QED
    BY <2>0, <2>1, <2>2, <2>3, <2>4, <2>5, <2>6, <2>7, <2>8, <2>9 DEF Step
<1>3. QED
  BY <1>1, <1>2

(* Every variable has its type. *)
THEOREM StoreTypeCorrect == Spec => []TypeOK
  BY InitTypes, StepTypes, PTL DEF Spec
-----------------------------------------------------------------------------
(* The operator's halt *)

LEMMA HaltStep == TypeOK /\ OperatorHaltSticks /\ [Next]_vars => OperatorHaltSticks'
<1> SUFFICES ASSUME TypeOK, OperatorHaltSticks, [Next]_vars PROVE OperatorHaltSticks'
  OBVIOUS
<1> USE DEF OperatorHaltSticks
<1>1. CASE UNCHANGED vars
  BY <1>1 DEF vars, database, history
<1>2. ASSUME NEW i \in DOMAIN wire, Land(i) PROVE OperatorHaltSticks'
  <2>1. CASE LandAccount(i)
    <3>1. operatorHalt' = operatorHalt /\ account'.halted = StoredHalt(account.halted, wire[i].halted)
      BY <2>1 DEF LandAccount, history
    <3>2. account.halted => StoredHalt(account.halted, wire[i].halted)
      BY DEF StoredHalt
    <3>3. QED
      BY <3>1, <3>2
  <2>2. CASE LandZero(i)
    BY <2>2 DEF LandZero
  <2>3. CASE ~LandAccount(i) /\ ~LandZero(i)
    <3>1. UNCHANGED <<account, operatorHalt>>
      BY <1>2, <2>3 DEF Land, LandOpen, LandClose, LandFunding, LandConfirm, LandReset, history
    <3>2. QED
      BY <3>1
  <2>4. QED
    BY <2>1, <2>2, <2>3
<1>3. CASE Engine
  BY <1>3 DEF Engine, Open, Close, Accrue, Replay, Reconcile, Reset, database, history
<1>4. ASSUME NEW i \in DOMAIN wire, Drop(i) PROVE OperatorHaltSticks'
  BY <1>4 DEF Drop, database, history
<1>5. CASE Crash \/ BootAccount \/ Tick
  BY <1>5 DEF Crash, BootAccount, Tick, database, history
<1>6. ASSUME NEW who \in Drivers, BootTrades(who) PROVE OperatorHaltSticks'
  BY <1>6 DEF BootTrades, database, history
<1>7. CASE OperatorHalt
  BY <1>7 DEF OperatorHalt, TypeOK
<1>8. CASE OperatorResume
  BY <1>8 DEF OperatorResume
<1>9. QED
  BY <1>1, <1>2, <1>3, <1>4, <1>5, <1>6, <1>7, <1>8 DEF Next, Step

(* An operator's halt stands until the operator or a reset lifts it: no
   close, however late its write lands, lowers it. *)
THEOREM HaltStands == Spec => []OperatorHaltSticks
<1>1. Init => OperatorHaltSticks
  BY DEF Init, OperatorHaltSticks
<1>2. QED
  BY <1>1, HaltStep, StoreTypeCorrect, PTL DEF Spec

-----------------------------------------------------------------------------
(* The funding table implements FundingRecord *)

Shown(row) == IF row = None THEN "none" ELSE IF row.final THEN "settled" ELSE "provisional"
record == [k \in Key |-> IF ledger[k] = None THEN "none"
                          ELSE IF ledger[k].final THEN "settled" ELSE "provisional"]

(* Writing one key of the ledger writes that key of the record. *)
LEMMA RecordWritten ==
  ASSUME NEW R, ledger \in [Key -> R], NEW k \in Key, NEW row, ledger' = [ledger EXCEPT ![k] = row]
  PROVE  record' = [record EXCEPT ![k] = Shown(row)] /\ record[k] = Shown(ledger[k])
  BY DEF record, Shown

LEMMA RecordStep == TypeOK /\ [Next]_vars => [Promise!Next]_record
<1> SUFFICES ASSUME TypeOK, [Next]_vars PROVE [Promise!Next]_record
  OBVIOUS
<1> DEFINE R == [id : Ids, final : BOOLEAN] \cup {None}
<1>0. ledger \in [Key -> R]
  BY DEF TypeOK
<1> HIDE DEF R
<1>1. ASSUME UNCHANGED ledger PROVE [Promise!Next]_record
  BY <1>1 DEF record
<1>2. ASSUME NEW i \in DOMAIN wire, Land(i) PROVE [Promise!Next]_record
  <2>1. wire[i] \in Write
    BY InFlight
  <2>2. CASE LandFunding(i)
    <3>0. wire[i].key \in Key
      BY <2>1, <2>2, WriteFields DEF LandFunding
    <3> PICK key : key = wire[i].key
      OBVIOUS
    <3> PICK row : row = [id |-> wire[i].id, final |-> wire[i].final]
      OBVIOUS
    <3>1. key \in Key
      BY <3>0
    <3>2. CASE ledger[key] = None
      <4>1. ledger' = [ledger EXCEPT ![key] = row]
        BY <2>2, <3>2 DEF LandFunding
      <4>2. record' = [record EXCEPT ![key] = Shown(row)] /\ record[key] = "none"
        BY <1>0, <3>1, <3>2, <4>1, RecordWritten DEF Shown
      <4>3. CASE Shown(row) = "none"
        <5>1. record' = record
          BY <4>2, <4>3, <3>1 DEF record
        <5>2. QED
          BY <5>1
      <4>4. CASE Shown(row) \in {"provisional", "settled"}
        <5>1. Promise!Insert(key)
          BY <4>2, <4>4 DEF Promise!Insert, record
        <5>2. QED
          BY <3>1, <5>1 DEF Promise!Next
      <4>5. QED
        BY <4>3, <4>4 DEF Shown
    <3>3. CASE ledger[key] # None
      <4>1. ledger' = [ledger EXCEPT ![key] = ledger[key]]
        BY <2>2, <3>3 DEF LandFunding, OnConflict
      <4>2. ledger' = ledger
        BY <1>0, <3>1, <4>1
      <4>3. QED
        BY <1>1, <4>2
    <3>4. QED
      BY <3>2, <3>3
  <2>3. CASE LandConfirm(i)
    <3>0. wire[i].key \in Key
      BY <2>1, <2>3, WriteFields DEF LandConfirm
    <3> PICK key : key = wire[i].key
      OBVIOUS
    <3> PICK row : row = [ledger[key] EXCEPT !.final = TRUE]
      OBVIOUS
    <3>1. key \in Key
      BY <3>0
    <3>2. CASE ledger[key] = None
      <4>1. ledger' = [ledger EXCEPT ![key] = ledger[key]]
        BY <2>3, <3>2 DEF LandConfirm
      <4>2. ledger' = ledger
        BY <1>0, <3>1, <4>1
      <4>3. QED
        BY <1>1, <4>2
    <3>3. CASE ledger[key] # None
      <4>1. ledger' = [ledger EXCEPT ![key] = row]
        BY <2>3, <3>3 DEF LandConfirm
      <4>2. ledger[key] \in [id : Ids, final : BOOLEAN]
        BY <1>0, <3>1, <3>3 DEF R
      <4>3. row.final = TRUE
        BY <4>2
      <4>4. Shown(row) \in {"none", "settled"} /\ Shown(ledger[key]) \in {"settled", "provisional"}
        BY <4>3, <3>3 DEF Shown
      <4>5. record' = [record EXCEPT ![key] = Shown(row)] /\ record[key] = Shown(ledger[key])
        BY <1>0, <3>1, <4>1, RecordWritten
      <4>6. row # None
        BY <4>2, StoreAssumption
      <4>7. CASE record[key] = "settled"
        <5>1. record' = record
          BY <4>4, <4>5, <4>6, <4>7, <3>1 DEF record, Shown
        <5>2. QED
          BY <5>1
      <4>8. CASE record[key] = "provisional"
        <5>1. Promise!Confirm(key)
          BY <4>4, <4>5, <4>6, <4>8 DEF Promise!Confirm, record, Shown
        <5>2. QED
          BY <3>1, <5>1 DEF Promise!Next
      <4>9. QED
        BY <4>4, <4>5, <4>7, <4>8
    <3>4. QED
      BY <3>2, <3>3
  <2>4. CASE ~LandFunding(i) /\ ~LandConfirm(i)
    <3>1. UNCHANGED ledger
      BY <1>2, <2>4 DEF Land, LandOpen, LandClose, LandAccount, LandReset, LandZero
    <3>2. QED
      BY <1>1, <3>1
  <2>5. QED
    BY <2>2, <2>3, <2>4
<1>3. CASE UNCHANGED vars
  BY <1>1, <1>3 DEF vars, database
<1>4. CASE Engine
  BY <1>1, <1>4 DEF Engine, Open, Close, Accrue, Replay, Reconcile, Reset, database
<1>5. ASSUME NEW i \in DOMAIN wire, Drop(i) PROVE [Promise!Next]_record
  BY <1>1, <1>5 DEF Drop, database
<1>6. CASE Crash \/ BootAccount \/ Tick \/ OperatorHalt \/ OperatorResume
  BY <1>1, <1>6 DEF Crash, BootAccount, Tick, OperatorHalt, OperatorResume, database
<1>7. ASSUME NEW who \in Drivers, BootTrades(who) PROVE [Promise!Next]_record
  BY <1>1, <1>7 DEF BootTrades, database
<1>8. QED
  BY <1>2, <1>3, <1>4, <1>5, <1>6, <1>7 DEF Next, Step

(* The funding table keeps its promise: a settlement is recorded once, is
   confirmed at most once, and is never demoted or removed. *)
THEOREM FundingTableImplements == Spec => FundingRecordKept
<1>1. Init => Promise!Init
  BY DEF Init, Promise!Init
<1>2. QED
  BY <1>1, RecordStep, StoreTypeCorrect, PTL DEF Spec, FundingRecordKept, Promise!Spec, record
-----------------------------------------------------------------------------
(* The inductive invariant.  A position in memory is settled by nothing that
   is stored or in flight, because its id is its own and below nextId; and a
   settlement on record, or on its way there, has been counted. *)

(* Ids in use are below nextId. *)
Fresh ==
    /\ \A id \in Ids : rows[id] # None => id < nextId
    /\ \A w \in Range(wire) : w.kind \in {"open", "close"} => w.id < nextId
    /\ \A s \in Symbols : book[s] # None => book[s].id < nextId

(* A held position is neither closed in the database nor about to be. *)
Held == \A s \in Symbols : book[s] # None =>
    /\ ~Settled(book[s].id)
    /\ \A w \in Range(wire) : w.kind = "close" => w.id # book[s].id

Distinct == \A s, t \in Symbols :
    book[s] # None /\ book[t] # None /\ s # t => book[s].id # book[t].id

(* Between the two reads of a boot nothing is in flight; an engine that is
   down has no memory. *)
Quiet ==
    /\ booting # None => ~Up /\ wire = <<>>
    /\ ~Up => (\A s \in Symbols : book[s] = None) /\ (\A key \in Key : events[key] = None)

(* Settlements recorded, or on their way to be *)
Known == {key \in Key : ledger[key] # None \/ \E w \in Range(wire) : w.kind \in {"funding", "confirm"} /\ w.key = key}

(* A known settlement is past, and an engine that is up has counted it, can no
   longer owe it, or did not read the row of it when it booted. *)
Charged ==
    /\ \A key \in Known \cup settledAt : key[2] <= now
    /\ \A key \in Key : events[key] # None => key \in settledAt
    /\ Up => \A key \in Known : \/ key \in settledAt \/ key \in unread
                                \/ book[key[1]] = None
                                \/ key[2] <= book[key[1]].watermark

StoreInv == TypeOK /\ Fresh /\ Held /\ Distinct /\ Quiet /\ Charged

(* What an issued write adds to the wire *)
LEMMA SendWire ==
  ASSUME TypeOK, NEW w \in Write, Send(w)
  PROVE  Range(wire') = Range(wire) \cup {w}
  BY Appended DEF Send, TypeOK

(* What landing a write leaves on the wire *)
LEMMA LandWire ==
  ASSUME TypeOK, NEW i \in DOMAIN wire, Land(i), NEW w \in Range(wire')
  PROVE  \/ w \in Range(wire)
         \/ w.kind \in {"account", "zero"}
         \/ w.kind = "confirm" /\ wire[i].kind = "funding" /\ w.key = wire[i].key
<1>1. wire[i] \in Write
  BY InFlight
<1>2. CASE LandClose(i)
  <2>1. [kind |-> "account", realized |-> wire[i].realized, halted |-> wire[i].halted] \in Write
    BY <1>1, <1>2, WriteFields, Writes DEF LandClose
  <2>2. QED
    BY <1>2, <2>1, ContinuesTypes DEF LandClose
<1>3. CASE LandFunding(i)
  <2>1. [kind |-> "confirm", key |-> wire[i].key] \in Write
    BY <1>1, <1>3, WriteFields, Writes DEF LandFunding
  <2>2. QED
    BY <1>3, <2>1, LandsTypes, ContinuesTypes DEF LandFunding
<1>4. CASE LandReset(i)
  BY <1>4, Writes, ContinuesTypes DEF LandReset
<1>5. CASE ~LandClose(i) /\ ~LandFunding(i) /\ ~LandReset(i)
  <2>1. Lands(i)
    BY <1>5 DEF Land, LandOpen, LandAccount, LandConfirm, LandZero
  <2>2. QED
    BY <2>1, LandsTypes
<1>6. QED
  BY <1>2, <1>3, <1>4, <1>5

(* What landing a write does to the rows *)
LEMMA LandRows ==
  ASSUME TypeOK, NEW i \in DOMAIN wire, Land(i), NEW id \in Ids, rows'[id] # None
  PROVE  \/ rows[id] # None /\ rows'[id] = rows[id]
         \/ wire[i].kind = "open" /\ wire[i].id = id /\ rows'[id].open = TRUE
         \/ wire[i].kind = "close" /\ wire[i].id = id /\ rows[id] # None
<1>1. wire[i] \in Write
  BY InFlight
<1>2. CASE LandOpen(i)
  BY <1>1, <1>2, WriteFields DEF LandOpen, TypeOK
<1>3. CASE LandClose(i)
  <2>1. wire[i].id \in Ids /\ wire[i].kind = "close"
    BY <1>1, <1>3, WriteFields DEF LandClose
  <2>2. CASE wire[i].id = id
    BY <1>3, <2>1, <2>2 DEF LandClose
  <2>3. CASE wire[i].id # id
    BY <1>3, <2>1, <2>3 DEF LandClose, TypeOK
  <2>4. QED
    BY <2>2, <2>3
<1>4. CASE LandReset(i)
  BY <1>4 DEF LandReset
<1>5. CASE ~LandOpen(i) /\ ~LandClose(i) /\ ~LandReset(i)
  BY <1>5 DEF Land, LandAccount, LandFunding, LandConfirm, LandZero
<1>6. QED
  BY <1>2, <1>3, <1>4, <1>5

(* What landing a write does to the ledger *)
LEMMA LandLedger ==
  ASSUME TypeOK, NEW i \in DOMAIN wire, Land(i), NEW key \in Key, ledger'[key] # None
  PROVE  ledger[key] # None \/ (wire[i].kind \in {"funding", "confirm"} /\ wire[i].key = key)
<1>1. wire[i] \in Write
  BY InFlight
<1> SUFFICES ASSUME ledger[key] = None PROVE wire[i].kind \in {"funding", "confirm"} /\ wire[i].key = key
  OBVIOUS
<1>2. CASE LandFunding(i)
  <2>1. wire[i].kind = "funding" /\ wire[i].key \in Key
    BY <1>1, <1>2, WriteFields DEF LandFunding
  <2>2. ledger' = [ledger EXCEPT ![wire[i].key] = ledger'[wire[i].key]]
    BY <1>2, <2>1 DEF LandFunding, TypeOK
  <2>3. wire[i].key # key => ledger'[key] = ledger[key]
    BY <2>1, <2>2 DEF TypeOK
  <2>4. QED
    BY <2>1, <2>3
<1>3. CASE LandConfirm(i)
  <2>1. wire[i].kind = "confirm" /\ wire[i].key \in Key
    BY <1>1, <1>3, WriteFields DEF LandConfirm
  <2>2. wire[i].key # key => ledger'[key] = ledger[key]
    BY <1>3, <2>1 DEF LandConfirm, TypeOK
  <2>3. QED
    BY <2>1, <2>2
<1>4. CASE ~LandFunding(i) /\ ~LandConfirm(i)
  BY <1>4 DEF Land, LandOpen, LandClose, LandAccount, LandReset, LandZero
<1>5. QED
  BY <1>2, <1>3, <1>4

LEMMA LandMemory ==
  ASSUME NEW i \in DOMAIN wire, Land(i)
  PROVE  UNCHANGED <<now, driver, booting, book, settledAt, unread, events, nextId>>
  BY DEF Land, LandOpen, LandClose, LandAccount, LandFunding, LandConfirm, LandReset, LandZero,
         memory, history

LEMMA LandInv ==
  ASSUME StoreInv, NEW i \in DOMAIN wire, Land(i)
  PROVE  Fresh' /\ Held' /\ Distinct' /\ Quiet' /\ Charged'
<1>0. TypeOK /\ Fresh /\ Held /\ Distinct /\ Quiet /\ Charged
  BY DEF StoreInv
<1>1. wire[i] \in Write /\ wire[i] \in Range(wire)
  BY <1>0, InFlight
<1>2. UNCHANGED <<now, driver, booting, book, settledAt, unread, events, nextId>>
  BY LandMemory
<1>3. Fresh'
  <2>1. ASSUME NEW id \in Ids, rows'[id] # None PROVE id < nextId
    <3>0. \/ rows[id] # None
          \/ wire[i].kind = "open" /\ wire[i].id = id
          \/ wire[i].kind = "close" /\ wire[i].id = id
      BY <1>0, <2>1, LandRows
    <3>1. rows[id] # None \/ (wire[i].kind \in {"open", "close"} /\ wire[i].id = id)
      BY <3>0
    <3>2. QED
      BY <1>0, <1>1, <3>1 DEF Fresh
  <2>2. ASSUME NEW w \in Range(wire'), w.kind \in {"open", "close"} PROVE w.id < nextId
    <3>1. w \in Range(wire)
      BY <1>0, <2>2, LandWire
    <3>2. QED
      BY <1>0, <2>2, <3>1 DEF Fresh
  <2>3. QED
    BY <1>0, <1>2, <2>1, <2>2 DEF Fresh
<1>4. Held'
  <2> SUFFICES ASSUME NEW s \in Symbols, book[s] # None
               PROVE  /\ ~Settled(book[s].id)'
                      /\ \A w \in Range(wire') : w.kind = "close" => w.id # book[s].id
    BY <1>2 DEF Held, Settled
  <2>1. book[s].id \in Ids
    BY <1>0 DEF TypeOK
  <2>2. ~Settled(book[s].id) /\ ~(wire[i].kind = "close" /\ wire[i].id = book[s].id)
    BY <1>0, <1>1 DEF Held
  <2>3. ~Settled(book[s].id)'
    <3>1. ASSUME rows'[book[s].id] # None PROVE rows'[book[s].id].open
      <4>1. \/ rows[book[s].id] # None /\ rows'[book[s].id] = rows[book[s].id]
            \/ rows'[book[s].id].open = TRUE
        BY <1>0, <2>1, <2>2, <3>1, LandRows
      <4>2. QED
        BY <2>2, <4>1 DEF Settled
    <3>2. QED
      BY <1>2, <3>1 DEF Settled
  <2>4. ASSUME NEW w \in Range(wire'), w.kind = "close" PROVE w.id # book[s].id
    <3>1. w \in Range(wire)
      BY <1>0, <2>4, LandWire
    <3>2. QED
      BY <1>0, <2>4, <3>1 DEF Held
  <2>5. QED
    BY <2>3, <2>4
<1>5. Distinct'
  BY <1>0, <1>2 DEF Distinct
<1>6. Quiet'
  <2>1. wire # <<>>
    BY EmptySeq
  <2>2. booting = None
    BY <1>0, <2>1 DEF Quiet
  <2>3. QED
    BY <1>0, <1>2, <2>2 DEF Quiet, Up
<1>7. Charged'
  <2>1. ASSUME NEW key \in Known' PROVE key \in Known
    <3>1. key \in Key
      BY DEF Known
    <3>2. CASE ledger'[key] # None
      BY <1>0, <1>1, <3>1, <3>2, LandLedger DEF Known
    <3>3. ASSUME NEW w \in Range(wire'), w.kind \in {"funding", "confirm"}, w.key = key
          PROVE  key \in Known
      <4>0. w.kind \notin {"account", "zero"}
        BY <3>3
      <4>1. w \in Range(wire) \/ (wire[i].kind = "funding" /\ w.key = wire[i].key)
        BY <1>0, <4>0, LandWire
      <4>2. QED
        BY <1>1, <3>1, <3>3, <4>1 DEF Known
    <3>4. QED
      BY <3>1, <3>2, <3>3 DEF Known
  <2>2. QED
    BY <1>0, <1>2, <2>1 DEF Charged, Up
<1>8. QED
  BY <1>3, <1>4, <1>5, <1>6, <1>7
(* A write of another kind leaves the known settlements alone. *)
LEMMA KnownKept ==
  ASSUME TypeOK, UNCHANGED ledger, NEW w, Range(wire') \subseteq Range(wire) \cup {w},
         w.kind \notin {"funding", "confirm"}
  PROVE  Known' \subseteq Known
  BY DEF Known

LEMMA OpenInv ==
  ASSUME StoreInv, NEW s \in Symbols, Open(s)
  PROVE  Fresh' /\ Held' /\ Distinct' /\ Quiet' /\ Charged'
<1> DEFINE w == [kind |-> "open", id |-> nextId, symbol |-> s, at |-> now]
<1>0. TypeOK /\ Fresh /\ Held /\ Distinct /\ Quiet /\ Charged
  BY DEF StoreInv
<1>1. nextId \in Ids /\ nextId' = nextId + 1 /\ now \in 0..MaxTime
  BY <1>0 DEF Open, TypeOK
<1>2. Range(wire') = Range(wire) \cup {w}
  <2>1. w \in Write
    BY <1>1, Writes
  <2>2. QED
    BY <1>0, <2>1, SendWire DEF Open
<1>3. /\ UNCHANGED <<now, driver, booting, settledAt, unread, events, rows, ledger>>
      /\ Up /\ booting = None
  BY <1>0 DEF Open, Quiet, database, history
<1>4. \A t \in Symbols : book'[t] = IF t = s THEN [id |-> nextId, watermark |-> now] ELSE book[t]
  BY <1>0 DEF Open, TypeOK
<1>5. nextId \in Nat /\ MaxIds \in Nat
  BY <1>1, StoreAssumption DEF Ids
<1>6. Fresh'
  <2>1. \A id \in Ids : rows[id] # None => id < nextId + 1
    BY <1>0, <1>5 DEF Fresh, Ids
  <2>2. \A v \in Range(wire') : v.kind \in {"open", "close"} => v.id < nextId + 1
    <3>1. \A v \in Range(wire) : v.kind \in {"open", "close"} => v.id \in Nat /\ v.id < nextId
      <4>1. \A v \in Range(wire) : v \in Write
        BY <1>0, InRange DEF TypeOK
      <4>2. \A v \in Write : v.kind \in {"open", "close"} => v.id \in Nat
        BY WriteFields DEF Ids
      <4>3. QED
        BY <1>0, <4>1, <4>2 DEF Fresh
    <3>2. QED
      BY <1>2, <1>5, <3>1
  <2>3. \A t \in Symbols : book'[t] # None => book'[t].id < nextId + 1
    <3>1. \A t \in Symbols : book[t] # None => book[t].id \in Nat /\ book[t].id < nextId
      BY <1>0 DEF Fresh, TypeOK, Ids
    <3>2. QED
      BY <1>4, <1>5, <3>1
  <2>4. QED
    BY <1>1, <1>3, <2>1, <2>2, <2>3 DEF Fresh
<1>7. Held'
  <2>1. \A v \in Range(wire') : v.kind = "close" => v \in Range(wire) /\ v.id < nextId
    BY <1>0, <1>2 DEF Fresh
  <2>2. ~Settled(nextId)
    BY <1>0, <1>1, <1>5 DEF Fresh, Settled
  <2>3. ASSUME NEW t \in Symbols, book'[t] # None
        PROVE  ~Settled(book'[t].id) /\ \A v \in Range(wire') : v.kind = "close" => v.id # book'[t].id
    <3>1. CASE t = s
      BY <1>4, <1>5, <2>1, <2>2, <3>1
    <3>2. CASE t # s
      BY <1>0, <1>4, <2>1, <2>3, <3>2 DEF Held
    <3>3. QED
      BY <3>1, <3>2
  <2>4. QED
    BY <1>3, <2>3 DEF Held, Settled
<1>8. Distinct'
  <2>1. \A t \in Symbols : book[t] # None => book[t].id # nextId
    BY <1>0, <1>5 DEF Fresh
  <2>2. QED
    BY <1>0, <1>4, <2>1 DEF Distinct
<1>9. Quiet'
  BY <1>3 DEF Quiet, Up
<1>10. Charged'
  <2>1. Known' \subseteq Known
    BY <1>0, <1>2, <1>3, KnownKept
  <2>2. \A key \in Known \cup settledAt : key[2] <= now
    BY <1>0 DEF Charged
  <2>3. ASSUME NEW key \in Known'
        PROVE  key \in settledAt \/ key \in unread \/ book'[key[1]] = None \/ key[2] <= book'[key[1]].watermark
    <3>1. key \in Known /\ key[1] \in Symbols /\ key[2] <= now
      BY <2>1, <2>2 DEF Known, Key
    <3>2. CASE key[1] = s
      BY <1>4, <3>1, <3>2
    <3>3. CASE key[1] # s
      BY <1>0, <1>3, <1>4, <3>1, <3>3 DEF Charged
    <3>4. QED
      BY <3>2, <3>3
  <2>4. QED
    BY <1>0, <1>3, <2>1, <2>2, <2>3 DEF Charged
<1>11. QED
  BY <1>6, <1>7, <1>8, <1>9, <1>10

LEMMA CloseInv ==
  ASSUME StoreInv, NEW s \in Symbols, NEW breach \in BOOLEAN, Close(s, breach)
  PROVE  Fresh' /\ Held' /\ Distinct' /\ Quiet' /\ Charged'
<1> DEFINE w == [kind |-> "close", id |-> book[s].id, realized |-> realized', halted |-> halted]
<1>0. TypeOK /\ Fresh /\ Held /\ Distinct /\ Quiet /\ Charged
  BY DEF StoreInv
<1>1. book[s] # None /\ book[s].id \in Ids /\ realized' \in Balance
  <2>1. book[s] # None /\ book[s].id \in Ids
    BY <1>0 DEF Close, TypeOK
  <2>2. Result(book[s].id) \in Entry
    BY <2>1 DEF Result, Entry
  <2>3. realized' = Plus(realized, Result(book[s].id))
    BY DEF Close
  <2>4. QED
    BY <1>0, <2>1, <2>2, <2>3, Balances DEF TypeOK
<1>2. Range(wire') = Range(wire) \cup {w}
  <2>1. w \in Write
    BY <1>0, <1>1, Writes DEF TypeOK
  <2>2. QED
    BY <1>0, <2>1, SendWire DEF Close
<1>3. /\ UNCHANGED <<now, driver, booting, settledAt, unread, events, nextId, rows, ledger>>
      /\ Up /\ booting = None
  BY <1>0 DEF Close, Quiet, database, history
<1>4. \A t \in Symbols : book'[t] = IF t = s THEN None ELSE book[t]
  BY <1>0 DEF Close, TypeOK
<1>5. Fresh'
  BY <1>0, <1>1, <1>2, <1>3, <1>4 DEF Fresh
<1>6. Held'
  <2>1. \A t \in Symbols \ {s} : book[t] # None => book[t].id # book[s].id
    BY <1>0, <1>1 DEF Distinct
  <2>2. QED
    BY <1>0, <1>2, <1>3, <1>4, <2>1 DEF Held, Settled
<1>7. Distinct'
  BY <1>0, <1>4 DEF Distinct
<1>8. Quiet'
  BY <1>3 DEF Quiet, Up
<1>9. Charged'
  <2>1. Known' \subseteq Known
    BY <1>0, <1>2, <1>3, KnownKept
  <2>2. \A key \in Known : key[1] \in Symbols
    BY DEF Known, Key
  <2>3. QED
    BY <1>0, <1>3, <1>4, <2>1, <2>2 DEF Charged
<1>10. QED
  BY <1>5, <1>6, <1>7, <1>8, <1>9

LEMMA AccrueInv ==
  ASSUME StoreInv, NEW s \in Symbols, NEW final \in BOOLEAN, Accrue(s, final)
  PROVE  Fresh' /\ Held' /\ Distinct' /\ Quiet' /\ Charged'
<1> DEFINE at == book[s].watermark + 1
           key == <<s, at>>
           w == [kind |-> "funding", key |-> key, id |-> book[s].id, final |-> final]
<1>0. TypeOK /\ Fresh /\ Held /\ Distinct /\ Quiet /\ Charged
  BY DEF StoreInv
<1>1. book[s] # None /\ book[s] \in [id : Ids, watermark : 0..MaxTime] /\ now \in 0..MaxTime
  BY <1>0 DEF Accrue, TypeOK
<1>2. at \in Times /\ at <= now /\ key \in Key /\ book[s].watermark \in Nat
  BY <1>1, StoreAssumption DEF Accrue, Owed, Times, Key
<1>3. Range(wire') \subseteq Range(wire) \cup {w}
  <2>1. CASE key \in settledAt
    BY <2>1 DEF Accrue
  <2>2. CASE key \notin settledAt
    <3>1. FundingWrite(key, book[s].id, final)
      BY <2>2 DEF Accrue
    <3>2. QED
      BY <1>0, <1>1, <1>2, <3>1, FundingWriteTypes DEF TypeOK
  <2>3. QED
    BY <2>1, <2>2
<1>4. /\ UNCHANGED <<now, driver, booting, nextId, rows, ledger, unread>>
      /\ Up /\ booting = None
  BY <1>0 DEF Accrue, Quiet, database
<1>5. /\ \A t \in Symbols \ {s} : book'[t] = book[t]
      /\ book'[s].id = book[s].id /\ book'[s].watermark = at
  BY <1>0, <1>1 DEF Accrue, TypeOK
<1>6. settledAt' = settledAt \cup {key}
  <2>1. CASE key \in settledAt
    BY <2>1 DEF Accrue
  <2>2. CASE key \notin settledAt
    BY <2>2 DEF Accrue
  <2>3. QED
    BY <2>1, <2>2
<1>7. \A k \in Key : events'[k] # None => events[k] # None \/ k = key
  <2>1. CASE key \in settledAt
    BY <2>1 DEF Accrue
  <2>2. CASE key \notin settledAt
    BY <1>0, <2>2 DEF Accrue, TypeOK
  <2>3. QED
    BY <2>1, <2>2
<1> HIDE DEF w
<1>8. w.kind = "funding" /\ w.key = key
  BY DEF w
<1> HIDE DEF key
<1>9. Fresh'
  <2>1. \A v \in Range(wire') : v.kind \in {"open", "close"} => v \in Range(wire)
    BY <1>3, <1>8
  <2>2. \A t \in Symbols : book'[t] # None => book[t] # None /\ book'[t].id = book[t].id
    BY <1>1, <1>5
  <2>3. QED
    BY <1>0, <1>4, <2>1, <2>2 DEF Fresh
<1>10. Held'
  <2>1. \A v \in Range(wire') : v.kind = "close" => v \in Range(wire)
    BY <1>3, <1>8
  <2>2. \A t \in Symbols : book'[t] # None => book[t] # None /\ book'[t].id = book[t].id
    BY <1>1, <1>5
  <2>3. QED
    BY <1>0, <1>4, <2>1, <2>2 DEF Held, Settled
<1>11. Distinct'
  <2>1. \A t \in Symbols : book'[t] # None => book[t] # None /\ book'[t].id = book[t].id
    BY <1>1, <1>5
  <2>2. QED
    BY <1>0, <2>1 DEF Distinct
<1>12. Quiet'
  BY <1>4 DEF Quiet, Up
<1>13. Charged'
  <2>1. Known' \subseteq Known \cup {key}
    BY <1>3, <1>4, <1>8 DEF Known
  <2>2. \A k \in Known' \cup settledAt' : k[2] <= now
    <3>1. key[2] = at
      BY DEF key
    <3>2. QED
      BY <1>0, <1>2, <1>6, <2>1, <3>1 DEF Charged
  <2>3. \A k \in Key : events'[k] # None => k \in settledAt'
    BY <1>0, <1>6, <1>7 DEF Charged
  <2>4. ASSUME NEW k \in Known'
        PROVE  k \in settledAt' \/ k \in unread \/ book'[k[1]] = None \/ k[2] <= book'[k[1]].watermark
    <3>1. CASE k = key
      BY <1>6, <3>1
    <3>2. CASE k # key
      <4>1. k \in Known /\ k[1] \in Symbols /\ k[2] \in Nat
        BY <2>1, <3>2 DEF Known, Key, Times
      <4>2. k \in settledAt \/ k \in unread \/ book[k[1]] = None \/ k[2] <= book[k[1]].watermark
        BY <1>0, <1>4, <4>1 DEF Charged
      <4>3. CASE k[1] = s
        BY <1>1, <1>2, <1>5, <1>6, <4>1, <4>2, <4>3
      <4>4. CASE k[1] # s
        BY <1>5, <1>6, <4>1, <4>2, <4>4
      <4>5. QED
        BY <4>3, <4>4
    <3>3. QED
      BY <3>1, <3>2
  <2>5. QED
    BY <1>4, <2>2, <2>3, <2>4 DEF Charged
<1>14. QED
  BY <1>9, <1>10, <1>11, <1>12, <1>13
LEMMA ReconcileInv ==
  ASSUME StoreInv, NEW key \in Key, Reconcile(key)
  PROVE  Fresh' /\ Held' /\ Distinct' /\ Quiet' /\ Charged'
<1> DEFINE w == [kind |-> "funding", key |-> key, id |-> events[key].id, final |-> TRUE]
<1>0. TypeOK /\ Fresh /\ Held /\ Distinct /\ Quiet /\ Charged
  BY DEF StoreInv
<1>1. events[key] # None /\ events[key] \in [id : Ids, final : BOOLEAN] /\ key \in settledAt
  BY <1>0 DEF Reconcile, TypeOK, Charged
<1>2. Range(wire') \subseteq Range(wire) \cup {w}
  BY <1>0, <1>1, FundingWriteTypes DEF Reconcile, TypeOK
<1>3. /\ UNCHANGED <<now, driver, booting, book, settledAt, nextId, rows, ledger, unread>>
      /\ Up /\ booting = None
  BY <1>0 DEF Reconcile, Quiet, database
<1>4. \A k \in Key : events'[k] # None => events[k] # None
  BY <1>0, <1>1 DEF Reconcile, TypeOK
<1>5. w.kind = "funding" /\ w.key = key
  OBVIOUS
<1> HIDE DEF w
<1>6. \A v \in Range(wire') : v.kind \in {"open", "close"} => v \in Range(wire)
  BY <1>2, <1>5
<1>7. Fresh' /\ Held' /\ Distinct' /\ Quiet'
  BY <1>0, <1>3, <1>6 DEF Fresh, Held, Settled, Distinct, Quiet, Up
<1>8. Known' \subseteq Known \cup {key}
  BY <1>2, <1>3, <1>5 DEF Known
<1>9. Charged'
  BY <1>0, <1>1, <1>3, <1>4, <1>8 DEF Charged
<1>10. QED
  BY <1>7, <1>9

LEMMA ResetInv ==
  ASSUME StoreInv, Reset
  PROVE  Fresh' /\ Held' /\ Distinct' /\ Quiet' /\ Charged'
<1>0. TypeOK /\ Fresh /\ Held /\ Distinct /\ Quiet /\ Charged
  BY DEF StoreInv
<1>1. Range(wire') = Range(wire) \cup {[kind |-> "reset"]}
  BY <1>0, SendWire, Writes DEF Reset
<1>2. /\ UNCHANGED <<now, driver, booting, nextId, rows, ledger>>
      /\ Up /\ booting = None
  BY <1>0, StoreAssumption DEF Reset, Up, Quiet, database
<1>3. /\ \A s \in Symbols : book'[s] = None
      /\ \A key \in Key : events'[key] = None
      /\ settledAt' = {}
  BY DEF Reset
<1>4. Fresh' /\ Held' /\ Distinct' /\ Quiet'
  BY <1>0, <1>1, <1>2, <1>3 DEF Fresh, Held, Distinct, Quiet, Up
<1>5. Known' \subseteq Known
  BY <1>0, <1>1, <1>2, KnownKept
<1>6. \A key \in Key : key[1] \in Symbols
  BY DEF Key
<1>7. Charged'
  <2>1. \A key \in Known' \cup settledAt' : key[2] <= now'
    BY <1>0, <1>2, <1>3, <1>5 DEF Charged
  <2>2. \A key \in Known' : book'[key[1]] = None
    BY <1>3, <1>5, <1>6 DEF Known
  <2>3. QED
    BY <1>3, <2>1, <2>2 DEF Charged
<1>8. QED
  BY <1>4, <1>7

LEMMA CrashInv ==
  ASSUME StoreInv, Crash
  PROVE  Fresh' /\ Held' /\ Distinct' /\ Quiet' /\ Charged'
<1>0. TypeOK /\ Fresh /\ Held /\ Distinct /\ Quiet /\ Charged
  BY DEF StoreInv
<1>1. UNCHANGED <<now, nextId, wire, rows, ledger>> /\ booting' = None /\ ~Up'
  BY DEF Crash, Up, database
<1>2. /\ \A s \in Symbols : book'[s] = None
      /\ \A key \in Key : events'[key] = None
      /\ settledAt' = {}
  BY DEF Crash
<1>3. Fresh' /\ Held' /\ Distinct' /\ Quiet'
  BY <1>0, <1>1, <1>2 DEF Fresh, Held, Distinct, Quiet
<1>4. Known' = Known
  BY <1>1 DEF Known
<1>5. Charged'
  BY <1>0, <1>1, <1>2, <1>4 DEF Charged
<1>6. QED
  BY <1>3, <1>5

LEMMA BootInv ==
  ASSUME StoreInv, NEW who \in Drivers, BootTrades(who)
  PROVE  Fresh' /\ Held' /\ Distinct' /\ Quiet' /\ Charged'
<1>0. TypeOK /\ Fresh /\ Held /\ Distinct /\ Quiet /\ Charged
  BY DEF StoreInv
<1>1. /\ UNCHANGED <<now, nextId, wire, rows, ledger, events>> /\ booting' = None
      /\ driver' = who /\ who # None
      /\ ~Up /\ wire = <<>> /\ settledAt' \subseteq Recorded /\ unread' = Recorded \ settledAt'
  BY <1>0, StoreAssumption, SeedsAreKeys DEF BootTrades, Quiet, database
<1>2. Range(wire) = {}
  BY <1>1, EmptyRange
<1>3. ASSUME NEW s \in Symbols, book'[s] # None
      PROVE  /\ book'[s].id \in Ids /\ rows[book'[s].id] # None
             /\ rows[book'[s].id].open /\ rows[book'[s].id].symbol = s
  <2>1. book'[s] = IF OpenRows(s) = {} THEN None
                   ELSE [id |-> Min(OpenRows(s)), watermark |-> rows[Min(OpenRows(s))].at]
    BY DEF BootTrades
  <2>2. OpenRows(s) # {} /\ book'[s].id = Min(OpenRows(s))
    BY <1>3, <2>1
  <2>3. book'[s].id \in OpenRows(s)
    BY <1>0, <2>2, OpenRowsAre
  <2>4. QED
    BY <2>3 DEF OpenRows
<1>4. Fresh'
  BY <1>0, <1>1, <1>3 DEF Fresh
<1>5. Held'
  BY <1>1, <1>2, <1>3 DEF Held, Settled
<1>6. Distinct'
  BY <1>3 DEF Distinct
<1>7. Quiet'
  BY <1>1 DEF Quiet, Up
<1>8. Known' = Recorded
  BY <1>1, <1>2 DEF Known, Recorded
<1>9. Charged'
  <2>1. \A key \in Recorded : key \in Known
    BY DEF Known, Recorded
  <2>2. \A key \in Recorded : key[2] <= now
    BY <1>0, <2>1 DEF Charged
  <2>3. \A key \in Key : events'[key] = None
    BY <1>0, <1>1 DEF Quiet
  <2>4. QED
    BY <1>1, <1>8, <2>2, <2>3 DEF Charged
<1>10. QED
  BY <1>4, <1>5, <1>6, <1>7, <1>9

LEMMA DropInv ==
  ASSUME StoreInv, NEW i \in DOMAIN wire, Drop(i)
  PROVE  Fresh' /\ Held' /\ Distinct' /\ Quiet' /\ Charged'
<1>0. TypeOK /\ Fresh /\ Held /\ Distinct /\ Quiet /\ Charged
  BY DEF StoreInv
<1>1. Range(wire') \subseteq Range(wire)
  BY <1>0, LandsTypes DEF Drop
<1>2. UNCHANGED <<now, driver, booting, book, settledAt, unread, events, nextId, rows, ledger>>
  BY DEF Drop, memory, database, history
<1>3. wire # <<>>
  BY EmptySeq
<1>4. Fresh' /\ Held' /\ Distinct'
  BY <1>0, <1>1, <1>2 DEF Fresh, Held, Distinct, Settled
<1>5. Quiet'
  BY <1>0, <1>2, <1>3 DEF Quiet, Up
<1>6. Known' \subseteq Known
  BY <1>1, <1>2 DEF Known
<1>7. Charged'
  BY <1>0, <1>2, <1>6 DEF Charged, Up
<1>8. QED
  BY <1>4, <1>5, <1>7

(* Steps that touch neither the book, the rows, the wire nor the ledger *)
LEMMA AsideInv ==
  ASSUME StoreInv, UNCHANGED <<driver, book, settledAt, unread, events, nextId, wire, rows, ledger>>,
         now' \in Int, now <= now', booting' = None \/ booting' = booting \/ (~Up /\ wire = <<>>)
  PROVE  Fresh' /\ Held' /\ Distinct' /\ Quiet' /\ Charged'
<1>0. TypeOK /\ Fresh /\ Held /\ Distinct /\ Quiet /\ Charged
  BY DEF StoreInv
<1>1. Fresh' /\ Held' /\ Distinct'
  BY <1>0 DEF Fresh, Held, Distinct, Settled
<1>2. Quiet'
  BY <1>0 DEF Quiet, Up
<1>3. Known' = Known
  BY DEF Known
<1>4. \A key \in Known \cup settledAt : key[2] <= now'
  <2>1. \A key \in Known \cup settledAt : key[2] \in Int /\ key[2] <= now
    BY <1>0 DEF Charged, Known, TypeOK, Key, Times
  <2>2. now \in Int
    BY <1>0 DEF TypeOK
  <2>3. QED
    BY <2>1, <2>2
<1>5. Charged'
  BY <1>0, <1>3, <1>4 DEF Charged, Up
<1>6. QED
  BY <1>1, <1>2, <1>5

LEMMA StoreInitInv == Init => StoreInv
<1> SUFFICES ASSUME Init PROVE StoreInv
  OBVIOUS
<1>1. Range(wire) = {}
  BY EmptyRange DEF Init
<1>2. Known = {} /\ settledAt = {} /\ ~Up /\ booting = None
  BY <1>1 DEF Init, Known, Up
<1>3. Fresh /\ Held /\ Distinct
  BY <1>1 DEF Init, Fresh, Held, Distinct
<1>4. Quiet /\ Charged
  BY <1>2 DEF Init, Quiet, Charged
<1>5. QED
  BY <1>3, <1>4, InitTypes DEF StoreInv

LEMMA StoreStepInv == StoreInv /\ [Next]_vars => StoreInv'
<1> SUFFICES ASSUME StoreInv, [Next]_vars PROVE StoreInv'
  OBVIOUS
<1>1. TypeOK /\ TypeOK'
  BY StepTypes DEF StoreInv
<1>2. now \in Int /\ now' \in Int
  BY <1>1 DEF TypeOK
<1>3. CASE UNCHANGED vars
  BY <1>1, <1>2, <1>3, AsideInv DEF StoreInv, vars, memory, database, history
<1>4. CASE Engine
  BY <1>1, <1>4, OpenInv, CloseInv, AccrueInv, ReconcileInv, ResetInv DEF StoreInv, Engine, Replay
<1>5. ASSUME NEW i \in DOMAIN wire, Land(i) \/ Drop(i) PROVE StoreInv'
  BY <1>1, <1>5, LandInv, DropInv DEF StoreInv
<1>6. CASE Crash
  BY <1>1, <1>6, CrashInv DEF StoreInv
<1>7. ASSUME NEW who \in Drivers, BootTrades(who) PROVE StoreInv'
  BY <1>1, <1>7, BootInv DEF StoreInv
<1>8. CASE BootAccount
  BY <1>1, <1>2, <1>8, AsideInv DEF StoreInv, BootAccount, database, history
<1>9. CASE OperatorHalt \/ OperatorResume
  BY <1>1, <1>2, <1>9, AsideInv DEF StoreInv, OperatorHalt, OperatorResume, memory
<1>10. CASE Tick
  <2>1. now <= now'
    BY <1>2, <1>10 DEF Tick
  <2>2. QED
    BY <1>1, <1>2, <1>10, <2>1, AsideInv DEF StoreInv, Tick, memory, database, history
<1>11. QED
  BY <1>3, <1>4, <1>5, <1>6, <1>7, <1>8, <1>9, <1>10 DEF Next, Step

THEOREM StoreInvariant == Spec => []StoreInv
  BY StoreInitInv, StoreStepInv, PTL DEF Spec

(* The engine never holds a position the database has closed, whatever order
   its writes land in and whatever is lost. *)
THEOREM HeldStaysOpen == Spec => []HeldIsNotSettled
<1>1. StoreInv => HeldIsNotSettled
  BY DEF StoreInv, Held, HeldIsNotSettled
<1>2. QED
  BY <1>1, StoreInvariant, PTL

LEMMA ChargeStep ==
  ASSUME StoreInv, [Next]_vars, Up, NEW key \in settledAt' \ (settledAt \cup unread)
  PROVE  ledger[key] = None
<1>0. TypeOK /\ Charged
  BY DEF StoreInv
<1>1. ASSUME NEW s \in Symbols, NEW final \in BOOLEAN, Accrue(s, final) PROVE ledger[key] = None
  <2> DEFINE at == book[s].watermark + 1
  <2>1. key = <<s, at>> /\ book[s] # None /\ book[s].watermark < now
    BY <1>1 DEF Accrue, Owed
  <2>2. book[s].watermark \in Nat /\ key \in Key /\ now \in 0..MaxTime
    BY <1>0, <2>1, StoreAssumption DEF TypeOK, Key, Times
  <2>3. ~(key[2] <= book[s].watermark) /\ key[1] = s
    BY <2>1, <2>2
  <2>4. key \notin Known
    BY <1>0, <2>1, <2>3 DEF Charged
  <2>5. QED
    BY <2>2, <2>4 DEF Known
<1>2. CASE UNCHANGED settledAt
  BY <1>2
<1>3. CASE Reset \/ Crash
  BY <1>3 DEF Reset, Crash
<1>4. ASSUME NEW who \in Drivers, BootTrades(who) PROVE FALSE
  BY <1>0, <1>4 DEF StoreInv, Quiet, BootTrades
<1>5. CASE UNCHANGED vars
  BY <1>2, <1>5 DEF vars, memory
<1>6. CASE Engine
  BY <1>1, <1>2, <1>3, <1>6 DEF Engine, Open, Close, Replay, Reconcile
<1>7. ASSUME NEW i \in DOMAIN wire, Land(i) \/ Drop(i) PROVE UNCHANGED settledAt
  BY <1>7 DEF Land, Drop, memory
<1>8. CASE BootAccount \/ OperatorHalt \/ OperatorResume \/ Tick
  BY <1>2, <1>8 DEF BootAccount, OperatorHalt, OperatorResume, Tick, memory
<1>9. QED
  BY <1>2, <1>3, <1>4, <1>5, <1>6, <1>7, <1>8 DEF Next, Step

(* A settlement on record is never charged again, in this process or the next, unless
   the boot of the process did not read its row (loadFundingEvents failed or was cut at
   its limit): what was read, and what the process has recorded since, stays charged. *)
THEOREM RecordedOnce == Spec => RecordedNotRecharged
<1>1. StoreInv /\ [Next]_vars => [Up => \A key \in settledAt' \ (settledAt \cup unread) : ledger[key] = None]_vars
  BY ChargeStep
<1>2. QED
  BY <1>1, StoreInvariant, PTL DEF Spec, RecordedNotRecharged

(* What the run checks as one invariant: a well-formed store, an operator's halt that
   stands, and no held position that the rows have settled. *)
THEOREM StoreHolds == Spec => []StoreOK
<1>1. TypeOK /\ OperatorHaltSticks /\ HeldIsNotSettled => StoreOK
  BY DEF StoreOK
<1>2. QED
  BY <1>1, StoreTypeCorrect, HaltStands, HeldStaysOpen, PTL

-----------------------------------------------------------------------------
(***************************************************************************)
(* When the connection keeps the order of the engine's writes and loses    *)
(* none, the rows, the stored account and the funding table agree with the *)
(* engine's memory, for every number of symbols, positions, settlements,   *)
(* crashes and resets.                                                     *)
(*                                                                         *)
(* The argument looks ahead: the database now, the database once the first *)
(* write in flight has landed, once the second has, and so on, are all     *)
(* sound, and the last of them agrees with memory.  An engine step adds    *)
(* one to the end, a write that lands takes one off the front, and the     *)
(* death of the process lets the end go.                                   *)
(***************************************************************************)

(* A write's effect on the database *)

Row == [symbol : Symbols, at : 0..MaxTime, open : BOOLEAN]
Record == [id : Ids, final : BOOLEAN]
RowTable == [Ids -> Row \cup {None}]
RecordTable == [Key -> Record \cup {None}]
Database == [rows : RowTable, money : Balance, ledger : RecordTable]

AsOpened(w) == [symbol |-> w.symbol, at |-> w.at, open |-> TRUE]
OnlyClosed(r) == [id \in Ids |-> IF r[id] # None /\ r[id].open THEN None ELSE r[id]]
RowsAfter(w, r) ==
    IF w.kind = "open" THEN [r EXCEPT ![w.id] = AsOpened(w)]
    ELSE IF w.kind = "close" /\ r[w.id] # None THEN [r EXCEPT ![w.id] = AfterClose(r[w.id])]
    ELSE IF w.kind = "reset" THEN OnlyClosed(r)
    ELSE r

MoneyAfter(w, m) ==
    IF w.kind \in {"close", "account"} THEN w.realized
    ELSE IF w.kind \in {"reset", "zero"} THEN Empty
    ELSE m

AsFinal(row) == [row EXCEPT !.final = TRUE]
WithRecord(l, key, rec) == [l EXCEPT ![key] = rec]
LedgerAfter(w, l) ==
    IF w.kind = "funding" /\ l[w.key] = None
    THEN WithRecord(l, w.key, [id |-> w.id, final |-> w.final])
    ELSE IF (w.kind = "funding" /\ w.final) \/ (w.kind = "confirm" /\ l[w.key] # None)
    THEN WithRecord(l, w.key, AsFinal(l[w.key]))
    ELSE l

After(w, d) == [rows |-> RowsAfter(w, d.rows), money |-> MoneyAfter(w, d.money),
                ledger |-> LedgerAfter(w, d.ledger)]

LEMMA RowTyped ==
  ASSUME NEW w \in Write, NEW r \in RowTable
  PROVE  RowsAfter(w, r) \in RowTable
<1>1. CASE w.kind = "open"
  <2>1. w.id \in Ids /\ AsOpened(w) \in Row
    BY <1>1, WriteFields DEF AsOpened, Row
  <2>2. RowsAfter(w, r) = [r EXCEPT ![w.id] = AsOpened(w)]
    BY <1>1 DEF RowsAfter
  <2>3. QED
    BY <2>1, <2>2 DEF RowTable
<1>2. CASE w.kind = "close" /\ r[w.id] # None
  <2>1. w.id \in Ids
    BY <1>2, WriteFields
  <2>2. r[w.id] \in Row
    BY <1>2, <2>1 DEF RowTable
  <2>3. AfterClose(r[w.id]) \in Row
    BY <2>2 DEF AfterClose, Row
  <2>4. RowsAfter(w, r) = [r EXCEPT ![w.id] = AfterClose(r[w.id])]
    BY <1>2 DEF RowsAfter
  <2>5. QED
    BY <2>1, <2>3, <2>4 DEF RowTable
<1>3. CASE w.kind = "reset"
  BY <1>3 DEF RowsAfter, OnlyClosed, RowTable
<1>4. QED
  BY <1>1, <1>2, <1>3 DEF RowsAfter

LEMMA MoneyTyped ==
  ASSUME NEW w \in Write, NEW m \in Balance
  PROVE  MoneyAfter(w, m) \in Balance
  BY WriteFields, Balances DEF MoneyAfter

LEMMA LedgerTyped ==
  ASSUME NEW w \in Write, NEW l \in RecordTable
  PROVE  LedgerAfter(w, l) \in RecordTable
<1>1. w.kind \in {"funding", "confirm"} => w.key \in Key
  BY WriteFields
<1>2. CASE w.kind = "funding" /\ l[w.key] = None
  <2>1. w.key \in Key /\ [id |-> w.id, final |-> w.final] \in Record
    BY <1>2, WriteFields DEF Record
  <2>2. LedgerAfter(w, l) = WithRecord(l, w.key, [id |-> w.id, final |-> w.final])
    BY <1>2 DEF LedgerAfter
  <2>3. QED
    BY <2>1, <2>2 DEF RecordTable, WithRecord
<1>3. CASE w.kind \in {"funding", "confirm"} /\ l[w.key] # None
  <2>1. w.key \in Key /\ l[w.key] \in Record
    BY <1>1, <1>3 DEF RecordTable
  <2>2. AsFinal(l[w.key]) \in Record
    BY <2>1 DEF AsFinal, Record
  <2>3. LedgerAfter(w, l) \in {l, WithRecord(l, w.key, AsFinal(l[w.key]))}
    BY <1>3 DEF LedgerAfter
  <2>4. QED
    BY <2>1, <2>2, <2>3 DEF RecordTable, WithRecord
<1>4. QED
  BY <1>2, <1>3 DEF LedgerAfter

LEMMA AfterTyped ==
  ASSUME NEW w \in Write, NEW d \in Database
  PROVE  After(w, d) \in Database
  BY RowTyped, MoneyTyped, LedgerTyped DEF After, Database

-----------------------------------------------------------------------------
(* The databases ahead: D[1] is the one there is, D[k + 1] the one there will
   be when the first k writes of the queue q have landed. *)

Ahead(q, d, D) ==
    /\ D \in [1..(Len(q) + 1) -> Database]
    /\ D[1] = d
    /\ \A k \in 1..Len(q) : D[k + 1] = After(q[k], D[k])

LEMMA NothingAhead ==
  ASSUME NEW d \in Database
  PROVE  Ahead(<<>>, d, [k \in {1} |-> d])
<1>1. Len(<<>>) = 0 /\ 1..(0 + 1) = {1} /\ 1..0 = {}
  OBVIOUS
<1>2. QED
  BY <1>1 DEF Ahead

(* A write joins the queue. *)
LEMMA AheadAppend ==
  ASSUME NEW q \in Seq(Write), NEW w \in Write, NEW d, NEW D, Ahead(q, d, D)
  PROVE  Ahead(Append(q, w), d, [k \in 1..(Len(q) + 2) |->
                   IF k = Len(q) + 2 THEN After(w, D[Len(q) + 1]) ELSE D[k]])
<1> DEFINE N == Len(q)
           E == [k \in 1..(N + 2) |-> IF k = N + 2 THEN After(w, D[N + 1]) ELSE D[k]]
<1>1. N \in Nat /\ Len(Append(q, w)) = N + 1
  BY LenProperties, AppendProperties
<1>2. \A k \in 1..(N + 1) : Append(q, w)[k] = IF k = N + 1 THEN w ELSE q[k]
  BY AppendProperties
<1> HIDE DEF N
<1>3. D \in [1..(N + 1) -> Database] /\ D[1] = d /\ \A k \in 1..N : D[k + 1] = After(q[k], D[k])
  BY DEF Ahead, N
<1>4. After(w, D[N + 1]) \in Database
  BY <1>1, <1>3, AfterTyped
<1>5. \A k \in 1..(N + 2) : E[k] = IF k = N + 2 THEN After(w, D[N + 1]) ELSE D[k]
  OBVIOUS
<1>6. E \in [1..(N + 2) -> Database]
  <2>1. \A k \in 1..(N + 2) : k # N + 2 => k \in 1..(N + 1)
    BY <1>1
  <2>2. QED
    BY <1>3, <1>4, <2>1
<1> HIDE DEF E
<1>7. E[1] = d
  BY <1>1, <1>3, <1>5
<1>8. ASSUME NEW k \in 1..(N + 1) PROVE E[k + 1] = After(Append(q, w)[k], E[k])
  <2>1. k \in 1..(N + 2) /\ k + 1 \in 1..(N + 2) /\ E[k] = D[k]
    BY <1>1, <1>5
  <2>2. CASE k = N + 1
    BY <1>1, <1>2, <1>5, <2>1, <2>2
  <2>3. CASE k # N + 1
    <3>1. k \in 1..N
      BY <1>1, <2>3
    <3>2. QED
      BY <1>1, <1>2, <1>3, <1>5, <2>1, <2>3, <3>1
  <2>4. QED
    BY <2>2, <2>3
<1>9. (N + 1) + 1 = N + 2
  BY <1>1
<1>10. QED
  BY <1>1, <1>6, <1>7, <1>8, <1>9 DEF Ahead, E, N

(* The first write of the queue has landed. *)
LEMMA FirstOff ==
  ASSUME NEW q \in Seq(Write), q # <<>>
  PROVE  /\ Len(q) \in Nat \ {0}
         /\ RemoveAt(q, 1) \in Seq(Write)
         /\ Len(RemoveAt(q, 1)) = Len(q) - 1
         /\ \A k \in 1..(Len(q) - 1) : RemoveAt(q, 1)[k] = q[k + 1]
<1>1. Len(q) \in Nat \ {0} /\ q \in [1..Len(q) -> Write]
  BY EmptySeq, LenProperties
<1>2. SubSeq(q, 1, 1 - 1) = <<>>
  OBVIOUS
<1>3. \A k \in 2..Len(q) : q[k] \in Write
  BY <1>1
<1>4. /\ SubSeq(q, 2, Len(q)) \in Seq(Write)
      /\ Len(SubSeq(q, 2, Len(q))) = Len(q) - 1
      /\ \A k \in 1..(Len(q) - 1) : SubSeq(q, 2, Len(q))[k] = q[k + 1]
  BY <1>1, <1>3
<1>5. RemoveAt(q, 1) = SubSeq(q, 2, Len(q))
  BY <1>1, <1>2, <1>4, ConcatEmptySeq DEF RemoveAt
<1>6. QED
  BY <1>1, <1>4, <1>5

LEMMA AheadTail ==
  ASSUME NEW q \in Seq(Write), q # <<>>, NEW d, NEW D, Ahead(q, d, D)
  PROVE  Ahead(RemoveAt(q, 1), D[2], [k \in 1..Len(q) |-> D[k + 1]])
<1> DEFINE N == Len(q)
           p == RemoveAt(q, 1)
           E == [k \in 1..N |-> D[k + 1]]
<1>1. N \in Nat \ {0} /\ Len(p) = N - 1 /\ \A k \in 1..(N - 1) : p[k] = q[k + 1]
  BY FirstOff
<1> HIDE DEF N, p
<1>2. D \in [1..(N + 1) -> Database] /\ \A k \in 1..N : D[k + 1] = After(q[k], D[k])
  BY DEF Ahead, N
<1>3. E \in [1..N -> Database] /\ E[1] = D[2]
  BY <1>1, <1>2
<1>4. ASSUME NEW k \in 1..(N - 1) PROVE E[k + 1] = After(p[k], E[k])
  <2>1. k \in 1..N /\ k + 1 \in 1..N
    BY <1>1
  <2>2. QED
    BY <1>1, <1>2, <2>1
<1>5. (N - 1) + 1 = N
  BY <1>1
<1>6. QED
  BY <1>1, <1>3, <1>4, <1>5 DEF Ahead, E, N, p

(* The first write has landed its first statement and v is its second. *)
LEMMA AheadHead ==
  ASSUME NEW q \in Seq(Write), q # <<>>, NEW d, NEW D, Ahead(q, d, D),
         NEW v \in Write, NEW e \in Database, D[2] = After(v, e)
  PROVE  Ahead(ReplaceAt(q, 1, v), e, [D EXCEPT ![1] = e])
<1> DEFINE N == Len(q)
           p == ReplaceAt(q, 1, v)
           E == [D EXCEPT ![1] = e]
<1>1. N \in Nat \ {0} /\ 1 \in 1..N
  BY EmptySeq, LenProperties
<1>2. Len(p) = N /\ \A k \in 1..N : p[k] = IF k = 1 THEN v ELSE q[k]
  BY <1>1, ExceptSeq DEF ReplaceAt
<1> HIDE DEF N, p
<1>3. D \in [1..(N + 1) -> Database] /\ \A k \in 1..N : D[k + 1] = After(q[k], D[k])
  BY DEF Ahead, N
<1>4. E \in [1..(N + 1) -> Database] /\ \A k \in 1..(N + 1) : E[k] = IF k = 1 THEN e ELSE D[k]
  BY <1>1, <1>3
<1> HIDE DEF E
<1>5. ASSUME NEW k \in 1..N PROVE E[k + 1] = After(p[k], E[k])
  <2>1. k \in 1..(N + 1) /\ k + 1 \in 1..(N + 1) /\ k + 1 # 1
    BY <1>1
  <2>2. CASE k = 1
    BY <1>2, <1>4, <2>1, <2>2
  <2>3. CASE k # 1
    BY <1>2, <1>3, <1>4, <2>1, <2>3
  <2>4. QED
    BY <2>2, <2>3
<1>6. E[1] = e
  BY <1>1, <1>4
<1>7. QED
  BY <1>2, <1>4, <1>5, <1>6 DEF Ahead, E, N, p

(* The last write of the queue is lost. *)
LEMMA AheadFront ==
  ASSUME NEW q \in Seq(Write), q # <<>>, NEW d, NEW D, Ahead(q, d, D)
  PROVE  Ahead(RemoveAt(q, Len(q)), d, [k \in 1..Len(q) |-> D[k]])
<1> DEFINE N == Len(q)
           p == RemoveAt(q, N)
           E == [k \in 1..N |-> D[k]]
<1>1. N \in Nat \ {0} /\ q \in [1..N -> Write]
  BY EmptySeq, LenProperties
<1>2. /\ SubSeq(q, 1, N - 1) \in Seq(Write)
      /\ Len(SubSeq(q, 1, N - 1)) = N - 1
      /\ \A k \in 1..(N - 1) : SubSeq(q, 1, N - 1)[k] = q[k]
  BY <1>1, SubSeqProperties
<1>3. SubSeq(q, N + 1, N) = <<>>
  BY <1>1, SubSeqProperties
<1>4. p = SubSeq(q, 1, N - 1)
  BY <1>2, <1>3, ConcatEmptySeq DEF RemoveAt
<1> HIDE DEF N, p
<1>5. D \in [1..(N + 1) -> Database] /\ D[1] = d /\ \A k \in 1..N : D[k + 1] = After(q[k], D[k])
  BY DEF Ahead, N
<1>6. E \in [1..N -> Database] /\ E[1] = d
  BY <1>1, <1>5
<1>7. \A k \in 1..(N - 1) : E[k + 1] = After(p[k], E[k])
  BY <1>1, <1>2, <1>4, <1>5
<1>8. (N - 1) + 1 = N
  BY <1>1
<1>9. QED
  BY <1>1, <1>2, <1>4, <1>6, <1>7, <1>8 DEF Ahead, E, N, p

-----------------------------------------------------------------------------
(* A sound database: rows r, money m, funding table l, given that ids below n
   have been handed out, that t settlements have passed and that the charges in
   x were recorded by nobody *)

IsOpen(r, id, s) == r[id] # None /\ r[id].open /\ r[id].symbol = s
IsClosed(r, id) == r[id] # None /\ ~r[id].open
OneOpen(r) == \A a, b \in Ids, s \in Symbols : IsOpen(r, a, s) /\ IsOpen(r, b, s) => a = b

(* A close that is counted has a closed row. *)
Backed(r, m) == \A id \in Ids : m[Result(id)] > 0 => IsClosed(r, id)

(* Nothing is counted twice, and a charge that is counted is on record. *)
Once(m, x) == \A e \in Entry : <<e[2], e[3]>> \notin x => m[e] <= 1
RecordedIn(l, id, at) == \E s \in Symbols : l[<<s, at>>] # None /\ l[<<s, at>>].id = id
OnRecord(m, l, x) == \A id \in Ids, at \in Times :
    /\ m[Funding(id, at)] > 0 \/ m[Correction(id, at)] > 0
    /\ <<id, at>> \notin x
    => RecordedIn(l, id, at)
SameSymbol(r, l) == \A key \in Key :
    l[key] # None /\ r[l[key].id] # None => r[l[key].id].symbol = key[1]
Early(r, m, l, n, t) ==
    /\ \A id \in Ids : r[id] # None => id < n
    /\ \A e \in Entry : m[e] > 0 => e[2] < n
    /\ \A key \in Key : l[key] # None => l[key].id < n /\ key[2] <= t

Sound(r, m, l, n, t, x) ==
    OneOpen(r) /\ Backed(r, m) /\ Once(m, x) /\ OnRecord(m, l, x) /\ SameSymbol(r, l)
    /\ Early(r, m, l, n, t)

LEMMA EntryFields ==
  /\ \A e \in Entry : e[2] \in Nat /\ e[2] \in Ids
  /\ \A id \in Ids : /\ Fee(id) \in Entry /\ Fee(id)[2] = id /\ Fee(id)[3] = 0
                     /\ Result(id) \in Entry /\ Result(id)[2] = id /\ Result(id)[3] = 0
  /\ \A id \in Ids, at \in Times :
        /\ Funding(id, at) \in Entry /\ Funding(id, at)[2] = id /\ Funding(id, at)[3] = at
        /\ Correction(id, at) \in Entry /\ Correction(id, at)[2] = id /\ Correction(id, at)[3] = at
  BY DEF Entry, Fee, Result, Funding, Correction, Ids

LEMMA PlusAt ==
  ASSUME NEW m \in Balance, NEW e \in Entry
  PROVE  /\ Plus(m, e) \in Balance
         /\ \A f \in Entry : Plus(m, e)[f] = (IF f = e THEN m[e] + 1 ELSE m[f]) /\ m[f] \in Nat
  BY DEF Plus, Balance

(* More time, more ids and more unrecorded charges take nothing away. *)
LEMMA SoundLater ==
  ASSUME NEW r \in RowTable, NEW m \in Balance, NEW l \in RecordTable,
         NEW n \in Int, NEW t \in Int, NEW x, NEW n2 \in Int, NEW t2 \in Int, NEW x2,
         Sound(r, m, l, n, t, x), n <= n2, t <= t2, x \subseteq x2
  PROVE  Sound(r, m, l, n2, t2, x2)
<1>1. Once(m, x2)
  BY DEF Sound, Once
<1>2. OnRecord(m, l, x2)
  BY DEF Sound, OnRecord
<1>3. Early(r, m, l, n2, t2)
  <2>1. \A id \in Ids : id \in Int
    BY DEF Ids
  <2>2. \A key \in Key : key[2] \in Int /\ (l[key] # None => l[key].id \in Int)
    BY DEF Key, Times, RecordTable, Record, Ids
  <2>3. QED
    BY <2>1, <2>2, EntryFields DEF Sound, Early
<1>4. QED
  BY <1>1, <1>2, <1>3 DEF Sound

(* A row for the next id, where the symbol has no open one *)
LEMMA SoundOpen ==
  ASSUME NEW r \in RowTable, NEW m \in Balance, NEW l \in RecordTable,
         NEW n \in Ids, NEW t \in Int, NEW x, NEW s \in Symbols, NEW row \in Row,
         Sound(r, m, l, n, t, x), row.symbol = s, \A id \in Ids : ~IsOpen(r, id, s)
  PROVE  Sound([r EXCEPT ![n] = row], m, l, n + 1, t, x)
<1> DEFINE r2 == [r EXCEPT ![n] = row]
<1>1. n \in Nat /\ \A id \in Ids : id \in Nat
  BY DEF Ids
<1>2. \A id \in Ids : r2[id] = IF id = n THEN row ELSE r[id]
  BY DEF RowTable
<1> HIDE DEF r2
<1>3. OneOpen(r2)
  BY <1>2 DEF Sound, OneOpen, IsOpen
<1>4. Backed(r2, m)
  <2>1. ~(m[Result(n)] > 0)
    BY <1>1, EntryFields DEF Sound, Early
  <2>2. QED
    BY <1>2, <2>1 DEF Sound, Backed, IsClosed
<1>5. SameSymbol(r2, l)
  <2>1. \A key \in Key : l[key] # None => l[key].id \in Ids /\ l[key].id # n
    BY <1>1 DEF Sound, Early, RecordTable, Record
  <2>2. QED
    BY <1>2, <2>1 DEF Sound, SameSymbol
<1>6. Early(r2, m, l, n + 1, t)
  <2>1. \A id \in Ids : r2[id] # None => id < n + 1
    BY <1>1, <1>2 DEF Sound, Early
  <2>2. \A e \in Entry : m[e] > 0 => e[2] < n + 1
    BY <1>1, EntryFields DEF Sound, Early
  <2>3. \A key \in Key : l[key] # None => l[key].id < n + 1 /\ key[2] <= t
    <3>1. \A key \in Key : l[key] # None => l[key].id \in Nat
      BY <1>1 DEF RecordTable, Record
    <3>2. QED
      BY <1>1, <3>1 DEF Sound, Early
  <2>4. QED
    BY <2>1, <2>2, <2>3 DEF Early
<1>7. QED
  BY <1>3, <1>4, <1>5, <1>6 DEF Sound, r2

(* An entry that is new, or unrecorded, and has what it needs behind it *)
LEMMA SoundPlus ==
  ASSUME NEW r \in RowTable, NEW m \in Balance, NEW l \in RecordTable,
         NEW n \in Int, NEW t \in Int, NEW x, NEW e \in Entry,
         Sound(r, m, l, n, t, x),
         e[2] < n,
         m[e] = 0 \/ <<e[2], e[3]>> \in x,
         e[1] = "result" => IsClosed(r, e[2]),
         e[1] \in {"funding", "correction"} => RecordedIn(l, e[2], e[3]) \/ <<e[2], e[3]>> \in x
  PROVE  Sound(r, Plus(m, e), l, n, t, x)
<1>1. \A f \in Entry : Plus(m, e)[f] = (IF f = e THEN m[e] + 1 ELSE m[f]) /\ m[f] \in Nat
  BY PlusAt
<1>2. Backed(r, Plus(m, e))
  <2>1. \A id \in Ids : Result(id) \in Entry /\ Result(id)[1] = "result" /\ Result(id)[2] = id
    BY EntryFields DEF Result
  <2>2. QED
    BY <1>1, <2>1 DEF Sound, Backed
<1>3. Once(Plus(m, e), x)
  BY <1>1 DEF Sound, Once
<1>4. OnRecord(Plus(m, e), l, x)
  <2>1. ASSUME NEW id \in Ids, NEW at \in Times, NEW f \in {Funding(id, at), Correction(id, at)},
               Plus(m, e)[f] > 0, <<id, at>> \notin x
        PROVE  RecordedIn(l, id, at)
    <3>1. f \in Entry /\ f[1] \in {"funding", "correction"} /\ f[2] = id /\ f[3] = at
      <4>1. Funding(id, at)[1] = "funding" /\ Correction(id, at)[1] = "correction"
        BY DEF Funding, Correction
      <4>2. QED
        BY <4>1, EntryFields
    <3>2. CASE f = e
      BY <2>1, <3>1, <3>2
    <3>3. CASE f # e
      BY <1>1, <2>1, <3>1, <3>3 DEF Sound, OnRecord
    <3>4. QED
      BY <3>2, <3>3
  <2>2. QED
    BY <2>1 DEF OnRecord
<1>5. Early(r, Plus(m, e), l, n, t)
  BY <1>1 DEF Sound, Early
<1>6. QED
  BY <1>2, <1>3, <1>4, <1>5 DEF Sound

LEMMA SoundClose ==
  ASSUME NEW r \in RowTable, NEW m \in Balance, NEW l \in RecordTable,
         NEW n \in Int, NEW t \in Int, NEW x, NEW id \in Ids,
         Sound(r, m, l, n, t, x), r[id] # None
  PROVE  /\ Sound([r EXCEPT ![id] = AfterClose(r[id])], m, l, n, t, x)
         /\ IsClosed([r EXCEPT ![id] = AfterClose(r[id])], id)
<1> DEFINE r2 == [r EXCEPT ![id] = AfterClose(r[id])]
<1>1. \A j \in Ids : r2[j] = IF j = id THEN AfterClose(r[id]) ELSE r[j]
  BY DEF RowTable
<1>2. r[id] \in Row
  BY DEF RowTable
<1>3. /\ AfterClose(r[id]) \in Row /\ AfterClose(r[id]).open = FALSE
      /\ AfterClose(r[id]).symbol = r[id].symbol
  BY <1>2 DEF Row, AfterClose
<1>4. AfterClose(r[id]) # None
  BY <1>3, StoreAssumption DEF Row
<1> HIDE DEF r2
<1>5. OneOpen(r2)
  BY <1>1, <1>3 DEF Sound, OneOpen, IsOpen
<1>6. Backed(r2, m)
  BY <1>1, <1>3, <1>4 DEF Sound, Backed, IsClosed
<1>7. SameSymbol(r2, l)
  <2>1. \A key \in Key : l[key] # None => l[key].id \in Ids
    BY DEF RecordTable, Record
  <2>2. QED
    BY <1>1, <1>3, <2>1 DEF Sound, SameSymbol
<1>8. Early(r2, m, l, n, t)
  BY <1>1 DEF Sound, Early
<1>9. IsClosed(r2, id)
  BY <1>1, <1>3, <1>4 DEF IsClosed
<1>10. QED
  BY <1>5, <1>6, <1>7, <1>8, <1>9 DEF Sound, r2

(* A charge goes on record. *)
LEMMA SoundRecord ==
  ASSUME NEW r \in RowTable, NEW m \in Balance, NEW l \in RecordTable,
         NEW n \in Int, NEW t \in Int, NEW x, NEW key \in Key, NEW rec \in Record,
         Sound(r, m, l, n, t, x), l[key] = None,
         rec.id < n, key[2] <= t, r[rec.id] # None => r[rec.id].symbol = key[1]
  PROVE  Sound(r, m, WithRecord(l, key, rec), n, t, x)
<1> DEFINE l2 == WithRecord(l, key, rec)
<1>1. \A k \in Key : l2[k] = IF k = key THEN rec ELSE l[k]
  BY DEF RecordTable, WithRecord
<1> HIDE DEF l2
<1>2. OnRecord(m, l2, x)
  <2>1. \A id \in Ids, at \in Times : RecordedIn(l, id, at) => RecordedIn(l2, id, at)
    <3>1. \A s \in Symbols, at \in Times : <<s, at>> \in Key
      BY DEF Key
    <3>2. QED
      BY <1>1, <3>1 DEF RecordedIn
  <2>2. QED
    BY <2>1 DEF Sound, OnRecord
<1>3. SameSymbol(r, l2)
  BY <1>1 DEF Sound, SameSymbol
<1>4. Early(r, m, l2, n, t)
  BY <1>1 DEF Sound, Early
<1>5. QED
  BY <1>2, <1>3, <1>4 DEF Sound, l2

LEMMA SoundConfirm ==
  ASSUME NEW r \in RowTable, NEW m \in Balance, NEW l \in RecordTable,
         NEW n \in Int, NEW t \in Int, NEW x, NEW key \in Key,
         Sound(r, m, l, n, t, x), l[key] # None
  PROVE  Sound(r, m, WithRecord(l, key, AsFinal(l[key])), n, t, x)
<1> DEFINE l2 == WithRecord(l, key, AsFinal(l[key]))
<1>1. \A k \in Key : l2[k] = IF k = key THEN AsFinal(l[key]) ELSE l[k]
  BY DEF RecordTable, WithRecord
<1>2. AsFinal(l[key]) \in Record /\ AsFinal(l[key]).id = l[key].id
  BY DEF RecordTable, Record, AsFinal
<1>3. AsFinal(l[key]) # None
  BY <1>2, StoreAssumption DEF Record
<1> HIDE DEF l2
<1>4. \A k \in Key : (l2[k] # None <=> l[k] # None) /\ (l[k] # None => l2[k].id = l[k].id)
  BY <1>1, <1>2, <1>3
<1> HIDE <1>1
<1>5. OnRecord(m, l2, x)
  <2>1. \A s \in Symbols, at \in Times : <<s, at>> \in Key
    BY DEF Key
  <2>2. QED
    BY <1>4, <2>1 DEF Sound, OnRecord, RecordedIn
<1>6. SameSymbol(r, l2)
  BY <1>4 DEF Sound, SameSymbol
<1>7. Early(r, m, l2, n, t)
  BY <1>4 DEF Sound, Early
<1>8. QED
  BY <1>5, <1>6, <1>7 DEF Sound, l2

LEMMA SoundReset ==
  ASSUME NEW r \in RowTable, NEW m \in Balance, NEW l \in RecordTable,
         NEW n \in Int, NEW t \in Int, NEW x,
         Sound(r, m, l, n, t, x)
  PROVE  /\ Sound(OnlyClosed(r), m, l, n, t, x)
         /\ Sound(r, Empty, l, n, t, x)
<1>1. \A id \in Ids : OnlyClosed(r)[id] = IF r[id] # None /\ r[id].open THEN None ELSE r[id]
  BY DEF OnlyClosed
<1>2. OneOpen(OnlyClosed(r)) /\ Backed(OnlyClosed(r), m)
  BY <1>1 DEF Sound, OneOpen, IsOpen, Backed, IsClosed
<1>3. SameSymbol(OnlyClosed(r), l)
  <2>1. \A key \in Key : l[key] # None => l[key].id \in Ids
    BY DEF RecordTable, Record
  <2>2. QED
    BY <1>1, <2>1 DEF Sound, SameSymbol
<1>4. Early(OnlyClosed(r), m, l, n, t)
  BY <1>1 DEF Sound, Early
<1>5. \A e \in Entry : Empty[e] = 0
  BY DEF Empty
<1>6. Backed(r, Empty) /\ Once(Empty, x) /\ OnRecord(Empty, l, x) /\ Early(r, Empty, l, n, t)
  BY <1>5, EntryFields DEF Sound, Backed, Once, OnRecord, Early
<1>7. QED
  BY <1>2, <1>3, <1>4, <1>6 DEF Sound

(* A settlement that is not on record has not been counted, unless it was
   charged by an engine that records none. *)
LEMMA NotCounted ==
  ASSUME NEW r \in RowTable, NEW m \in Balance, NEW l \in RecordTable,
         NEW n \in Int, NEW t \in Int, NEW x, NEW key \in Key, NEW id \in Ids,
         Sound(r, m, l, n, t, x), l[key] = None, r[id] # None, r[id].symbol = key[1]
  PROVE  \/ <<id, key[2]>> \in x
         \/ m[Funding(id, key[2])] = 0 /\ m[Correction(id, key[2])] = 0
<1>1. key[1] \in Symbols /\ key[2] \in Times /\ key = <<key[1], key[2]>>
  BY DEF Key
<1>2. ~RecordedIn(l, id, key[2])
  <2>1. ASSUME NEW s \in Symbols, l[<<s, key[2]>>] # None, l[<<s, key[2]>>].id = id PROVE FALSE
    <3>1. <<s, key[2]>> \in Key /\ <<s, key[2]>>[1] = s
      BY <1>1 DEF Key
    <3>2. r[id].symbol = s
      BY <2>1, <3>1 DEF Sound, SameSymbol
    <3>3. QED
      BY <1>1, <2>1, <3>2
  <2>2. QED
    BY <2>1 DEF RecordedIn
<1>3. \A f \in Entry : m[f] \in Nat
  BY DEF Balance
<1>4. QED
  BY <1>1, <1>2, <1>3, EntryFields DEF Sound, OnRecord

-----------------------------------------------------------------------------
(* What memory and the last of the databases ahead say of each other *)

SoundNow(d) == Sound(d.rows, d.money, d.ledger, nextId, now, offRecord)

(* An entry of fundingEvents: the runner's is on record, for a position whose
   row there is, and corrected once at most, or was on record before and not
   read; the dashboard's is not. *)
Recharged(key, e) == key \in unread /\ <<e.id, key[2]>> \in offRecord
RunnerEvent(key, e, d) ==
    /\ d.ledger[key].id = e.id
    /\ d.rows[e.id] # None /\ d.rows[e.id].symbol = key[1]
    /\ ~e.final => \/ realized[Correction(e.id, key[2])] = 0
                   \/ <<e.id, key[2]>> \in offRecord
EventStands(key, e, d) ==
    /\ e.id < nextId
    /\ driver = "runner" => /\ d.ledger[key] # None
                            /\ Recharged(key, e) \/ (key \notin unread /\ RunnerEvent(key, e, d))
    /\ driver # "runner" => <<e.id, key[2]>> \in offRecord

HeldAreOpen(d) == \A id \in Ids, s \in Symbols :
    IsOpen(d.rows, id, s) <=> book[s] # None /\ book[s].id = id
RecordedAreCharged(d) == \A key \in Key : d.ledger[key] # None =>
    \/ key \in settledAt \/ key \in unread
    \/ book[key[1]] = None
    \/ key[2] <= book[key[1]].watermark
EventsStand(d) == \A key \in Key : events[key] # None => EventStands(key, events[key], d)

Agrees(d) == Up =>
    /\ Sound(d.rows, realized, d.ledger, nextId, now, offRecord)
    /\ HeldAreOpen(d) /\ RecordedAreCharged(d) /\ EventsStand(d)

Stored == [rows |-> rows, money |-> account.realized, ledger |-> ledger]
Foreseen(D) ==
    /\ Ahead(wire, Stored, D)
    /\ \A k \in 1..(Len(wire) + 1) : SoundNow(D[k])
    /\ Agrees(D[Len(wire) + 1])

OrderInv == Reliable =>
    /\ \E D : Foreseen(D)
    /\ booting # None => booting.realized = account.realized

LEMMA StoredTyped == TypeOK => Stored \in Database
  BY DEF TypeOK, Stored, Database, RowTable, Row, RecordTable, Record

LEMMA Typed ==
  ASSUME NEW d \in Database
  PROVE  d.rows \in RowTable /\ d.money \in Balance /\ d.ledger \in RecordTable
  BY DEF Database

LEMMA Clocks ==
  ASSUME TypeOK
  PROVE  nextId \in Int /\ now \in Int
  BY DEF TypeOK

(* An engine step that writes *)
LEMMA Issued ==
  ASSUME TypeOK, TypeOK', NEW D, Foreseen(D), NEW w \in Write, Send(w), UNCHANGED database,
         nextId <= nextId', now <= now', offRecord \subseteq offRecord',
         NEW a, a = After(w, D[Len(wire) + 1]), SoundNow(a)', Agrees(a)'
  PROVE  (\E E : Foreseen(E))'
<1> DEFINE N == Len(wire)
           E == [k \in 1..(N + 2) |-> IF k = N + 2 THEN After(w, D[N + 1]) ELSE D[k]]
<1>1. wire \in Seq(Write) /\ N \in Nat /\ wire' = Append(wire, w)
  BY LenProperties DEF TypeOK, Send
<1>2. Len(wire') = N + 1
  BY <1>1, AppendProperties
<1>3. Stored' = Stored
  BY DEF Stored, database
<1>4. Ahead(wire', Stored', E)
  BY <1>1, <1>3, AheadAppend DEF Foreseen
<1>5. \A k \in 1..(N + 1) : SoundNow(D[k])'
  <2>1. \A k \in 1..(N + 1) : D[k] \in Database /\ SoundNow(D[k])
    BY DEF Foreseen, Ahead
  <2>2. nextId \in Int /\ nextId' \in Int /\ now \in Int /\ now' \in Int
    BY DEF TypeOK
  <2>3. ASSUME NEW d \in Database, SoundNow(d) PROVE SoundNow(d)'
    BY <2>2, <2>3, Typed, SoundLater DEF SoundNow
  <2>4. QED
    BY <2>1, <2>3
<1>6. \A k \in 1..(N + 2) : E[k] = IF k = N + 2 THEN a ELSE D[k]
  OBVIOUS
<1>7. PICK F : F = E
  OBVIOUS
<1>8. \A k \in 1..(N + 2) : F[k] = IF k = N + 2 THEN a ELSE D[k]
  BY <1>6, <1>7
<1>9. Ahead(wire', Stored', F)
  BY <1>4, <1>7
<1> HIDE DEF N, E
<1>10. ASSUME NEW k \in 1..(N + 2) PROVE SoundNow(F[k])'
  <2>1. CASE k = N + 2
    BY <1>8, <2>1
  <2>2. CASE k # N + 2
    <3>1. k \in 1..(N + 1) /\ F[k] = D[k]
      BY <1>1, <1>8, <2>2
    <3>2. QED
      BY <1>5, <3>1
  <2>3. QED
    BY <2>1, <2>2
<1>11. (N + 1) + 1 = N + 2 /\ F[N + 2] = a
  BY <1>1, <1>8
<1>12. Foreseen(F)'
  BY <1>2, <1>9, <1>10, <1>11 DEF Foreseen
<1>13. QED
  BY <1>12

(* A step that writes nothing *)
LEMMA Unissued ==
  ASSUME TypeOK, TypeOK', NEW D, Foreseen(D), UNCHANGED <<wire, Stored>>,
         nextId <= nextId', now <= now', offRecord \subseteq offRecord',
         NEW a, a = D[Len(wire) + 1], Agrees(a)'
  PROVE  (\E E : Foreseen(E))'
<1>1. nextId \in Int /\ nextId' \in Int /\ now \in Int /\ now' \in Int
  BY DEF TypeOK
<1>2. ASSUME NEW d \in Database, SoundNow(d) PROVE SoundNow(d)'
  BY <1>1, <1>2, Typed, SoundLater DEF SoundNow
<1>3. \A k \in 1..(Len(wire) + 1) : D[k] \in Database /\ SoundNow(D[k])
  BY DEF Foreseen, Ahead
<1>4. \A k \in 1..(Len(wire) + 1) : SoundNow(D[k])'
  BY <1>2, <1>3
<1>5. Foreseen(D)'
  BY <1>4 DEF Foreseen
<1>6. QED
  BY <1>5

(* The last database ahead *)
LEMMA LastAhead ==
  ASSUME TypeOK, NEW D, Foreseen(D)
  PROVE  /\ D[Len(wire) + 1] \in Database
         /\ SoundNow(D[Len(wire) + 1]) /\ Agrees(D[Len(wire) + 1])
<1>1. Len(wire) \in Nat
  BY LenProperties DEF TypeOK
<1>2. Len(wire) + 1 \in 1..(Len(wire) + 1)
  BY <1>1
<1>3. QED
  BY <1>2 DEF Foreseen, Ahead

-----------------------------------------------------------------------------
(* The engine's steps, seen from the last database ahead, d *)

LEMMA AfterIs ==
  ASSUME NEW w, NEW d
  PROVE  /\ After(w, d).rows = RowsAfter(w, d.rows)
         /\ After(w, d).money = MoneyAfter(w, d.money)
         /\ After(w, d).ledger = LedgerAfter(w, d.ledger)
  BY DEF After

LEMMA AfterClosing ==
  ASSUME NEW w, NEW d, NEW id, w.kind = "close", w.id = id
  PROVE  /\ After(w, d).rows = IF d.rows[id] # None
                               THEN [d.rows EXCEPT ![id] = AfterClose(d.rows[id])] ELSE d.rows
         /\ After(w, d).money = w.realized
         /\ After(w, d).ledger = d.ledger
<1>1. RowsAfter(w, d.rows) = IF d.rows[id] # None
                             THEN [d.rows EXCEPT ![id] = AfterClose(d.rows[id])] ELSE d.rows
  BY DEF RowsAfter
<1>2. MoneyAfter(w, d.money) = w.realized /\ LedgerAfter(w, d.ledger) = d.ledger
  BY DEF MoneyAfter, LedgerAfter
<1>3. QED
  BY <1>1, <1>2, AfterIs

LEMMA AfterRecording ==
  ASSUME NEW w, NEW d, NEW key, w.kind = "funding", w.key = key, d.ledger[key] = None
  PROVE  /\ After(w, d).rows = d.rows
         /\ After(w, d).money = d.money
         /\ After(w, d).ledger = WithRecord(d.ledger, key, [id |-> w.id, final |-> w.final])
  BY AfterIs DEF LedgerAfter, RowsAfter, MoneyAfter

LEMMA AfterConfirming ==
  ASSUME NEW w, NEW d, NEW key, w.kind = "confirm" \/ (w.kind = "funding" /\ w.final),
         w.key = key, d.ledger[key] # None
  PROVE  /\ After(w, d).rows = d.rows
         /\ After(w, d).money = d.money
         /\ After(w, d).ledger = WithRecord(d.ledger, key, AsFinal(d.ledger[key]))
  BY AfterIs DEF LedgerAfter, RowsAfter, MoneyAfter

LEMMA AfterRepeating ==
  ASSUME NEW w, NEW d, NEW key, w.kind = "funding", ~w.final, w.key = key, d.ledger[key] # None
  PROVE  /\ After(w, d).rows = d.rows
         /\ After(w, d).money = d.money
         /\ After(w, d).ledger = d.ledger
  BY AfterIs DEF LedgerAfter, RowsAfter, MoneyAfter

LEMMA OpenAgrees ==
  ASSUME StoreInv, TypeOK', NEW s \in Symbols, Open(s), NEW d \in Database, SoundNow(d), Agrees(d),
         NEW w, w = [kind |-> "open", id |-> nextId, symbol |-> s, at |-> now],
         NEW a, a = After(w, d)
  PROVE  SoundNow(a)' /\ Agrees(a)'
<1> DEFINE r == d.rows
           l == d.ledger
           n == nextId
           row == AsOpened(w)
           r2 == [r EXCEPT ![n] = row]
<1>0. TypeOK /\ Fresh
  BY DEF StoreInv
<1>1. /\ Up /\ Up' /\ book[s] = None /\ n \in Ids /\ nextId' = n + 1 /\ n \in Int /\ now \in Int
      /\ realized' = Plus(realized, Fee(n)) /\ realized \in Balance
      /\ UNCHANGED <<now, driver, settledAt, events, offRecord, unread>>
  BY <1>0 DEF Open, Up, history, TypeOK
<1>2. r \in RowTable /\ d.money \in Balance /\ l \in RecordTable
  BY Typed
<1>3. row \in Row /\ row.symbol = s /\ row.open = TRUE /\ row # None
  <2>1. row = [symbol |-> s, at |-> now, open |-> TRUE]
    BY DEF AsOpened
  <2>2. now \in 0..MaxTime
    BY <1>0 DEF TypeOK
  <2> HIDE DEF row
  <2>3. row \in Row
    BY <2>1, <2>2 DEF Row
  <2>4. QED
    BY <2>1, <2>3, StoreAssumption DEF Row
<1>4. a.rows = r2 /\ a.money = d.money /\ a.ledger = l
  <2>1. w.kind = "open" /\ w.id = n
    OBVIOUS
  <2>2. QED
    BY <2>1, AfterIs DEF RowsAfter, MoneyAfter, LedgerAfter
<1>5. \A id \in Ids : ~IsOpen(r, id, s)
  BY <1>1 DEF Agrees, HeldAreOpen
<1>6. Sound(r, d.money, l, n, now, offRecord) /\ Sound(r, realized, l, n, now, offRecord)
  BY <1>1 DEF SoundNow, Agrees
<1>7. /\ Sound(r2, d.money, l, n + 1, now, offRecord)
      /\ Sound(r2, realized, l, n + 1, now, offRecord)
  <2> HIDE DEF r, l, n, row, r2
  <2>1. \A m \in Balance : Sound(r, m, l, n, now, offRecord) => Sound([r EXCEPT ![n] = row], m, l, n + 1, now, offRecord)
    BY <1>1, <1>2, <1>3, <1>5, SoundOpen
  <2>2. QED
    BY <1>1, <1>2, <1>6, <2>1 DEF r2
<1>8. Sound(r2, realized', l, n + 1, now, offRecord)
  <2>1. Fee(n) \in Entry /\ Fee(n)[2] = n /\ Fee(n)[1] = "fee"
    BY <1>1, EntryFields DEF Fee
  <2>2. realized[Fee(n)] = 0
    <3>1. realized[Fee(n)] \in Nat
      BY <1>1, <2>1 DEF Balance
    <3>2. ~(realized[Fee(n)] > 0)
      BY <1>1, <1>6, <2>1 DEF Sound, Early
    <3>3. QED
      BY <3>1, <3>2
  <2>3. r2 \in RowTable
    BY <1>1, <1>2, <1>3 DEF RowTable
  <2> HIDE DEF r, l, n, row, r2
  <2>4. n < n + 1 /\ n + 1 \in Int
    BY <1>1
  <2>5. QED
    BY <1>1, <1>2, <1>7, <2>1, <2>2, <2>3, <2>4, SoundPlus
<1>9. \A id \in Ids : r2[id] = IF id = n THEN row ELSE r[id]
  BY <1>2 DEF RowTable
<1>10. \A t \in Symbols : book'[t] = IF t = s THEN [id |-> n, watermark |-> now] ELSE book[t]
  BY <1>0 DEF Open, TypeOK
<1>11. [id |-> n, watermark |-> now] # None
  BY <1>0, <1>1, StoreAssumption DEF TypeOK
<1> HIDE DEF r2, row
<1>12. HeldAreOpen(a)'
  <2>1. r[n] = None
    BY <1>1, <1>6 DEF Sound, Early
  <2>2. \A t \in Symbols : book[t] # None => book[t].id # n
    BY <1>0, <1>1 DEF Fresh, TypeOK
  <2>3. ASSUME NEW id \in Ids, NEW t \in Symbols
        PROVE  IsOpen(r2, id, t) <=> book'[t] # None /\ book'[t].id = id
    <3>1. CASE id = n
      BY <1>3, <1>9, <1>10, <1>11, <2>2, <3>1 DEF IsOpen
    <3>2. CASE id # n
      BY <1>1, <1>5, <1>9, <1>10, <1>11, <3>2 DEF IsOpen, Agrees, HeldAreOpen
    <3>3. QED
      BY <3>1, <3>2
  <2>4. QED
    BY <1>4, <2>3 DEF HeldAreOpen
<1>13. RecordedAreCharged(a)'
  <2>1. \A key \in Key : l[key] # None => key[2] <= now
    BY <1>6 DEF Sound, Early
  <2>2. \A key \in Key : l[key] # None => \/ key \in settledAt \/ key \in unread
                                           \/ book'[key[1]] = None
                                           \/ key[2] <= book'[key[1]].watermark
    BY <1>1, <1>10, <2>1 DEF Agrees, RecordedAreCharged, Key
  <2>3. QED
    BY <1>1, <1>4, <2>2 DEF RecordedAreCharged
<1>14. EventsStand(a)'
  <2>1. ASSUME NEW key \in Key, events[key] # None PROVE EventStands(key, events[key], a)'
    <3> DEFINE e == events[key]
    <3>1. e.id \in Ids /\ EventStands(key, e, d) /\ key[2] \in Times
      BY <1>0, <1>1, <2>1 DEF Agrees, EventsStand, TypeOK, Key
    <3>2. e.id # n /\ e.id < n + 1
      BY <1>1, <3>1 DEF EventStands, Recharged, RunnerEvent, Ids
    <3>3. realized'[Correction(e.id, key[2])] = realized[Correction(e.id, key[2])]
      <4>1. Correction(e.id, key[2]) \in Entry /\ Correction(e.id, key[2]) # Fee(n)
        BY <3>1, EntryFields DEF Correction, Fee
      <4>2. Fee(n) \in Entry
        BY <1>1, EntryFields
      <4>3. QED
        BY <1>1, <4>1, <4>2, PlusAt
    <3>4. r2[e.id] = r[e.id]
      BY <1>9, <3>1, <3>2
    <3> HIDE DEF e
    <3>5. PICK f : f = e
      OBVIOUS
    <3>6. EventStands(key, f, a)'
      BY <1>1, <1>4, <3>1, <3>2, <3>3, <3>4, <3>5 DEF EventStands, Recharged, RunnerEvent
    <3>7. events'[key] = f
      BY <1>1, <3>5 DEF e
    <3>8. QED
      BY <3>6, <3>7
  <2>2. QED
    BY <1>1, <2>1 DEF EventsStand
<1>15. QED
  BY <1>1, <1>4, <1>7, <1>8, <1>12, <1>13, <1>14 DEF SoundNow, Agrees

LEMMA CloseAgrees ==
  ASSUME StoreInv, TypeOK', NEW s \in Symbols, NEW breach \in BOOLEAN, Close(s, breach),
         NEW d \in Database, SoundNow(d), Agrees(d),
         NEW w, w = [kind |-> "close", id |-> book[s].id, realized |-> realized', halted |-> halted],
         NEW a, a = After(w, d)
  PROVE  SoundNow(a)' /\ Agrees(a)'
<1> DEFINE r == d.rows
           l == d.ledger
           j == book[s].id
           r2 == [r EXCEPT ![j] = AfterClose(r[j])]
<1>0. TypeOK /\ Distinct
  BY DEF StoreInv
<1>1. /\ Up /\ Up' /\ book[s] # None /\ j \in Ids /\ nextId \in Int /\ now \in Int
      /\ realized' = Plus(realized, Result(j)) /\ realized \in Balance
      /\ UNCHANGED <<now, driver, settledAt, events, nextId, offRecord, unread>>
  BY <1>0 DEF Close, Up, history, TypeOK
<1>2. r \in RowTable /\ d.money \in Balance /\ l \in RecordTable
  BY Typed
<1>3. IsOpen(r, j, s) /\ r[j] # None /\ r[j].open
  <2>1. IsOpen(r, j, s)
    BY <1>1 DEF Agrees, HeldAreOpen
  <2>2. QED
    BY <2>1 DEF IsOpen
<1>4. a.rows = r2 /\ a.money = realized' /\ a.ledger = l
  <2>1. w.kind = "close" /\ w.id = j /\ w.realized = realized'
    OBVIOUS
  <2> HIDE DEF j
  <2>2. QED
    BY <1>3, <2>1, AfterClosing
<1>5. Sound(r, realized, l, nextId, now, offRecord)
  BY <1>1 DEF Agrees
<1>6. r2 \in RowTable
  <2>1. AfterClose(r[j]) \in Row
    BY <1>1, <1>2, <1>3 DEF RowTable, Row, AfterClose
  <2>2. QED
    BY <1>1, <1>2, <2>1 DEF RowTable
<1>7. Sound(r2, realized, l, nextId, now, offRecord) /\ IsClosed(r2, j)
  <2> HIDE DEF r, l, j
  <2>1. QED
    BY <1>1, <1>2, <1>3, <1>5, SoundClose
<1>8. Sound(r2, realized', l, nextId, now, offRecord)
  <2>1. Result(j) \in Entry /\ Result(j)[2] = j /\ Result(j)[1] = "result"
    BY <1>1, EntryFields DEF Result
  <2>2. realized[Result(j)] = 0
    <3>1. realized[Result(j)] \in Nat
      BY <1>1, <2>1 DEF Balance
    <3>2. ~(realized[Result(j)] > 0)
      BY <1>1, <1>3, <1>5 DEF Sound, Backed, IsClosed
    <3>3. QED
      BY <3>1, <3>2
  <2>3. j < nextId
    BY <1>1, <1>3, <1>5 DEF Sound, Early
  <2> HIDE DEF r, l, j, r2
  <2>4. QED
    BY <1>1, <1>2, <1>6, <1>7, <2>1, <2>2, <2>3, SoundPlus
<1>9. \A id \in Ids : r2[id] = IF id = j THEN AfterClose(r[j]) ELSE r[id]
  BY <1>2 DEF RowTable
<1>10. \A t \in Symbols : book'[t] = IF t = s THEN None ELSE book[t]
  BY <1>0 DEF Close, TypeOK
<1>11. \A t \in Symbols : t # s /\ book[t] # None => book[t].id # j
  BY <1>0, <1>1 DEF Distinct
<1>12. AfterClose(r[j]).symbol = r[j].symbol /\ AfterClose(r[j]) # None
  <2>1. r[j] \in Row
    BY <1>1, <1>2, <1>3 DEF RowTable
  <2>2. AfterClose(r[j]) \in Row /\ AfterClose(r[j]).symbol = r[j].symbol
    BY <2>1 DEF AfterClose, Row
  <2>3. QED
    BY <2>2, StoreAssumption DEF Row
<1> HIDE DEF r2, j
<1>13. HeldAreOpen(a)'
  <2>1. ASSUME NEW id \in Ids, NEW t \in Symbols
        PROVE  IsOpen(r2, id, t) <=> book'[t] # None /\ book'[t].id = id
    <3>1. CASE id = j
      BY <1>7, <1>10, <1>11, <3>1 DEF IsOpen, IsClosed
    <3>2. CASE id # j
      <4>1. IsOpen(r2, id, t) <=> IsOpen(r, id, t)
        BY <1>9, <3>2 DEF IsOpen
      <4>2. IsOpen(r, id, t) <=> book[t] # None /\ book[t].id = id
        BY <1>1 DEF Agrees, HeldAreOpen
      <4>3. QED
        BY <1>10, <3>2, <4>1, <4>2 DEF j
    <3>3. QED
      BY <3>1, <3>2
  <2>2. QED
    BY <1>4, <2>1 DEF HeldAreOpen
<1>14. RecordedAreCharged(a)'
  <2>1. \A key \in Key : l[key] # None => \/ key \in settledAt \/ key \in unread
                                           \/ book'[key[1]] = None
                                           \/ key[2] <= book'[key[1]].watermark
    BY <1>1, <1>10 DEF Agrees, RecordedAreCharged, Key
  <2>2. QED
    BY <1>1, <1>4, <2>1 DEF RecordedAreCharged
<1>15. EventsStand(a)'
  <2>1. ASSUME NEW key \in Key, events[key] # None PROVE EventStands(key, events[key], a)'
    <3> DEFINE e == events[key]
    <3>1. e.id \in Ids /\ EventStands(key, e, d) /\ key[2] \in Times
      BY <1>0, <1>1, <2>1 DEF Agrees, EventsStand, TypeOK, Key
    <3>2. realized'[Correction(e.id, key[2])] = realized[Correction(e.id, key[2])]
      <4>1. Correction(e.id, key[2]) \in Entry /\ Correction(e.id, key[2]) # Result(j)
        BY <3>1, EntryFields DEF Correction, Result
      <4>2. Result(j) \in Entry
        BY <1>1, EntryFields
      <4>3. QED
        BY <1>1, <4>1, <4>2, PlusAt
    <3>3. r[e.id] # None => r2[e.id] # None /\ r2[e.id].symbol = r[e.id].symbol
      BY <1>9, <1>12, <3>1
    <3> HIDE DEF e
    <3>4. PICK f : f = e
      OBVIOUS
    <3>5. EventStands(key, f, a)'
      BY <1>1, <1>4, <3>1, <3>2, <3>3, <3>4 DEF EventStands, Recharged, RunnerEvent
    <3>6. events'[key] = f
      BY <1>1, <3>4 DEF e
    <3>7. QED
      BY <3>5, <3>6
  <2>2. QED
    BY <1>1, <2>1 DEF EventsStand
<1>16. QED
  BY <1>1, <1>4, <1>8, <1>13, <1>14, <1>15 DEF SoundNow, Agrees

(* A charge: the settlement's row, if any, is the position's own. *)
LEMMA AccrueAgrees ==
  ASSUME StoreInv, TypeOK', NEW s \in Symbols, NEW final \in BOOLEAN, Accrue(s, final),
         NEW key \in Key, key[1] = s, key[2] = book[s].watermark + 1,
         NEW d \in Database, SoundNow(d), Agrees(d),
         NEW w, w.kind = "funding", w.key = key, w.id = book[s].id, w.final = final,
         NEW a, a = IF key \notin settledAt /\ driver = "runner" THEN After(w, d) ELSE d
  PROVE  SoundNow(a)' /\ Agrees(a)'
<1> DEFINE r == d.rows
           l == d.ledger
           j == book[s].id
           at == book[s].watermark + 1
           rec == [id |-> j, final |-> final]
           l2 == WithRecord(l, key, rec)
<1>0. TypeOK
  BY DEF StoreInv
<1>1. /\ Up /\ Up' /\ book[s] # None /\ j \in Ids /\ nextId \in Int /\ now \in Int
      /\ realized \in Balance
      /\ UNCHANGED <<now, driver, nextId, unread>>
  BY <1>0 DEF Accrue, Up, TypeOK
<1>2. r \in RowTable /\ d.money \in Balance /\ l \in RecordTable
  BY Typed
<1>3. at \in Times /\ at <= now /\ key[1] = s /\ key[2] = at /\ book[s].watermark \in Nat
  BY <1>0, <1>1, StoreAssumption DEF Accrue, Owed, Times, Key, TypeOK
<1>a. key = <<s, at>>
  BY <1>3 DEF Key
<1>4. /\ \A t \in Symbols : t # s => book'[t] = book[t]
      /\ book'[s] = [id |-> j, watermark |-> at] /\ book'[s] # None
  <2>1. book[s] \in [id : Ids, watermark : 0..MaxTime]
    BY <1>0, <1>1 DEF TypeOK
  <2>2. book' = [book EXCEPT ![s].watermark = at]
    BY DEF Accrue
  <2>3. (\A t \in Symbols : t # s => book'[t] = book[t]) /\ book'[s] = [book[s] EXCEPT !.watermark = at]
    BY <1>0, <2>2 DEF TypeOK
  <2>4. book'[s] = [id |-> j, watermark |-> at]
    BY <2>1, <2>3
  <2>5. book'[s] \in [id : Ids, watermark : 0..MaxTime]
    BY <1>1, <1>3, <2>4 DEF Times
  <2>6. QED
    BY <2>3, <2>4, <2>5, StoreAssumption
<1>5. IsOpen(r, j, s) /\ r[j] # None /\ r[j].symbol = s /\ j < nextId
  <2>1. IsOpen(r, j, s)
    BY <1>1 DEF Agrees, HeldAreOpen
  <2>2. QED
    BY <1>1, <2>1 DEF IsOpen, SoundNow, Sound, Early
<1>6. Sound(r, realized, l, nextId, now, offRecord) /\ Sound(r, d.money, l, nextId, now, offRecord)
  BY <1>1 DEF Agrees, SoundNow
<1>7. a.rows = r => HeldAreOpen(a)'
  <2>1. \A t \in Symbols : (book'[t] # None <=> book[t] # None) /\ (book[t] # None => book'[t].id = book[t].id)
    BY <1>1, <1>4
  <2>2. \A id \in Ids, t \in Symbols : IsOpen(r, id, t) <=> book[t] # None /\ book[t].id = id
    BY <1>1 DEF Agrees, HeldAreOpen
  <2>3. QED
    BY <2>1, <2>2 DEF HeldAreOpen
<1>8. \A k \in Key : l[k] # None => \/ k \in settledAt \/ k \in unread \/ book'[k[1]] = None \/ k[2] <= book'[k[1]].watermark
  <2>1. ASSUME NEW k \in Key, l[k] # None
        PROVE  k \in settledAt \/ k \in unread \/ book'[k[1]] = None \/ k[2] <= book'[k[1]].watermark
    <3>1. k \in settledAt \/ k \in unread \/ book[k[1]] = None \/ k[2] <= book[k[1]].watermark
      BY <1>1, <2>1 DEF Agrees, RecordedAreCharged
    <3>2. k[1] \in Symbols /\ k[2] \in Nat
      BY DEF Key, Times
    <3>3. CASE k[1] # s
      BY <1>4, <3>1, <3>2, <3>3
    <3>4. CASE k[1] = s
      <4>1. book'[s].watermark = at /\ book[s].watermark <= at /\ at \in Nat
        BY <1>3, <1>4
      <4>2. k \in settledAt \/ k \in unread \/ k[2] <= book[s].watermark
        BY <1>1, <3>1, <3>4
      <4>3. QED
        BY <1>3, <3>2, <3>4, <4>1, <4>2
    <3>5. QED
      BY <3>3, <3>4
  <2>2. QED
    BY <2>1
<1>9. CASE key \in settledAt
  <2>1. UNCHANGED <<realized, settledAt, events, offRecord>> /\ a = d
    BY <1>a, <1>9 DEF Accrue
  <2>2. RecordedAreCharged(d)'
    BY <1>1, <1>8, <2>1 DEF RecordedAreCharged
  <2>3. EventsStand(d)'
    BY <1>1, <2>1 DEF Agrees, EventsStand, EventStands, Recharged, RunnerEvent
  <2>4. QED
    BY <1>1, <1>6, <1>7, <2>1, <2>2, <2>3 DEF SoundNow, Agrees
<1>10. CASE key \notin settledAt
  <2>1. /\ realized' = Plus(realized, Funding(j, at))
        /\ settledAt' = settledAt \cup {key}
        /\ events' = [events EXCEPT ![key] = rec]
        /\ FundingWrite(key, j, final)
    BY <1>a, <1>10 DEF Accrue
  <2>2. key \notin unread => l[key] = None
    BY <1>1, <1>3, <1>10 DEF Agrees, RecordedAreCharged
  <2>3. ASSUME key \notin unread
        PROVE  \/ <<j, at>> \in offRecord
               \/ realized[Funding(j, at)] = 0 /\ realized[Correction(j, at)] = 0
    <3>1. l[key] = None
      BY <2>2, <2>3
    <3>2. QED
      BY <1>1, <1>2, <1>3, <1>5, <1>6, <3>1, NotCounted
  <2>4. rec \in Record /\ rec.id = j /\ rec.final = final /\ rec # None
    <3>1. rec \in Record
      BY <1>1 DEF Record
    <3>2. QED
      BY <3>1, StoreAssumption DEF Record
  <2>5. \A k \in Key : events'[k] = IF k = key THEN rec ELSE events[k]
    BY <1>0, <2>1 DEF TypeOK
  <2>6. /\ Funding(j, at) \in Entry /\ Funding(j, at)[1] = "funding"
        /\ Funding(j, at)[2] = j /\ Funding(j, at)[3] = at
    BY <1>1, <1>3, EntryFields DEF Funding
  <2>7. \A id \in Ids, t \in Times : realized'[Correction(id, t)] = realized[Correction(id, t)]
    <3>1. \A id \in Ids, t \in Times : Correction(id, t) \in Entry /\ Correction(id, t) # Funding(j, at)
      BY EntryFields DEF Correction, Funding
    <3>2. QED
      BY <1>1, <2>1, <2>6, <3>1, PlusAt
  <2>8. \A k \in Key : events[k] # None =>
            EventStands(k, events[k], d) /\ events[k].id \in Ids /\ k[2] \in Times
    BY <1>0, <1>1 DEF Agrees, EventsStand, TypeOK, Key
  <2> HIDE DEF r, l, rec, l2, j, at
  <2>9. CASE driver = "runner" /\ key \notin unread
    <3>1. a.rows = r /\ a.money = d.money /\ a.ledger = l2 /\ offRecord' = offRecord
      <4>1. w.kind = "funding" /\ w.key = key /\ [id |-> w.id, final |-> w.final] = rec
        BY DEF rec, j
      <4>2. offRecord' = offRecord /\ a = After(w, d)
        BY <1>10, <2>1, <2>9 DEF FundingWrite
      <4>3. d.ledger[key] = None
        BY <2>2, <2>9 DEF l
      <4>4. /\ After(w, d).rows = d.rows /\ After(w, d).money = d.money
            /\ After(w, d).ledger = WithRecord(d.ledger, key, [id |-> w.id, final |-> w.final])
        BY <4>1, <4>3, AfterRecording
      <4>5. QED
        BY <4>1, <4>2, <4>4 DEF r, l, l2
    <3>2. \A m \in Balance : Sound(r, m, l, nextId, now, offRecord) => Sound(r, m, l2, nextId, now, offRecord)
      <4>1. l[key] = None
        BY <2>2, <2>9
      <4>2. QED
        BY <1>1, <1>2, <1>3, <1>5, <2>4, <4>1, SoundRecord DEF l2
    <3>3. \A k \in Key : l2[k] = IF k = key THEN rec ELSE l[k]
      BY <1>2 DEF RecordTable, WithRecord, l2
    <3>4. l2 \in RecordTable
      BY <1>2, <1>3, <2>4 DEF RecordTable, WithRecord, l2
    <3>5. RecordedIn(l2, j, at)
      BY <1>a, <2>4, <3>3 DEF RecordedIn
    <3>6. Sound(r, realized', l2, nextId, now, offRecord)
      <4>1. Sound(r, realized, l2, nextId, now, offRecord)
        BY <1>1, <1>6, <3>2
      <4>2. QED
        BY <1>1, <1>2, <1>5, <2>1, <2>3, <2>6, <2>9, <3>4, <3>5, <4>1, SoundPlus
    <3>7. RecordedAreCharged(a)'
      BY <1>1, <1>8, <2>1, <3>1, <3>3 DEF RecordedAreCharged
    <3>8. ASSUME NEW k \in Key, events'[k] # None, NEW f, f = events'[k] PROVE EventStands(k, f, a)'
      <4>1. CASE k = key
        <5>1. f = rec /\ l2[k] = rec
          BY <2>5, <3>3, <3>8, <4>1
        <5>2. QED
          BY <1>1, <1>3, <1>5, <2>3, <2>4, <2>7, <2>9, <3>1, <4>1, <5>1 DEF EventStands, Recharged, RunnerEvent
      <4>2. CASE k # key
        <5>1. f = events[k] /\ l2[k] = l[k] /\ f # None
          BY <2>5, <3>3, <3>8, <4>2
        <5>2. EventStands(k, f, d) /\ f.id \in Ids /\ k[2] \in Times
          BY <2>8, <5>1
        <5>3. QED
          BY <1>1, <2>7, <3>1, <5>1, <5>2 DEF EventStands, Recharged, RunnerEvent, r, l
      <4>3. QED
        BY <4>1, <4>2
    <3>9. EventsStand(a)'
      BY <3>8 DEF EventsStand
    <3>10. SoundNow(a)'
      BY <1>1, <1>2, <1>6, <3>1, <3>2 DEF SoundNow
    <3>11. QED
      BY <1>1, <1>7, <3>1, <3>6, <3>7, <3>9, <3>10 DEF Agrees
  <2>10. CASE driver # "runner"
    <3>1. a = d /\ offRecord' = offRecord \cup {<<j, at>>}
      BY <1>3, <2>1, <2>10 DEF FundingWrite
    <3>2. \A m \in Balance : Sound(r, m, l, nextId, now, offRecord) => Sound(r, m, l, nextId, now, offRecord')
      <4>1. offRecord \subseteq offRecord' /\ nextId <= nextId /\ now <= now
        BY <1>1, <3>1
      <4>2. QED
        BY <1>1, <1>2, <4>1, SoundLater
    <3>3. Sound(r, realized', l, nextId, now, offRecord')
      <4>1. Sound(r, realized, l, nextId, now, offRecord') /\ <<j, at>> \in offRecord'
        BY <1>1, <1>6, <3>1, <3>2
      <4>2. QED
        BY <1>1, <1>2, <1>5, <2>1, <2>6, <4>1, SoundPlus
    <3>4. RecordedAreCharged(a)'
      BY <1>1, <1>8, <2>1, <3>1 DEF RecordedAreCharged, l
    <3>5. ASSUME NEW k \in Key, events'[k] # None, NEW f, f = events'[k] PROVE EventStands(k, f, a)'
      <4>1. CASE k = key
        BY <1>1, <1>3, <1>5, <2>4, <2>5, <2>10, <3>1, <3>5, <4>1 DEF EventStands, Recharged, RunnerEvent
      <4>2. CASE k # key
        <5>1. f = events[k] /\ f # None
          BY <2>5, <3>5, <4>2
        <5>2. EventStands(k, f, d)
          BY <2>8, <5>1
        <5>3. QED
          BY <1>1, <2>10, <3>1, <5>2 DEF EventStands, Recharged, RunnerEvent
      <4>3. QED
        BY <4>1, <4>2
    <3>6. EventsStand(a)'
      BY <3>5 DEF EventsStand
    <3>7. SoundNow(a)'
      BY <1>1, <1>2, <1>6, <3>1, <3>2 DEF SoundNow, r, l
    <3>8. QED
      BY <1>1, <1>7, <3>1, <3>3, <3>4, <3>6, <3>7 DEF Agrees, r, l
  <2>11. CASE driver = "runner" /\ key \in unread
    <3> DEFINE l3 == a.ledger
    <3>1. offRecord' = offRecord \cup {<<j, at>>} /\ a = After(w, d) /\ [id |-> w.id, final |-> w.final] = rec
      BY <1>3, <1>10, <2>1, <2>11 DEF FundingWrite, rec, j
    <3>2. /\ a.rows = r /\ a.money = d.money /\ l3 \in RecordTable
          /\ l3[key] # None /\ \A k \in Key : k # key => l3[k] = l[k]
          /\ \A m \in Balance : Sound(r, m, l, nextId, now, offRecord) => Sound(r, m, l3, nextId, now, offRecord)
      <4>1. CASE l[key] = None
        <5>1. a.rows = r /\ a.money = d.money /\ l3 = l2
          BY <3>1, <4>1, AfterRecording DEF r, l, l2
        <5>2. l2 \in RecordTable /\ \A k \in Key : l2[k] = IF k = key THEN rec ELSE l[k]
          BY <1>2, <2>4 DEF RecordTable, WithRecord, l2
        <5>3. QED
          <6>1. \A m \in Balance : Sound(r, m, l, nextId, now, offRecord) => Sound(r, m, l2, nextId, now, offRecord)
            BY <1>1, <1>2, <1>3, <1>5, <2>4, <4>1, SoundRecord DEF l2
          <6>2. QED
            BY <2>4, <5>1, <5>2, <6>1
      <4>2. CASE l[key] # None /\ final
        <5> DEFINE l4 == WithRecord(l, key, AsFinal(l[key]))
        <5>1. a.rows = r /\ a.money = d.money /\ l3 = l4
          <6>1. d.ledger[key] # None /\ w.final
            BY <4>2 DEF l
          <6>2. /\ After(w, d).rows = d.rows /\ After(w, d).money = d.money
                /\ After(w, d).ledger = WithRecord(d.ledger, key, AsFinal(d.ledger[key]))
            BY <6>1, AfterConfirming
          <6>3. QED
            BY <3>1, <6>2 DEF r, l
        <5>2. AsFinal(l[key]) \in Record
          BY <1>2, <4>2 DEF RecordTable, Record, AsFinal
        <5>3. AsFinal(l[key]) # None
          BY <5>2, StoreAssumption DEF Record
        <5>4. l4 \in RecordTable /\ \A k \in Key : l4[k] = IF k = key THEN AsFinal(l[key]) ELSE l[k]
          BY <1>2, <5>2 DEF RecordTable, WithRecord
        <5>5. \A m \in Balance : Sound(r, m, l, nextId, now, offRecord) => Sound(r, m, l4, nextId, now, offRecord)
          BY <1>1, <1>2, <4>2, SoundConfirm
        <5> HIDE DEF l4
        <5>6. QED
          BY <5>1, <5>3, <5>4, <5>5
      <4>3. CASE l[key] # None /\ ~final
        <5>1. a.rows = r /\ a.money = d.money /\ l3 = l
          <6>1. d.ledger[key] # None /\ ~w.final
            BY <4>3 DEF l
          <6>2. After(w, d).rows = d.rows /\ After(w, d).money = d.money /\ After(w, d).ledger = d.ledger
            BY <6>1, AfterRepeating
          <6>3. QED
            BY <3>1, <6>2 DEF r, l
        <5>2. QED
          BY <1>2, <4>3, <5>1
      <4>4. QED
        BY <4>1, <4>2, <4>3
    <3> HIDE DEF l3
    <3>3. offRecord \subseteq offRecord' /\ nextId <= nextId /\ now <= now /\ <<j, at>> \in offRecord'
      BY <1>1, <3>1
    <3>4. \A m \in Balance : Sound(r, m, l, nextId, now, offRecord) => Sound(r, m, l3, nextId, now, offRecord')
      BY <1>1, <1>2, <3>2, <3>3, SoundLater
    <3>5. Sound(r, realized', l3, nextId, now, offRecord')
      <4>1. Sound(r, realized, l3, nextId, now, offRecord')
        BY <1>1, <1>6, <3>4
      <4>2. QED
        BY <1>1, <1>2, <1>5, <2>1, <2>6, <3>2, <3>3, <4>1, SoundPlus
    <3>6. RecordedAreCharged(a)'
      <4>1. ASSUME NEW k \in Key, l3[k] # None
            PROVE  k \in settledAt' \/ k \in unread' \/ book'[k[1]] = None \/ k[2] <= book'[k[1]].watermark
        BY <1>1, <1>8, <2>1, <3>2, <4>1
      <4>2. QED
        BY <4>1 DEF RecordedAreCharged, l3
    <3>7. ASSUME NEW k \in Key, events'[k] # None, NEW f, f = events'[k] PROVE EventStands(k, f, a)'
      <4>1. CASE k = key
        BY <1>1, <1>3, <1>5, <2>4, <2>5, <2>11, <3>2, <3>3, <3>7, <4>1 DEF EventStands, Recharged, l3
      <4>2. CASE k # key
        <5>1. f = events[k] /\ f # None /\ l3[k] = l[k]
          BY <2>5, <3>2, <3>7, <4>2
        <5>2. EventStands(k, f, d) /\ f.id \in Ids /\ k[2] \in Times
          BY <2>8, <5>1
        <5>3. QED
          BY <1>1, <2>7, <2>11, <3>2, <3>3, <5>1, <5>2 DEF EventStands, Recharged, RunnerEvent, r, l, l3
      <4>3. QED
        BY <4>1, <4>2
    <3>8. EventsStand(a)'
      BY <3>7 DEF EventsStand
    <3>9. SoundNow(a)'
      BY <1>1, <1>2, <1>6, <3>2, <3>4 DEF SoundNow, l3
    <3>10. QED
      BY <1>1, <1>7, <3>2, <3>5, <3>6, <3>8, <3>9 DEF Agrees, l3
  <2>12. QED
    BY <2>9, <2>10, <2>11
<1>11. QED
  BY <1>9, <1>10

(* A settled rate: the runner's finds its row, the dashboard's records none. *)
LEMMA ReconcileAgrees ==
  ASSUME StoreInv, TypeOK', NEW key \in Key, Reconcile(key),
         NEW d \in Database, SoundNow(d), Agrees(d),
         NEW w, w.kind = "funding", w.key = key, w.final = TRUE,
         NEW a, a = IF driver = "runner" THEN After(w, d) ELSE d
  PROVE  SoundNow(a)' /\ Agrees(a)'
<1> DEFINE r == d.rows
           l == d.ledger
           e == events[key]
           at == key[2]
           l2 == WithRecord(l, key, AsFinal(l[key]))
<1>0. TypeOK
  BY DEF StoreInv
<1>1. /\ Up /\ Up' /\ e # None /\ ~e.final /\ e \in Record
      /\ nextId \in Int /\ now \in Int /\ realized \in Balance
      /\ realized' = Plus(realized, Correction(e.id, at))
      /\ FundingWrite(key, e.id, TRUE)
      /\ UNCHANGED <<now, driver, book, settledAt, nextId, unread>>
  <2>1. e # None /\ ~e.final /\ UNCHANGED <<now, driver, book, settledAt, nextId, unread>> /\ Up /\ Up'
    BY DEF Reconcile, Up
  <2>2. realized' = Plus(realized, Correction(e.id, at)) /\ FundingWrite(key, e.id, TRUE)
    BY DEF Reconcile
  <2>3. e \in Record /\ nextId \in Int /\ now \in Int /\ realized \in Balance
    BY <1>0, <2>1 DEF TypeOK, Record
  <2>4. QED
    BY <2>1, <2>2, <2>3
<1>2. r \in RowTable /\ d.money \in Balance /\ l \in RecordTable
  BY Typed
<1>3. e.id \in Ids /\ at \in Times /\ key[1] \in Symbols /\ key = <<key[1], at>>
  BY <1>1 DEF Record, Key
<1>4. EventStands(key, e, d)
  BY <1>1 DEF Agrees, EventsStand
<1>5. Sound(r, realized, l, nextId, now, offRecord) /\ Sound(r, d.money, l, nextId, now, offRecord)
  BY <1>1 DEF Agrees, SoundNow
<1>6. /\ Correction(e.id, at) \in Entry /\ Correction(e.id, at)[1] = "correction"
      /\ Correction(e.id, at)[2] = e.id /\ Correction(e.id, at)[3] = at
  BY <1>3, EntryFields DEF Correction
<1>7. /\ \A k \in Key : k # key => events'[k] = events[k]
      /\ events'[key] = AsFinal(e) /\ AsFinal(e).id = e.id /\ AsFinal(e).final = TRUE
  <2>1. events' = [events EXCEPT ![key] = AsFinal(e)]
    BY DEF Reconcile, AsFinal
  <2>2. QED
    BY <1>0, <1>1, <2>1 DEF TypeOK, AsFinal, Record
<1>8. a.rows = r => HeldAreOpen(a)'
  BY <1>1 DEF Agrees, HeldAreOpen
<1>9. \A k \in Key : events[k] # None =>
          EventStands(k, events[k], d) /\ events[k].id \in Ids /\ k[2] \in Times
  BY <1>0, <1>1 DEF Agrees, EventsStand, TypeOK, Key
<1>10. \A id \in Ids, t \in Times : id # e.id \/ t # at =>
          realized'[Correction(id, t)] = realized[Correction(id, t)]
  <2>1. \A id \in Ids, t \in Times : Correction(id, t) \in Entry
    BY EntryFields
  <2>2. \A id \in Ids, t \in Times : id # e.id \/ t # at => Correction(id, t) # Correction(e.id, at)
    BY DEF Correction
  <2>3. QED
    BY <1>1, <1>6, <2>1, <2>2, PlusAt
<1> HIDE DEF r, l, e, at, l2
<1>11. CASE driver = "runner" /\ key \notin unread
  <2>1. /\ l[key] # None /\ l[key].id = e.id /\ r[e.id] # None /\ r[e.id].symbol = key[1]
        /\ realized[Correction(e.id, at)] = 0 \/ <<e.id, at>> \in offRecord
    BY <1>1, <1>4, <1>11 DEF EventStands, Recharged, RunnerEvent, r, l, at
  <2>2. a.rows = r /\ a.money = d.money /\ a.ledger = l2 /\ offRecord' = offRecord
    <3>1. offRecord' = offRecord /\ a = After(w, d)
      BY <1>1, <1>11 DEF FundingWrite
    <3>2. d.ledger[key] # None
      BY <2>1 DEF l
    <3>3. /\ After(w, d).rows = d.rows /\ After(w, d).money = d.money
          /\ After(w, d).ledger = WithRecord(d.ledger, key, AsFinal(d.ledger[key]))
      BY <3>2, AfterConfirming
    <3>4. QED
      BY <3>1, <3>3 DEF r, l, l2
  <2>3. /\ Sound(r, realized, l2, nextId, now, offRecord)
        /\ Sound(r, d.money, l2, nextId, now, offRecord)
    BY <1>1, <1>2, <1>5, <2>1, SoundConfirm DEF l2
  <2>4. AsFinal(l[key]) \in Record /\ AsFinal(l[key]).id = l[key].id
    BY <1>2, <2>1 DEF RecordTable, Record, AsFinal
  <2>5. AsFinal(l[key]) # None
    BY <2>4, StoreAssumption DEF Record
  <2>6. l2 \in RecordTable /\ \A k \in Key : l2[k] = IF k = key THEN AsFinal(l[key]) ELSE l[k]
    BY <1>2, <2>4 DEF RecordTable, WithRecord, l2
  <2>7. Sound(r, realized', l2, nextId, now, offRecord)
    <3>1. RecordedIn(l2, e.id, at)
      BY <1>3, <2>1, <2>4, <2>5, <2>6 DEF RecordedIn
    <3>2. e.id < nextId
      BY <1>4 DEF EventStands, Recharged, RunnerEvent
    <3>3. QED
      BY <1>1, <1>2, <1>6, <2>1, <2>3, <2>6, <3>1, <3>2, SoundPlus
  <2>8. RecordedAreCharged(a)'
    <3>1. \A k \in Key : l2[k] # None => l[k] # None
      BY <2>1, <2>6
    <3>2. QED
      BY <1>1, <2>2, <3>1 DEF Agrees, RecordedAreCharged, l
  <2>9. ASSUME NEW k \in Key, events'[k] # None, NEW f, f = events'[k] PROVE EventStands(k, f, a)'
    <3>1. CASE k = key
      <4>1. f.id = e.id /\ f.final = TRUE /\ l2[k] # None /\ l2[k].id = e.id
        BY <1>7, <2>1, <2>4, <2>5, <2>6, <2>9, <3>1
      <4>2. QED
        BY <1>1, <1>4, <1>11, <2>1, <2>2, <3>1, <4>1 DEF EventStands, Recharged, RunnerEvent
    <3>2. CASE k # key
      <4>1. f = events[k] /\ f # None /\ l2[k] = l[k]
        BY <1>7, <2>6, <2>9, <3>2
      <4>2. EventStands(k, f, d) /\ f.id \in Ids /\ k[2] \in Times
        BY <1>9, <4>1
      <4>3. f.id # e.id \/ k[2] # at \/ k \in unread
        <5>1. ASSUME f.id = e.id, k[2] = at, k \notin unread PROVE FALSE
          <6>1. r[e.id].symbol = k[1]
            BY <1>11, <4>2, <5>1 DEF EventStands, Recharged, RunnerEvent, r
          <6>2. k = <<k[1], k[2]>>
            BY DEF Key
          <6>3. QED
            BY <1>3, <2>1, <3>2, <5>1, <6>1, <6>2
        <5>2. QED
          BY <5>1
      <4>4. QED
        BY <1>1, <1>10, <2>2, <4>1, <4>2, <4>3 DEF EventStands, Recharged, RunnerEvent, r, l
    <3>3. QED
      BY <3>1, <3>2
  <2>10. EventsStand(a)'
    BY <2>9 DEF EventsStand
  <2>11. SoundNow(a)'
    BY <1>1, <2>2, <2>3 DEF SoundNow
  <2>12. QED
    BY <1>1, <1>8, <2>2, <2>7, <2>8, <2>10, <2>11 DEF Agrees
<1>12. CASE driver # "runner"
  <2>1. <<e.id, at>> \in offRecord /\ e.id < nextId
    BY <1>4, <1>12 DEF EventStands, Recharged, RunnerEvent, at
  <2>2. a = d /\ offRecord' = offRecord
    BY <1>1, <1>12, <2>1 DEF FundingWrite, at
  <2>3. Sound(r, realized', l, nextId, now, offRecord)
    BY <1>1, <1>2, <1>5, <1>6, <2>1, SoundPlus
  <2>4. RecordedAreCharged(a)'
    BY <1>1, <2>2 DEF Agrees, RecordedAreCharged
  <2>5. ASSUME NEW k \in Key, events'[k] # None, NEW f, f = events'[k] PROVE EventStands(k, f, a)'
    <3>1. CASE k = key
      BY <1>1, <1>7, <1>12, <2>1, <2>2, <2>5, <3>1 DEF EventStands, Recharged, RunnerEvent, at
    <3>2. CASE k # key
      <4>1. f = events[k] /\ f # None
        BY <1>7, <2>5, <3>2
      <4>2. EventStands(k, f, d)
        BY <1>9, <4>1
      <4>3. QED
        BY <1>1, <1>12, <2>2, <4>2 DEF EventStands, Recharged, RunnerEvent
    <3>3. QED
      BY <3>1, <3>2
  <2>6. EventsStand(a)'
    BY <2>5 DEF EventsStand
  <2>7. SoundNow(a)'
    BY <1>1, <1>5, <2>2 DEF SoundNow, r, l
  <2>8. QED
    BY <1>1, <1>8, <2>2, <2>3, <2>4, <2>6, <2>7 DEF Agrees, r, l
<1>13. CASE driver = "runner" /\ key \in unread
  <2>1. l[key] # None /\ <<e.id, at>> \in offRecord /\ e.id < nextId
    BY <1>1, <1>4, <1>13 DEF EventStands, Recharged, l, at
  <2>2. a.rows = r /\ a.money = d.money /\ a.ledger = l2 /\ offRecord' = offRecord
    <3>1. offRecord' = offRecord /\ a = After(w, d)
      BY <1>1, <1>13, <2>1 DEF FundingWrite, at
    <3>2. d.ledger[key] # None
      BY <2>1 DEF l
    <3>3. /\ After(w, d).rows = d.rows /\ After(w, d).money = d.money
          /\ After(w, d).ledger = WithRecord(d.ledger, key, AsFinal(d.ledger[key]))
      BY <3>2, AfterConfirming
    <3>4. QED
      BY <3>1, <3>3 DEF r, l, l2
  <2>3. /\ Sound(r, realized, l2, nextId, now, offRecord)
        /\ Sound(r, d.money, l2, nextId, now, offRecord)
    BY <1>1, <1>2, <1>5, <2>1, SoundConfirm DEF l2
  <2>4. AsFinal(l[key]) \in Record
    BY <1>2, <2>1 DEF RecordTable, Record, AsFinal
  <2>5. AsFinal(l[key]) # None
    BY <2>4, StoreAssumption DEF Record
  <2>6. l2 \in RecordTable /\ \A k \in Key : l2[k] = IF k = key THEN AsFinal(l[key]) ELSE l[k]
    BY <1>2, <2>4 DEF RecordTable, WithRecord, l2
  <2>7. Sound(r, realized', l2, nextId, now, offRecord)
    BY <1>1, <1>2, <1>6, <2>1, <2>3, <2>6, SoundPlus
  <2>8. RecordedAreCharged(a)'
    <3>1. \A k \in Key : l2[k] # None => l[k] # None
      BY <2>1, <2>6
    <3>2. QED
      BY <1>1, <2>2, <3>1 DEF Agrees, RecordedAreCharged, l
  <2>9. ASSUME NEW k \in Key, events'[k] # None, NEW f, f = events'[k] PROVE EventStands(k, f, a)'
    <3>1. CASE k = key
      BY <1>1, <1>7, <1>13, <2>1, <2>2, <2>5, <2>6, <2>9, <3>1 DEF EventStands, Recharged, at
    <3>2. CASE k # key
      <4>1. f = events[k] /\ f # None /\ l2[k] = l[k]
        BY <1>7, <2>6, <2>9, <3>2
      <4>2. EventStands(k, f, d) /\ f.id \in Ids /\ k[2] \in Times
        BY <1>9, <4>1
      <4>3. (f.id # e.id \/ k[2] # at) \/ <<f.id, k[2]>> \in offRecord
        BY <2>1
      <4>4. QED
        BY <1>1, <1>10, <2>2, <4>1, <4>2, <4>3 DEF EventStands, Recharged, RunnerEvent, r, l
    <3>3. QED
      BY <3>1, <3>2
  <2>10. EventsStand(a)'
    BY <2>9 DEF EventsStand
  <2>11. SoundNow(a)'
    BY <1>1, <2>2, <2>3 DEF SoundNow
  <2>12. QED
    BY <1>1, <1>8, <2>2, <2>7, <2>8, <2>10, <2>11 DEF Agrees
<1>14. QED
  BY <1>11, <1>12, <1>13

LEMMA ResetAgrees ==
  ASSUME StoreInv, TypeOK', Reset, NEW d \in Database, SoundNow(d), Agrees(d),
         NEW w, w.kind = "reset", NEW a, a = After(w, d)
  PROVE  SoundNow(a)' /\ Agrees(a)'
<1> DEFINE r == d.rows
           l == d.ledger
<1>0. TypeOK /\ nextId \in Int /\ now \in Int
  BY DEF StoreInv, TypeOK
<1>1. /\ UNCHANGED <<now, nextId, offRecord>> /\ realized' = Empty
      /\ (\A s \in Symbols : book'[s] = None) /\ (\A key \in Key : events'[key] = None)
  BY DEF Reset, history
<1>2. r \in RowTable /\ d.money \in Balance /\ l \in RecordTable /\ OnlyClosed(r) \in RowTable
  BY Typed DEF OnlyClosed, RowTable
<1>3. a.rows = OnlyClosed(r) /\ a.money = Empty /\ a.ledger = l
  BY AfterIs DEF RowsAfter, MoneyAfter, LedgerAfter
<1>4. Sound(OnlyClosed(r), Empty, l, nextId, now, offRecord)
  <2>1. Sound(r, d.money, l, nextId, now, offRecord)
    BY DEF SoundNow
  <2>2. Sound(OnlyClosed(r), d.money, l, nextId, now, offRecord)
    BY <1>0, <1>2, <2>1, SoundReset
  <2> HIDE DEF r, l
  <2>3. QED
    BY <1>0, <1>2, <2>2, SoundReset
<1>5. HeldAreOpen(a)'
  <2>1. \A id \in Ids : OnlyClosed(r)[id] # None => ~OnlyClosed(r)[id].open
    BY DEF OnlyClosed
  <2>2. QED
    BY <1>1, <1>3, <2>1 DEF HeldAreOpen, IsOpen
<1>6. RecordedAreCharged(a)' /\ EventsStand(a)'
  BY <1>1 DEF RecordedAreCharged, EventsStand, Key
<1>7. QED
  BY <1>1, <1>3, <1>4, <1>5, <1>6 DEF SoundNow, Agrees

-----------------------------------------------------------------------------
(* The writes' landing *)

(* The first write has landed: the database now is the next one ahead. *)
LEMMA Landed ==
  ASSUME TypeOK, wire # <<>>, NEW D, Foreseen(D), wire' = RemoveAt(wire, 1),
         Stored' = After(wire[1], Stored), UNCHANGED <<memory, now, offRecord, unread>>
  PROVE  (\E E : Foreseen(E))'
<1> DEFINE N == Len(wire)
           E == [k \in 1..N |-> D[k + 1]]
<1>1. wire \in Seq(Write) /\ N \in Nat \ {0} /\ Len(wire') = N - 1
  BY FirstOff DEF TypeOK
<1>2. D[2] = After(wire[1], Stored)
  <2>1. 1 \in 1..N /\ 1 + 1 = 2
    BY <1>1
  <2>2. QED
    BY <2>1 DEF Foreseen, Ahead
<1>3. Ahead(wire', Stored', E)
  BY <1>1, <1>2, AheadTail DEF Foreseen
<1>4. PICK F : F = E
  OBVIOUS
<1>5. \A k \in 1..N : F[k] = D[k + 1] /\ SoundNow(D[k + 1])
  <2>1. \A k \in 1..N : k + 1 \in 1..(N + 1)
    BY <1>1
  <2>2. QED
    BY <1>4, <2>1 DEF Foreseen
<1>6. \A k \in 1..N : SoundNow(F[k])'
  BY <1>5 DEF SoundNow, memory
<1>7. N \in 1..N /\ (N - 1) + 1 = N
  BY <1>1
<1>8. Agrees(F[N])
  BY <1>5, <1>7 DEF Foreseen
<1>9. PICK a : a = F[N]
  OBVIOUS
<1>10. Agrees(a)'
  BY <1>8, <1>9 DEF Agrees, Up, HeldAreOpen, RecordedAreCharged, EventsStand, EventStands, Recharged, RunnerEvent, memory
<1>11. Foreseen(F)'
  <2>1. Len(wire') + 1 = N
    BY <1>1, <1>7
  <2>2. Ahead(wire', Stored', F)
    BY <1>3, <1>4
  <2> HIDE DEF N
  <2>3. QED
    BY <1>6, <1>9, <1>10, <2>1, <2>2 DEF Foreseen
<1>12. QED
  BY <1>11

(* The first write has landed its first statement, and v is its second. *)
LEMMA HalfLanded ==
  ASSUME TypeOK, TypeOK', wire # <<>>, NEW D, Foreseen(D), NEW v \in Write, wire' = ReplaceAt(wire, 1, v),
         After(wire[1], Stored) = After(v, Stored'), SoundNow(Stored)',
         UNCHANGED <<memory, now, offRecord, unread>>
  PROVE  (\E E : Foreseen(E))'
<1> DEFINE N == Len(wire)
           E == [D EXCEPT ![1] = Stored']
<1>1. wire \in Seq(Write) /\ N \in Nat \ {0} /\ 1 \in 1..N /\ Len(wire') = N
  BY EmptySeq, LenProperties, ExceptSeq DEF TypeOK, ReplaceAt
<1>2. D[2] = After(v, Stored') /\ Stored' \in Database
  <2>1. 1 \in 1..N /\ 1 + 1 = 2
    BY <1>1
  <2>2. D[2] = After(wire[1], Stored)
    BY <2>1 DEF Foreseen, Ahead
  <2>3. (TypeOK => Stored \in Database)'
    BY DEF TypeOK, Stored, Database, RowTable, Row, RecordTable, Record
  <2>4. QED
    BY <2>2, <2>3
<1>3. PICK e : e = Stored'
  OBVIOUS
<1>4. Ahead(wire', e, [D EXCEPT ![1] = e])
  BY <1>1, <1>2, <1>3, AheadHead DEF Foreseen
<1>5. PICK F : F = [D EXCEPT ![1] = e]
  OBVIOUS
<1>6. \A k \in 1..(N + 1) : F[k] = (IF k = 1 THEN e ELSE D[k]) /\ SoundNow(D[k])
  BY <1>1, <1>5 DEF Foreseen, Ahead
<1>7. SoundNow(e)'
  BY <1>3 DEF SoundNow
<1>8. \A k \in 1..(N + 1) : SoundNow(F[k])'
  <2>1. ASSUME NEW k \in 1..(N + 1) PROVE SoundNow(F[k])'
    <3>1. CASE k = 1
      BY <1>6, <1>7, <3>1
    <3>2. CASE k # 1
      BY <1>6, <3>2 DEF SoundNow, memory
    <3>3. QED
      BY <3>1, <3>2
  <2>2. QED
    BY <2>1
<1>9. F[N + 1] = D[N + 1]
  <2>1. N + 1 \in 1..(N + 1) /\ N + 1 # 1
    BY <1>1
  <2>2. QED
    BY <1>6, <2>1
<1>10. PICK a : a = F[N + 1]
  OBVIOUS
<1>11. Agrees(a)
  BY <1>9, <1>10 DEF Foreseen
<1>12. Agrees(a)'
  BY <1>11 DEF Agrees, Up, HeldAreOpen, RecordedAreCharged, EventsStand, EventStands, Recharged, RunnerEvent, memory
<1>13. Foreseen(F)'
  <2>1. Ahead(wire', Stored', F)
    BY <1>3, <1>4, <1>5
  <2>2. Len(wire') + 1 = N + 1
    BY <1>1
  <2> HIDE DEF N
  <2>3. QED
    BY <1>8, <1>10, <1>12, <2>1, <2>2 DEF Foreseen
<1>14. QED
  BY <1>13

LEMMA LandForeseen ==
  ASSUME StoreInv, TypeOK', ordered, NEW D, Foreseen(D), NEW i \in DOMAIN wire, Land(i)
  PROVE  (\E E : Foreseen(E))'
<1> DEFINE w == wire[1]
<1>0. TypeOK
  BY DEF StoreInv
<1>1. i = 1 /\ w \in Write /\ wire # <<>> /\ UNCHANGED <<memory, now, offRecord, unread>>
  <2>1. i = 1 /\ UNCHANGED <<memory, now>>
    BY DEF Land
  <2>2. wire # <<>>
    BY EmptySeq
  <2>3. UNCHANGED <<offRecord, unread>>
    BY DEF Land, LandOpen, LandClose, LandAccount, LandFunding, LandConfirm, LandReset, LandZero, history
  <2>4. QED
    BY <1>0, <2>1, <2>2, <2>3, InFlight
<1>2. /\ After(w, Stored).rows = RowsAfter(w, rows)
      /\ After(w, Stored).money = MoneyAfter(w, account.realized)
      /\ After(w, Stored).ledger = LedgerAfter(w, ledger)
      /\ After(w, Stored) = [rows |-> RowsAfter(w, rows), money |-> MoneyAfter(w, account.realized),
                             ledger |-> LedgerAfter(w, ledger)]
  BY DEF After, Stored
<1>3. Stored' = [rows |-> rows', money |-> account'.realized, ledger |-> ledger']
  BY DEF Stored
<1>4. rows \in RowTable /\ account.realized \in Balance /\ ledger \in RecordTable
      /\ nextId \in Int /\ now \in Int
  BY <1>0 DEF TypeOK, RowTable, Row, RecordTable, Record
<1>5. Sound(rows, account.realized, ledger, nextId, now, offRecord)
  <2>1. 1 \in 1..(Len(wire) + 1)
    BY <1>0, LenProperties DEF TypeOK
  <2>2. D[1] = Stored /\ SoundNow(D[1])
    BY <2>1 DEF Foreseen, Ahead
  <2>3. QED
    BY <2>2 DEF SoundNow, Stored
<1>6. ASSUME Lands(1), rows' = RowsAfter(w, rows), account'.realized = MoneyAfter(w, account.realized),
             ledger' = LedgerAfter(w, ledger)
      PROVE  (\E E : Foreseen(E))'
  <2>1. Stored' = After(w, Stored)
    BY <1>2, <1>3, <1>6
  <2>2. QED
    BY <1>0, <1>1, <1>6, <2>1, Landed DEF Lands
<1> HIDE DEF w
<1>7. CASE LandOpen(1)
  BY <1>6, <1>7 DEF LandOpen, RowsAfter, MoneyAfter, LedgerAfter, AsOpened, w
<1>8. CASE LandAccount(1)
  BY <1>6, <1>8 DEF LandAccount, RowsAfter, MoneyAfter, LedgerAfter, w
<1>9. CASE LandZero(1)
  BY <1>6, <1>9 DEF LandZero, RowsAfter, MoneyAfter, LedgerAfter, w
<1>10. CASE LandConfirm(1)
  <2>1. ledger' = LedgerAfter(w, ledger)
    <3>1. w.kind = "confirm" /\ w.key \in Key
      BY <1>1, <1>10, WriteFields DEF LandConfirm, w
    <3>2. CASE ledger[w.key] = None
      <4>1. ledger' = [ledger EXCEPT ![w.key] = ledger[w.key]]
        BY <1>10, <3>2 DEF LandConfirm, w
      <4>2. ledger' = ledger
        BY <1>4, <3>1, <4>1 DEF RecordTable
      <4>3. QED
        BY <3>1, <3>2, <4>2 DEF LedgerAfter
    <3>3. CASE ledger[w.key] # None
      <4>1. ledger' = [ledger EXCEPT ![w.key] = [ledger[w.key] EXCEPT !.final = TRUE]]
        BY <1>10, <3>3 DEF LandConfirm, w
      <4>2. QED
        BY <3>1, <3>3, <4>1 DEF LedgerAfter, WithRecord, AsFinal
    <3>4. QED
      BY <3>2, <3>3
  <2>2. QED
    BY <1>6, <1>10, <2>1 DEF LandConfirm, RowsAfter, MoneyAfter, w
<1>11. CASE LandFunding(1)
  <2>1. w.kind = "funding" /\ w.key \in Key /\ w.final \in BOOLEAN /\ UNCHANGED <<rows, account>>
    BY <1>1, <1>11, WriteFields DEF LandFunding, w
  <2>2. CASE ledger[w.key] = None
    <3>1. ledger' = WithRecord(ledger, w.key, [id |-> w.id, final |-> w.final]) /\ Lands(1)
      BY <1>11, <2>2 DEF LandFunding, WithRecord, w
    <3>2. QED
      BY <1>6, <2>1, <2>2, <3>1 DEF RowsAfter, MoneyAfter, LedgerAfter
  <2>3. CASE ledger[w.key] # None
    <3>1. ledger' = ledger
      <4>1. ledger' = [ledger EXCEPT ![w.key] = ledger[w.key]]
        BY <1>11, <2>3 DEF LandFunding, OnConflict, w
      <4>2. QED
        BY <1>4, <2>1, <4>1 DEF RecordTable
    <3>2. CASE ~w.final
      <4>1. Lands(1)
        BY <1>11, <2>3, <3>2 DEF LandFunding, Confirms, w
      <4>2. QED
        BY <1>6, <2>1, <2>3, <3>1, <3>2, <4>1 DEF RowsAfter, MoneyAfter, LedgerAfter
    <3>3. CASE w.final
      <4> DEFINE v == [kind |-> "confirm", key |-> w.key]
      <4>1. Continues(1, v) /\ v \in Write
        BY <1>11, <2>1, <2>3, <3>3, Writes DEF LandFunding, Confirms, w
      <4>2. v.kind = "confirm" /\ v.key = w.key
        OBVIOUS
      <4>3. Stored' = Stored
        BY <2>1, <3>1 DEF Stored
      <4> HIDE DEF v
      <4>4. RowsAfter(v, rows) = rows /\ MoneyAfter(v, account.realized) = account.realized
        BY <4>2 DEF RowsAfter, MoneyAfter
      <4>5. RowsAfter(w, rows) = rows /\ MoneyAfter(w, account.realized) = account.realized
        BY <2>1 DEF RowsAfter, MoneyAfter
      <4>6. LedgerAfter(v, ledger) = LedgerAfter(w, ledger)
        BY <2>1, <2>3, <3>3, <4>2 DEF LedgerAfter
      <4>7. After(w, Stored) = After(v, Stored')
        BY <4>3, <4>4, <4>5, <4>6 DEF After, Stored
      <4>8. SoundNow(Stored)'
        BY <1>1, <1>3, <1>5, <2>1, <3>1 DEF SoundNow, Stored, memory
      <4>9. QED
        BY <1>0, <1>1, <4>1, <4>7, <4>8, HalfLanded DEF Continues, w
    <3>4. QED
      BY <2>1, <3>2, <3>3
  <2>4. QED
    BY <2>2, <2>3
<1>12. CASE LandClose(1)
  <2> DEFINE v == [kind |-> "account", realized |-> w.realized, halted |-> w.halted]
  <2>1. w.kind = "close" /\ w.id \in Ids /\ UNCHANGED <<account, ledger>>
    BY <1>1, <1>12, WriteFields DEF LandClose, w
  <2>2. Continues(1, v) /\ v \in Write
    BY <1>1, <1>12, WriteFields, Writes DEF LandClose, w
  <2>3. v.kind = "account" /\ v.realized = w.realized
    OBVIOUS
  <2> HIDE DEF v
  <2>4. rows' = RowsAfter(w, rows)
    BY <1>12 DEF LandClose, RowsAfter, w
  <2>5. Sound(rows', account.realized, ledger, nextId, now, offRecord)
    <3>1. CASE rows[w.id] = None
      BY <1>5, <2>1, <2>4, <3>1 DEF RowsAfter
    <3>2. CASE rows[w.id] # None
      <4>1. rows' = [rows EXCEPT ![w.id] = AfterClose(rows[w.id])]
        BY <2>1, <2>4, <3>2 DEF RowsAfter
      <4>2. QED
        BY <1>4, <1>5, <2>1, <3>2, <4>1, SoundClose
    <3>3. QED
      BY <3>1, <3>2
  <2>6. SoundNow(Stored)'
    BY <1>1, <2>1, <2>5 DEF SoundNow, Stored, memory
  <2>7. RowsAfter(v, rows') = rows' /\ MoneyAfter(v, account'.realized) = w.realized
        /\ LedgerAfter(v, ledger') = ledger
    BY <2>1, <2>3 DEF RowsAfter, MoneyAfter, LedgerAfter
  <2>8. MoneyAfter(w, account.realized) = w.realized /\ LedgerAfter(w, ledger) = ledger
    BY <2>1 DEF MoneyAfter, LedgerAfter
  <2>9. After(w, Stored) = After(v, Stored')
    BY <2>4, <2>7, <2>8 DEF After, Stored
  <2>10. QED
    BY <1>0, <1>1, <2>2, <2>6, <2>9, HalfLanded DEF Continues, w
<1>13. CASE LandReset(1)
  <2> DEFINE v == [kind |-> "zero"]
  <2>1. w.kind = "reset" /\ UNCHANGED <<account, ledger>> /\ rows' = OnlyClosed(rows)
    BY <1>13 DEF LandReset, OnlyClosed, w
  <2>2. Continues(1, v) /\ v \in Write
    BY <1>13, Writes DEF LandReset
  <2>3. v.kind = "zero"
    OBVIOUS
  <2> HIDE DEF v
  <2>4. SoundNow(Stored)'
    <3>1. Sound(OnlyClosed(rows), account.realized, ledger, nextId, now, offRecord)
      BY <1>4, <1>5, SoundReset
    <3>2. QED
      BY <1>1, <2>1, <3>1 DEF SoundNow, Stored, memory
  <2>5. RowsAfter(v, rows') = rows' /\ MoneyAfter(v, account'.realized) = Empty /\ LedgerAfter(v, ledger') = ledger
    BY <2>1, <2>3 DEF RowsAfter, MoneyAfter, LedgerAfter
  <2>6. RowsAfter(w, rows) = rows' /\ MoneyAfter(w, account.realized) = Empty /\ LedgerAfter(w, ledger) = ledger
    BY <2>1 DEF RowsAfter, MoneyAfter, LedgerAfter
  <2>7. After(w, Stored) = After(v, Stored')
    BY <2>5, <2>6 DEF After, Stored
  <2>8. QED
    BY <1>0, <1>1, <2>2, <2>4, <2>7, HalfLanded DEF Continues, w
<1>14. QED
  BY <1>1, <1>7, <1>8, <1>9, <1>10, <1>11, <1>12, <1>13 DEF Land

-----------------------------------------------------------------------------
(* The end of a process and the start of the next *)

(* What a dead process had in flight is lost from the end. *)
LEMMA DropForeseen ==
  ASSUME StoreInv, TypeOK', Reliable, NEW D, Foreseen(D), NEW i \in DOMAIN wire, Drop(i)
  PROVE  (\E E : Foreseen(E))'
<1> DEFINE N == Len(wire)
           E == [k \in 1..N |-> D[k]]
<1>0. TypeOK
  BY DEF StoreInv
<1>1. i = N /\ ~Up /\ wire # <<>> /\ wire' = RemoveAt(wire, N) /\ UNCHANGED <<memory, now, database, offRecord, unread>>
  BY EmptySeq DEF Drop, Reliable, Lands, history
<1>2. wire \in Seq(Write) /\ N \in Nat \ {0} /\ wire \in [1..N -> Write]
  BY <1>0, <1>1, EmptySeq, LenProperties DEF TypeOK
<1>3. Len(wire') = N - 1 /\ (N - 1) + 1 = N
  <2>1. /\ Len(SubSeq(wire, 1, N - 1)) = N - 1 /\ SubSeq(wire, 1, N - 1) \in Seq(Write)
        /\ SubSeq(wire, N + 1, N) = <<>>
    BY <1>2, SubSeqProperties
  <2>2. RemoveAt(wire, N) = SubSeq(wire, 1, N - 1)
    BY <2>1, ConcatEmptySeq DEF RemoveAt
  <2>3. QED
    BY <1>1, <1>2, <2>1, <2>2
<1>4. Stored' = Stored
  BY <1>1 DEF Stored, database
<1>5. Ahead(wire', Stored', E)
  BY <1>1, <1>2, <1>4, AheadFront DEF Foreseen
<1>6. PICK F : F = E
  OBVIOUS
<1>7. \A k \in 1..N : F[k] = D[k] /\ SoundNow(D[k])
  BY <1>2, <1>6 DEF Foreseen
<1>8. \A k \in 1..N : SoundNow(F[k])'
  BY <1>1, <1>7 DEF SoundNow, memory
<1>9. \A a : Agrees(a)'
  BY <1>1 DEF Agrees, Up, memory
<1>10. Foreseen(F)'
  <2>1. Ahead(wire', Stored', F)
    BY <1>5, <1>6
  <2> HIDE DEF N
  <2>2. QED
    BY <1>3, <1>8, <1>9, <2>1 DEF Foreseen
<1>11. QED
  BY <1>10

LEMMA CrashForeseen ==
  ASSUME StoreInv, TypeOK', NEW D, Foreseen(D), Crash
  PROVE  (\E E : Foreseen(E))'
<1>1. TypeOK /\ UNCHANGED <<wire, Stored, nextId, now, offRecord>> /\ ~Up'
  BY DEF StoreInv, Crash, Stored, database, history, Up
<1>2. \A a : Agrees(a)'
  BY <1>1 DEF Agrees
<1>3. nextId <= nextId /\ now <= now
  BY <1>1 DEF TypeOK
<1>4. QED
  BY <1>1, <1>2, <1>3, Unissued

(* A boot takes over what the rows and the account say; with nothing in flight
   they are the last database ahead. *)
LEMMA BootForeseen ==
  ASSUME StoreInv, TypeOK', NEW D, Foreseen(D), NEW who \in Drivers, BootTrades(who),
         booting.realized = account.realized
  PROVE  (\E E : Foreseen(E))'
<1> DEFINE d == D[Len(wire) + 1]
<1>0. TypeOK /\ Quiet
  BY DEF StoreInv
<1>1. /\ UNCHANGED <<wire, Stored, nextId, now, offRecord, events>>
      /\ wire = <<>> /\ ~Up /\ Up'
      /\ realized' = account.realized /\ unread' = Recorded \ settledAt'
      /\ book' = [s \in Symbols |-> IF OpenRows(s) = {} THEN None
                      ELSE [id |-> Min(OpenRows(s)), watermark |-> rows[Min(OpenRows(s))].at]]
  BY <1>0, StoreAssumption DEF Quiet, BootTrades, Stored, database, history, Up
<1>2. d = Stored
  <2>1. Len(wire) = 0
    BY <1>1
  <2>2. QED
    BY <2>1 DEF Foreseen, Ahead
<1>3. d.rows = rows /\ d.money = account.realized /\ d.ledger = ledger /\ SoundNow(d)
  BY <1>0, <1>2, LastAhead DEF Stored
<1>4. Sound(rows, account.realized, ledger, nextId, now, offRecord)
  BY <1>3 DEF SoundNow
<1>5. HeldAreOpen(Stored)'
  <2>1. ASSUME NEW id \in Ids, NEW s \in Symbols
        PROVE  IsOpen(rows', id, s) <=> book'[s] # None /\ book'[s].id = id
    <3>1. UNCHANGED rows /\ (IsOpen(rows, id, s) <=> id \in OpenRows(s))
      BY DEF BootTrades, database, IsOpen, OpenRows
    <3>2. CASE OpenRows(s) = {}
      BY <1>1, <3>1, <3>2
    <3>3. CASE OpenRows(s) # {}
      <4>1. Min(OpenRows(s)) \in OpenRows(s)
        BY <1>0, <3>3, OpenRowsAre
      <4>2. id \in OpenRows(s) => id = Min(OpenRows(s))
        BY <1>4, <4>1 DEF Sound, OneOpen, IsOpen, OpenRows
      <4>3. book'[s] = [id |-> Min(OpenRows(s)), watermark |-> rows[Min(OpenRows(s))].at]
        BY <1>1, <3>3
      <4>4. book'[s] # None
        <5>1. Min(OpenRows(s)) \in Ids /\ rows[Min(OpenRows(s))].at \in 0..MaxTime
          BY <1>0, <4>1 DEF OpenRows, TypeOK
        <5>2. book'[s] \in [id : Ids, watermark : 0..MaxTime]
          BY <4>3, <5>1
        <5>3. QED
          BY <5>2, StoreAssumption
      <4>5. QED
        BY <3>1, <4>1, <4>2, <4>3, <4>4
    <3>4. QED
      BY <3>2, <3>3
  <2>2. QED
    BY <2>1 DEF HeldAreOpen, Stored
<1>6. RecordedAreCharged(Stored)'
  <2>1. UNCHANGED ledger
    BY DEF BootTrades, database
  <2>2. \A key \in Key : ledger[key] # None => key \in settledAt' \/ key \in unread'
    BY <1>1 DEF Recorded
  <2>3. QED
    BY <2>1, <2>2 DEF RecordedAreCharged, Stored
<1>7. EventsStand(Stored)'
  BY <1>0, <1>1 DEF Quiet, EventsStand
<1>8. Sound(rows', realized', ledger', nextId', now', offRecord')
  <2>1. UNCHANGED <<rows, ledger>>
    BY DEF BootTrades, database
  <2>2. QED
    BY <1>1, <1>4, <2>1
<1>9. PICK a : a = d
  OBVIOUS
<1>10. Agrees(a)'
  <2>1. a = Stored'
    BY <1>1, <1>2, <1>9
  <2>2. Agrees(Stored)'
    BY <1>5, <1>6, <1>7, <1>8 DEF Agrees, Stored
  <2>3. QED
    BY <2>1, <2>2 DEF Agrees, HeldAreOpen, RecordedAreCharged, EventsStand, EventStands, Recharged, RunnerEvent
<1>11. nextId <= nextId /\ now <= now
  BY <1>0 DEF TypeOK
<1>12. QED
  BY <1>0, <1>1, <1>9, <1>10, <1>11, Unissued

-----------------------------------------------------------------------------
(* The invariant holds at the start and is kept by every step. *)

LEMMA OrderInit == Init => OrderInv
<1> SUFFICES ASSUME Init PROVE (\E D : Foreseen(D)) /\ booting = None
  BY DEF OrderInv
<1>1. TypeOK /\ wire = <<>> /\ booting = None /\ ~Up
  BY InitTypes DEF Init, Up
<1>2. Stored \in Database
  BY <1>1, StoredTyped
<1>3. Ahead(wire, Stored, [k \in {1} |-> Stored])
  BY <1>1, <1>2, NothingAhead
<1>4. SoundNow(Stored)
  <2>1. /\ \A id \in Ids : rows[id] = None
        /\ \A key \in Key : ledger[key] = None
        /\ \A e \in Entry : account.realized[e] = 0
    BY DEF Init, Empty
  <2>2. QED
    BY <2>1, EntryFields
       DEF SoundNow, Stored, Sound, OneOpen, IsOpen, Backed, Once, OnRecord, SameSymbol, Early
<1>5. PICK D : D = [k \in {1} |-> Stored]
  OBVIOUS
<1>6. Len(wire) + 1 = 1 /\ 1..1 = {1}
  BY <1>1
<1>7. Foreseen(D)
  BY <1>1, <1>3, <1>4, <1>5, <1>6 DEF Foreseen, Agrees
<1>8. QED
  BY <1>1, <1>7

(* An engine step, by the write it issues, if it issues one *)
LEMMA EngineForeseen ==
  ASSUME StoreInv, TypeOK', NEW D, Foreseen(D), Engine
  PROVE  (\E E : Foreseen(E))'
<1> DEFINE d == D[Len(wire) + 1]
<1>0. TypeOK /\ Fresh /\ nextId \in Int /\ now \in Int /\ nextId <= nextId + 1 /\ nextId <= nextId /\ now <= now
  BY DEF StoreInv, TypeOK
<1>1. d \in Database /\ SoundNow(d) /\ Agrees(d)
  BY <1>0, LastAhead
<1>2. PICK c : c = d
  OBVIOUS
<1>3. c \in Database /\ SoundNow(c) /\ Agrees(c)
  BY <1>1, <1>2
<1>4. ASSUME NEW w \in Write, Send(w), UNCHANGED <<database, now>>, offRecord \subseteq offRecord',
             nextId' = nextId \/ nextId' = nextId + 1,
             SoundNow(After(w, c))', Agrees(After(w, c))'
      PROVE  (\E E : Foreseen(E))'
  <2>1. PICK a : a = After(w, c)
    OBVIOUS
  <2>2. SoundNow(a)' /\ Agrees(a)'
    BY <1>4, <2>1
  <2>3. a = After(w, D[Len(wire) + 1])
    BY <1>2, <2>1
  <2>4. nextId <= nextId' /\ now <= now' /\ offRecord \subseteq offRecord'
    BY <1>0, <1>4
  <2>5. QED
    BY <1>0, <1>4, <2>2, <2>3, <2>4, Issued
<1>5. ASSUME UNCHANGED <<wire, database, now, nextId>>, offRecord \subseteq offRecord', Agrees(c)'
      PROVE  (\E E : Foreseen(E))'
  <2>1. UNCHANGED <<wire, Stored>>
    BY <1>5 DEF Stored, database
  <2>2. nextId <= nextId' /\ now <= now'
    BY <1>0, <1>5
  <2>3. QED
    BY <1>0, <1>2, <1>5, <2>1, <2>2, Unissued
<1>6. ASSUME NEW s \in Symbols, Open(s) PROVE (\E E : Foreseen(E))'
  <2> DEFINE v == [kind |-> "open", id |-> nextId, symbol |-> s, at |-> now]
  <2>1. nextId \in Ids /\ now \in 0..MaxTime
    BY <1>0, <1>6 DEF Open, TypeOK
  <2>2. v \in Write
    BY <2>1, Writes
  <2>3. PICK w \in Write : w = v
    BY <2>2
  <2>4. SoundNow(After(w, c))' /\ Agrees(After(w, c))'
    BY <1>3, <1>6, <2>3, OpenAgrees
  <2>5. Send(w) /\ UNCHANGED <<database, now, offRecord>> /\ nextId' = nextId + 1
    BY <1>6, <2>3 DEF Open, history
  <2>6. QED
    BY <1>4, <2>4, <2>5
<1>7. ASSUME NEW s \in Symbols, NEW breach \in BOOLEAN, Close(s, breach) PROVE (\E E : Foreseen(E))'
  <2> DEFINE v == [kind |-> "close", id |-> book[s].id, realized |-> realized', halted |-> halted]
  <2>1. book[s].id \in Ids /\ realized' \in Balance /\ halted \in BOOLEAN
    BY <1>0, <1>7 DEF Close, TypeOK
  <2>2. v \in Write
    BY <2>1, Writes
  <2>3. PICK w \in Write : w = v
    BY <2>2
  <2>4. SoundNow(After(w, c))' /\ Agrees(After(w, c))'
    BY <1>3, <1>7, <2>3, CloseAgrees
  <2>5. Send(w) /\ UNCHANGED <<database, now, offRecord, nextId>>
    BY <1>7, <2>3 DEF Close, history
  <2>6. QED
    BY <1>4, <2>4, <2>5
<1>8. ASSUME NEW s \in Symbols, NEW final \in BOOLEAN, Accrue(s, final) PROVE (\E E : Foreseen(E))'
  <2> DEFINE k == <<s, book[s].watermark + 1>>
             v == [kind |-> "funding", key |-> k, id |-> book[s].id, final |-> final]
  <2>1. book[s].id \in Ids /\ k \in Key
    BY <1>0, <1>8, StoreAssumption DEF Accrue, Owed, TypeOK, Times, Key
  <2>2. PICK key \in Key : key = k
    BY <2>1
  <2>3. key[1] = s /\ key[2] = book[s].watermark + 1 /\ v \in Write
    BY <2>1, <2>2, Writes
  <2>4. PICK w \in Write : w = v
    BY <2>3
  <2>5. w.kind = "funding" /\ w.key = key /\ w.id = book[s].id /\ w.final = final
    BY <2>2, <2>4
  <2>6. UNCHANGED <<database, now, nextId>>
    BY <1>8 DEF Accrue
  <2>7. CASE key \notin settledAt /\ driver = "runner"
    <3>1. SoundNow(After(w, c))' /\ Agrees(After(w, c))'
      BY <1>3, <1>8, <2>3, <2>5, <2>7, AccrueAgrees
    <3>2. Send(w) /\ offRecord \subseteq offRecord'
      BY <1>8, <2>2, <2>4, <2>7 DEF Accrue, FundingWrite
    <3>3. QED
      BY <1>4, <2>6, <3>1, <3>2
  <2>8. CASE ~(key \notin settledAt /\ driver = "runner")
    <3>1. Agrees(c)'
      BY <1>3, <1>8, <2>3, <2>5, <2>8, AccrueAgrees
    <3>2. UNCHANGED wire /\ offRecord \subseteq offRecord'
      BY <1>8, <2>2, <2>8 DEF Accrue, FundingWrite
    <3>3. QED
      BY <1>5, <2>6, <3>1, <3>2
  <2>9. QED
    BY <2>7, <2>8
<1>9. ASSUME NEW key \in Key, Reconcile(key) PROVE (\E E : Foreseen(E))'
  <2> DEFINE v == [kind |-> "funding", key |-> key, id |-> events[key].id, final |-> TRUE]
  <2>1. events[key].id \in Ids
    BY <1>0, <1>9 DEF Reconcile, TypeOK
  <2>2. v \in Write
    BY <2>1, Writes
  <2>3. PICK w \in Write : w = v
    BY <2>2
  <2>4. w.kind = "funding" /\ w.key = key /\ w.final = TRUE
    BY <2>3
  <2>5. UNCHANGED <<database, now, nextId>>
    BY <1>9 DEF Reconcile
  <2>6. CASE driver = "runner"
    <3>1. SoundNow(After(w, c))' /\ Agrees(After(w, c))'
      BY <1>3, <1>9, <2>4, <2>6, ReconcileAgrees
    <3>2. Send(w) /\ offRecord \subseteq offRecord'
      BY <1>9, <2>3, <2>6 DEF Reconcile, FundingWrite
    <3>3. QED
      BY <1>4, <2>5, <3>1, <3>2
  <2>7. CASE driver # "runner"
    <3>1. Agrees(c)'
      BY <1>3, <1>9, <2>4, <2>7, ReconcileAgrees
    <3>2. UNCHANGED wire /\ offRecord \subseteq offRecord'
      BY <1>9, <2>7 DEF Reconcile, FundingWrite
    <3>3. QED
      BY <1>5, <2>5, <3>1, <3>2
  <2>8. QED
    BY <2>6, <2>7
<1>10. CASE Reset
  <2>1. PICK w \in Write : w = [kind |-> "reset"]
    BY Writes
  <2>2. SoundNow(After(w, c))' /\ Agrees(After(w, c))'
    BY <1>3, <1>10, <2>1, ResetAgrees
  <2>3. Send(w) /\ UNCHANGED <<database, now, offRecord, nextId>>
    BY <1>10, <2>1 DEF Reset, history
  <2>4. QED
    BY <1>4, <2>2, <2>3
<1>11. QED
  BY <1>6, <1>7, <1>8, <1>9, <1>10 DEF Engine, Replay

LEMMA TickForeseen ==
  ASSUME StoreInv, TypeOK', NEW D, Foreseen(D),
         UNCHANGED <<driver, book, realized, settledAt, unread, events, nextId, wire, rows, account.realized, ledger, offRecord>>,
         now' = now \/ now' = now + 1
  PROVE  (\E E : Foreseen(E))'
<1>0. TypeOK /\ now \in Int /\ now' \in Int /\ nextId \in Int
  BY DEF StoreInv, TypeOK
<1>1. UNCHANGED <<wire, Stored>> /\ nextId <= nextId' /\ now <= now'
  BY <1>0 DEF Stored
<1>2. PICK c : c = D[Len(wire) + 1]
  OBVIOUS
<1>3. c \in Database /\ Agrees(c)
  BY <1>0, <1>2, LastAhead
<1>4. c.rows \in RowTable /\ c.ledger \in RecordTable /\ realized \in Balance
  BY <1>0, <1>3, Typed DEF TypeOK
<1>5. Agrees(c)'
  <2>1. ASSUME Up PROVE Sound(c.rows, realized, c.ledger, nextId, now', offRecord)
    <3>1. Sound(c.rows, realized, c.ledger, nextId, now, offRecord)
      BY <1>3, <2>1 DEF Agrees
    <3>2. QED
      BY <1>0, <1>1, <1>4, <3>1, SoundLater
  <2>2. QED
    BY <1>3, <2>1 DEF Agrees, Up, HeldAreOpen, RecordedAreCharged, EventsStand, EventStands, Recharged, RunnerEvent
<1>6. QED
  BY <1>0, <1>1, <1>2, <1>5, Unissued

LEMMA OrderStep == StoreInv /\ OrderInv /\ [Next]_vars => OrderInv'
<1> SUFFICES ASSUME StoreInv, OrderInv, [Next]_vars PROVE OrderInv'
  OBVIOUS
<1>0. TypeOK /\ Quiet /\ TypeOK' /\ Quiet'
  BY StoreStepInv DEF StoreInv
<1>1. UNCHANGED ordered
  BY DEF Next, vars
<1> SUFFICES ASSUME Reliable
             PROVE  /\ (\E E : Foreseen(E))'
                    /\ booting' # None => booting'.realized = account'.realized
  BY <1>1 DEF OrderInv, Reliable
<1>2. PICK D : Foreseen(D)
  BY DEF OrderInv
<1>3. booting # None => booting.realized = account.realized /\ wire = <<>> /\ ~Up
  BY <1>0 DEF OrderInv, Quiet
<1>4. CASE UNCHANGED vars
  <2>1. (\E E : Foreseen(E))'
    BY <1>0, <1>2, <1>4, TickForeseen DEF vars, memory, database, history
  <2>2. QED
    BY <1>3, <1>4, <2>1 DEF vars, memory, database
<1>5. CASE Engine
  <2>1. Up /\ booting' = booting
    BY <1>5, StoreAssumption DEF Engine, Open, Close, Accrue, Replay, Reconcile, Reset, Up
  <2>2. QED
    BY <1>0, <1>2, <1>3, <1>5, <2>1, EngineForeseen
<1>6. ASSUME NEW i \in DOMAIN wire, Land(i) \/ Drop(i)
      PROVE  (\E E : Foreseen(E))' /\ booting' = None
  <2>1. wire # <<>>
    BY EmptySeq
  <2>2. booting' = None
    BY <1>3, <1>6, <2>1 DEF Land, Drop, memory
  <2>3. QED
    BY <1>0, <1>2, <1>6, <2>2, LandForeseen, DropForeseen DEF Reliable
<1>7. CASE Crash
  BY <1>0, <1>2, <1>7, CrashForeseen DEF Crash
<1>8. CASE BootAccount
  <2>1. (\E E : Foreseen(E))'
    BY <1>0, <1>2, <1>8, TickForeseen DEF BootAccount, database, history
  <2>2. QED
    BY <1>8, <2>1 DEF BootAccount, database
<1>9. ASSUME NEW who \in Drivers, BootTrades(who)
      PROVE  (\E E : Foreseen(E))' /\ booting' = None
  <2>1. booting.realized = account.realized
    BY <1>3, <1>9 DEF BootTrades
  <2>2. booting' = None
    BY <1>9 DEF BootTrades
  <2>3. QED
    BY <1>0, <1>2, <1>9, <2>1, <2>2, BootForeseen
<1>10. CASE OperatorHalt \/ OperatorResume
  <2>1. account'.realized = account.realized
    BY <1>0, <1>10 DEF OperatorHalt, OperatorResume, TypeOK
  <2>2. UNCHANGED <<memory, now, wire, rows, ledger, offRecord, unread>>
    BY <1>10 DEF OperatorHalt, OperatorResume
  <2>3. (\E E : Foreseen(E))'
    BY <1>0, <1>2, <2>1, <2>2, TickForeseen DEF memory
  <2>4. QED
    BY <1>3, <2>1, <2>2, <2>3 DEF memory
<1>11. CASE Tick
  <2>1. (\E E : Foreseen(E))'
    BY <1>0, <1>2, <1>11, TickForeseen DEF Tick, memory, database, history
  <2>2. QED
    BY <1>3, <1>11, <2>1 DEF Tick, memory, database
<1>12. QED
  BY <1>4, <1>5, <1>6, <1>7, <1>8, <1>9, <1>10, <1>11 DEF Next, Step

-----------------------------------------------------------------------------
(* A settled rate the runner knows is confirmed in the table, or a write that
   will confirm it is in flight, in whatever order the writes land. *)

Assures(w, key) == \/ w.kind = "funding" /\ w.key = key /\ w.final
                   \/ w.kind = "confirm" /\ w.key = key /\ ledger[key] # None
Assured(key) == \/ ledger[key] # None /\ ledger[key].final
                \/ \E w \in Range(wire) : Assures(w, key)
Confirming == ~Lossy /\ driver = "runner" =>
    \A key \in Key : events[key] # None /\ events[key].final => Assured(key)

LEMMA StillThere ==
  ASSUME NEW S, NEW q \in Seq(S), NEW i \in DOMAIN q
  PROVE  /\ \A w \in Range(q) : w = q[i] \/ w \in Range(RemoveAt(q, i))
         /\ \A v \in S : /\ v \in Range(ReplaceAt(q, i, v))
                         /\ \A w \in Range(q) : w = q[i] \/ w \in Range(ReplaceAt(q, i, v))
<1> DEFINE N == Len(q)
<1>1. N \in Nat /\ i \in 1..N /\ q \in [1..N -> S] /\ Range(q) = {q[k] : k \in 1..N}
  BY LenProperties, RangeOf
<1>2. \A w \in Range(q) : w = q[i] \/ w \in Range(RemoveAt(q, i))
  <2> DEFINE front == SubSeq(q, 1, i - 1)
             back == SubSeq(q, i + 1, N)
             r == front \o back
  <2>1. front \in Seq(S) /\ Len(front) = i - 1 /\ \A k \in 1..(i - 1) : front[k] = q[k]
    BY <1>1, SubSeqProperties
  <2>2. back \in Seq(S) /\ Len(back) = N - i /\ \A k \in 1..(N - i) : back[k] = q[i + k]
    <3>1. \A k \in (i + 1)..N : q[k] \in S
      BY <1>1
    <3>2. QED
      BY <1>1, <3>1, SubSeqProperties
  <2> HIDE DEF front, back
  <2>3. /\ r \in Seq(S) /\ Len(r) = (i - 1) + (N - i)
        /\ \A k \in 1..Len(r) : r[k] = IF k <= i - 1 THEN front[k] ELSE back[k - (i - 1)]
    <3>1. /\ r \in Seq(S) /\ Len(r) = Len(front) + Len(back)
          /\ \A k \in 1..(Len(front) + Len(back)) :
                r[k] = IF k <= Len(front) THEN front[k] ELSE back[k - Len(front)]
      BY <2>1, <2>2, ConcatProperties
    <3> HIDE DEF r
    <3>2. QED
      BY <2>1, <2>2, <3>1
  <2>4. RemoveAt(q, i) = r
    BY DEF RemoveAt, front, back
  <2> HIDE DEF r, N
  <2>5. ASSUME NEW k \in 1..N, k # i PROVE \E j \in 1..Len(r) : r[j] = q[k]
    <3>1. CASE k < i
      <4>1. k \in 1..(i - 1) /\ k \in 1..Len(r)
        BY <1>1, <2>3, <3>1
      <4>2. QED
        BY <2>1, <2>3, <4>1
    <3>2. CASE k > i
      <4>1. k - 1 \in 1..Len(r) /\ ~(k - 1 <= i - 1) /\ (k - 1) - (i - 1) = k - i /\ k - i \in 1..(N - i) /\ i + (k - i) = k
        BY <1>1, <2>3, <3>2
      <4>2. QED
        BY <2>2, <2>3, <4>1
    <3>3. QED
      BY <1>1, <2>5, <3>1, <3>2
  <2>6. Range(r) = {r[j] : j \in 1..Len(r)}
    BY <2>3, RangeOf
  <2>7. QED
    BY <1>1, <2>4, <2>5, <2>6
<1>3. ASSUME NEW v \in S
      PROVE  /\ v \in Range(ReplaceAt(q, i, v))
             /\ \A w \in Range(q) : w = q[i] \/ w \in Range(ReplaceAt(q, i, v))
  <2> DEFINE r == [q EXCEPT ![i] = v]
  <2>1. r \in Seq(S) /\ Len(r) = N /\ \A j \in 1..N : r[j] = IF j = i THEN v ELSE q[j]
    BY <1>1, ExceptSeq
  <2>2. ReplaceAt(q, i, v) = r
    BY DEF ReplaceAt
  <2> HIDE DEF r, N
  <2>3. Range(r) = {r[j] : j \in 1..N}
    BY <2>1, RangeOf
  <2>4. QED
    BY <1>1, <2>1, <2>2, <2>3
<1>4. QED
  BY <1>2, <1>3

(* No write that lands takes a confirmation away. *)
LEMMA LandAssures ==
  ASSUME TypeOK, NEW i \in DOMAIN wire, Land(i), NEW key \in Key, Assured(key)
  PROVE  Assured(key)'
<1> DEFINE w == wire[i]
<1>1. w \in Write /\ wire \in Seq(Write) /\ ledger \in RecordTable
  BY InFlight DEF TypeOK, RecordTable, Record
<1>2. /\ Lands(i) => \A v \in Range(wire) : v = w \/ v \in Range(wire')
      /\ \A u \in Write : Continues(i, u) =>
            u \in Range(wire') /\ \A v \in Range(wire) : v = w \/ v \in Range(wire')
  BY <1>1, StillThere DEF Lands, Continues
<1> HIDE DEF w
<1>3. CASE LandFunding(i)
  <2>1. w.kind = "funding" /\ w.key \in Key /\ w.id \in Ids /\ w.final \in BOOLEAN
    BY <1>1, <1>3, WriteFields DEF LandFunding, w
  <2>2. CASE ledger[w.key] = None
    <3>1. ledger' = [ledger EXCEPT ![w.key] = [id |-> w.id, final |-> w.final]] /\ Lands(i)
      BY <1>3, <2>2 DEF LandFunding, w
    <3>2. [id |-> w.id, final |-> w.final] # None
      <4>1. [id |-> w.id, final |-> w.final] \in [id : Ids, final : BOOLEAN]
        BY <2>1
      <4>2. QED
        BY <4>1, StoreAssumption
    <3>3. \A k \in Key : ledger'[k] = IF k = w.key THEN [id |-> w.id, final |-> w.final] ELSE ledger[k]
      BY <1>1, <3>1 DEF RecordTable
    <3>4. CASE key = w.key
      <4>1. PICK v \in Range(wire) : Assures(v, key)
        BY <2>2, <3>4 DEF Assured
      <4>2. v.kind = "funding" /\ v.key = key /\ v.final
        BY <2>2, <3>4, <4>1 DEF Assures
      <4>3. CASE v = w
        BY <3>2, <3>3, <3>4, <4>2, <4>3 DEF Assured
      <4>4. CASE v # w
        BY <1>2, <3>1, <4>2, <4>4 DEF Assured, Assures
      <4>5. QED
        BY <4>3, <4>4
    <3>5. CASE key # w.key
      <4>1. ledger'[key] = ledger[key]
        BY <3>3, <3>5
      <4>2. QED
        BY <1>2, <2>1, <3>1, <3>5, <4>1 DEF Assured, Assures
    <3>6. QED
      BY <3>4, <3>5
  <2>3. CASE ledger[w.key] # None
    <3>1. ledger' = ledger
      <4>1. ledger' = [ledger EXCEPT ![w.key] = ledger[w.key]]
        BY <1>3, <2>3 DEF LandFunding, OnConflict, w
      <4>2. QED
        BY <1>1, <2>1, <4>1 DEF RecordTable
    <3>2. CASE ~w.final
      <4>1. Lands(i)
        BY <1>3, <2>3, <3>2 DEF LandFunding, Confirms, w
      <4>2. ~Assures(w, key)
        BY <2>1, <3>2 DEF Assures
      <4>3. QED
        BY <1>2, <3>1, <4>1, <4>2 DEF Assured, Assures
    <3>3. CASE w.final
      <4>1. PICK u \in Write : u.kind = "confirm" /\ u.key = w.key /\ Continues(i, u)
        BY <1>3, <2>1, <2>3, <3>3, Writes DEF LandFunding, Confirms, w
      <4>2. u \in Range(wire') /\ \A v \in Range(wire) : v = w \/ v \in Range(wire')
        BY <1>2, <4>1
      <4>3. CASE key = w.key
        BY <2>3, <3>1, <4>1, <4>2, <4>3 DEF Assured, Assures
      <4>4. CASE key # w.key
        BY <2>1, <3>1, <4>2, <4>4 DEF Assured, Assures
      <4>5. QED
        BY <4>3, <4>4
    <3>4. QED
      BY <2>1, <3>2, <3>3
  <2>4. QED
    BY <2>2, <2>3
<1>4. CASE LandConfirm(i)
  <2>1. w.kind = "confirm" /\ w.key \in Key /\ Lands(i)
    BY <1>1, <1>4, WriteFields DEF LandConfirm, w
  <2>2. CASE ledger[w.key] = None
    <3>1. ledger' = [ledger EXCEPT ![w.key] = ledger[w.key]]
      BY <1>4, <2>2 DEF LandConfirm, w
    <3>2. ledger' = ledger
      BY <1>1, <2>1, <3>1 DEF RecordTable
    <3>3. QED
      BY <1>2, <2>1, <2>2, <3>2 DEF Assured, Assures
  <2>3. CASE ledger[w.key] # None
    <3> DEFINE g == [ledger[w.key] EXCEPT !.final = TRUE]
    <3>1. ledger' = [ledger EXCEPT ![w.key] = g]
      BY <1>4, <2>3 DEF LandConfirm, w
    <3>2. g \in Record /\ g.final = TRUE
      BY <1>1, <2>1, <2>3 DEF RecordTable, Record
    <3>3. g # None
      BY <3>2, StoreAssumption DEF Record
    <3> HIDE DEF g
    <3>4. \A k \in Key : ledger'[k] = IF k = w.key THEN g ELSE ledger[k]
      BY <1>1, <3>1 DEF RecordTable
    <3>5. CASE key = w.key
      BY <3>2, <3>3, <3>4, <3>5 DEF Assured
    <3>6. CASE key # w.key
      <4>1. ledger'[key] = ledger[key]
        BY <3>4, <3>6
      <4>2. QED
        BY <1>2, <2>1, <3>6, <4>1 DEF Assured, Assures
    <3>7. QED
      BY <3>5, <3>6
  <2>4. QED
    BY <2>2, <2>3
<1>5. CASE w.kind \notin {"funding", "confirm"} /\ UNCHANGED ledger /\
           (Lands(i) \/ \E u \in Write : Continues(i, u))
  <2>1. \A v \in Range(wire) : v = w \/ v \in Range(wire')
    BY <1>2, <1>5
  <2>2. ~Assures(w, key)
    BY <1>5 DEF Assures
  <2>3. QED
    BY <1>5, <2>1, <2>2 DEF Assured, Assures
<1>6. CASE LandOpen(i) \/ LandAccount(i) \/ LandZero(i)
  BY <1>5, <1>6 DEF LandOpen, LandAccount, LandZero, w
<1>7. CASE LandClose(i)
  <2>1. [kind |-> "account", realized |-> w.realized, halted |-> w.halted] \in Write
    BY <1>1, <1>7, WriteFields, Writes DEF LandClose, w
  <2>2. w.kind = "close" /\ UNCHANGED ledger /\ \E u \in Write : Continues(i, u)
    BY <1>7, <2>1 DEF LandClose, w
  <2>3. QED
    BY <1>5, <2>2
<1>8. CASE LandReset(i)
  <2>1. w.kind = "reset" /\ UNCHANGED ledger /\ \E u \in Write : Continues(i, u)
    BY <1>8, Writes DEF LandReset, w
  <2>2. QED
    BY <1>5, <2>1
<1>9. QED
  BY <1>3, <1>4, <1>6, <1>7, <1>8 DEF Land

LEMMA ConfirmingStep == StoreInv /\ Confirming /\ [Next]_vars => Confirming'
<1> SUFFICES ASSUME StoreInv, Confirming, [Next]_vars PROVE Confirming'
  OBVIOUS
<1>0. TypeOK /\ Quiet /\ wire \in Seq(Write)
  BY DEF StoreInv, TypeOK
<1>1. ASSUME UNCHANGED <<driver, events, ledger>>, Range(wire) \subseteq Range(wire') PROVE Confirming'
  BY <1>1 DEF Confirming, Assured, Assures
<1>2. CASE UNCHANGED vars
  BY <1>1, <1>2 DEF vars, memory, database
<1>3. ASSUME NEW s \in Symbols, Open(s) PROVE Confirming'
  <2> DEFINE v == [kind |-> "open", id |-> nextId, symbol |-> s, at |-> now]
  <2>1. v \in Write
    BY <1>0, <1>3, Writes DEF Open, TypeOK
  <2>2. Range(wire) \subseteq Range(wire')
    BY <1>0, <1>3, <2>1, SendWire DEF Open
  <2>3. QED
    BY <1>1, <1>3, <2>2 DEF Open, database
<1>4. ASSUME NEW s \in Symbols, NEW breach \in BOOLEAN, Close(s, breach) PROVE Confirming'
  <2> DEFINE v == [kind |-> "close", id |-> book[s].id, realized |-> realized', halted |-> halted]
  <2>1. book[s].id \in Ids /\ halted \in BOOLEAN /\ realized' \in Balance
    <3>1. book[s].id \in Ids /\ halted \in BOOLEAN /\ realized \in Balance
      BY <1>0, <1>4 DEF Close, TypeOK
    <3>2. QED
      BY <1>4, <3>1, PlusAt, EntryFields DEF Close
  <2>2. v \in Write
    BY <2>1, Writes
  <2>3. Range(wire) \subseteq Range(wire')
    BY <1>0, <1>4, <2>2, SendWire DEF Close
  <2>4. QED
    BY <1>1, <1>4, <2>3 DEF Close, database
<1>5. ASSUME NEW key \in Key, NEW id \in Ids, NEW final \in BOOLEAN, FundingWrite(key, id, final),
             UNCHANGED <<driver, ledger>>,
             \A k \in Key : k # key => events'[k] = events[k],
             events'[key].final => final
      PROVE  Confirming'
  <2> SUFFICES ASSUME ~Lossy, driver = "runner", NEW k \in Key, events'[k] # None, events'[k].final
               PROVE  Assured(k)'
    BY <1>5 DEF Confirming
  <2> DEFINE v == [kind |-> "funding", key |-> key, id |-> id, final |-> final]
  <2>1. v \in Write /\ Send(v)
    BY <1>5, Writes DEF FundingWrite
  <2>2. Range(wire') = Range(wire) \cup {v}
    BY <1>0, <2>1, SendWire
  <2>3. CASE k = key
    <3>1. v \in Range(wire') /\ v.kind = "funding" /\ v.key = key /\ v.final = final
      BY <2>2
    <3> HIDE DEF v
    <3>2. QED
      BY <1>5, <2>3, <3>1 DEF Assured, Assures
  <2>4. CASE k # key
    BY <1>5, <2>2, <2>4 DEF Confirming, Assured, Assures
  <2>5. QED
    BY <2>3, <2>4
<1>6. ASSUME NEW s \in Symbols, NEW final \in BOOLEAN, Accrue(s, final) PROVE Confirming'
  <2> DEFINE k == <<s, book[s].watermark + 1>>
  <2>1. book[s].id \in Ids /\ k \in Key
    BY <1>0, <1>6, StoreAssumption DEF Accrue, Owed, TypeOK, Times, Key
  <2>2. CASE k \in settledAt
    BY <1>1, <1>6, <2>2 DEF Accrue, database
  <2>3. CASE k \notin settledAt
    <3>1. events' = [events EXCEPT ![k] = [id |-> book[s].id, final |-> final]] /\ FundingWrite(k, book[s].id, final)
          /\ UNCHANGED <<driver, ledger>>
      BY <1>6, <2>3 DEF Accrue, database
    <3>2. \A j \in Key : events'[j] = IF j = k THEN [id |-> book[s].id, final |-> final] ELSE events[j]
      BY <1>0, <3>1 DEF TypeOK
    <3> HIDE DEF k
    <3>3. events'[k].final = final
      BY <2>1, <3>2
    <3>4. QED
      BY <1>5, <2>1, <3>1, <3>2, <3>3
  <2>4. QED
    BY <2>2, <2>3
<1>7. ASSUME NEW key \in Key, Reconcile(key) PROVE Confirming'
  <2>1. events[key].id \in Ids /\ FundingWrite(key, events[key].id, TRUE) /\ UNCHANGED <<driver, ledger>>
    BY <1>0, <1>7 DEF Reconcile, TypeOK, database
  <2>2. \A k \in Key : k # key => events'[k] = events[k]
    BY <1>0, <1>7 DEF Reconcile, TypeOK
  <2>3. QED
    BY <1>5, <2>1, <2>2
<1>8. CASE Reset
  BY <1>8 DEF Reset, Confirming
<1>9. CASE Crash
  <2>1. driver' # "runner"
    BY <1>9, StoreAssumption DEF Crash
  <2>2. QED
    BY <2>1 DEF Confirming
<1>10. ASSUME NEW who \in Drivers, BootTrades(who) PROVE Confirming'
  <2>1. \A key \in Key : events'[key] = None
    BY <1>0, <1>10 DEF Quiet, BootTrades
  <2>2. QED
    BY <2>1 DEF Confirming
<1>11. ASSUME NEW i \in DOMAIN wire, Land(i) PROVE Confirming'
  <2>1. UNCHANGED <<driver, events>>
    BY <1>11 DEF Land, memory
  <2>2. \A key \in Key : Assured(key) => Assured(key)'
    BY <1>0, <1>11, LandAssures
  <2>3. QED
    BY <2>1, <2>2 DEF Confirming
<1>12. ASSUME NEW i \in DOMAIN wire, Drop(i) PROVE Confirming'
  <2>1. Lossy \/ driver' # "runner"
    BY <1>12, StoreAssumption DEF Drop, Up, memory
  <2>2. QED
    BY <2>1 DEF Confirming
<1>13. CASE BootAccount \/ OperatorHalt \/ OperatorResume \/ Tick
  BY <1>1, <1>13 DEF BootAccount, OperatorHalt, OperatorResume, Tick, memory, database
<1>14. QED
  BY <1>2, <1>3, <1>4, <1>6, <1>7, <1>8, <1>9, <1>10, <1>11, <1>12, <1>13 DEF Next, Step, Engine, Replay

-----------------------------------------------------------------------------
(* The theorem *)

RowsInv == StoreInv /\ OrderInv /\ Confirming

THEOREM RowsInvariant == Spec => []RowsInv
<1>1. Init => RowsInv
  <2>1. Init => Confirming
    BY DEF Init, Confirming
  <2>2. QED
    BY <2>1, StoreInitInv, OrderInit DEF RowsInv
<1>2. RowsInv /\ [Next]_vars => RowsInv'
  BY StoreStepInv, OrderStep, ConfirmingStep DEF RowsInv
<1>3. QED
  BY <1>1, <1>2, PTL DEF Spec

LEMMA RowsInvAgrees == RowsInv => RowsAgree
<1> SUFFICES ASSUME RowsInv PROVE RowsAgree
  OBVIOUS
<1>0. TypeOK /\ OrderInv /\ Confirming
  BY DEF RowsInv, StoreInv
<1>1. ASSUME Reliable
      PROVE  Sound(rows, account.realized, ledger, nextId, now, offRecord)
  <2>1. PICK D : Foreseen(D)
    BY <1>0, <1>1 DEF OrderInv
  <2>2. 1 \in 1..(Len(wire) + 1)
    BY <1>0, LenProperties DEF TypeOK
  <2>3. D[1] = Stored /\ SoundNow(D[1])
    BY <2>1, <2>2 DEF Foreseen, Ahead
  <2>4. QED
    BY <2>3 DEF SoundNow, Stored
<1>2. BookMatchesRows
  <2> SUFFICES ASSUME Up, wire = <<>>, Reliable
               PROVE  {id \in Ids : rows[id] # None /\ rows[id].open}
                        = {book[s].id : s \in {t \in Symbols : book[t] # None}}
    BY DEF BookMatchesRows, Drained
  <2>1. PICK D : Foreseen(D)
    BY <1>0 DEF OrderInv
  <2>2. Len(wire) + 1 = 1
    OBVIOUS
  <2>3. D[1] = Stored /\ HeldAreOpen(D[1])
    BY <2>1, <2>2 DEF Foreseen, Ahead, Agrees
  <2>4. \A id \in Ids, s \in Symbols : IsOpen(rows, id, s) <=> book[s] # None /\ book[s].id = id
    BY <2>3 DEF HeldAreOpen, Stored
  <2>5. \A id \in Ids : rows[id] # None => rows[id].symbol \in Symbols
    BY <1>0 DEF TypeOK
  <2>6. \A s \in Symbols : book[s] # None => book[s].id \in Ids
    BY <1>0 DEF TypeOK
  <2>7. QED
    BY <2>4, <2>5, <2>6 DEF IsOpen
<1>3. AccountBackedByRows /\ CountedOnce
  BY <1>1 DEF AccountBackedByRows, CountedOnce, Sound, Backed, Once, IsClosed, Settled
<1>4. ConfirmationsLand
  <2>1. wire = <<>> => Range(wire) = {}
    BY EmptyRange
  <2>2. QED
    BY <1>0, <2>1 DEF ConfirmationsLand, Drained, Confirming, Assured
<1>5. QED
  BY <1>2, <1>3, <1>4 DEF RowsAgree

(* With the writes in order and none lost, and once they have landed, the open
   rows are the positions held; no close is counted without its row, nothing is
   counted twice, and a settled rate ends confirmed. *)
THEOREM RowsHold == Spec => []RowsAgree
  BY RowsInvariant, RowsInvAgrees, PTL
=============================================================================
