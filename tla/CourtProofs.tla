---------------------------- MODULE CourtProofs ----------------------------
(***************************************************************************)
(* The court keeps its promise for any sessions, builds, trades and        *)
(* rulebooks.  The invariant behind it says what each session, wherever it *)
(* stands, has in hand: the trades its verdict rests on were closed after  *)
(* every retirement it knew of, and those it would retire a hypothesis on  *)
(* after a conviction that is on record.  Closes only add to both, and     *)
(* rows written meanwhile are later than anything the session has read.    *)
(*                                                                         *)
(* Of the candle replay (the second part) the invariant says what a mirror *)
(* owes the closed candles: it may rest on a candle that was still moving, *)
(* but what it saw there can only widen.                                   *)
(*                                                                         *)
(* Of the shadow book (the third part) the invariant relates three places: *)
(* the trades in memory, the rows, and the writes on their way.  What the  *)
(* rows will say once every write has landed is what the book says, and    *)
(* after a crash it is what the book said.                                 *)
(***************************************************************************)
EXTENDS Court, Replay, ShadowBook, SumTheorems, FiniteSetTheorems, SequenceTheorems, TLAPS

Rows == [verdict : Words, at : Instants, digest : Rulebooks,
         by : {"runner", "script"}, knows : 0..MaxVerdicts]
Desk == [step : {"idle", "begun", "judged", "recorded"},
         state : States, fresh : Words \ {"RETIRED"}, fades : BOOLEAN, knows : 0..MaxVerdicts]

ClosedAt == {t.at : t \in trades}
After(closes, x) == {at \in closes : x < at}
Between(closes, x, y) == {at \in closes : x < at /\ at < y}

(* The retirements up to a row, and whether a session has read them *)
HeldBy(q, i) == Cardinality(Retirements(SubSeq(q, 1, i)))
Known(desk, q, i) == q[i].verdict = "RETIRED" /\ HeldBy(q, i) <= desk.knows

EnoughSince(desk, q, closes) ==
    \A i \in DOMAIN q : Known(desk, q, i) => Cardinality(After(closes, q[i].at)) >= MinTrades

LiveSince(q, closes) ==
    \E j \in DOMAIN q :
        /\ q[j].verdict = "CONVICTED"
        /\ Cardinality(Between(closes, 0, q[j].at)) >= MinTested
        /\ Cardinality(After(closes, q[j].at)) >= MinLive

(* What a session has in hand *)
Evident(desk, runner, q, closes) ==
    /\ desk.knows <= Cardinality(Retirements(q))
    /\ desk.step = "begun" /\ runner =>
          \A i \in DOMAIN q : Known(desk, q, i) =>
              desk.state.retired # Never /\ q[i].at <= desk.state.retired
    /\ desk.step = "begun" /\ desk.state.since # Never =>
          \E j \in DOMAIN q : q[j].verdict = "CONVICTED" /\ q[j].at = desk.state.since
    /\ desk.step = "judged" /\ desk.fresh = "CONVICTED" /\ runner => EnoughSince(desk, q, closes)
    /\ desk.step \in {"judged", "recorded"} /\ desk.fades => LiveSince(q, closes)
    /\ desk.step = "recorded" => desk.fades

Evidence(s) == Evident(session[s], s \notin Scripts, verdicts, ClosedAt)

(* Instants *)
Chronicle ==
    /\ cast \in Casts
    /\ IsFiniteSet(trades)
    /\ now = 1 + Cardinality(trades) + Len(verdicts)
    /\ \A t \in trades : 0 < t.at /\ t.at < now
    /\ \A t, u \in trades : t.at = u.at => t = u
    /\ \A i \in DOMAIN verdicts :
          /\ verdicts[i].at < now /\ verdicts[i].at \notin ClosedAt
          /\ verdicts[i].knows <= Cardinality(Retirements(verdicts))

CourtInv ==
    /\ CourtTypeOK /\ OneRulebook /\ FreshEvidence /\ RetiredOnLiveTrades
    /\ Chronicle
    /\ \A s \in Sitting : Evidence(s)

-----------------------------------------------------------------------------
(* Extremes, and the instants of a history *)

LEMMA LatestOf ==
  ASSUME NEW T, NEW b \in Nat, T \subseteq 0..b, T # {}
  PROVE  Latest(T) \in T /\ \A x \in T : x <= Latest(T)
<1> DEFINE D == {b - x : x \in T}
<1>1. D \subseteq Nat /\ D # {}
  <2>1. \A x \in T : x \in Int /\ x <= b /\ b - x \in Nat
    OBVIOUS
  <2> QED
    BY <2>1
<1>2. PICK d \in D : \A e \in D : d <= e
  BY <1>1, LeastNatural
<1>3. PICK x \in T : d = b - x
  OBVIOUS
<1>4. \A y \in T : x >= y
  <2>1. \A y \in T : b - y \in D
    OBVIOUS
  <2>2. \A y \in T : b - x <= b - y
    BY <1>2, <1>3, <2>1
  <2> QED
    BY <2>2
<1>5. \A y \in T : Max(T) >= y /\ Max(T) \in T
  <2> DEFINE m == CHOOSE m \in T : \A y \in T : m >= y
  <2>1. m \in T /\ \A y \in T : m >= y
    BY <1>4
  <2> QED
    BY <2>1 DEF Max
<1> QED
  BY <1>5 DEF Latest

LEMMA Earliest ==
  ASSUME NEW T, T \subseteq Nat, T # {}
  PROVE  Min(T) \in T
<1>1. \E n \in T : \A m \in T : n <= m
  BY LeastNatural
<1> QED
  BY <1>1 DEF Min

LEMMA InstantsAreNaturals ==
  ASSUME CourtAssumption, cast \in Casts
  PROVE  \E b \in Nat : Instants = 0..b
BY DEF CourtAssumption, Instants

LEMMA IndicesBelow ==
  ASSUME NEW n, n \in Nat, NEW J, J \subseteq 1..n
  PROVE  IsFiniteSet(J) /\ Cardinality(J) <= n
<1>1. 1 \in Int /\ n \in Int
  OBVIOUS
<1>2. IsFiniteSet(1..n) /\ Cardinality(1..n) = n
  BY <1>1, FS_Interval
<1> QED
  BY <1>2, FS_Subset

LEMMA RetirementsOf ==
  ASSUME CourtAssumption, cast \in Casts, NEW q \in Seq(Rows)
  PROVE  /\ Retirements(q) \subseteq Instants
         /\ IsFiniteSet(Retirements(q)) /\ Cardinality(Retirements(q)) \in 0..Len(q)
         /\ \A i \in DOMAIN q : q[i].verdict = "RETIRED" => q[i].at \in Retirements(q)
<1> DEFINE I == {j \in DOMAIN q : q[j].verdict = "RETIRED"}
           At(i) == q[i].at
<1>0. DOMAIN q = 1..Len(q) /\ Len(q) \in Nat
  OBVIOUS
<1>1. Retirements(q) = {At(i) : i \in I}
  BY DEF Retirements
<1>2. IsFiniteSet(I) /\ Cardinality(I) <= Len(q)
  BY <1>0, IndicesBelow
<1>3. IsFiniteSet({At(i) : i \in I}) /\ Cardinality({At(i) : i \in I}) <= Cardinality(I)
  <2> DEFINE f == [i \in I |-> At(i)]
  <2> HIDE DEF I
  <2>1. f \in Surjection(I, {At(i) : i \in I})
    BY DEF Surjection
  <2> QED
    BY <1>2, <2>1, FS_Surjection
<1>4. Cardinality({At(i) : i \in I}) \in Nat /\ Cardinality(I) \in Nat
  <2> HIDE DEF I, At
  <2> QED
    BY <1>2, <1>3, FS_CardinalityType
<1>5. \A i \in I : At(i) \in Instants
  <2>1. \A i \in DOMAIN q : q[i] \in Rows
    OBVIOUS
  <2> QED
    BY <2>1 DEF Rows
<1>6. Cardinality(Retirements(q)) \in 0..Len(q)
  BY <1>1, <1>2, <1>3, <1>4
<1> QED
  BY <1>1, <1>3, <1>5, <1>6

(* A row later than the history adds to the retirements only if it is one. *)
LEMMA RetirementsGrow ==
  ASSUME CourtAssumption, cast \in Casts, NEW q \in Seq(Rows), NEW r \in Rows
  PROVE  Retirements(Append(q, r)) =
            IF r.verdict = "RETIRED" THEN Retirements(q) \cup {r.at} ELSE Retirements(q)
<1> DEFINE p == Append(q, r)
<1>1. /\ DOMAIN p = 1..(Len(q) + 1) /\ p[Len(q) + 1] = r
      /\ DOMAIN q = 1..Len(q) /\ \A i \in DOMAIN q : p[i] = q[i]
  OBVIOUS
<1>2. DOMAIN p = DOMAIN q \cup {Len(q) + 1}
  BY <1>1
<1> HIDE DEF p
<1>3. Retirements(p) = {q[i].at : i \in {j \in DOMAIN q : q[j].verdict = "RETIRED"}}
                       \cup (IF r.verdict = "RETIRED" THEN {r.at} ELSE {})
  <2>1. ASSUME NEW x \in Retirements(p)
        PROVE  \/ x \in {q[i].at : i \in {j \in DOMAIN q : q[j].verdict = "RETIRED"}}
               \/ r.verdict = "RETIRED" /\ x = r.at
    BY <1>1, <1>2 DEF Retirements
  <2>2. ASSUME NEW i \in DOMAIN q, q[i].verdict = "RETIRED" PROVE q[i].at \in Retirements(p)
    BY <1>1, <1>2, <2>2 DEF Retirements
  <2>3. r.verdict = "RETIRED" => r.at \in Retirements(p)
    BY <1>1, <1>2 DEF Retirements
  <2> QED
    BY <2>1, <2>2, <2>3
<1> QED
  BY <1>3 DEF Retirements, p

(* A retirement counts among those held up to its row. *)
LEMMA HeldIsCounted ==
  ASSUME CourtAssumption, cast \in Casts, NEW q \in Seq(Rows), NEW i \in DOMAIN q, q[i].verdict = "RETIRED"
  PROVE  HeldBy(q, i) \in Nat \ {0}
<1> DEFINE p == SubSeq(q, 1, i)
<1>1. p \in Seq(Rows) /\ i \in DOMAIN p /\ p[i] = q[i]
  OBVIOUS
<1> HIDE DEF p
<1>2. Retirements(p) # {} /\ IsFiniteSet(Retirements(p)) /\ Cardinality(Retirements(p)) \in 0..Len(p)
  BY <1>1, RetirementsOf
<1>3. Cardinality(Retirements(p)) # 0 /\ Cardinality(Retirements(p)) \in Nat
  BY <1>2, FS_EmptySet, FS_CardinalityType
<1> QED
  BY <1>3 DEF HeldBy, p

LEMMA AppendPrefixes ==
  ASSUME NEW S, NEW q \in Seq(S), NEW r \in S
  PROVE  /\ \A i \in 1..Len(q) : SubSeq(Append(q, r), 1, i) = SubSeq(q, 1, i)
         /\ SubSeq(Append(q, r), 1, Len(q) + 1) = Append(q, r)
         /\ SubSeq(q, 1, Len(q)) = q
         /\ \A i \in 1..Len(q) : SubSeq(q, 1, i) \in Seq(S)
<1>1. ASSUME NEW i \in 1..Len(q) PROVE SubSeq(Append(q, r), 1, i) = SubSeq(q, 1, i)
  OBVIOUS
<1>2. SubSeq(Append(q, r), 1, Len(q) + 1) = Append(q, r)
  OBVIOUS
<1>3. SubSeq(q, 1, Len(q)) = q
  OBVIOUS
<1>4. ASSUME NEW i \in 1..Len(q) PROVE SubSeq(q, 1, i) \in Seq(S)
  OBVIOUS
<1> QED
  BY <1>1, <1>2, <1>3, <1>4

(* What a session of the runner reads from the history (parole.ts, courtState) *)
LEMMA StateRead ==
  ASSUME CourtAssumption, cast \in Casts, NEW q \in Seq(Rows)
  PROVE  LET state == CourtState(q) IN
         /\ state \in States
         /\ \A i \in DOMAIN q : q[i].verdict = "RETIRED" =>
                state.retired # Never /\ q[i].at <= state.retired
         /\ state.since # Never =>
                \E j \in DOMAIN q : q[j].verdict = "CONVICTED" /\ q[j].at = state.since
<1> DEFINE since == IF Run(q) = {} THEN Never ELSE q[Min(Run(q))].at
           retired == IF Retirements(q) = {} THEN Never ELSE Latest(Retirements(q))
<1>1. CourtState(q) = [since |-> since, retired |-> retired]
  BY DEF CourtState
<1>2. PICK b \in Nat : Instants = 0..b
  BY InstantsAreNaturals
<1>3. Never \notin Int
  BY DEF CourtAssumption
<1>4. Run(q) # {} => Min(Run(q)) \in DOMAIN q /\ q[Min(Run(q))].verdict = "CONVICTED"
  <2>1. Run(q) \subseteq DOMAIN q /\ \A i \in Run(q) : q[i].verdict = "CONVICTED"
    <3>1. \A i \in DOMAIN q : i \in i..Len(q)
      OBVIOUS
    <3> QED
      BY <3>1 DEF Run
  <2>2. Run(q) \subseteq Nat
    BY <2>1
  <2> QED
    BY <2>1, <2>2, Earliest
<1>5. Retirements(q) # {} => /\ Latest(Retirements(q)) \in Instants
                            /\ \A x \in Retirements(q) : x <= Latest(Retirements(q))
  BY <1>2, RetirementsOf, LatestOf
<1>6. since \in Instants \cup {Never}
  <2>1. \A i \in DOMAIN q : q[i].at \in Instants
    <3>1. \A i \in DOMAIN q : q[i] \in Rows
      OBVIOUS
    <3> QED
      BY <3>1 DEF Rows
  <2> QED
    BY <1>4, <2>1
<1>7. retired \in Instants \cup {Never}
  BY <1>5
<1>8. CourtState(q) \in States
  BY <1>1, <1>6, <1>7 DEF States
<1>9. \A i \in DOMAIN q : q[i].verdict = "RETIRED" => retired # Never /\ q[i].at <= retired
  BY <1>2, <1>3, <1>5, RetirementsOf
<1>10. since # Never => \E j \in DOMAIN q : q[j].verdict = "CONVICTED" /\ q[j].at = since
  BY <1>4
<1> HIDE DEF since, retired
<1> QED
  BY <1>1, <1>8, <1>9, <1>10

-----------------------------------------------------------------------------
(* Trades and their instants *)

LEMMA InstantsCount ==
  ASSUME NEW T, IsFiniteSet(T), \A t, u \in T : t.at = u.at => t = u
  PROVE  /\ IsFiniteSet({t.at : t \in T}) /\ Cardinality({t.at : t \in T}) = Cardinality(T)
<1> DEFINE f == [t \in T |-> t.at]
<1>1. f \in Bijection(T, {t.at : t \in T})
  BY DEF Bijection, Injection, Surjection, IsInjective
<1>2. ExistsBijection(T, {t.at : t \in T})
  BY <1>1 DEF ExistsBijection
<1> QED
  BY <1>2, FS_Bijection

(* Enough trades after x are enough instants after x, and between. *)
LEMMA EnoughAfter ==
  ASSUME Chronicle, NEW T \in SUBSET trades, NEW n \in Nat, Cardinality(T) >= n,
         NEW P, P \subseteq ClosedAt, \A t \in T : t.at \in P
  PROVE  Cardinality(P) >= n
<1>1. IsFiniteSet(T) /\ \A t, u \in T : t.at = u.at => t = u
  BY FS_Subset DEF Chronicle
<1>2. IsFiniteSet({t.at : t \in T}) /\ Cardinality({t.at : t \in T}) = Cardinality(T)
  BY <1>1, InstantsCount
<1>3. IsFiniteSet(ClosedAt)
  BY InstantsCount DEF Chronicle, ClosedAt
<1>4. IsFiniteSet(P)
  BY <1>3, FS_Subset
<1>5. {t.at : t \in T} \in SUBSET P
  OBVIOUS
<1>6. Cardinality({t.at : t \in T}) <= Cardinality(P)
  BY <1>4, <1>5, FS_Subset
<1>7. Cardinality(P) \in Nat /\ Cardinality(T) \in Nat
  BY <1>1, <1>4, FS_CardinalityType
<1> QED
  BY <1>2, <1>6, <1>7

LEMMA MoreInstants ==
  ASSUME NEW P, NEW Q, IsFiniteSet(Q), P \subseteq Q, NEW n \in Nat, Cardinality(P) >= n
  PROVE  Cardinality(Q) >= n
<1>1. IsFiniteSet(P) /\ Cardinality(P) <= Cardinality(Q)
  BY FS_Subset
<1>2. Cardinality(P) \in Nat /\ Cardinality(Q) \in Nat
  BY <1>1, FS_CardinalityType
<1> QED
  BY <1>1, <1>2

LEMMA ClosesFinite ==
  ASSUME NEW C, IsFiniteSet(C)
  PROVE  /\ \A x : IsFiniteSet(After(C, x)) /\ Cardinality(After(C, x)) \in Nat
         /\ \A x, y : IsFiniteSet(Between(C, x, y)) /\ Cardinality(Between(C, x, y)) \in Nat
<1>1. \A x : After(C, x) \in SUBSET C
  BY DEF After
<1>2. \A x, y : Between(C, x, y) \in SUBSET C
  BY DEF Between
<1>3. \A P \in SUBSET C : IsFiniteSet(P) /\ Cardinality(P) \in Nat
  BY FS_Subset, FS_CardinalityType
<1> QED
  BY <1>1, <1>2, <1>3

-----------------------------------------------------------------------------
(* What a longer history and more closes leave standing *)

LEMMA RowLater ==
  ASSUME CourtAssumption, cast \in Casts, NEW q \in Seq(Rows), NEW r \in Rows,
         r.at \notin Retirements(q)
  PROVE  LET p == Append(q, r) IN
         /\ p \in Seq(Rows) /\ DOMAIN p = 1..(Len(q) + 1) /\ DOMAIN q = 1..Len(q) /\ Len(q) \in Nat
         /\ \A i \in DOMAIN q : p[i] = q[i] /\ HeldBy(p, i) = HeldBy(q, i)
         /\ p[Len(q) + 1] = r /\ DOMAIN p = DOMAIN q \cup {Len(q) + 1}
         /\ Cardinality(Retirements(q)) \in Nat /\ Cardinality(Retirements(p)) \in Nat
         /\ Cardinality(Retirements(q)) <= Cardinality(Retirements(p))
         /\ r.verdict = "RETIRED" => HeldBy(p, Len(q) + 1) = Cardinality(Retirements(q)) + 1
<1> DEFINE p == Append(q, r)
<1>1. /\ p \in Seq(Rows) /\ DOMAIN p = 1..(Len(q) + 1) /\ DOMAIN q = 1..Len(q) /\ Len(q) \in Nat
      /\ p[Len(q) + 1] = r /\ \A i \in DOMAIN q : p[i] = q[i]
  OBVIOUS
<1>2. DOMAIN p = DOMAIN q \cup {Len(q) + 1}
  BY <1>1
<1>3. /\ \A i \in 1..Len(q) : SubSeq(p, 1, i) = SubSeq(q, 1, i)
      /\ SubSeq(p, 1, Len(q) + 1) = p
  BY AppendPrefixes
<1>4. Retirements(p) = IF r.verdict = "RETIRED" THEN Retirements(q) \cup {r.at} ELSE Retirements(q)
  BY RetirementsGrow
<1>5. IsFiniteSet(Retirements(q)) /\ Cardinality(Retirements(q)) \in Nat
  BY RetirementsOf, FS_CardinalityType
<1>6. r.verdict = "RETIRED" => Cardinality(Retirements(p)) = Cardinality(Retirements(q)) + 1
  BY <1>4, <1>5, FS_AddElement
<1>7. r.verdict # "RETIRED" => Cardinality(Retirements(p)) = Cardinality(Retirements(q))
  BY <1>4
<1>8. /\ Cardinality(Retirements(p)) \in Nat
      /\ Cardinality(Retirements(q)) <= Cardinality(Retirements(p))
  BY <1>5, <1>6, <1>7
<1>9. \A i \in DOMAIN q : HeldBy(p, i) = HeldBy(q, i)
  BY <1>1, <1>3 DEF HeldBy
<1>10. HeldBy(p, Len(q) + 1) = Cardinality(Retirements(p))
  BY <1>3 DEF HeldBy
<1> HIDE DEF p
<1> QED
  BY <1>1, <1>2, <1>5, <1>6, <1>8, <1>9, <1>10 DEF p

(* A row more at most, and more closes *)
Grown(q, p, C, D) ==
    /\ C \subseteq D /\ IsFiniteSet(D)
    /\ \/ p = q
       \/ \E r \in Rows : r.at \notin Retirements(q) /\ p = Append(q, r)

(* A session stays where it is, or goes on to its retirement. *)
Follows(x, y) ==
    /\ y.knows = x.knows /\ y.state = x.state /\ y.fresh = x.fresh /\ y.fades = x.fades
    /\ y.step = x.step \/ (x.step = "judged" /\ x.fades /\ y.step = "recorded")

(* What a session has in hand stands, whatever is closed and written after. *)
LEMMA EvidenceLasts ==
  ASSUME CourtAssumption, cast \in Casts, NEW q \in Seq(Rows), NEW p, NEW C, NEW D, Grown(q, p, C, D),
         NEW runner, NEW x \in Desk, NEW y \in Desk, Follows(x, y), Evident(x, runner, q, C)
  PROVE  Evident(y, runner, p, D)
<1>0. /\ C \subseteq D /\ IsFiniteSet(D)
      /\ y.knows = x.knows /\ y.state = x.state /\ y.fresh = x.fresh /\ y.fades = x.fades
      /\ y.step = x.step \/ (x.step = "judged" /\ x.fades /\ y.step = "recorded")
  BY DEF Grown, Follows
<1>1. /\ DOMAIN q \subseteq DOMAIN p
      /\ \A i \in DOMAIN q : p[i] = q[i] /\ HeldBy(p, i) = HeldBy(q, i)
      /\ Cardinality(Retirements(q)) \in Nat /\ Cardinality(Retirements(p)) \in Nat
      /\ Cardinality(Retirements(q)) <= Cardinality(Retirements(p))
      /\ \A i \in DOMAIN p : p[i].verdict = "RETIRED" /\ i \notin DOMAIN q =>
                                 HeldBy(p, i) = Cardinality(Retirements(q)) + 1
  <2>1. CASE p = q
    BY <2>1, RetirementsOf
  <2>2. CASE \E r \in Rows : r.at \notin Retirements(q) /\ p = Append(q, r)
    BY <2>2, RowLater
  <2> QED
    BY <2>1, <2>2 DEF Grown
<1>2. x.knows \in Int /\ y.knows = x.knows /\ x.knows <= Cardinality(Retirements(q))
  BY <1>0 DEF Desk, Evident
<1>3. y.knows <= Cardinality(Retirements(p))
  BY <1>1, <1>2
<1>4. \A i \in DOMAIN p : Known(y, p, i) => i \in DOMAIN q /\ Known(x, q, i) /\ p[i] = q[i]
  BY <1>1, <1>2 DEF Known
<1>5. MinTrades \in Nat /\ MinTested \in Nat /\ MinLive \in Nat
  BY DEF CourtAssumption
<1>6. IsFiniteSet(C) /\ \A a : After(C, a) \subseteq After(D, a) /\ IsFiniteSet(After(D, a))
  BY <1>0, FS_Subset, ClosesFinite DEF After
<1>7. \A a, b : Between(C, a, b) \subseteq Between(D, a, b) /\ IsFiniteSet(Between(D, a, b))
  <2>1. \A a, b : Between(C, a, b) \subseteq Between(D, a, b)
    BY <1>0 DEF Between
  <2>2. \A a, b : IsFiniteSet(Between(D, a, b))
    BY <1>0, ClosesFinite
  <2> QED
    BY <2>1, <2>2
<1>8. EnoughSince(x, q, C) => EnoughSince(y, p, D)
  <2> SUFFICES ASSUME EnoughSince(x, q, C), NEW i \in DOMAIN p, Known(y, p, i)
               PROVE  Cardinality(After(D, p[i].at)) >= MinTrades
    BY DEF EnoughSince
  <2>1. Cardinality(After(C, q[i].at)) >= MinTrades /\ p[i] = q[i]
    BY <1>4 DEF EnoughSince
  <2> QED
    BY <2>1, <1>5, <1>6, MoreInstants
<1>9. LiveSince(q, C) => LiveSince(p, D)
  <2> SUFFICES ASSUME LiveSince(q, C) PROVE LiveSince(p, D)
    OBVIOUS
  <2>1. PICK j \in DOMAIN q : /\ q[j].verdict = "CONVICTED"
                              /\ Cardinality(Between(C, 0, q[j].at)) >= MinTested
                              /\ Cardinality(After(C, q[j].at)) >= MinLive
    BY DEF LiveSince
  <2>2. j \in DOMAIN p /\ p[j] = q[j]
    BY <1>1
  <2>3. Cardinality(Between(D, 0, q[j].at)) >= MinTested
    BY <2>1, <1>5, <1>7, MoreInstants
  <2>4. Cardinality(After(D, q[j].at)) >= MinLive
    BY <2>1, <1>5, <1>6, MoreInstants
  <2> QED
    BY <2>1, <2>2, <2>3, <2>4 DEF LiveSince
<1>10. y.step = "begun" /\ runner => \A i \in DOMAIN p : Known(y, p, i) =>
          y.state.retired # Never /\ p[i].at <= y.state.retired
  BY <1>0, <1>4 DEF Evident
<1>11. y.step = "begun" /\ y.state.since # Never =>
          \E j \in DOMAIN p : p[j].verdict = "CONVICTED" /\ p[j].at = y.state.since
  BY <1>0, <1>1 DEF Evident
<1>12. y.step = "judged" /\ y.fresh = "CONVICTED" /\ runner => EnoughSince(y, p, D)
  BY <1>0, <1>8 DEF Evident
<1>13. y.step \in {"judged", "recorded"} /\ y.fades => LiveSince(p, D)
  BY <1>0, <1>9 DEF Evident
<1>14. y.step = "recorded" => y.fades
  BY <1>0 DEF Evident
<1> QED
  BY <1>3, <1>10, <1>11, <1>12, <1>13, <1>14 DEF Evident

LEMMA IdleEvident ==
  ASSUME CourtAssumption, cast \in Casts, NEW q \in Seq(Rows), NEW runner, NEW C
  PROVE  Idle \in Desk /\ Evident(Idle, runner, q, C)
<1>1. Cardinality(Retirements(q)) \in Nat
  BY RetirementsOf
<1>2. 0 \in 0..MaxVerdicts
  BY DEF CourtAssumption
<1> QED
  BY <1>1, <1>2 DEF Idle, Desk, Evident, NoState, States, Words

-----------------------------------------------------------------------------
(* What the invariant says, in the shapes the steps need it *)

LEMMA Facts ==
  ASSUME CourtAssumption, CourtInv
  PROVE  /\ cast \in Casts /\ verdicts \in Seq(Rows) /\ session \in [Sitting -> Desk]
         /\ Len(verdicts) \in Nat /\ Len(verdicts) <= MaxVerdicts /\ DOMAIN verdicts = 1..Len(verdicts)
         /\ \A i \in DOMAIN verdicts : verdicts[i] \in Rows
         /\ IsFiniteSet(ClosedAt) /\ ClosedAt \subseteq Int /\ \A at \in ClosedAt : 0 < at /\ at < now
         /\ Cardinality(trades) \in Nat /\ Cardinality(trades) <= MaxCloses[cast] /\ now \in Nat
         /\ now \notin Retirements(verdicts)
         /\ Cardinality(Retirements(verdicts)) \in 0..MaxVerdicts
<1>1. cast \in Casts /\ verdicts \in Seq(Rows) /\ session \in [Sitting -> Desk]
  BY DEF CourtInv, Chronicle, CourtTypeOK, Rows, Desk
<1>2. /\ Len(verdicts) \in Nat /\ Len(verdicts) <= MaxVerdicts /\ DOMAIN verdicts = 1..Len(verdicts)
      /\ \A i \in DOMAIN verdicts : verdicts[i] \in Rows
  BY <1>1 DEF CourtInv, CourtTypeOK
<1>3. IsFiniteSet(ClosedAt)
  BY InstantsCount DEF CourtInv, Chronicle, ClosedAt
<1>4. PICK b \in Nat : Instants = 0..b
  BY <1>1, InstantsAreNaturals
<1>5. ClosedAt \subseteq Int /\ \A at \in ClosedAt : 0 < at /\ at < now
  <2>1. \A t \in trades : t.at \in Instants /\ 0 < t.at /\ t.at < now
    BY DEF CourtInv, Chronicle, CourtTypeOK, CourtTrades
  <2> QED
    BY <1>4, <2>1 DEF ClosedAt
<1>6. Cardinality(trades) \in Nat /\ Cardinality(trades) <= MaxCloses[cast] /\ now \in Nat
  BY <1>4, FS_CardinalityType DEF CourtInv, CourtTypeOK, Chronicle
<1>7. now \notin Retirements(verdicts)
  <2>1. \A i \in DOMAIN verdicts : verdicts[i].at \in Instants /\ verdicts[i].at < now
    BY <1>2 DEF CourtInv, Chronicle, Rows
  <2> QED
    BY <1>4, <1>6, <2>1 DEF Retirements
<1>8. Cardinality(Retirements(verdicts)) \in 0..MaxVerdicts
  <2>1. Cardinality(Retirements(verdicts)) \in 0..Len(verdicts) /\ MaxVerdicts \in Nat
    BY <1>1, RetirementsOf DEF CourtAssumption
  <2> QED
    BY <1>2, <2>1
<1> QED
  BY <1>1, <1>2, <1>3, <1>5, <1>6, <1>7, <1>8

LEMMA InTime ==
  ASSUME CourtAssumption, CourtInv, Cardinality(trades) < MaxCloses[cast] \/ Len(verdicts) < MaxVerdicts
  PROVE  now \in Instants /\ now + 1 \in Instants
<1>1. MaxCloses[cast] \in Nat /\ MaxVerdicts \in Nat
  BY Facts DEF CourtAssumption
<1>2. now = 1 + Cardinality(trades) + Len(verdicts)
  BY DEF CourtInv, Chronicle
<1>3. /\ Cardinality(trades) \in Nat /\ Cardinality(trades) <= MaxCloses[cast]
      /\ Len(verdicts) \in Nat /\ Len(verdicts) <= MaxVerdicts
  BY Facts
<1>4. PICK m \in Nat : m = MaxCloses[cast]
  BY <1>1
<1>5. PICK k \in Nat, n \in Nat : k = Cardinality(trades) /\ n = Len(verdicts)
  BY <1>3
<1>6. now = 1 + k + n /\ k <= m /\ n <= MaxVerdicts /\ (k < m \/ n < MaxVerdicts)
  BY <1>2, <1>3, <1>4, <1>5
<1>7. now \in 0..(m + MaxVerdicts + 1) /\ now + 1 \in 0..(m + MaxVerdicts + 1)
  BY <1>1, <1>6
<1> QED
  BY <1>4, <1>7 DEF Instants

(* A step of a session that writes no verdict *)
LEMMA QuietKeeps ==
  ASSUME CourtAssumption, CourtInv, cast' = cast, now' = now, trades' = trades, verdicts' = verdicts,
         NEW s \in Sitting, NEW x \in Desk, session' = [session EXCEPT ![s] = x],
         Evident(x, s \notin Scripts, verdicts, ClosedAt),
         registry' \in Rulebooks \cup {NoRules}, registry # NoRules => registry' = registry
  PROVE  CourtInv'
<1>1. CourtTypeOK'
  <2>1. session' \in [Sitting -> Desk] /\ Desk' = Desk
    BY Facts DEF Desk, States, Instants
  <2>2. Instants' = Instants
    BY DEF Instants
  <2> QED
    BY <2>1, <2>2 DEF CourtInv, CourtTypeOK, CourtTrades, States, Desk
<1>2. OneRulebook'
  <2>1. \A i \in DOMAIN verdicts : verdicts[i].digest \in Rulebooks /\ verdicts[i].digest = registry
    BY Facts DEF Rows, CourtInv, OneRulebook
  <2> QED
    BY <2>1 DEF OneRulebook, CourtAssumption
<1>3. FreshEvidence'
  BY DEF CourtInv, FreshEvidence, ClosedBetween
<1>4. RetiredOnLiveTrades'
  <2>1. \A a, b : ClosedBetween(a, b)' = ClosedBetween(a, b)
    BY DEF ClosedBetween
  <2>2. RetiredOnLiveTrades
    BY DEF CourtInv
  <2> QED
    BY <2>1, <2>2 DEF RetiredOnLiveTrades
<1>5. Chronicle'
  BY DEF CourtInv, Chronicle, ClosedAt
<1>6. \A u \in Sitting : Evidence(u)'
  <2> SUFFICES ASSUME NEW u \in Sitting PROVE Evidence(u)'
    OBVIOUS
  <2>1. session'[u] = IF u = s THEN x ELSE session[u]
    BY Facts
  <2>2. Evident(session[u], u \notin Scripts, verdicts, ClosedAt)
    BY DEF CourtInv, Evidence
  <2>3. ClosedAt' = ClosedAt
    BY DEF ClosedAt
  <2> QED
    BY <2>1, <2>2, <2>3 DEF Evidence
<1> QED
  BY <1>1, <1>2, <1>3, <1>4, <1>5, <1>6 DEF CourtInv

LEMMA AbortKeeps ==
  ASSUME CourtAssumption, CourtInv, NEW s \in Sitting, Abort(s)
  PROVE  CourtInv'
<1>1. Idle \in Desk /\ Evident(Idle, s \notin Scripts, verdicts, ClosedAt)
  BY Facts, IdleEvident
<1>2. registry' \in Rulebooks \cup {NoRules} /\ registry' = registry
  BY DEF Abort, CourtInv, CourtTypeOK
<1> QED
  BY <1>1, <1>2, QuietKeeps DEF Abort

LEMMA BeginKeeps ==
  ASSUME CourtAssumption, CourtInv, NEW s \in Sitting, NEW read \in BOOLEAN, Begin(s, read)
  PROVE  CourtInv'
<1> DEFINE state == IF read /\ s \in Sessions THEN CourtState(verdicts) ELSE NoState
           knows == IF read THEN Cardinality(Retirements(verdicts)) ELSE 0
           x == [Idle EXCEPT !.step = "begun", !.state = state, !.knows = knows]
<1>1. /\ CourtState(verdicts) \in States
      /\ \A i \in DOMAIN verdicts : verdicts[i].verdict = "RETIRED" =>
             CourtState(verdicts).retired # Never /\ verdicts[i].at <= CourtState(verdicts).retired
      /\ CourtState(verdicts).since # Never =>
             \E j \in DOMAIN verdicts : verdicts[j].verdict = "CONVICTED"
                                        /\ verdicts[j].at = CourtState(verdicts).since
  BY Facts, StateRead
<1>2. state \in States /\ NoState.since = Never
  BY <1>1 DEF NoState, States
<1>3. PICK n \in 0..MaxVerdicts : n = Cardinality(Retirements(verdicts))
  BY Facts
<1>4. MaxVerdicts \in Nat /\ knows = (IF read THEN n ELSE 0) /\ knows \in 0..MaxVerdicts
  BY <1>3 DEF CourtAssumption
<1>10. knows \in Int /\ knows <= n /\ (knows > 0 => read)
  BY <1>3, <1>4
<1> HIDE DEF state, knows
<1>5. /\ x.step = "begun" /\ x.state = state /\ x.fresh = "NOT PROVEN" /\ ~x.fades
      /\ x.knows = knows
  BY DEF Idle
<1>6. x \in Desk
  <2>1. Idle \in Desk
    BY Facts, IdleEvident
  <2> QED
    BY <1>2, <1>4, <2>1 DEF Desk
<1>7. Evident(x, s \notin Scripts, verdicts, ClosedAt)
  <2> HIDE DEF x
  <2>1. x.knows <= Cardinality(Retirements(verdicts))
    <3>1. x.knows = knows
      BY <1>5
    <3> QED
      BY <1>3, <1>10, <3>1
  <2>2. ASSUME s \notin Scripts, NEW i \in DOMAIN verdicts, Known(x, verdicts, i)
        PROVE  x.state.retired # Never /\ verdicts[i].at <= x.state.retired
    <3>1. HeldBy(verdicts, i) \in Nat \ {0} /\ HeldBy(verdicts, i) <= x.knows
      BY <2>2, Facts, HeldIsCounted DEF Known
    <3>4. PICK h \in Nat \ {0} : h = HeldBy(verdicts, i)
      BY <3>1
    <3>5. x.knows = knows /\ h <= x.knows
      BY <1>5, <3>1, <3>4
    <3>2. read
      BY <1>10, <3>4, <3>5
    <3>3. state = CourtState(verdicts)
      BY <2>2, <3>2 DEF state, Sitting
    <3> QED
      BY <1>1, <1>5, <2>2, <3>3 DEF Known
  <2>3. x.state.since # Never =>
            \E j \in DOMAIN verdicts : verdicts[j].verdict = "CONVICTED" /\ verdicts[j].at = x.state.since
    BY <1>1, <1>2, <1>5 DEF state
  <2> QED
    BY <2>1, <2>2, <2>3, <1>5 DEF Evident
<1>8. session' = [session EXCEPT ![s] = x]
  BY DEF Begin, state, knows
<1>9. registry' \in Rulebooks \cup {NoRules} /\ registry' = registry
  BY DEF Begin, CourtInv, CourtTypeOK
<1> HIDE DEF x
<1> QED
  BY <1>6, <1>7, <1>8, <1>9, QuietKeeps DEF Begin

-----------------------------------------------------------------------------
(* The judgement *)

LEMMA ConvictedOnEnough ==
  ASSUME NEW q, NEW skilled, Verdict(q, skilled) = "CONVICTED"
  PROVE  Cardinality(q) >= MinTrades
BY DEF Verdict, Charges

LEMMA FadedOnEnough ==
  ASSUME CourtAssumption, NEW q, IsFiniteSet(q), NEW since, Faded(q, since)
  PROVE  /\ since # Never /\ Cardinality(Tested(q, since)) >= MinTested
         /\ Cardinality(Live(q, since)) >= MinLive
<1>1. since # Never /\ Cardinality(Tested(q, since)) >= MinTested
  BY DEF Faded
<1>2. PICK to \in Live(q, since) : Place(Live(q, since), to) >= MinLive
  BY DEF Faded, Watch
<1>3. IsFiniteSet(Live(q, since)) /\ MinLive \in Nat
  BY FS_Subset DEF Live, CourtAssumption
<1>4. {u \in Live(q, since) : u.at <= to.at} \subseteq Live(q, since)
  OBVIOUS
<1>5. Cardinality(Live(q, since)) >= MinLive
  BY <1>2, <1>3, <1>4, MoreInstants DEF Place
<1> QED
  BY <1>1, <1>5

LEMMA JudgeKeeps ==
  ASSUME CourtAssumption, CourtInv, NEW s \in Sitting, NEW skilled \in BOOLEAN, Judge(s, skilled)
  PROVE  CourtInv'
<1> DEFINE d == session[s]
           seen == AfterRetirement(Loaded, d.state)
           x == [d EXCEPT !.step = "judged", !.state = NoState,
                    !.fresh = Verdict(seen, skilled), !.fades = Faded(seen, d.state.since)]
<1>1. d \in Desk /\ d.step = "begun" /\ Evident(d, s \notin Scripts, verdicts, ClosedAt)
  BY Facts DEF Judge, CourtInv, Evidence
<1>2. seen \in SUBSET trades /\ IsFiniteSet(seen)
  <2>1. seen \in SUBSET trades
    BY DEF AfterRetirement, Loaded, Landed
  <2> QED
    BY <2>1, FS_Subset DEF CourtInv, Chronicle
<1>3. \A t \in seen : d.state.retired = Never \/ t.at > d.state.retired
  BY DEF AfterRetirement
<1>4. Verdict(seen, skilled) \in Words \ {"RETIRED"} /\ Faded(seen, d.state.since) \in BOOLEAN
  BY DEF Verdict, Words, Faded
<1> HIDE DEF d, seen
<1>5. MinTrades \in Nat /\ MinTested \in Nat /\ MinLive \in Nat
  BY DEF CourtAssumption
<1>6. PICK b \in Nat : Instants = 0..b
  BY Facts, InstantsAreNaturals
<1>7. d.state \in [since : Instants \cup {Never}, retired : Instants \cup {Never}]
  BY <1>1 DEF Desk, States
<1>8. /\ \A t \in trades : t.at \in ClosedAt /\ t.at \in Int
      /\ \A i \in DOMAIN verdicts : verdicts[i].at \in Int /\ verdicts[i].at \notin ClosedAt
  <2>1. \A t \in trades : t.at \in ClosedAt
    BY DEF ClosedAt
  <2>2. \A i \in DOMAIN verdicts : verdicts[i].at \in Instants /\ verdicts[i].at \notin ClosedAt
    BY Facts DEF Rows, CourtInv, Chronicle
  <2> QED
    BY <2>1, <2>2, <1>6, Facts
<1>9. Verdict(seen, skilled) = "CONVICTED" /\ s \notin Scripts =>
        \A i \in DOMAIN verdicts : Known(d, verdicts, i) =>
            Cardinality(After(ClosedAt, verdicts[i].at)) >= MinTrades
  <2> SUFFICES ASSUME Verdict(seen, skilled) = "CONVICTED", s \notin Scripts,
                      NEW i \in DOMAIN verdicts, Known(d, verdicts, i)
               PROVE  Cardinality(After(ClosedAt, verdicts[i].at)) >= MinTrades
    OBVIOUS
  <2>1. Cardinality(seen) >= MinTrades
    BY ConvictedOnEnough
  <2>2. d.state.retired # Never /\ verdicts[i].at <= d.state.retired
    BY <1>1 DEF Evident
  <2>3. \A t \in seen : t.at \in After(ClosedAt, verdicts[i].at)
    <3>1. d.state.retired \in Int
      BY <1>6, <1>7, <2>2
    <3>2. \A t \in seen : t.at \in ClosedAt /\ t.at \in Int /\ t.at > d.state.retired
      BY <1>2, <1>3, <1>8, <2>2
    <3>3. \A t \in seen : verdicts[i].at < t.at
      BY <3>1, <3>2, <2>2, <1>8
    <3> QED
      BY <3>2, <3>3 DEF After
  <2>4. After(ClosedAt, verdicts[i].at) \subseteq ClosedAt
    BY DEF After
  <2> QED
    BY <1>2, <1>5, <2>1, <2>3, <2>4, EnoughAfter DEF CourtInv
<1>10. Faded(seen, d.state.since) => LiveSince(verdicts, ClosedAt)
  <2> SUFFICES ASSUME Faded(seen, d.state.since) PROVE LiveSince(verdicts, ClosedAt)
    OBVIOUS
  <2>1. /\ d.state.since # Never /\ Cardinality(Tested(seen, d.state.since)) >= MinTested
        /\ Cardinality(Live(seen, d.state.since)) >= MinLive
    BY <1>2, FadedOnEnough
  <2>2. PICK j \in DOMAIN verdicts : verdicts[j].verdict = "CONVICTED" /\ verdicts[j].at = d.state.since
    BY <1>1, <2>1 DEF Evident
  <2>3. Tested(seen, d.state.since) \in SUBSET trades /\ Live(seen, d.state.since) \in SUBSET trades
    BY <1>2 DEF Tested, Live
  <2>4. \A t \in Tested(seen, d.state.since) : t.at \in Between(ClosedAt, 0, verdicts[j].at)
    <3>1. \A t \in Tested(seen, d.state.since) : t \in trades /\ t.at < verdicts[j].at
      BY <2>2, <2>3 DEF Tested
    <3> QED
      BY <3>1, <1>8, Facts DEF Between
  <2>5. \A t \in Live(seen, d.state.since) : t.at \in After(ClosedAt, verdicts[j].at)
    <3>1. \A t \in Live(seen, d.state.since) : t \in trades /\ t.at >= verdicts[j].at
      BY <2>2, <2>3 DEF Live
    <3>2. \A t \in Live(seen, d.state.since) : t.at \in ClosedAt /\ verdicts[j].at < t.at
      BY <3>1, <1>8
    <3> QED
      BY <3>2 DEF After
  <2>6. Between(ClosedAt, 0, verdicts[j].at) \subseteq ClosedAt /\ After(ClosedAt, verdicts[j].at) \subseteq ClosedAt
    BY DEF Between, After
  <2>7. Cardinality(Between(ClosedAt, 0, verdicts[j].at)) >= MinTested
    BY <1>5, <2>1, <2>3, <2>4, <2>6, EnoughAfter DEF CourtInv
  <2>8. Cardinality(After(ClosedAt, verdicts[j].at)) >= MinLive
    BY <1>5, <2>1, <2>3, <2>5, <2>6, EnoughAfter DEF CourtInv
  <2> QED
    BY <2>2, <2>7, <2>8 DEF LiveSince
<1>11. /\ x.step = "judged" /\ x.fresh = Verdict(seen, skilled)
       /\ x.fades = Faded(seen, d.state.since) /\ x.knows = d.knows
  BY <1>1 DEF Desk
<1>12. x \in Desk
  <2>1. NoState \in States
    BY DEF NoState, States
  <2> QED
    BY <1>1, <1>4, <2>1 DEF Desk
<1>13. Evident(x, s \notin Scripts, verdicts, ClosedAt)
  <2>1. \A i \in DOMAIN verdicts : Known(x, verdicts, i) <=> Known(d, verdicts, i)
    BY <1>11 DEF Known
  <2>2. x.fresh = "CONVICTED" /\ s \notin Scripts => EnoughSince(x, verdicts, ClosedAt)
    BY <1>9, <1>11, <2>1 DEF EnoughSince
  <2>3. x.fades => LiveSince(verdicts, ClosedAt)
    BY <1>10, <1>11
  <2>4. x.step = "judged" /\ x.knows <= Cardinality(Retirements(verdicts))
    BY <1>1, <1>11 DEF Evident
  <2> HIDE DEF x
  <2> QED
    BY <2>2, <2>3, <2>4 DEF Evident
<1> HIDE DEF x
<1>14. Idle \in Desk /\ Evident(Idle, s \notin Scripts, verdicts, ClosedAt)
  BY Facts, IdleEvident
<1>15. registry \in Rulebooks \cup {NoRules} /\ Build[s] \in Rulebooks
  BY DEF CourtInv, CourtTypeOK, CourtAssumption, Sitting
<1>16. CASE session' = [session EXCEPT ![s] = Idle] /\ registry' = registry
  BY <1>14, <1>15, <1>16, QuietKeeps DEF Judge
<1>17. CASE session' = [session EXCEPT ![s] = x] /\ registry' = Enter(registry, Build[s])
  <2>1. registry' \in Rulebooks \cup {NoRules} /\ (registry # NoRules => registry' = registry)
    BY <1>15, <1>17 DEF Enter
  <2> QED
    BY <1>12, <1>13, <1>17, <2>1, QuietKeeps DEF Judge
<1>18. \/ session' = [session EXCEPT ![s] = Idle] /\ registry' = registry
       \/ session' = [session EXCEPT ![s] = x] /\ registry' = Enter(registry, Build[s])
  BY Facts DEF Judge, x, seen, d
<1> QED
  BY <1>16, <1>17, <1>18

-----------------------------------------------------------------------------
(* Trades *)

(* A step of the trades *)
LEMMA TradesKeep ==
  ASSUME CourtAssumption, CourtInv,
         cast' = cast, verdicts' = verdicts, registry' = registry, session' = session,
         trades' \subseteq CourtTrades, Cardinality(trades') <= MaxCloses[cast], IsFiniteSet(trades'),
         now' \in Instants, now' = 1 + Cardinality(trades') + Len(verdicts), now <= now',
         \A t \in trades' : 0 < t.at /\ t.at < now',
         \A t, u \in trades' : t.at = u.at => t = u,
         ClosedAt \subseteq ClosedAt', \A at \in ClosedAt' \ ClosedAt : at >= now
  PROVE  CourtInv'
<1>1. CourtTypeOK'
  <2>1. Instants' = Instants
    BY DEF Instants
  <2> QED
    BY <2>1 DEF CourtInv, CourtTypeOK, CourtTrades, States
<1>2. OneRulebook'
  BY DEF CourtInv, OneRulebook
<1>3. IsFiniteSet(ClosedAt') /\ ClosedAt' \subseteq Int /\ now' \in Int
  <2>1. IsFiniteSet({t.at : t \in trades'})
    BY InstantsCount
  <2>2. PICK b \in Nat : Instants = 0..b
    BY Facts, InstantsAreNaturals
  <2>3. \A t \in trades' : t.at \in Int
    BY <2>2 DEF CourtTrades
  <2> QED
    BY <2>1, <2>2, <2>3 DEF ClosedAt
<1>4. \A i \in DOMAIN verdicts : verdicts[i].at \in Int /\ verdicts[i].at < now
  <2>1. PICK b \in Nat : Instants = 0..b
    BY Facts, InstantsAreNaturals
  <2> QED
    BY <2>1, Facts DEF Rows, CourtInv, Chronicle
<1>5. \A i \in DOMAIN verdicts : \A x : ClosedBetween(x, verdicts[i].at)' = ClosedBetween(x, verdicts[i].at)
  <2> SUFFICES ASSUME NEW i \in DOMAIN verdicts, NEW x
               PROVE  ClosedBetween(x, verdicts[i].at)' = ClosedBetween(x, verdicts[i].at)
    OBVIOUS
  <2>1. \A at \in ClosedAt' \ ClosedAt : at > verdicts[i].at
    BY <1>3, <1>4, Facts
  <2>2. Between(ClosedAt', x, verdicts[i].at) = Between(ClosedAt, x, verdicts[i].at)
    <3>1. PICK y \in Int : y = verdicts[i].at
      BY <1>4
    <3>2. \A at \in ClosedAt' \ ClosedAt : at > y
      BY <2>1, <3>1
    <3>3. Between(ClosedAt', x, y) = Between(ClosedAt, x, y)
      <4>1. PICK C, D : C = ClosedAt /\ D = ClosedAt'
        OBVIOUS
      <4>2. C \subseteq D /\ D \subseteq Int /\ \A at \in D \ C : at > y
        BY <4>1, <1>3, <3>2
      <4>3. Between(D, x, y) = Between(C, x, y)
        <5>1. \A at \in D : at < y => at \in C
          BY <4>2
        <5> QED
          BY <4>2, <5>1 DEF Between
      <4> QED
        BY <4>1, <4>3
    <3> QED
      BY <3>1, <3>3
  <2> QED
    BY <2>2 DEF Between, ClosedBetween, ClosedAt
<1>6. FreshEvidence'
  <2>1. FreshEvidence
    BY DEF CourtInv
  <2> QED
    BY <1>5, <2>1 DEF FreshEvidence
<1>7. RetiredOnLiveTrades'
  <2>1. RetiredOnLiveTrades
    BY DEF CourtInv
  <2>2. \A i \in DOMAIN verdicts : \A j \in 1..(i - 1) : j \in DOMAIN verdicts
    BY Facts
  <2> SUFFICES ASSUME NEW i \in DOMAIN verdicts, verdicts[i].verdict = "RETIRED"
               PROVE  \E j \in 1..(i - 1) :
                         /\ verdicts[j].verdict = "CONVICTED"
                         /\ Cardinality(ClosedBetween(0, verdicts[j].at)') >= MinTested
                         /\ Cardinality(ClosedBetween(verdicts[j].at, verdicts[i].at)') >= MinLive
    BY DEF RetiredOnLiveTrades
  <2>3. PICK j \in 1..(i - 1) :
           /\ verdicts[j].verdict = "CONVICTED"
           /\ Cardinality(ClosedBetween(0, verdicts[j].at)) >= MinTested
           /\ Cardinality(ClosedBetween(verdicts[j].at, verdicts[i].at)) >= MinLive
    BY <2>1 DEF RetiredOnLiveTrades
  <2> QED
    BY <1>5, <2>2, <2>3
<1>8. Chronicle'
  <2>1. \A i \in DOMAIN verdicts : verdicts[i].at < now'
    BY <1>3, <1>4, Facts
  <2>2. \A i \in DOMAIN verdicts : verdicts[i].at \notin ClosedAt'
    BY <1>3, <1>4, Facts DEF CourtInv, Chronicle
  <2> QED
    BY <2>1, <2>2 DEF CourtInv, Chronicle
<1>9. \A u \in Sitting : Evidence(u)'
  <2> SUFFICES ASSUME NEW u \in Sitting PROVE Evidence(u)'
    OBVIOUS
  <2>1. Evident(session[u], u \notin Scripts, verdicts, ClosedAt) /\ session[u] \in Desk
    BY Facts DEF CourtInv, Evidence
  <2>2. Evident(session[u], u \notin Scripts, verdicts, ClosedAt')
    <3>1. Grown(verdicts, verdicts, ClosedAt, ClosedAt') /\ Follows(session[u], session[u])
      BY <1>3 DEF Grown, Follows
    <3> QED
      BY <2>1, <3>1, Facts, EvidenceLasts
  <2> QED
    BY <2>2 DEF Evidence
<1> QED
  BY <1>1, <1>2, <1>6, <1>7, <1>8, <1>9 DEF CourtInv

LEMMA CloseKeeps ==
  ASSUME CourtAssumption, CourtInv, NEW net \in Results, Close(net)
  PROVE  CourtInv'
<1> DEFINE new == [at |-> now, net |-> net, landed |-> FALSE]
<1>1. /\ trades' = trades \cup {new} /\ now' = now + 1 /\ Cardinality(trades) < MaxCloses[cast]
      /\ UNCHANGED <<cast, registry, verdicts, session>>
  BY DEF Close
<1>2. now \in Instants /\ now' \in Instants /\ now \in Nat
  BY <1>1, InTime, Facts
<1>3. new \in CourtTrades /\ new.at = now
  BY <1>2 DEF CourtTrades
<1>4. \A t \in trades : t.at \in Int /\ 0 < t.at /\ t.at < now
  <2>1. \A t \in trades : t.at \in ClosedAt
    BY DEF ClosedAt
  <2> QED
    BY <2>1, Facts
<1> HIDE DEF new
<1>5. new \notin trades
  BY <1>2, <1>3, <1>4
<1>6. IsFiniteSet(trades') /\ Cardinality(trades') = Cardinality(trades) + 1
  BY <1>1, <1>5, FS_AddElement DEF CourtInv, Chronicle
<1>7. Cardinality(trades') <= MaxCloses[cast]
  <2>1. MaxCloses[cast] \in Nat /\ Cardinality(trades) \in Nat
    BY Facts DEF CourtAssumption
  <2> QED
    BY <1>1, <1>6, <2>1
<1>8. now' = 1 + Cardinality(trades') + Len(verdicts)
  <2>1. now = 1 + Cardinality(trades) + Len(verdicts) /\ Cardinality(trades) \in Nat /\ Len(verdicts) \in Nat
    BY Facts DEF CourtInv, Chronicle
  <2> QED
    BY <1>1, <1>6, <2>1
<1>9. \A t \in trades' : 0 < t.at /\ t.at < now'
  <2>1. 0 < now
    <3>1. now = 1 + Cardinality(trades) + Len(verdicts) /\ Cardinality(trades) \in Nat /\ Len(verdicts) \in Nat
      BY Facts DEF CourtInv, Chronicle
    <3> QED
      BY <3>1
  <2> QED
    BY <1>1, <1>2, <1>3, <1>4, <2>1
<1>10. \A t, u \in trades' : t.at = u.at => t = u
  BY <1>1, <1>2, <1>3, <1>4 DEF CourtInv, Chronicle
<1>11. ClosedAt' = ClosedAt \cup {now}
  BY <1>1, <1>3 DEF ClosedAt
<1>12. trades' \subseteq CourtTrades
  BY <1>1, <1>3 DEF CourtInv, CourtTypeOK
<1>13. now <= now' /\ \A at \in ClosedAt' \ ClosedAt : at >= now
  BY <1>1, <1>2, <1>11
<1> QED
  BY <1>1, <1>2, <1>6, <1>7, <1>8, <1>9, <1>10, <1>11, <1>12, <1>13, TradesKeep

LEMMA LandKeeps ==
  ASSUME CourtAssumption, CourtInv, NEW t \in trades, LandClose(t)
  PROVE  CourtInv'
<1> DEFINE new == [t EXCEPT !.landed = TRUE]
<1>1. /\ trades' = (trades \ {t}) \cup {new} /\ now' = now
      /\ UNCHANGED <<cast, registry, verdicts, session>>
  BY DEF LandClose
<1>2. t \in CourtTrades
  BY DEF CourtInv, CourtTypeOK
<1>3. new \in CourtTrades /\ new.at = t.at /\ new # t
  <2>1. ~t.landed
    BY DEF LandClose
  <2>2. new.landed
    BY <1>2 DEF CourtTrades
  <2> QED
    BY <1>2, <2>1, <2>2 DEF CourtTrades
<1> HIDE DEF new
<1>4. IsFiniteSet(trades) /\ \A u, v \in trades : u.at = v.at => u = v
  BY DEF CourtInv, Chronicle
<1>5. new \notin trades
  BY <1>3, <1>4
<1>6. IsFiniteSet(trades') /\ Cardinality(trades') = Cardinality(trades)
  <2>1. IsFiniteSet(trades \ {t}) /\ Cardinality(trades \ {t}) = Cardinality(trades) - 1
    BY <1>4, FS_RemoveElement
  <2>2. new \notin trades \ {t}
    BY <1>5
  <2>3. IsFiniteSet(trades') /\ Cardinality(trades') = Cardinality(trades \ {t}) + 1
    BY <1>1, <2>1, <2>2, FS_AddElement
  <2>4. Cardinality(trades) \in Nat
    BY Facts
  <2> QED
    BY <2>1, <2>3, <2>4
<1>7. ClosedAt' = ClosedAt
  BY <1>1, <1>3 DEF ClosedAt
<1>8. trades' \subseteq CourtTrades
  BY <1>1, <1>3 DEF CourtInv, CourtTypeOK
<1>9. \A u \in trades' : 0 < u.at /\ u.at < now
  BY <1>1, <1>3 DEF CourtInv, Chronicle
<1>10. \A u, v \in trades' : u.at = v.at => u = v
  BY <1>1, <1>3, <1>4
<1>11. /\ now' \in Instants /\ now' = 1 + Cardinality(trades') + Len(verdicts)
       /\ Cardinality(trades') <= MaxCloses[cast]
  BY <1>1, <1>6 DEF CourtInv, CourtTypeOK, Chronicle
<1>12. now <= now'
  BY <1>1, Facts
<1> QED
  BY <1>1, <1>6, <1>7, <1>8, <1>9, <1>10, <1>11, <1>12, TradesKeep

-----------------------------------------------------------------------------
(* Verdicts *)

(* What a row must rest on to be written *)
MayStand(s, verdict) ==
    /\ verdict \in Words
    /\ verdict = "CONVICTED" /\ s \notin Scripts => EnoughSince(session[s], verdicts, ClosedAt)
    /\ verdict = "RETIRED" => LiveSince(verdicts, ClosedAt)

LEMMA RowFits ==
  ASSUME CourtAssumption, CourtInv, NEW s \in Sitting, NEW verdict \in Words, Len(verdicts) < MaxVerdicts
  PROVE  LET r == Row(s, verdict) IN
         /\ r \in Rows /\ r.at = now /\ r.verdict = verdict /\ r.digest = Build[s]
         /\ r.by = (IF s \in Scripts THEN "script" ELSE "runner") /\ r.knows = session[s].knows
         /\ r.at \notin Retirements(verdicts)
<1>1. now \in Instants /\ now \notin Retirements(verdicts)
  BY InTime, Facts
<1>2. Build[s] \in Rulebooks /\ session[s].knows \in 0..MaxVerdicts
  BY Facts DEF Desk, CourtAssumption, Sitting
<1> QED
  BY <1>1, <1>2 DEF Row, Rows

(* A step of a session that writes a verdict *)
LEMMA WriteKeeps ==
  ASSUME CourtAssumption, CourtInv, NEW s \in Sitting, NEW verdict, MayStand(s, verdict),
         Accepted(s), Len(verdicts) < MaxVerdicts,
         verdicts' = Append(verdicts, Row(s, verdict)), now' = now + 1,
         cast' = cast, trades' = trades, registry' = registry,
         NEW y \in Desk, session' = [session EXCEPT ![s] = y],
         \/ y = Idle
         \/ /\ y.knows = session[s].knows /\ y.state = session[s].state
            /\ y.fresh = session[s].fresh /\ y.fades = session[s].fades
            /\ session[s].step = "judged" /\ session[s].fades /\ y.step = "recorded"
  PROVE  CourtInv'
<1> DEFINE r == Row(s, verdict)
           q == verdicts
           p == Append(verdicts, r)
           n == Len(verdicts) + 1
<1>1. /\ r \in Rows /\ r.at = now /\ r.verdict = verdict /\ r.digest = Build[s]
      /\ r.by = (IF s \in Scripts THEN "script" ELSE "runner") /\ r.knows = session[s].knows
      /\ r.at \notin Retirements(verdicts)
  BY RowFits DEF MayStand
<1> HIDE DEF r
<1>2. /\ p \in Seq(Rows) /\ DOMAIN p = 1..n /\ DOMAIN q = 1..Len(q) /\ Len(q) \in Nat
      /\ \A i \in DOMAIN q : p[i] = q[i] /\ HeldBy(p, i) = HeldBy(q, i)
      /\ p[n] = r /\ DOMAIN p = DOMAIN q \cup {n}
      /\ Cardinality(Retirements(q)) \in Nat /\ Cardinality(Retirements(p)) \in Nat
      /\ Cardinality(Retirements(q)) <= Cardinality(Retirements(p))
      /\ r.verdict = "RETIRED" => HeldBy(p, n) = Cardinality(Retirements(q)) + 1
  BY <1>1, Facts, RowLater
<1>3. verdicts' = p /\ ClosedAt' = ClosedAt /\ IsFiniteSet(ClosedAt)
  BY Facts DEF ClosedAt, r
<1>4. Len(p) = n /\ n \in 1..MaxVerdicts /\ MaxVerdicts \in Nat
  BY <1>2 DEF CourtAssumption
<1>5. now \in Nat /\ now \in Int /\ now' = now + 1 /\ \A at \in ClosedAt : at \in Int /\ 0 < at /\ at < now
  BY Facts
<1>6. \A i \in DOMAIN q : q[i].at \in Int /\ q[i].at < now /\ q[i] \in Rows /\ q[i].knows \in Nat
                          /\ q[i].knows <= Cardinality(Retirements(q))
  <2>1. PICK b \in Nat : Instants = 0..b
    BY Facts, InstantsAreNaturals
  <2>2. \A i \in DOMAIN q : q[i] \in Rows
    BY Facts
  <2> QED
    BY <2>1, <2>2, <1>4 DEF Rows, CourtInv, Chronicle
<1> HIDE DEF p, q, n
<1>7. CourtTypeOK'
  <2>1. session' \in [Sitting -> Desk] /\ Instants' = Instants /\ now' \in Instants
    BY Facts, InTime DEF Instants
  <2>2. p \in Seq([verdict : Words, at : Instants, digest : Rulebooks,
                   by : {"runner", "script"}, knows : 0..MaxVerdicts]) /\ Len(p) <= MaxVerdicts
    BY <1>2, <1>4 DEF Rows
  <2> QED
    BY <1>3, <2>1, <2>2 DEF CourtInv, CourtTypeOK, CourtTrades, States, Desk
<1>8. OneRulebook'
  <2>1. \A i \in DOMAIN q : q[i].digest = registry
    BY DEF CourtInv, OneRulebook, q
  <2>2. r.digest = registry
    BY <1>1 DEF Accepted
  <2>3. \A i \in DOMAIN p : p[i].digest = registry
    BY <1>2, <2>1, <2>2
  <2> QED
    BY <1>3, <2>3 DEF OneRulebook
<1>9. \A x, y1 : ClosedBetween(x, y1)' = Between(ClosedAt, x, y1) /\ ClosedBetween(x, y1) = Between(ClosedAt, x, y1)
  BY <1>3 DEF ClosedBetween, Between, ClosedAt
<1>10. \A x : Between(ClosedAt, x, now) = After(ClosedAt, x)
  BY <1>5 DEF Between, After
<1>11. FreshEvidence'
  <2> SUFFICES ASSUME NEW i \in DOMAIN p, NEW j \in DOMAIN p, p[i].verdict = "RETIRED",
                      p[j].verdict = "CONVICTED", p[j].by = "runner", HeldBy(p, i) <= p[j].knows
               PROVE  Cardinality(Between(ClosedAt, p[i].at, p[j].at)) >= MinTrades
    BY <1>3, <1>9 DEF FreshEvidence, HeldBy
  <2>1. CASE i \in DOMAIN q /\ j \in DOMAIN q
    <3>1. /\ q[i].verdict = "RETIRED" /\ q[j].verdict = "CONVICTED" /\ q[j].by = "runner"
          /\ HeldBy(q, i) <= q[j].knows /\ p[i] = q[i] /\ p[j] = q[j]
      BY <1>2, <2>1
    <3> QED
      BY <2>1, <3>1, <1>9 DEF CourtInv, FreshEvidence, HeldBy, q
  <2>2. CASE i \in DOMAIN q /\ j = n
    <3>1. p[i] = q[i] /\ p[j] = r /\ HeldBy(p, i) = HeldBy(q, i)
      BY <1>2, <2>2
    <3>2. verdict = "CONVICTED" /\ s \notin Scripts
      BY <1>1, <3>1
    <3>3. Known(session[s], verdicts, i)
      BY <1>1, <3>1 DEF Known, q
    <3>4. Cardinality(After(ClosedAt, q[i].at)) >= MinTrades
      BY <2>2, <3>2, <3>3 DEF MayStand, EnoughSince, q
    <3> QED
      BY <1>1, <1>10, <3>1, <3>4
  <2>3. CASE i = n /\ j \in DOMAIN q
    <3>1. p[i] = r /\ p[j] = q[j] /\ HeldBy(p, i) = Cardinality(Retirements(q)) + 1
      BY <1>2, <2>3
    <3>2. q[j].knows \in Nat /\ q[j].knows <= Cardinality(Retirements(q))
      BY <1>6, <2>3
    <3> QED
      BY <1>2, <3>1, <3>2
  <2>4. CASE i = n /\ j = n
    BY <2>4
  <2> QED
    BY <1>2, <2>1, <2>2, <2>3, <2>4
<1>12. RetiredOnLiveTrades'
  <2> SUFFICES ASSUME NEW i \in DOMAIN p, p[i].verdict = "RETIRED"
               PROVE  \E j \in 1..(i - 1) :
                         /\ p[j].verdict = "CONVICTED"
                         /\ Cardinality(Between(ClosedAt, 0, p[j].at)) >= MinTested
                         /\ Cardinality(Between(ClosedAt, p[j].at, p[i].at)) >= MinLive
    BY <1>3, <1>9 DEF RetiredOnLiveTrades
  <2>1. CASE i \in DOMAIN q
    <3>1. p[i] = q[i]
      BY <1>2, <2>1
    <3>2. PICK j \in 1..(i - 1) :
             /\ q[j].verdict = "CONVICTED"
             /\ Cardinality(Between(ClosedAt, 0, q[j].at)) >= MinTested
             /\ Cardinality(Between(ClosedAt, q[j].at, q[i].at)) >= MinLive
      BY <1>9, <2>1, <3>1 DEF CourtInv, RetiredOnLiveTrades, q
    <3>3. j \in DOMAIN q
      BY <1>2, <2>1
    <3> QED
      BY <1>2, <3>1, <3>2, <3>3
  <2>2. CASE i = n
    <3>1. p[i] = r /\ verdict = "RETIRED"
      BY <1>1, <1>2, <2>2
    <3>2. PICK j \in DOMAIN q : /\ q[j].verdict = "CONVICTED"
                                /\ Cardinality(Between(ClosedAt, 0, q[j].at)) >= MinTested
                                /\ Cardinality(After(ClosedAt, q[j].at)) >= MinLive
      BY <3>1 DEF MayStand, LiveSince, q
    <3>3. j \in 1..(i - 1) /\ p[j] = q[j]
      BY <1>2, <2>2, <3>2 DEF n, q
    <3>4. Between(ClosedAt, p[j].at, p[i].at) = After(ClosedAt, q[j].at)
      BY <1>1, <1>10, <3>1, <3>3
    <3> QED
      BY <3>2, <3>3, <3>4
  <2> QED
    BY <1>2, <2>1, <2>2
<1>13. Chronicle'
  <2>1. now' = 1 + Cardinality(trades) + Len(p)
    <3>1. now = 1 + Cardinality(trades) + Len(verdicts) /\ Cardinality(trades) \in Nat /\ Len(verdicts) \in Nat
      BY Facts DEF CourtInv, Chronicle
    <3> QED
      BY <3>1, <1>4, <1>5 DEF n
  <2>2. \A t \in trades : 0 < t.at /\ t.at < now'
    <3>1. \A t \in trades : t.at \in ClosedAt
      BY DEF ClosedAt
    <3> QED
      BY <3>1, <1>5
  <2>3. \A i \in DOMAIN p : p[i].at < now' /\ p[i].at \notin ClosedAt
    <3>1. \A i \in DOMAIN q : q[i].at < now' /\ q[i].at \notin ClosedAt
      BY <1>5, <1>6 DEF CourtInv, Chronicle, q
    <3>2. r.at < now' /\ r.at \notin ClosedAt
      BY <1>1, <1>5
    <3> QED
      BY <1>2, <3>1, <3>2
  <2>4. \A i \in DOMAIN p : p[i].knows <= Cardinality(Retirements(p))
    <3>1. \A i \in DOMAIN q : q[i].knows <= Cardinality(Retirements(p))
      BY <1>2, <1>6
    <3>2. r.knows <= Cardinality(Retirements(p))
      <4>1. session[s].knows \in Int /\ session[s].knows <= Cardinality(Retirements(q))
        BY Facts, <1>4 DEF Desk, CourtInv, Evidence, Evident, q
      <4> QED
        BY <1>1, <1>2, <4>1
    <3> QED
      BY <1>2, <3>1, <3>2
  <2> QED
    BY <1>3, <2>1, <2>2, <2>3, <2>4 DEF CourtInv, Chronicle
<1>14. \A u \in Sitting : Evidence(u)'
  <2> SUFFICES ASSUME NEW u \in Sitting PROVE Evidence(u)'
    OBVIOUS
  <2>1. session'[u] = IF u = s THEN y ELSE session[u]
    BY Facts
  <2>2. Evident(session[u], u \notin Scripts, q, ClosedAt) /\ session[u] \in Desk
    BY Facts DEF CourtInv, Evidence, q
  <2>3. cast \in Casts /\ q \in Seq(Rows) /\ Grown(q, p, ClosedAt, ClosedAt)
    BY <1>1, <1>3, Facts DEF Grown, p, q
  <2>4. CASE u # s
    <3>1. Follows(session[u], session[u])
      BY DEF Follows
    <3>2. Evident(session[u], u \notin Scripts, p, ClosedAt)
      BY <2>2, <2>3, <3>1, EvidenceLasts
    <3> QED
      BY <1>3, <2>1, <2>4, <3>2 DEF Evidence
  <2>5. CASE u = s /\ y = Idle
    <3>1. Evident(Idle, u \notin Scripts, p, ClosedAt)
      BY <1>2, Facts, IdleEvident
    <3> QED
      BY <1>3, <2>1, <2>5, <3>1 DEF Evidence
  <2>6. CASE u = s /\ y # Idle
    <3>1. Follows(session[u], y)
      BY <2>6 DEF Follows
    <3>2. Evident(y, u \notin Scripts, p, ClosedAt)
      BY <2>2, <2>3, <3>1, EvidenceLasts
    <3> QED
      BY <1>3, <2>1, <2>6, <3>2 DEF Evidence
  <2> QED
    BY <2>4, <2>5, <2>6
<1> QED
  BY <1>7, <1>8, <1>11, <1>12, <1>13, <1>14 DEF CourtInv

(* A verdict is written, or is a repeat or under another rulebook. *)
LEMMA WritesKeep ==
  ASSUME CourtAssumption, CourtInv, NEW s \in Sitting, NEW verdict, MayStand(s, verdict), Write(s, verdict),
         cast' = cast, trades' = trades, registry' = registry,
         NEW y \in Desk, session' = [session EXCEPT ![s] = y],
         \/ y = Idle
         \/ /\ y.knows = session[s].knows /\ y.state = session[s].state
            /\ y.fresh = session[s].fresh /\ y.fades = session[s].fades
            /\ session[s].step = "judged" /\ session[s].fades /\ y.step = "recorded"
  PROVE  CourtInv'
<1>1. CASE verdicts' = verdicts /\ now' = now
  <2>1. Evident(session[s], s \notin Scripts, verdicts, ClosedAt) /\ session[s] \in Desk
    BY Facts DEF CourtInv, Evidence
  <2>2. Grown(verdicts, verdicts, ClosedAt, ClosedAt)
    BY Facts DEF Grown
  <2>3. Evident(y, s \notin Scripts, verdicts, ClosedAt)
    <3>1. CASE y = Idle
      BY <3>1, Facts, IdleEvident
    <3>2. CASE y # Idle
      <4>1. Follows(session[s], y)
        BY <3>2 DEF Follows
      <4> QED
        BY <2>1, <2>2, <4>1, Facts, EvidenceLasts
    <3> QED
      BY <3>1, <3>2
  <2>4. registry' \in Rulebooks \cup {NoRules}
    BY DEF CourtInv, CourtTypeOK
  <2> QED
    BY <1>1, <2>3, <2>4, QuietKeeps
<1>2. CASE /\ Accepted(s) /\ Len(verdicts) < MaxVerdicts
           /\ verdicts' = Append(verdicts, Row(s, verdict)) /\ now' = now + 1
  BY <1>2, WriteKeeps
<1> QED
  BY <1>1, <1>2 DEF Write

LEMMA RecordKeeps ==
  ASSUME CourtAssumption, CourtInv, NEW s \in Sitting, RecordVerdict(s)
  PROVE  CourtInv'
<1> DEFINE d == session[s]
           on == [d EXCEPT !.step = "recorded"]
           y == IF s \in Sessions /\ d.fades THEN on ELSE Idle
<1>1. d \in Desk /\ d.step = "judged" /\ Evident(d, s \notin Scripts, verdicts, ClosedAt)
  BY Facts DEF RecordVerdict, CourtInv, Evidence
<1>2. /\ session' = [session EXCEPT ![s] = y] /\ Write(s, d.fresh)
      /\ cast' = cast /\ trades' = trades /\ registry' = registry
  BY Facts DEF RecordVerdict
<1>3. MayStand(s, d.fresh)
  BY <1>1 DEF MayStand, Desk, Evident, Words
<1>4. /\ on \in Desk /\ on.knows = d.knows /\ on.state = d.state /\ on.fresh = d.fresh
      /\ on.fades = d.fades /\ on.step = "recorded"
  BY <1>1 DEF Desk
<1>5. Idle \in Desk
  BY Facts, IdleEvident
<1> HIDE DEF on
<1>6. y \in Desk /\ (y = Idle \/ (y = on /\ d.fades))
  BY <1>4, <1>5
<1> HIDE DEF y
<1>7. \/ y = Idle
      \/ /\ y.knows = d.knows /\ y.state = d.state /\ y.fresh = d.fresh /\ y.fades = d.fades
         /\ d.step = "judged" /\ d.fades /\ y.step = "recorded"
  BY <1>1, <1>4, <1>6
<1> QED
  BY <1>2, <1>3, <1>6, <1>7, WritesKeep

LEMMA RetireKeeps ==
  ASSUME CourtAssumption, CourtInv, NEW s \in Sitting, Retire(s)
  PROVE  CourtInv'
<1>1. session[s].step = "recorded" /\ Evident(session[s], s \notin Scripts, verdicts, ClosedAt)
  BY DEF Retire, CourtInv, Evidence
<1>2. MayStand(s, "RETIRED")
  BY <1>1 DEF MayStand, Evident, Words
<1>3. Idle \in Desk
  BY Facts, IdleEvident
<1> QED
  BY <1>2, <1>3, WritesKeep DEF Retire

-----------------------------------------------------------------------------

LEMMA StutterKeeps ==
  ASSUME CourtAssumption, CourtInv, UNCHANGED courtVars
  PROVE  CourtInv'
<1>1. /\ cast' = cast /\ verdicts' = verdicts /\ registry' = registry /\ session' = session
      /\ trades' = trades /\ now' = now /\ ClosedAt' = ClosedAt
  BY DEF courtVars, ClosedAt
<1>2. now <= now'
  BY <1>1, Facts
<1> QED
  BY <1>1, <1>2, TradesKeep DEF CourtInv, CourtTypeOK, Chronicle

LEMMA CourtStarts == CourtAssumption /\ CourtInit => CourtInv
<1> SUFFICES ASSUME CourtAssumption, CourtInit PROVE CourtInv
  OBVIOUS
<1>1. /\ cast \in Casts /\ now = 1 /\ trades = {} /\ registry = NoRules /\ verdicts = <<>>
      /\ session = [s \in Sitting |-> Idle]
  BY DEF CourtInit
<1>2. /\ MaxCloses[cast] \in Nat /\ MaxVerdicts \in Nat
      /\ verdicts \in Seq(Rows) /\ Len(verdicts) = 0 /\ DOMAIN verdicts = {}
  BY <1>1 DEF CourtAssumption
<1>3. IsFiniteSet(trades) /\ Cardinality(trades) = 0
  BY <1>1, FS_EmptySet
<1>4. \A s \in Sitting : session[s] = Idle /\ Idle \in Desk /\ Evident(Idle, s \notin Scripts, verdicts, ClosedAt)
  BY <1>1, <1>2, IdleEvident
<1>5. CourtTypeOK
  <2>1. session \in [Sitting -> Desk]
    BY <1>1, <1>4
  <2> QED
    BY <1>1, <1>2, <1>3, <2>1 DEF CourtTypeOK, Instants, Rows, Desk
<1>6. OneRulebook /\ FreshEvidence /\ RetiredOnLiveTrades
  BY <1>2 DEF OneRulebook, FreshEvidence, RetiredOnLiveTrades
<1>7. Chronicle
  BY <1>1, <1>2, <1>3 DEF Chronicle
<1>8. \A s \in Sitting : Evidence(s)
  BY <1>4 DEF Evidence
<1> QED
  BY <1>5, <1>6, <1>7, <1>8 DEF CourtInv

(* Sessions of the runner and runs of the script, in any order: each keeps   *)
(* what the verdicts rest on.                                                *)
LEMMA CourtStep == CourtAssumption /\ CourtInv /\ [CourtNext]_courtVars => CourtInv'
<1> SUFFICES ASSUME CourtAssumption, CourtInv, [CourtNext]_courtVars PROVE CourtInv'
  OBVIOUS
<1>1. \A s \in cast : s \in Sitting
  BY Facts DEF CourtAssumption, Sitting
<1>2. ASSUME NEW net \in Results, Close(net) PROVE CourtInv'
  BY <1>2, CloseKeeps
<1>3. ASSUME NEW t \in trades, LandClose(t) PROVE CourtInv'
  BY <1>3, LandKeeps
<1>4. ASSUME NEW s \in cast, NEW read \in BOOLEAN, Begin(s, read) PROVE CourtInv'
  BY <1>1, <1>4, BeginKeeps
<1>5. ASSUME NEW s \in cast, NEW skilled \in BOOLEAN, Judge(s, skilled) PROVE CourtInv'
  BY <1>1, <1>5, JudgeKeeps
<1>6. ASSUME NEW s \in cast, RecordVerdict(s) PROVE CourtInv'
  BY <1>1, <1>6, RecordKeeps
<1>7. ASSUME NEW s \in cast, Retire(s) PROVE CourtInv'
  BY <1>1, <1>7, RetireKeeps
<1>8. ASSUME NEW s \in cast, Abort(s) PROVE CourtInv'
  BY <1>1, <1>8, AbortKeeps
<1>9. CASE UNCHANGED courtVars
  BY <1>9, StutterKeeps
<1> QED
  BY <1>2, <1>3, <1>4, <1>5, <1>6, <1>7, <1>8, <1>9 DEF CourtNext, Sit

(* Whatever builds hold sessions at once, and however a session is delayed   *)
(* between reading the history, judging and writing (snapshot.server.ts,     *)
(* store.server.ts, parole.ts): verdicts stand under one rulebook, a hypo-   *)
(* thesis that a session has read to be retired is convicted again by it     *)
(* only on enough trades closed since (one whose read fails, or was earlier, *)
(* knows of no retirement), and none is retired on the trades it was         *)
(* convicted on.                                                             *)
THEOREM CourtHolds == CourtSpec => []CourtOK
<1>1. CourtInit => CourtInv
  BY CourtStarts, CourtAssumption
<1>2. CourtInv /\ [CourtNext]_courtVars => CourtInv'
  BY CourtStep, CourtAssumption
<1>3. CourtInv => CourtOK
  BY DEF CourtInv, CourtOK
<1> QED
  BY <1>1, <1>2, <1>3, PTL DEF CourtSpec

-----------------------------------------------------------------------------
(* The candle replay *)

(* Candles whose close lies between their low and their high *)
SaneCandles == {k \in Candles : k.l <= k.c /\ k.c <= k.h}
Series == Seq(SaneCandles)

Hit(dir, k) == HitStop(dir, k) \/ HitTarget(dir, k)
MakerHit(dir, k) == HitStop(dir, k) \/ TargetThrough(dir, k)

(* More candles, of which the first are the same *)
Extends(q, r) == Len(q) <= Len(r) /\ \A i \in 1..Len(q) : r[i] = q[i]

LEMMA ReplayFacts ==
  /\ \A p \in Prices : p \in Int
  /\ PerMinute \in Nat /\ PerMinute > 0 /\ StopAt \in Nat /\ StopAt > 0 /\ TargetAt \in Nat /\ TargetAt > 0
  /\ FillWindow \in Nat /\ FillWindow > 0 /\ Hold \in Nat /\ Hold > 1 /\ Day \in Nat /\ Day > 0
  /\ Minutes \in Nat /\ Through \in Nat /\ Grace \in Nat
  /\ StopAt <= TargetAt /\ Nothing \notin Candles
<1>1. {PerMinute, StopAt, TargetAt, FillWindow, Hold, Day, Minutes} \subseteq Nat \ {0}
  BY ReplayAssumption DEF ReplayAssumption
<1>2. {Through, Grace, MaxFailures} \subseteq Nat /\ Hold > 1 /\ StopAt <= TargetAt /\ Prices \subseteq Int
  BY ReplayAssumption DEF ReplayAssumption
<1>3. Nothing \notin Candles
  BY ReplayAssumption DEF ReplayAssumption, Candles
<1> QED
  BY <1>1, <1>2, <1>3

LEMMA SaneFacts ==
  ASSUME NEW k \in SaneCandles
  PROVE  k.h \in Int /\ k.l \in Int /\ k.c \in Int /\ k.l <= k.c /\ k.c <= k.h
  BY ReplayFacts DEF SaneCandles, Candles

LEMMA SeriesFacts ==
  ASSUME NEW q \in Series
  PROVE  Len(q) \in Nat /\ DOMAIN q = 1..Len(q) /\ \A i \in 1..Len(q) : q[i] \in SaneCandles
  BY DEF Series

(* What a price does for one side it does against the other *)
LEMMA TargetIsStop ==
  ASSUME NEW dir \in Sides, NEW k \in SaneCandles, HitTarget(dir, k)
  PROVE  HitStop(-dir, k)
<1>1. k.h \in Int /\ k.l \in Int
  BY SaneFacts
<1>2. CASE dir = 1
  BY <1>1, <1>2, ReplayFacts DEF HitTarget, HitStop
<1>3. CASE dir = -1
  BY <1>1, <1>3, ReplayFacts DEF HitTarget, HitStop
<1> QED BY <1>2, <1>3 DEF Sides

LEMMA ThroughIsHit ==
  ASSUME NEW dir \in Sides, NEW k \in SaneCandles, TargetThrough(dir, k)
  PROVE  HitTarget(dir, k)
<1>1. k.h \in Int /\ k.l \in Int
  BY SaneFacts
<1> QED BY <1>1, ReplayFacts DEF HitTarget, TargetThrough, Sides

(* A close beyond the target was a hit of the target *)
LEMMA CloseWithin ==
  ASSUME NEW dir \in Sides, NEW k \in SaneCandles
  PROVE  /\ dir * k.c \in Int /\ (-dir) * k.c = -(dir * k.c)
         /\ ~HitTarget(dir, k) => dir * k.c <= TargetAt
         /\ ~TargetThrough(dir, k) => dir * k.c <= TargetAt + Through
<1>1. k.h \in Int /\ k.l \in Int /\ k.c \in Int /\ k.l <= k.c /\ k.c <= k.h
  BY SaneFacts
<1>2. CASE dir = 1
  BY <1>1, <1>2, ReplayFacts DEF HitTarget, TargetThrough
<1>3. CASE dir = -1
  BY <1>1, <1>3, ReplayFacts DEF HitTarget, TargetThrough
<1> QED BY <1>2, <1>3 DEF Sides

(* The earliest of the hits *)
LEMMA FirstIsLeast ==
  ASSUME NEW hits, hits \subseteq Nat, hits # {}
  PROVE  FirstOf(hits) \in hits /\ \A m \in hits : FirstOf(hits) <= m
  BY LeastNatural DEF FirstOf, Min

LEMMA FirstIsOnly ==
  ASSUME NEW hits, hits \subseteq Nat, NEW n \in hits, \A m \in hits : n <= m
  PROVE  FirstOf(hits) = n
<1>1. FirstOf(hits) \in hits /\ FirstOf(hits) <= n /\ n <= FirstOf(hits)
  BY FirstIsLeast
<1>2. FirstOf(hits) \in Nat /\ n \in Nat
  BY <1>1
<1> QED BY <1>1, <1>2

(* The four ways a replay ends *)
EndsStopped(dir, hits, q, x) ==
    \E n \in hits : (\A m \in hits : n <= m) /\ HitStop(dir, q[n]) /\ x = Stopped(n)
EndsOnTarget(dir, hits, q, x) ==
    \E n \in hits : (\A m \in hits : n <= m) /\ ~HitStop(dir, q[n]) /\ x = Result("target", TargetAt, n)
EndsInTime(dir, hits, last, q, x) ==
    hits = {} /\ Len(q) > last /\ x = Result("time", dir * q[last].c, last)
StillOpen(hits, last, q, x) == hits = {} /\ ~(Len(q) > last) /\ x = Nothing

LEMMA Decided ==
  ASSUME NEW dir, NEW q, NEW last, NEW hits, hits \subseteq Nat, NEW x, x = Decide(dir, hits, last, q)
  PROVE  \/ EndsStopped(dir, hits, q, x) \/ EndsOnTarget(dir, hits, q, x)
         \/ EndsInTime(dir, hits, last, q, x) \/ StillOpen(hits, last, q, x)
<1>1. CASE hits # {}
  <2>1. PICK n \in hits : n = FirstOf(hits) /\ \A m \in hits : n <= m
    BY <1>1, FirstIsLeast
  <2>2. CASE HitStop(dir, q[n])
    BY <1>1, <2>1, <2>2 DEF Decide, EndsStopped
  <2>3. CASE ~HitStop(dir, q[n])
    BY <1>1, <2>1, <2>3 DEF Decide, EndsOnTarget
  <2> QED BY <2>2, <2>3
<1>2. CASE hits = {}
  BY <1>2 DEF Decide, EndsInTime, StillOpen
<1> QED BY <1>1, <1>2

LEMMA Gains ==
  ASSUME NEW g, NEW n, NEW s
  PROVE  Stopped(n).gross = -StopAt /\ Result(s, g, n).gross = g
  BY DEF Stopped, Result

(* The hits of a walk and of a maker leg *)
Hits(dir, start, last, q) == {n \in start..Within(last, q) : Hit(dir, q[n])}
MakerHits(dir, start, last, q) == {n \in start..Within(last, q) : MakerHit(dir, q[n])}

LEMMA WithinFacts ==
  ASSUME NEW q \in Series, NEW last \in Nat
  PROVE  /\ Within(last, q) \in Nat /\ Within(last, q) <= last /\ Within(last, q) <= Len(q)
         /\ Len(q) > last => Within(last, q) = last
         /\ ~(Len(q) > last) => Within(last, q) = Len(q)
  BY SeriesFacts DEF Within

LEMMA HitFacts ==
  ASSUME NEW dir, NEW q \in Series, NEW last \in Nat, NEW start \in Nat \ {0}
  PROVE  /\ WalkFrom(dir, start, last, q) = Decide(dir, Hits(dir, start, last, q), last, q)
         /\ Hits(dir, start, last, q) \subseteq Nat /\ MakerHits(dir, start, last, q) \subseteq Nat
         /\ \A n : n \in Hits(dir, start, last, q) <=>
                       n \in Nat /\ start <= n /\ n <= last /\ n <= Len(q) /\ Hit(dir, q[n])
         /\ \A n : n \in MakerHits(dir, start, last, q) <=>
                       n \in Nat /\ start <= n /\ n <= last /\ n <= Len(q) /\ MakerHit(dir, q[n])
<1>1. Len(q) \in Nat
  BY SeriesFacts
<1>2. \A n : n \in start..Within(last, q) <=> n \in Nat /\ start <= n /\ n <= last /\ n <= Len(q)
  BY <1>1 DEF Within
<1>3. WalkFrom(dir, start, last, q) = Decide(dir, Hits(dir, start, last, q), last, q)
  BY DEF WalkFrom, Hits, Hit
<1> QED BY <1>2, <1>3 DEF Hits, MakerHits

LEMMA WalkFacts ==
  ASSUME NEW dir, NEW q \in Series
  PROVE  /\ Walk(dir, q) = Decide(dir, Hits(dir, 1, Hold, q), Hold, q)
         /\ Hits(dir, 1, Hold, q) \subseteq Nat
         /\ \A n : n \in Hits(dir, 1, Hold, q) <=>
                       n \in Nat /\ 1 <= n /\ n <= Hold /\ n <= Len(q) /\ Hit(dir, q[n])
<1>1. 1 \in Nat \ {0} /\ Hold \in Nat /\ Walk(dir, q) = WalkFrom(dir, 1, Hold, q)
  BY ReplayFacts DEF Walk
<1> QED BY <1>1, HitFacts

-----------------------------------------------------------------------------
(* Never both sides *)

LEMMA OneSideGains ==
  ASSUME NEW q \in Series, NEW dir \in Sides, ReplaySignal(dir, q) # Nothing
  PROVE  ~(ReplaySignal(dir, q).real > 0 /\ ReplaySignal(dir, q).mirror > 0)
<1> DEFINE H == Hits(dir, 1, Hold, q)
           M == Hits(-dir, 1, Hold, q)
           x == Walk(dir, q)
           y == Walk(-dir, q)
<1>1. /\ -dir \in Sides /\ -(-dir) = dir /\ Hold \in Nat /\ Hold > 1 /\ StopAt \in Nat
      /\ Len(q) \in Nat /\ \A i \in 1..Len(q) : q[i] \in SaneCandles
  BY ReplayFacts, SeriesFacts DEF Sides
<1>2. x # Nothing /\ y # Nothing /\ ReplaySignal(dir, q).real = x.gross /\ ReplaySignal(dir, q).mirror = y.gross
  BY DEF ReplaySignal
<1>3. x = Decide(dir, H, Hold, q) /\ H \subseteq Nat
      /\ \A n : n \in H <=> n \in Nat /\ 1 <= n /\ n <= Hold /\ n <= Len(q) /\ Hit(dir, q[n])
  BY WalkFacts
<1>4. y = Decide(-dir, M, Hold, q) /\ M \subseteq Nat
      /\ \A n : n \in M <=> n \in Nat /\ 1 <= n /\ n <= Hold /\ n <= Len(q) /\ Hit(-dir, q[n])
  BY WalkFacts
<1> HIDE DEF H, M, x, y
<1>5. \A n \in H : n \in Nat /\ q[n] \in SaneCandles /\ (HitTarget(dir, q[n]) => HitStop(-dir, q[n]) /\ n \in M)
  <2> TAKE n \in H
  <2>1. n \in Nat /\ n \in 1..Len(q) /\ q[n] \in SaneCandles
    BY <1>1, <1>3
  <2>2. HitTarget(dir, q[n]) => HitStop(-dir, q[n])
    BY <2>1, TargetIsStop
  <2> QED BY <1>3, <1>4, <2>1, <2>2 DEF Hit
<1>6. \A n \in M : n \in Nat /\ q[n] \in SaneCandles /\ (HitTarget(-dir, q[n]) => HitStop(dir, q[n]) /\ n \in H)
  <2> TAKE n \in M
  <2>1. n \in Nat /\ n \in 1..Len(q) /\ q[n] \in SaneCandles
    BY <1>1, <1>4
  <2>2. HitTarget(-dir, q[n]) => HitStop(dir, q[n])
    BY <1>1, <2>1, TargetIsStop
  <2> QED BY <1>3, <1>4, <2>1, <2>2 DEF Hit
<1>7. CASE EndsStopped(dir, H, q, x) \/ EndsStopped(-dir, M, q, y)
  <2>1. x.gross = -StopAt \/ y.gross = -StopAt
    BY <1>7, Gains DEF EndsStopped
  <2> QED BY <1>1, <1>2, <2>1
<1>8. CASE EndsOnTarget(dir, H, q, x) /\ ~EndsStopped(-dir, M, q, y)
  <2>1. PICK n \in H : (\A m \in H : n <= m) /\ ~HitStop(dir, q[n])
    BY <1>8 DEF EndsOnTarget
  <2>2. HitStop(-dir, q[n]) /\ n \in M
    BY <1>3, <1>5, <2>1 DEF Hit
  <2>3. EndsOnTarget(-dir, M, q, y)
    BY <1>2, <1>4, <1>8, <2>2, Decided DEF EndsInTime, StillOpen
  <2>4. PICK m \in M : (\A o \in M : m <= o) /\ ~HitStop(-dir, q[m])
    BY <2>3 DEF EndsOnTarget
  <2>5. HitTarget(-dir, q[m]) /\ m \in H
    BY <1>4, <1>6, <2>4 DEF Hit
  <2>6. n <= m /\ m <= n /\ n \in Nat /\ m \in Nat
    BY <1>5, <2>1, <2>2, <2>4, <2>5
  <2> QED BY <2>2, <2>4, <2>6
<1>9. CASE EndsInTime(dir, H, Hold, q, x) /\ ~EndsStopped(-dir, M, q, y)
  <2>1. H = {} /\ Len(q) > Hold /\ x = Result("time", dir * q[Hold].c, Hold)
    BY <1>9 DEF EndsInTime
  <2>2. ~EndsOnTarget(-dir, M, q, y)
    <3> SUFFICES ASSUME EndsOnTarget(-dir, M, q, y) PROVE FALSE
      OBVIOUS
    <3>1. PICK m \in M : ~HitStop(-dir, q[m])
      BY DEF EndsOnTarget
    <3>2. m \in H
      BY <1>4, <1>6, <3>1 DEF Hit
    <3> QED BY <2>1, <3>2
  <2>3. EndsInTime(-dir, M, Hold, q, y)
    BY <1>2, <1>4, <1>9, <2>2, Decided DEF StillOpen
  <2>4. q[Hold] \in SaneCandles
    BY <1>1, <2>1
  <2>5. x.gross = dir * q[Hold].c /\ y.gross = (-dir) * q[Hold].c
    BY <2>1, <2>3, Gains DEF EndsInTime
  <2>6. dir * q[Hold].c \in Int /\ (-dir) * q[Hold].c = -(dir * q[Hold].c)
    BY <2>4, CloseWithin
  <2> QED BY <1>2, <2>5, <2>6
<1> QED BY <1>2, <1>3, <1>7, <1>8, <1>9, Decided DEF StillOpen

(* The maker leg against a taker at the fill *)
LEMMA FillFacts ==
  ASSUME NEW q \in Series, NEW dir, Fill(dir, q) # 0
  PROVE  Fill(dir, q) \in 1..Len(q) /\ Fill(dir, q) <= FillWindow
<1> DEFINE hits == {n \in 1..Within(FillWindow, q) : FilledThrough(dir, q[n])}
<1>1. hits \subseteq Nat /\ Fill(dir, q) = FirstOf(hits)
  BY DEF Fill
<1>2. hits # {}
  BY <1>1 DEF FirstOf
<1>3. FirstOf(hits) \in hits
  BY <1>1, <1>2, FirstIsLeast
<1> QED BY <1>1, <1>3, WithinFacts, SeriesFacts, ReplayFacts

LEMMA MakerPays ==
  ASSUME NEW q \in Series, NEW dir \in Sides, NEW f \in 1..Len(q),
         AfterFill(dir, f, q) # Nothing
  PROVE  AfterFill(dir, f, q).gross <= WalkFrom(dir, f, f + Hold - 1, q).gross + Through
<1> DEFINE H == Hits(dir, f, f + Hold - 1, q)
           M == MakerHits(dir, f + 1, f + Hold - 1, q)
           y == AfterFill(dir, f, q)
           x == WalkFrom(dir, f, f + Hold - 1, q)
<1>1. PICK last \in Nat : last = f + Hold - 1 /\ f < last
  BY ReplayFacts, SeriesFacts
<1>2. /\ Len(q) \in Nat /\ \A i \in 1..Len(q) : q[i] \in SaneCandles
      /\ f \in Nat \ {0} /\ f + 1 \in Nat \ {0} /\ f <= Len(q) /\ q[f] \in SaneCandles
      /\ StopAt \in Nat /\ TargetAt \in Nat /\ Through \in Nat
  BY ReplayFacts, SeriesFacts
<1>3. x = Decide(dir, H, last, q) /\ H \subseteq Nat
      /\ \A n : n \in H <=> n \in Nat /\ f <= n /\ n <= last /\ n <= Len(q) /\ Hit(dir, q[n])
  BY <1>1, <1>2, HitFacts
<1>4. M \subseteq Nat
      /\ \A n : n \in M <=> n \in Nat /\ f + 1 <= n /\ n <= last /\ n <= Len(q) /\ MakerHit(dir, q[n])
  BY <1>1, <1>2, HitFacts
<1>5. y = IF HitStop(dir, q[f]) THEN Stopped(f) ELSE Decide(dir, M, last, q)
  BY <1>1 DEF AfterFill, MakerHits, MakerHit
<1>6. y # Nothing
  OBVIOUS
<1> HIDE DEF H, M, x, y
<1>7. \A n \in M : n \in H
  <2> TAKE n \in M
  <2>1. n \in Nat /\ f <= n /\ n <= last /\ n <= Len(q) /\ MakerHit(dir, q[n]) /\ q[n] \in SaneCandles
    BY <1>2, <1>4
  <2>2. Hit(dir, q[n])
    BY <2>1, ThroughIsHit DEF MakerHit, Hit
  <2> QED BY <1>3, <2>1, <2>2
<1>8. CASE HitStop(dir, q[f])
  <2>1. f \in H /\ \A m \in H : f <= m
    BY <1>1, <1>2, <1>3, <1>8 DEF Hit
  <2>2. FirstOf(H) = f
    BY <1>3, <2>1, FirstIsOnly
  <2>3. x = Stopped(f)
    BY <1>3, <1>8, <2>1, <2>2 DEF Decide
  <2>4. x.gross = -StopAt /\ y.gross = -StopAt
    BY <1>5, <1>8, <2>3, Gains
  <2> QED BY <1>2, <2>4 DEF x, y
<1>9. CASE ~HitStop(dir, q[f])
  <2>1. y = Decide(dir, M, last, q)
    BY <1>5, <1>9
  <2>2. CASE EndsStopped(dir, H, q, x)
    <3>1. PICK n \in H : (\A m \in H : n <= m) /\ HitStop(dir, q[n]) /\ x = Stopped(n)
      BY <2>2 DEF EndsStopped
    <3>2. n \in Nat /\ f <= n /\ n # f
      BY <1>3, <1>9, <3>1
    <3>3. n \in M
      BY <1>2, <1>3, <1>4, <3>1, <3>2 DEF MakerHit
    <3>4. \A m \in M : n <= m
      BY <1>7, <3>1
    <3>5. FirstOf(M) = n
      BY <1>4, <3>3, <3>4, FirstIsOnly
    <3>6. y = Stopped(n)
      BY <2>1, <3>1, <3>3, <3>5 DEF Decide
    <3>7. x.gross = -StopAt /\ y.gross = -StopAt
      BY <3>1, <3>6, Gains
    <3> QED BY <1>2, <3>7 DEF x, y
  <2>3. CASE EndsOnTarget(dir, H, q, x)
    <3>1. x.gross = TargetAt
      BY <2>3, Gains DEF EndsOnTarget
    <3>2. CASE EndsStopped(dir, M, q, y)
      <4>1. y.gross = -StopAt
        BY <3>2, Gains DEF EndsStopped
      <4> QED BY <1>2, <3>1, <4>1 DEF x, y
    <3>3. CASE EndsOnTarget(dir, M, q, y)
      <4>1. y.gross = TargetAt
        BY <3>3, Gains DEF EndsOnTarget
      <4> QED BY <1>2, <3>1, <4>1 DEF x, y
    <3>4. CASE EndsInTime(dir, M, last, q, y)
      <4>1. M = {} /\ Len(q) > last /\ y.gross = dir * q[last].c
        BY <3>4, Gains DEF EndsInTime
      <4>2. last \in 1..Len(q) /\ f + 1 <= last /\ last <= last /\ last <= Len(q) /\ q[last] \in SaneCandles
        BY <1>1, <1>2, <4>1
      <4>3. ~MakerHit(dir, q[last])
        BY <1>1, <1>4, <4>1, <4>2
      <4>4. y.gross <= TargetAt + Through
        BY <4>1, <4>2, <4>3, CloseWithin DEF MakerHit
      <4> QED BY <3>1, <4>4 DEF x, y
    <3> QED BY <1>4, <1>6, <2>1, <3>2, <3>3, <3>4, Decided DEF StillOpen
  <2>4. CASE EndsInTime(dir, H, last, q, x)
    <3>1. H = {} /\ Len(q) > last /\ x.gross = dir * q[last].c
      BY <2>4, Gains DEF EndsInTime
    <3>2. M = {}
      BY <1>7, <3>1
    <3>3. y = Result("time", dir * q[last].c, last)
      BY <2>1, <3>1, <3>2 DEF Decide
    <3>4. q[last] \in SaneCandles
      BY <1>1, <1>2, <3>1
    <3>5. dir * q[last].c \in Int /\ y.gross = dir * q[last].c
      BY <3>3, <3>4, CloseWithin, Gains
    <3> QED BY <1>2, <3>1, <3>5 DEF x, y
  <2>5. ~StillOpen(H, last, q, x)
    <3> SUFFICES ASSUME StillOpen(H, last, q, x) PROVE FALSE
      OBVIOUS
    <3>1. M = {} /\ ~(Len(q) > last)
      BY <1>7 DEF StillOpen
    <3> QED BY <1>6, <2>1, <3>1 DEF Decide
  <2> QED BY <1>3, <2>2, <2>3, <2>4, <2>5, Decided
<1> QED BY <1>8, <1>9
-----------------------------------------------------------------------------
(* Outcomes are final *)

LEMMA DecidedStays ==
  ASSUME NEW q \in Series, NEW r \in Series, Extends(q, r), NEW dir, NEW last \in Nat \ {0},
         NEW H, H \subseteq Nat, NEW G, G \subseteq Nat,
         \A n : n \in H <=> n \in G /\ n <= Len(q),
         \A n \in G : n > 0 /\ n <= last,
         Decide(dir, H, last, q) # Nothing
  PROVE  Decide(dir, G, last, r) = Decide(dir, H, last, q)
<1>1. Len(q) \in Nat /\ Len(r) \in Nat /\ Len(q) <= Len(r) /\ \A i \in 1..Len(q) : r[i] = q[i]
  BY SeriesFacts DEF Extends
<1>2. CASE H # {}
  <2>1. PICK n \in H : n = FirstOf(H) /\ \A m \in H : n <= m
    BY <1>2, FirstIsLeast
  <2>2. n \in G /\ n \in Nat /\ n <= Len(q) /\ r[n] = q[n]
    BY <1>1, <2>1
  <2>3. \A m \in G : n <= m
    BY <1>1, <2>1, <2>2
  <2>4. FirstOf(G) = n
    BY <2>2, <2>3, FirstIsOnly
  <2> QED BY <1>2, <2>1, <2>2, <2>4 DEF Decide
<1>3. CASE H = {}
  <2>1. Len(q) > last
    BY <1>3 DEF Decide
  <2>2. G = {}
    BY <1>1, <1>3, <2>1
  <2>3. r[last] = q[last] /\ Len(r) > last
    BY <1>1, <2>1
  <2> QED BY <1>3, <2>1, <2>2, <2>3 DEF Decide
<1> QED BY <1>2, <1>3

LEMMA WalkStays ==
  ASSUME NEW q \in Series, NEW r \in Series, Extends(q, r), NEW dir, Walk(dir, q) # Nothing
  PROVE  Walk(dir, r) = Walk(dir, q)
<1> DEFINE H == Hits(dir, 1, Hold, q)
           G == Hits(dir, 1, Hold, r)
<1>1. Len(q) \in Nat /\ Len(r) \in Nat /\ Len(q) <= Len(r) /\ \A i \in 1..Len(q) : r[i] = q[i]
  BY SeriesFacts DEF Extends
<1>2. Walk(dir, q) = Decide(dir, H, Hold, q) /\ H \subseteq Nat
      /\ \A n : n \in H <=> n \in Nat /\ 1 <= n /\ n <= Hold /\ n <= Len(q) /\ Hit(dir, q[n])
  BY WalkFacts
<1>3. Walk(dir, r) = Decide(dir, G, Hold, r) /\ G \subseteq Nat
      /\ \A n : n \in G <=> n \in Nat /\ 1 <= n /\ n <= Hold /\ n <= Len(r) /\ Hit(dir, r[n])
  BY WalkFacts
<1> HIDE DEF H, G
<1>4. \A n : n \in H <=> n \in G /\ n <= Len(q)
  BY <1>1, <1>2, <1>3
<1>5. Hold \in Nat \ {0} /\ \A n \in G : n > 0 /\ n <= Hold
  BY <1>3, ReplayFacts
<1> QED BY <1>2, <1>3, <1>4, <1>5, DecidedStays

(* An order is filled for good, and once its window is over for good not *)
LEMMA FillStays ==
  ASSUME NEW q \in Series, NEW r \in Series, Extends(q, r), NEW dir,
         Fill(dir, q) # 0 \/ Len(q) >= FillWindow
  PROVE  Fill(dir, r) = Fill(dir, q)
<1> DEFINE H == {n \in 1..Within(FillWindow, q) : FilledThrough(dir, q[n])}
           G == {n \in 1..Within(FillWindow, r) : FilledThrough(dir, r[n])}
<1>1. Len(q) \in Nat /\ Len(r) \in Nat /\ Len(q) <= Len(r) /\ \A i \in 1..Len(q) : r[i] = q[i]
  BY SeriesFacts DEF Extends
<1>2. FillWindow \in Nat
  BY ReplayFacts
<1>3. H \subseteq Nat /\ G \subseteq Nat
      /\ (\A n : n \in H <=> n \in Nat /\ 1 <= n /\ n <= FillWindow /\ n <= Len(q) /\ FilledThrough(dir, q[n]))
      /\ \A n : n \in G <=> n \in Nat /\ 1 <= n /\ n <= FillWindow /\ n <= Len(r) /\ FilledThrough(dir, r[n])
  <2>1. \A n : n \in 1..Within(FillWindow, q) <=> n \in Nat /\ 1 <= n /\ n <= FillWindow /\ n <= Len(q)
    BY <1>1, <1>2 DEF Within
  <2>2. \A n : n \in 1..Within(FillWindow, r) <=> n \in Nat /\ 1 <= n /\ n <= FillWindow /\ n <= Len(r)
    BY <1>1, <1>2 DEF Within
  <2> QED BY <2>1, <2>2
<1>4. Fill(dir, q) = FirstOf(H) /\ Fill(dir, r) = FirstOf(G)
  BY DEF Fill
<1> HIDE DEF H, G
<1>5. CASE H # {}
  <2>1. PICK n \in H : n = FirstOf(H) /\ \A m \in H : n <= m
    BY <1>3, <1>5, FirstIsLeast
  <2>2. n \in G /\ n \in Nat /\ n <= Len(q)
    BY <1>1, <1>3, <2>1
  <2>3. \A m \in G : n <= m
    BY <1>1, <1>3, <2>1, <2>2
  <2> QED BY <1>3, <1>4, <2>1, <2>2, <2>3, FirstIsOnly
<1>6. CASE H = {}
  <2>1. Len(q) >= FillWindow
    BY <1>4, <1>6 DEF FirstOf
  <2>2. G = {}
    BY <1>1, <1>2, <1>3, <1>6, <2>1
  <2> QED BY <1>4, <1>6, <2>2
<1> QED BY <1>5, <1>6

LEMMA AfterFillStays ==
  ASSUME NEW q \in Series, NEW r \in Series, Extends(q, r), NEW dir, NEW f \in 1..Len(q),
         AfterFill(dir, f, q) # Nothing
  PROVE  AfterFill(dir, f, r) = AfterFill(dir, f, q)
<1> DEFINE H == MakerHits(dir, f + 1, f + Hold - 1, q)
           G == MakerHits(dir, f + 1, f + Hold - 1, r)
<1>1. Len(q) \in Nat /\ Len(r) \in Nat /\ Len(q) <= Len(r) /\ \A i \in 1..Len(q) : r[i] = q[i]
  BY SeriesFacts DEF Extends
<1>2. PICK last \in Nat \ {0} : last = f + Hold - 1
  BY <1>1, ReplayFacts
<1>3. f \in Nat /\ f + 1 \in Nat \ {0} /\ r[f] = q[f]
  BY <1>1
<1>4. H \subseteq Nat
      /\ \A n : n \in H <=> n \in Nat /\ f + 1 <= n /\ n <= last /\ n <= Len(q) /\ MakerHit(dir, q[n])
  BY <1>2, <1>3, HitFacts
<1>5. G \subseteq Nat
      /\ \A n : n \in G <=> n \in Nat /\ f + 1 <= n /\ n <= last /\ n <= Len(r) /\ MakerHit(dir, r[n])
  BY <1>2, <1>3, HitFacts
<1>6. /\ AfterFill(dir, f, q) = IF HitStop(dir, q[f]) THEN Stopped(f) ELSE Decide(dir, H, last, q)
      /\ AfterFill(dir, f, r) = IF HitStop(dir, r[f]) THEN Stopped(f) ELSE Decide(dir, G, last, r)
  BY <1>2 DEF AfterFill, MakerHits, MakerHit
<1> HIDE DEF H, G
<1>7. CASE HitStop(dir, q[f])
  BY <1>3, <1>6, <1>7
<1>8. CASE ~HitStop(dir, q[f])
  <2>1. \A n : n \in H <=> n \in G /\ n <= Len(q)
    BY <1>1, <1>3, <1>4, <1>5
  <2>2. \A n \in G : n > 0 /\ n <= last
    BY <1>3, <1>5
  <2>3. Decide(dir, H, last, q) # Nothing
    BY <1>6, <1>8
  <2>4. Decide(dir, G, last, r) = Decide(dir, H, last, q)
    BY <1>4, <1>5, <2>1, <2>2, <2>3, DecidedStays
  <2> QED BY <1>3, <1>6, <1>8, <2>4
<1> QED BY <1>7, <1>8

LEMMA MakerStays ==
  ASSUME NEW q \in Series, NEW r \in Series, Extends(q, r), NEW dir, MakerLeg(dir, q) # Nothing
  PROVE  MakerLeg(dir, r) = MakerLeg(dir, q)
<1>1. CASE Fill(dir, q) # 0
  <2>1. Fill(dir, r) = Fill(dir, q) /\ Fill(dir, q) \in 1..Len(q)
    BY <1>1, FillStays, FillFacts
  <2>2. MakerLeg(dir, q) = AfterFill(dir, Fill(dir, q), q) /\ MakerLeg(dir, r) = AfterFill(dir, Fill(dir, q), r)
    BY <1>1, <2>1 DEF MakerLeg
  <2> QED BY <2>1, <2>2, AfterFillStays
<1>2. CASE Fill(dir, q) = 0
  <2>1. Len(q) >= FillWindow
    BY <1>2 DEF MakerLeg
  <2>2. Len(r) >= FillWindow
    BY <2>1, SeriesFacts, ReplayFacts DEF Extends
  <2>3. Fill(dir, r) = 0
    BY <1>2, <2>1, FillStays
  <2> QED BY <1>2, <2>1, <2>2, <2>3 DEF MakerLeg
<1> QED BY <1>1, <1>2

LEMMA SignalStays ==
  ASSUME NEW q \in Series, NEW r \in Series, Extends(q, r), NEW dir, ReplaySignal(dir, q) # Nothing
  PROVE  ReplaySignal(dir, r) = ReplaySignal(dir, q)
<1>1. Walk(dir, q) # Nothing /\ Walk(-dir, q) # Nothing
  BY DEF ReplaySignal
<1>2. Walk(dir, r) = Walk(dir, q) /\ Walk(-dir, r) = Walk(-dir, q)
  BY <1>1, WalkStays
<1> QED BY <1>2 DEF ReplaySignal

LEMMA RestingStays ==
  ASSUME NEW q \in Series, NEW r \in Series, Extends(q, r), NEW dir, ReplayMaker(dir, q) # Nothing
  PROVE  ReplayMaker(dir, r) = ReplayMaker(dir, q)
<1>1. MakerLeg(dir, q) # Nothing
  BY DEF ReplayMaker
<1>2. MakerLeg(dir, r) = MakerLeg(dir, q)
  BY <1>1, MakerStays
<1>3. CASE MakerLeg(dir, q) = Unfilled
  BY <1>2, <1>3 DEF ReplayMaker
<1>4. CASE MakerLeg(dir, q) # Unfilled
  <2>1. MakerLeg(-dir, q) # Nothing
    BY <1>1, <1>4 DEF ReplayMaker
  <2>2. MakerLeg(-dir, r) = MakerLeg(-dir, q)
    BY <2>1, MakerStays
  <2> QED BY <1>2, <2>2 DEF ReplayMaker
<1> QED BY <1>3, <1>4

LEMMA ComparisonStays ==
  ASSUME NEW q \in Series, NEW r \in Series, Extends(q, r)
  PROVE  /\ Compared(q) \subseteq Compared(r) /\ Tried(q) \subseteq Tried(r)
         /\ Filled(q) = Filled(r) \cap Tried(q)
<1>1. \A dir \in Sides : ReplayMaker(dir, q) # Nothing => ReplayMaker(dir, r) = ReplayMaker(dir, q)
  BY RestingStays
<1>2. \A dir \in Sides : ReplaySignal(dir, q) # Nothing => ReplaySignal(dir, r) = ReplaySignal(dir, q)
  BY SignalStays
<1>3. Tried(q) \subseteq Tried(r)
  BY <1>1 DEF Tried
<1>4. Filled(q) = Filled(r) \cap Tried(q)
  BY <1>1, <1>3 DEF Tried, Filled
<1>5. \A dir \in Filled(q) : dir \in Filled(r) /\ ReplayMaker(dir, r) = ReplayMaker(dir, q)
  BY <1>1, <1>4 DEF Tried, Filled
<1>6. ASSUME NEW dir \in Sides, ReplaySignal(dir, q) # Nothing
      PROVE  <<"taker", dir, ReplaySignal(dir, q)>> \in Compared(r)
  <2>1. ReplaySignal(dir, r) = ReplaySignal(dir, q) /\ dir \in {d \in Sides : ReplaySignal(d, r) # Nothing}
    BY <1>2, <1>6
  <2> QED BY <2>1 DEF Compared
<1>7. ASSUME NEW dir \in Filled(q)
      PROVE  <<"maker", dir, ReplayMaker(dir, q)>> \in Compared(r)
  BY <1>5 DEF Compared
<1>8. \A c \in Compared(q) : c \in Compared(r)
  <2> TAKE c \in Compared(q)
  <2>1. \/ \E dir \in Sides : ReplaySignal(dir, q) # Nothing /\ c = <<"taker", dir, ReplaySignal(dir, q)>>
        \/ \E dir \in Filled(q) : c = <<"maker", dir, ReplayMaker(dir, q)>>
    BY DEF Compared
  <2> QED BY <1>6, <1>7, <2>1
<1> QED BY <1>3, <1>4, <1>8

-----------------------------------------------------------------------------
(* The feed *)

MirrorRows == [ok : BOOLEAN, gross : Grosses]

Chart ==
    /\ candles \in Series /\ Len(candles) <= Minutes
    /\ current \in SaneCandles \cup {Nothing} /\ (current # Nothing => current.n < PerMinute)
    /\ side \in Sides

Days == \A e \in cache : e.day \in Nat /\ Len(e.candles) <= Day

(* What a mirror computed on the served candles s, of which those of q are
   closed, owes the closed ones: its stop was not preceded by any hit, and its
   exit in time is the close of a closed candle *)
StopSeen(q, s, dir) ==
    \E n \in 1..Hold : /\ n <= Len(s) /\ HitStop(dir, s[n])
                       /\ \A m \in 1..(n - 1) : ~Hit(dir, q[m])
TimeSeen(x, q, dir) ==
    /\ Len(q) >= Hold /\ \A m \in 1..Hold : ~Hit(dir, q[m])
    /\ x.gross = dir * q[Hold].c
Earned(x, q, s, dir) ==
    x.ok => \/ x.gross = TargetAt
            \/ x.gross = -StopAt /\ StopSeen(q, s, dir)
            \/ TimeSeen(x, q, dir)

MirrorsEarned ==
    /\ mirror \in MirrorRows \cup {Nothing} /\ fetched \in [Mirrorers -> MirrorRows \cup {Nothing}]
    /\ mirror # Nothing => Earned(mirror, candles, Served, -side)
    /\ \A s \in Mirrorers : fetched[s] # Nothing => Earned(fetched[s], candles, Served, -side)

ReplayInv == Chart /\ Days /\ CacheIsClosed /\ MirrorsEarned

(* A candle that is still moving only widens *)
Advances(q, s, r, t) ==
    /\ Extends(q, r)
    /\ s \in Series /\ t \in Series /\ Len(s) <= Len(q) + 1 /\ Len(s) <= Len(t)
    /\ \A i \in 1..Len(s) : s[i].h <= t[i].h /\ t[i].l <= s[i].l

LEMMA ServedFacts ==
  ASSUME Chart
  PROVE  /\ Served \in Series /\ Len(candles) <= Len(Served) /\ Len(Served) <= Len(candles) + 1
         /\ \A i \in 1..Len(candles) : Served[i] = candles[i]
<1>1. CASE current = Nothing
  <2>1. Served = candles
    BY <1>1 DEF Served
  <2> QED BY <2>1, SeriesFacts DEF Chart
<1>2. CASE current # Nothing
  <2>1. Served = Append(candles, current) /\ current \in SaneCandles /\ candles \in Series
    BY <1>2 DEF Served, Chart
  <2> QED BY <2>1 DEF Series
<1> QED BY <1>1, <1>2

LEMMA HighLow ==
  ASSUME NEW a \in Int, NEW b \in Int
  PROVE  /\ Max({a, b}) \in {a, b} /\ Max({a, b}) >= a /\ Max({a, b}) >= b
         /\ Min({a, b}) \in {a, b} /\ Min({a, b}) <= a /\ Min({a, b}) <= b
<1>1. CASE a <= b
  <2>1. b \in {a, b} /\ \A y \in {a, b} : b >= y
    BY <1>1
  <2>2. a \in {a, b} /\ \A y \in {a, b} : a <= y
    BY <1>1
  <2>3. Max({a, b}) \in {a, b} /\ \A y \in {a, b} : Max({a, b}) >= y
    BY <2>1 DEF Max
  <2>4. Min({a, b}) \in {a, b} /\ \A y \in {a, b} : Min({a, b}) <= y
    BY <2>2 DEF Min
  <2> QED BY <2>3, <2>4
<1>2. CASE ~(a <= b)
  <2>1. a \in {a, b} /\ \A y \in {a, b} : a >= y
    BY <1>2
  <2>2. b \in {a, b} /\ \A y \in {a, b} : b <= y
    BY <1>2
  <2>3. Max({a, b}) \in {a, b} /\ \A y \in {a, b} : Max({a, b}) >= y
    BY <2>1 DEF Max
  <2>4. Min({a, b}) \in {a, b} /\ \A y \in {a, b} : Min({a, b}) <= y
    BY <2>2 DEF Min
  <2> QED BY <2>3, <2>4
<1> QED BY <1>1, <1>2

LEMMA ExtendedFacts ==
  ASSUME NEW k \in SaneCandles, k.n < PerMinute, NEW p \in Prices
  PROVE  /\ Extended(k, p) \in SaneCandles /\ Extended(k, p).n = k.n + 1
         /\ k.h <= Extended(k, p).h /\ Extended(k, p).l <= k.l
<1>1. k.h \in Prices /\ k.l \in Prices /\ k.n \in 1..PerMinute /\ k.h \in Int /\ k.l \in Int /\ p \in Int
  BY ReplayFacts DEF SaneCandles, Candles
<1>2. PICK h, l : /\ h = Max({k.h, p}) /\ l = Min({k.l, p})
  OBVIOUS
<1>3. h \in {k.h, p} /\ l \in {k.l, p} /\ k.h <= h /\ p <= h /\ l <= k.l /\ l <= p
  BY <1>1, <1>2, HighLow
<1>4. Extended(k, p) = [h |-> h, l |-> l, c |-> p, n |-> k.n + 1]
  BY <1>2 DEF Extended
<1>5. h \in Prices /\ l \in Prices /\ k.n + 1 \in 1..PerMinute
  BY <1>1, <1>3, ReplayFacts
<1> QED BY <1>1, <1>3, <1>4, <1>5 DEF SaneCandles, Candles

LEMMA FirstFacts ==
  ASSUME NEW p \in Prices
  PROVE  First(p) \in SaneCandles /\ First(p).n = 1
  BY ReplayFacts DEF First, SaneCandles, Candles

LEMMA QuoteAdvances ==
  ASSUME Chart, NEW p \in Prices, Quote(p)
  PROVE  Chart' /\ Advances(candles, Served, candles', Served')
<1>1. PICK k : k = IF current = Nothing THEN First(p) ELSE Extended(current, p)
  OBVIOUS
<1>2. candles \in Series /\ Len(candles) < Minutes /\ side' = side /\ side \in Sides
      /\ candles' = (IF k.n = PerMinute THEN Append(candles, k) ELSE candles)
      /\ current' = (IF k.n = PerMinute THEN Nothing ELSE k)
  BY <1>1 DEF Quote, Chart
<1>3. k \in SaneCandles /\ k # Nothing /\ k.n \in Nat /\ k.n <= PerMinute
  <2>1. k \in SaneCandles
    BY <1>1, ExtendedFacts, FirstFacts DEF Chart
  <2> QED BY <2>1, ReplayFacts DEF SaneCandles, Candles
<1>4. Append(candles, k) \in Series /\ Len(Append(candles, k)) = Len(candles) + 1
      /\ Append(candles, k)[Len(candles) + 1] = k
      /\ \A i \in 1..Len(candles) : Append(candles, k)[i] = candles[i]
  BY <1>2, <1>3 DEF Series
<1>5. Len(candles) \in Nat /\ Minutes \in Nat /\ PerMinute \in Nat
  BY <1>2, SeriesFacts, ReplayFacts
<1>6. Extends(candles, candles')
  BY <1>2, <1>4, <1>5 DEF Extends
<1>7. Served' = Append(candles, k)
  <2>1. CASE k.n = PerMinute
    BY <1>2, <2>1 DEF Served
  <2>2. CASE k.n # PerMinute
    BY <1>2, <1>3, <2>2 DEF Served
  <2> QED BY <2>1, <2>2
<1>8. Chart'
  <2>1. candles' \in Series /\ Len(candles') <= Minutes
    BY <1>2, <1>4, <1>5
  <2>2. current' \in SaneCandles \cup {Nothing} /\ (current' # Nothing => current'.n < PerMinute)
    BY <1>2, <1>3, <1>5
  <2> QED BY <1>2, <2>1, <2>2 DEF Chart
<1>9. Served \in Series /\ Len(Served) <= Len(candles) + 1
  BY ServedFacts
<1>10. \A i \in 1..Len(candles) : candles[i].h \in Int /\ candles[i].l \in Int
  BY <1>2, SeriesFacts, SaneFacts
<1>11. Len(Served) <= Len(Served') /\ \A i \in 1..Len(Served) : Served[i].h <= Served'[i].h /\ Served'[i].l <= Served[i].l
  <2>1. CASE current = Nothing
    <3>1. Served = candles
      BY <2>1 DEF Served
    <3> QED BY <1>4, <1>5, <1>7, <1>10, <3>1
  <2>2. CASE current # Nothing
    <3>1. Served = Append(candles, current) /\ current \in SaneCandles
      BY <2>2 DEF Served, Chart
    <3>2. Len(Served) = Len(candles) + 1 /\ Served[Len(candles) + 1] = current
          /\ \A i \in 1..Len(candles) : Served[i] = candles[i]
      BY <1>2, <3>1 DEF Series
    <3>3. current.h <= k.h /\ k.l <= current.l
      BY <1>1, <2>2, <3>1, ExtendedFacts DEF Chart
    <3>4. \A i \in 1..Len(Served) : i \in 1..Len(candles) \/ i = Len(candles) + 1
      BY <1>5, <3>2
    <3> QED BY <1>4, <1>5, <1>7, <1>10, <3>2, <3>3, <3>4
  <2> QED BY <2>1, <2>2
<1> QED BY <1>4, <1>6, <1>7, <1>8, <1>9, <1>11 DEF Advances

LEMMA EarnedStays ==
  ASSUME NEW q \in Series, NEW r \in Series, NEW s, NEW t, Advances(q, s, r, t),
         NEW dir \in Sides, NEW x, Earned(x, q, s, dir)
  PROVE  Earned(x, r, t, dir)
<1>1. Len(q) \in Nat /\ Len(r) \in Nat /\ Len(q) <= Len(r) /\ \A i \in 1..Len(q) : r[i] = q[i]
  BY SeriesFacts DEF Advances, Extends
<1>2. Len(s) \in Nat /\ Len(t) \in Nat /\ Len(s) <= Len(q) + 1 /\ Len(s) <= Len(t)
      /\ \A i \in 1..Len(s) : /\ s[i].h <= t[i].h /\ t[i].l <= s[i].l
                              /\ s[i].h \in Int /\ s[i].l \in Int /\ t[i].h \in Int /\ t[i].l \in Int
  <2>1. s \in Series /\ t \in Series /\ Len(s) <= Len(q) + 1 /\ Len(s) <= Len(t)
        /\ \A i \in 1..Len(s) : s[i].h <= t[i].h /\ t[i].l <= s[i].l
    BY DEF Advances
  <2>2. \A i \in 1..Len(s) : s[i] \in SaneCandles /\ t[i] \in SaneCandles
    BY <2>1, SeriesFacts
  <2> QED BY <2>1, <2>2, SeriesFacts, SaneFacts
<1>3. Hold \in Nat /\ StopAt \in Nat
  BY ReplayFacts
<1>4. ASSUME StopSeen(q, s, dir) PROVE StopSeen(r, t, dir)
  <2>1. PICK n \in 1..Hold : /\ n <= Len(s) /\ HitStop(dir, s[n])
                             /\ \A m \in 1..(n - 1) : ~Hit(dir, q[m])
    BY <1>4 DEF StopSeen
  <2>2. HitStop(dir, t[n])
    <3>1. n \in 1..Len(s)
      BY <1>2, <2>1
    <3> QED BY <1>2, <1>3, <2>1, <3>1 DEF HitStop
  <2>3. \A m \in 1..(n - 1) : m \in 1..Len(q)
    BY <1>1, <1>2, <1>3, <2>1
  <2>4. \A m \in 1..(n - 1) : ~Hit(dir, r[m])
    BY <1>1, <2>1, <2>3
  <2>5. n <= Len(t)
    BY <1>2, <1>3, <2>1
  <2> QED BY <2>2, <2>4, <2>5 DEF StopSeen
<1>5. ASSUME TimeSeen(x, q, dir) PROVE TimeSeen(x, r, dir)
  <2>1. Len(q) >= Hold /\ (\A m \in 1..Hold : ~Hit(dir, q[m])) /\ x.gross = dir * q[Hold].c
    BY <1>5 DEF TimeSeen
  <2>2. \A m \in 1..Hold : r[m] = q[m]
    BY <1>1, <1>3, <2>1
  <2>3. Hold \in 1..Hold
    BY ReplayFacts
  <2> QED BY <1>1, <1>3, <2>1, <2>2, <2>3 DEF TimeSeen
<1> QED BY <1>4, <1>5 DEF Earned

(* What the served candles decide *)
LEMMA WalkEarns ==
  ASSUME NEW q \in Series, NEW s \in Series, NEW dir \in Sides, NEW x,
         Len(q) <= Len(s), Len(s) <= Len(q) + 1, \A i \in 1..Len(q) : s[i] = q[i],
         Walk(dir, s) # Nothing, x = [ok |-> TRUE, gross |-> Walk(dir, s).gross]
  PROVE  Earned(x, q, s, dir) /\ x \in MirrorRows
<1> DEFINE H == Hits(dir, 1, Hold, s)
           w == Walk(dir, s)
<1>1. w = Decide(dir, H, Hold, s) /\ H \subseteq Nat
      /\ \A n : n \in H <=> n \in Nat /\ 1 <= n /\ n <= Hold /\ n <= Len(s) /\ Hit(dir, s[n])
  BY WalkFacts
<1>2. Len(q) \in Nat /\ Len(s) \in Nat /\ Hold \in Nat /\ Hold > 1
  BY SeriesFacts, ReplayFacts
<1>3. w # Nothing /\ x = [ok |-> TRUE, gross |-> w.gross]
  OBVIOUS
<1> HIDE DEF H, w
<1>4. -StopAt \in Grosses /\ TargetAt \in Grosses
  BY DEF Grosses
<1>5. CASE EndsStopped(dir, H, s, w)
  <2>1. PICK n \in H : (\A m \in H : n <= m) /\ HitStop(dir, s[n]) /\ w = Stopped(n)
    BY <1>5 DEF EndsStopped
  <2>2. n \in 1..Hold /\ n <= Len(s)
    BY <1>1, <1>2, <2>1
  <2>3. \A m \in 1..(n - 1) : ~Hit(dir, q[m])
    <3> SUFFICES ASSUME NEW m \in 1..(n - 1), Hit(dir, q[m]) PROVE FALSE
      OBVIOUS
    <3>1. m \in 1..Len(q) /\ m \in Nat /\ 1 <= m /\ m < n /\ m <= Hold /\ m <= Len(s)
      BY <1>2, <2>2
    <3>2. m \in H
      BY <1>1, <3>1
    <3> QED BY <2>1, <2>2, <3>1, <3>2
  <2>4. x.gross = -StopAt
    BY <1>3, <2>1, Gains
  <2> QED BY <1>3, <1>4, <2>1, <2>2, <2>3, <2>4 DEF Earned, StopSeen, MirrorRows
<1>6. CASE EndsOnTarget(dir, H, s, w)
  <2>1. x.gross = TargetAt
    BY <1>3, <1>6, Gains DEF EndsOnTarget
  <2> QED BY <1>3, <1>4, <2>1 DEF Earned, MirrorRows
<1>7. CASE EndsInTime(dir, H, Hold, s, w)
  <2>1. H = {} /\ Len(s) > Hold /\ w.gross = dir * s[Hold].c
    BY <1>7, Gains DEF EndsInTime
  <2>2. Len(q) >= Hold /\ \A m \in 1..Hold : m \in 1..Len(q) /\ m \in 1..Len(s) /\ s[m] = q[m]
    BY <1>2, <2>1
  <2>3. \A m \in 1..Hold : ~Hit(dir, q[m])
    BY <1>1, <1>2, <2>1, <2>2
  <2>4. s[Hold] = q[Hold] /\ s[Hold] \in SaneCandles
    BY <1>2, <2>2, SeriesFacts
  <2>5. x.gross = dir * q[Hold].c
    BY <1>3, <2>1, <2>4
  <2>6. x.gross \in Grosses
    <3>1. q[Hold].c \in Prices /\ q[Hold].c \in Int
      BY <2>4, SaneFacts DEF SaneCandles, Candles
    <3>2. CASE dir = 1
      BY <2>5, <3>1, <3>2 DEF Grosses
    <3>3. CASE dir = -1
      <4>1. x.gross = -(q[Hold].c)
        BY <2>5, <3>1, <3>3
      <4> QED BY <3>1, <4>1 DEF Grosses
    <3> QED BY <3>2, <3>3 DEF Sides
  <2> QED BY <1>3, <2>2, <2>3, <2>5, <2>6 DEF Earned, TimeSeen, MirrorRows
<1> QED BY <1>1, <1>3, <1>5, <1>6, <1>7, Decided DEF StillOpen

(* and what the closed ones decide in the end is no better *)
LEMMA EarnedIsNoWorse ==
  ASSUME NEW q \in Series, NEW s \in Series, NEW dir \in Sides, NEW x,
         Len(q) <= Len(s), Len(s) <= Len(q) + 1, \A i \in 1..Len(q) : s[i] = q[i],
         x.ok, Earned(x, q, s, dir), Walk(dir, q) # Nothing
  PROVE  x.gross >= Walk(dir, q).gross
<1> DEFINE H == Hits(dir, 1, Hold, q)
           w == Walk(dir, q)
<1>1. w = Decide(dir, H, Hold, q) /\ H \subseteq Nat
      /\ \A n : n \in H <=> n \in Nat /\ 1 <= n /\ n <= Hold /\ n <= Len(q) /\ Hit(dir, q[n])
  BY WalkFacts
<1>2. Len(q) \in Nat /\ Len(s) \in Nat /\ Hold \in Nat /\ Hold > 1 /\ StopAt \in Nat /\ TargetAt \in Nat
      /\ \A i \in 1..Len(q) : q[i] \in SaneCandles
  BY SeriesFacts, ReplayFacts
<1>3. w # Nothing
  OBVIOUS
<1> HIDE DEF H, w
<1>4. w.gross \in Int /\ w.gross <= TargetAt
  <2>1. CASE EndsStopped(dir, H, q, w)
    <3>1. w.gross = -StopAt
      BY <2>1, Gains DEF EndsStopped
    <3> QED BY <1>2, <3>1
  <2>2. CASE EndsOnTarget(dir, H, q, w)
    <3>1. w.gross = TargetAt
      BY <2>2, Gains DEF EndsOnTarget
    <3> QED BY <1>2, <3>1
  <2>3. CASE EndsInTime(dir, H, Hold, q, w)
    <3>1. H = {} /\ Len(q) > Hold /\ w.gross = dir * q[Hold].c
      BY <2>3, Gains DEF EndsInTime
    <3>2. q[Hold] \in SaneCandles /\ ~HitTarget(dir, q[Hold])
      BY <1>1, <1>2, <3>1 DEF Hit
    <3> QED BY <3>1, <3>2, CloseWithin
  <2> QED BY <1>1, <1>3, <2>1, <2>2, <2>3, Decided DEF StillOpen
<1>5. CASE x.gross = TargetAt
  BY <1>2, <1>4, <1>5 DEF w
<1>6. CASE x.gross = -StopAt /\ StopSeen(q, s, dir)
  <2>1. PICK n \in 1..Hold : /\ n <= Len(s) /\ HitStop(dir, s[n])
                             /\ \A m \in 1..(n - 1) : ~Hit(dir, q[m])
    BY <1>6 DEF StopSeen
  <2>2. n \in Nat /\ 1 <= n /\ n <= Hold /\ n <= Len(q) + 1
    BY <1>2, <2>1
  <2>3. CASE n <= Len(q)
    <3>1. n \in H /\ HitStop(dir, q[n])
      BY <1>1, <1>2, <2>1, <2>2, <2>3 DEF Hit
    <3>2. \A m \in H : n <= m
      <4> SUFFICES ASSUME NEW m \in H, ~(n <= m) PROVE FALSE
        OBVIOUS
      <4>1. m \in 1..(n - 1) /\ Hit(dir, q[m])
        BY <1>1, <2>2
      <4> QED BY <2>1, <4>1
    <3>3. FirstOf(H) = n
      BY <1>1, <3>1, <3>2, FirstIsOnly
    <3>4. w = Stopped(n)
      BY <1>1, <3>1, <3>3 DEF Decide
    <3>5. w.gross = -StopAt
      BY <3>4, Gains
    <3> QED BY <1>2, <1>6, <3>5 DEF w
  <2>4. CASE ~(n <= Len(q))
    <3>1. H = {}
      <4> SUFFICES ASSUME NEW m \in H PROVE FALSE
        OBVIOUS
      <4>1. m \in 1..(n - 1) /\ Hit(dir, q[m])
        BY <1>1, <1>2, <2>2, <2>4
      <4> QED BY <2>1, <4>1
    <3>2. ~(Len(q) > Hold)
      BY <1>2, <2>2, <2>4
    <3> QED BY <1>1, <1>3, <3>1, <3>2 DEF Decide
  <2> QED BY <2>3, <2>4
<1>7. CASE TimeSeen(x, q, dir)
  <2>1. Len(q) >= Hold /\ (\A m \in 1..Hold : ~Hit(dir, q[m])) /\ x.gross = dir * q[Hold].c
    BY <1>7 DEF TimeSeen
  <2>2. H = {}
    BY <1>1, <1>2, <2>1
  <2>3. w = Result("time", dir * q[Hold].c, Hold)
    BY <1>1, <1>3, <2>2 DEF Decide
  <2>4. w.gross = x.gross
    BY <2>1, <2>3, Gains
  <2> QED BY <1>4, <2>4 DEF w
<1> QED BY <1>5, <1>6, <1>7 DEF Earned

-----------------------------------------------------------------------------
(* The cache *)

(* Minutes fall into days *)
LEMMA DayFacts ==
  ASSUME NEW i \in Nat \ {0}
  PROVE  /\ DayOf(i) \in Nat /\ i - DayOf(i) * Day \in 1..Day
         /\ DayOf(i) * Day + (i - DayOf(i) * Day) = i
<1>1. Day \in Nat /\ Day > 0
  BY ReplayFacts
<1>2. PICK x \in Nat : x = i - 1
  OBVIOUS
<1>3. x \div Day \in Nat /\ x % Day \in 0..(Day - 1) /\ x = Day * (x \div Day) + (x % Day)
  BY <1>1, <1>2
<1>4. PICK d \in Nat, m \in 0..(Day - 1) : d = x \div Day /\ x = Day * d + m
  BY <1>3
<1>5. DayOf(i) = d
  BY <1>2, <1>4 DEF DayOf
<1>6. PICK y \in Int : y = d * Day /\ y = Day * d
  BY <1>1, <1>4
<1>7. i - y \in 1..Day /\ y + (i - y) = i
  BY <1>1, <1>2, <1>4, <1>6
<1> QED BY <1>4, <1>5, <1>6, <1>7

(* What comes out of the cache is what the exchange serves *)
LEMMA GetIsServed ==
  ASSUME Chart, Days, CacheIsClosed
  PROVE  Get = Served
<1>1. Served \in Series /\ DOMAIN Served = 1..Len(Served) /\ Len(Served) \in Nat
      /\ \A i \in 1..Len(candles) : Served[i] = candles[i]
  BY ServedFacts, SeriesFacts
<1>2. Len(candles) \in Nat /\ DOMAIN candles = 1..Len(candles)
  BY SeriesFacts DEF Chart
<1>3. ASSUME NEW i \in DOMAIN Served PROVE Get[i] = Served[i]
  <2>1. CASE Cached(DayOf(i)) = {}
    BY <2>1 DEF Get
  <2>2. CASE Cached(DayOf(i)) # {}
    <3>1. PICK e \in Cached(DayOf(i)) : e = CHOOSE x \in Cached(DayOf(i)) : TRUE
      BY <2>2
    <3>2. Get[i] = e.candles[i - DayOf(i) * Day]
      BY <2>2, <3>1 DEF Get
    <3>3. e \in cache /\ e.day = DayOf(i)
      BY DEF Cached
    <3>4. PICK n \in 1..Day : n = i - DayOf(i) * Day /\ DayOf(i) * Day + n = i
      BY <1>1, DayFacts
    <3>5. e.day * Day + n \in DOMAIN candles /\ e.candles[n] = candles[e.day * Day + n]
      BY <3>3 DEF CacheIsClosed
    <3>6. i \in DOMAIN candles /\ e.candles[n] = candles[i]
      BY <3>3, <3>4, <3>5
    <3> QED BY <1>1, <1>2, <3>2, <3>4, <3>6
  <2> QED BY <2>1, <2>2
<1>4. DOMAIN Get = DOMAIN Served /\ Get = [i \in DOMAIN Get |-> Get[i]]
  BY DEF Get
<1>5. Served = [i \in DOMAIN Served |-> Served[i]]
  BY <1>1 DEF Series
<1> QED BY <1>3, <1>4, <1>5

(* A day that is downloaded is over *)
LEMMA DownloadedDays ==
  ASSUME Chart, NEW e \in Downloaded
  PROVE  /\ e.day \in Nat /\ Len(e.candles) = Day
         /\ \A i \in 1..Day : /\ i \in DOMAIN e.candles /\ e.day * Day + i \in DOMAIN candles
                              /\ e.candles[i] = candles[e.day * Day + i]
<1>1. PICK d \in 0..DayOf(Len(Served)) :
         Immutable(d) /\ e = [day |-> d, candles |-> SubSeq(Served, d * Day + 1, (d + 1) * Day)]
  BY DEF Downloaded
<1>2. Day \in Nat /\ Day > 0 /\ Grace \in Nat /\ d \in Nat
  BY <1>1, ReplayFacts
<1>3. PICK x \in Nat : x = d * Day /\ (d + 1) * Day = x + Day
  <2>1. d * Day \in Nat /\ (d + 1) * Day = d * Day + Day
    BY <1>2
  <2> QED BY <2>1
<1>4. x + Day + Grace <= Len(candles)
  BY <1>1, <1>3 DEF Immutable
<1>5. Served \in Series /\ Len(Served) \in Nat /\ Len(candles) \in Nat /\ DOMAIN candles = 1..Len(candles)
      /\ Len(candles) <= Len(Served) /\ \A i \in 1..Len(candles) : Served[i] = candles[i]
  BY ServedFacts, SeriesFacts DEF Chart
<1>6. x + Day <= Len(Served) /\ x + Day <= Len(candles)
  BY <1>2, <1>4, <1>5
<1>7. PICK w : w = SubSeq(Served, x + 1, x + Day)
  OBVIOUS
<1>8. w \in Series /\ Len(w) = Day /\ DOMAIN w = 1..Day /\ \A i \in 1..Day : w[i] = Served[x + i]
  <2>1. x + 1 \in 1..(Len(Served) + 1) /\ x + Day \in (x + 1 - 1)..Len(Served)
    BY <1>2, <1>3, <1>5, <1>6
  <2>2. Len(w) = Day /\ DOMAIN w = 1..Day /\ \A i \in 1..Day : w[i] = Served[x + i]
    BY <1>2, <1>3, <1>5, <1>6, <1>7 DEF Series
  <2>3. w \in Series
    BY <1>5, <1>7, <2>1 DEF Series
  <2> QED BY <2>2, <2>3
<1>9. e.day = d /\ e.candles = w
  BY <1>1, <1>3, <1>7
<1>10. ASSUME NEW i \in 1..Day
       PROVE  i \in DOMAIN e.candles /\ e.day * Day + i \in DOMAIN candles
              /\ e.candles[i] = candles[e.day * Day + i]
  <2>1. e.day * Day + i = x + i /\ x + i \in 1..Len(candles)
    BY <1>2, <1>3, <1>5, <1>6, <1>9
  <2>2. e.candles[i] = Served[x + i] /\ i \in DOMAIN e.candles
    BY <1>8, <1>9
  <2> QED BY <1>5, <2>1, <2>2
<1> QED BY <1>2, <1>8, <1>9, <1>10

-----------------------------------------------------------------------------
(* The invariant *)

LEMMA ReplayStarts == ReplayInit => ReplayInv
<1> SUFFICES ASSUME ReplayInit PROVE ReplayInv
  OBVIOUS
<1>1. candles = <<>> /\ current = Nothing /\ side \in Sides /\ mirror = Nothing /\ cache = {}
      /\ fetched = [s \in Mirrorers |-> Nothing]
  BY DEF ReplayInit, Sides
<1>2. Chart
  BY <1>1, ReplayFacts DEF Chart, Series
<1> QED BY <1>1, <1>2 DEF ReplayInv, Days, CacheIsClosed, MirrorsEarned

LEMMA QuoteEarns ==
  ASSUME ReplayInv, NEW p \in Prices, Quote(p)
  PROVE  ReplayInv'
<1>1. Chart' /\ Advances(candles, Served, candles', Served')
  BY QuoteAdvances DEF ReplayInv
<1>2. candles \in Series /\ candles' \in Series /\ side \in Sides /\ -side \in Sides
  BY <1>1 DEF ReplayInv, Chart, Sides
<1>3. side' = side /\ mirror' = mirror /\ fetched' = fetched /\ cache' = cache
  BY DEF Quote
<1>4. \A i \in DOMAIN candles : i \in DOMAIN candles' /\ candles'[i] = candles[i]
  BY <1>1, <1>2, SeriesFacts DEF Advances, Extends
<1>5. CacheIsClosed'
  BY <1>3, <1>4 DEF ReplayInv, CacheIsClosed
<1>6. Days'
  BY <1>3 DEF ReplayInv, Days
<1>7. \A x : Earned(x, candles, Served, -side) => Earned(x, candles', Served', -side')
  BY <1>1, <1>2, <1>3, EarnedStays
<1>8. MirrorsEarned'
  BY <1>3, <1>7 DEF ReplayInv, MirrorsEarned
<1> QED BY <1>1, <1>5, <1>6, <1>8 DEF ReplayInv

(* Of a session the candles and the side are as they were *)
LEMMA Unmoved ==
  ASSUME Chart, UNCHANGED <<candles, current, side>>
  PROVE  /\ Chart' /\ Served' = Served /\ candles' = candles /\ side' = side
  BY DEF Chart, Served

LEMMA FetchEarns ==
  ASSUME ReplayInv, NEW s \in Mirrorers, Fetch(s)
  PROVE  ReplayInv'
<1>1. Chart' /\ Served' = Served /\ candles' = candles /\ side' = side
  BY Unmoved DEF ReplayInv, Fetch
<1>2. Served \in Series /\ candles \in Series /\ -side \in Sides
      /\ Len(candles) <= Len(Served) /\ Len(Served) <= Len(candles) + 1
      /\ \A i \in 1..Len(candles) : Served[i] = candles[i]
  BY ServedFacts DEF ReplayInv, Chart, Sides
<1>3. Get = Served
  BY GetIsServed DEF ReplayInv
<1>4. cache' = cache \/ cache' = cache \cup Downloaded
  BY DEF Fetch
<1>5. mirror' = mirror
  BY DEF Fetch
<1>6. \A e \in cache' : e \in cache \/ e \in Downloaded
  BY <1>4
<1>7. Days'
  <2>1. \A e \in cache' : e.day \in Nat /\ Len(e.candles) <= Day
    BY <1>6, DownloadedDays, ReplayFacts DEF ReplayInv, Days
  <2> QED BY <2>1 DEF Days
<1>8. CacheIsClosed'
  <2>1. \A e \in cache' : \A i \in 1..Day :
           /\ i \in DOMAIN e.candles /\ e.day * Day + i \in DOMAIN candles
           /\ e.candles[i] = candles[e.day * Day + i]
    BY <1>6, DownloadedDays DEF ReplayInv, CacheIsClosed
  <2> QED BY <1>1, <2>1 DEF CacheIsClosed
<1>9. fetched \in [Mirrorers -> MirrorRows \cup {Nothing}]
      /\ \A t \in Mirrorers : fetched[t] # Nothing => Earned(fetched[t], candles, Served, -side)
  BY DEF ReplayInv, MirrorsEarned
<1>10. fetched' = fetched \/ \E x \in MirrorRows : /\ Earned(x, candles, Served, -side)
                                             /\ fetched' = [fetched EXCEPT ![s] = x]
  <2>1. CASE MirrorGross(Get) # Nothing
             /\ fetched' = [fetched EXCEPT ![s] = [ok |-> TRUE, gross |-> MirrorGross(Get)]]
    <3>1. Walk(-side, Served) # Nothing /\ MirrorGross(Get) = Walk(-side, Served).gross
      BY <1>3, <2>1 DEF MirrorGross, Opposite
    <3>2. PICK x : x = [ok |-> TRUE, gross |-> Walk(-side, Served).gross]
      OBVIOUS
    <3>3. Earned(x, candles, Served, -side) /\ x \in MirrorRows
      BY <1>2, <3>1, <3>2, WalkEarns
    <3> QED BY <2>1, <3>1, <3>2, <3>3
  <2>2. CASE fetched' = [fetched EXCEPT ![s] = [ok |-> FALSE, gross |-> 0]]
    <3>1. PICK x : x = [ok |-> FALSE, gross |-> 0]
      OBVIOUS
    <3>2. x \in MirrorRows /\ ~x.ok
      BY <3>1 DEF MirrorRows, Grosses
    <3> QED BY <2>2, <3>1, <3>2 DEF Earned
  <2> QED BY <2>1, <2>2 DEF Fetch
<1>11. MirrorsEarned'
  <2>1. fetched' \in [Mirrorers -> MirrorRows \cup {Nothing}]
        /\ \A t \in Mirrorers : fetched'[t] # Nothing => Earned(fetched'[t], candles, Served, -side)
    BY <1>9, <1>10
  <2> QED BY <1>1, <1>5, <2>1 DEF ReplayInv, MirrorsEarned
<1> QED BY <1>1, <1>7, <1>8, <1>11 DEF ReplayInv

LEMMA SaveEarns ==
  ASSUME ReplayInv, NEW s \in Mirrorers, Save(s)
  PROVE  ReplayInv'
<1>1. Chart' /\ Served' = Served /\ candles' = candles /\ side' = side
  BY Unmoved DEF ReplayInv, Save
<1>2. cache' = cache
  BY DEF Save
<1>3. Days' /\ CacheIsClosed'
  BY <1>1, <1>2 DEF ReplayInv, Days, CacheIsClosed
<1>4. fetched[s] # Nothing /\ fetched' = [fetched EXCEPT ![s] = Nothing]
      /\ mirror' \in {mirror, fetched[s]} /\ (mirror = Nothing \/ mirror' = mirror)
  BY DEF Save, Keep
<1>5. MirrorsEarned'
  BY <1>1, <1>4 DEF ReplayInv, MirrorsEarned
<1> QED BY <1>1, <1>3, <1>5 DEF ReplayInv

LEMMA ReplayStep == ReplayInv /\ [ReplayNext]_replayVars => ReplayInv'
<1> SUFFICES ASSUME ReplayInv, [ReplayNext]_replayVars PROVE ReplayInv'
  OBVIOUS
<1>1. ASSUME NEW p \in Prices, Quote(p) PROVE ReplayInv'
  BY <1>1, QuoteEarns
<1>2. ASSUME UNCHANGED <<candles, current, side, mirror, fetched, cache>> PROVE ReplayInv'
  <2>1. Chart' /\ Served' = Served /\ candles' = candles /\ side' = side
    BY <1>2, Unmoved DEF ReplayInv
  <2>2. MirrorsEarned'
    BY <1>2, <2>1 DEF ReplayInv, MirrorsEarned
  <2> QED BY <1>2, <2>1, <2>2 DEF ReplayInv, Days, CacheIsClosed
<1>3. CASE CloseShadow
  BY <1>2, <1>3 DEF CloseShadow
<1>4. ASSUME NEW s \in Mirrorers, Fetch(s) PROVE ReplayInv'
  BY <1>4, FetchEarns
<1>5. ASSUME NEW s \in Mirrorers, Save(s) PROVE ReplayInv'
  BY <1>5, SaveEarns
<1>6. CASE UNCHANGED replayVars
  BY <1>2, <1>6 DEF replayVars
<1> QED BY <1>1, <1>3, <1>4, <1>5, <1>6 DEF ReplayNext

LEMMA ReplayShows ==
  ReplayInv => ReplayTypeOK /\ NeverBothGain /\ MakerNeverBetter /\ CacheIsClosed /\ MirrorNeverWorse
<1> SUFFICES ASSUME ReplayInv
             PROVE  ReplayTypeOK /\ NeverBothGain /\ MakerNeverBetter /\ CacheIsClosed /\ MirrorNeverWorse
  OBVIOUS
<1>1. candles \in Series /\ side \in Sides /\ -side \in Sides
  BY DEF ReplayInv, Chart, Sides
<1>2. ReplayTypeOK
  <2>1. \A i \in 1..Len(candles) : candles[i] \in Candles
    BY <1>1, SeriesFacts DEF SaneCandles
  <2>2. candles \in Seq(Candles)
    BY <1>1, <2>1 DEF Series
  <2> QED BY <2>2 DEF ReplayInv, Chart, Days, MirrorsEarned, ReplayTypeOK, SaneCandles, MirrorRows
<1>3. NeverBothGain
  BY <1>1, OneSideGains DEF NeverBothGain
<1>4. MakerNeverBetter
  <2> SUFFICES ASSUME Fill(side, candles) # 0, MakerLeg(side, candles) # Nothing
               PROVE  MakerLeg(side, candles).gross <=
                        WalkFrom(side, Fill(side, candles), Fill(side, candles) + Hold - 1, candles).gross + Through
    BY DEF MakerNeverBetter
  <2>1. MakerLeg(side, candles) = AfterFill(side, Fill(side, candles), candles)
    BY DEF MakerLeg
  <2> QED BY <1>1, <2>1, FillFacts, MakerPays
<1>5. CacheIsClosed
  BY DEF ReplayInv
<1>6. MirrorNeverWorse
  <2> SUFFICES ASSUME Flipped # Nothing, Walk(-side, candles) # Nothing
               PROVE  Flipped >= Walk(-side, candles).gross
    BY DEF MirrorNeverWorse
  <2>1. mirror # Nothing /\ mirror.ok /\ Flipped = mirror.gross
    BY DEF Flipped
  <2>2. Earned(mirror, candles, Served, -side)
    BY <2>1 DEF ReplayInv, MirrorsEarned
  <2>3. Served \in Series /\ Len(candles) <= Len(Served) /\ Len(Served) <= Len(candles) + 1
        /\ \A i \in 1..Len(candles) : Served[i] = candles[i]
    BY ServedFacts DEF ReplayInv
  <2> QED BY <1>1, <2>1, <2>2, <2>3, EarnedIsNoWorse
<1> QED BY <1>2, <1>3, <1>4, <1>5, <1>6

(* What OutcomeFinal says of one step *)
Final(q, r) ==
    q # r =>
      /\ \A dir \in Sides :
            /\ Walk(dir, q) # Nothing => Walk(dir, r) = Walk(dir, q)
            /\ MakerLeg(dir, q) # Nothing => MakerLeg(dir, r) = MakerLeg(dir, q)
      /\ Compared(q) \subseteq Compared(r) /\ Tried(q) \subseteq Tried(r)
      /\ Filled(q) = Filled(r) \cap Tried(q)

LEMMA ReplayStays == ReplayInv /\ [ReplayNext]_replayVars => Final(candles, candles')
<1> SUFFICES ASSUME ReplayInv, [ReplayNext]_replayVars, candles # candles' PROVE Final(candles, candles')
  BY DEF Final
<1>1. PICK p \in Prices : Quote(p)
  BY DEF ReplayNext, CloseShadow, Fetch, Save, replayVars
<1>2. candles \in Series /\ candles' \in Series /\ Extends(candles, candles')
  BY <1>1, QuoteAdvances DEF ReplayInv, Chart, Advances
<1> QED BY <1>2, WalkStays, MakerStays, ComparisonStays DEF Final

(* For any candles, brackets, windows and sessions: an outcome decided on    *)
(* closed candles (replay.ts, maker.ts) is the same on every longer series,  *)
(* no trade gains together with its mirror, the maker gains no more than a   *)
(* taker at the fill but for the slack, a cached day (candles.server.ts) is  *)
(* closed, and the mirror read with a shadow trade (snapshot.server.ts) is   *)
(* never below the final one.                                                *)
THEOREM ReplaysHold ==
  ReplaySpec => /\ [](ReplayTypeOK /\ NeverBothGain /\ MakerNeverBetter /\ CacheIsClosed /\ MirrorNeverWorse)
                /\ OutcomeFinal
<1>1. ReplayInit => ReplayInv
  BY ReplayStarts
<1>2. ReplayInv /\ [ReplayNext]_replayVars => ReplayInv'
  BY ReplayStep
<1>3. ReplayInv => ReplayTypeOK /\ NeverBothGain /\ MakerNeverBetter /\ CacheIsClosed /\ MirrorNeverWorse
  BY ReplayShows
<1>4. ReplayInv /\ [ReplayNext]_replayVars =>
        [candles' # candles =>
          /\ \A dir \in Sides :
                /\ Walk(dir, candles) # Nothing => Walk(dir, candles') = Walk(dir, candles)
                /\ MakerLeg(dir, candles) # Nothing => MakerLeg(dir, candles') = MakerLeg(dir, candles)
          /\ Compared(candles) \subseteq Compared(candles')
          /\ Tried(candles) \subseteq Tried(candles')
          /\ Filled(candles) = Filled(candles') \cap Tried(candles)]_replayVars
  BY ReplayStays DEF Final
<1> QED BY <1>1, <1>2, <1>3, <1>4, PTL DEF ReplaySpec, OutcomeFinal


(*-------------------------------------------------------------------------*)
(* ShadowBook: the trades that were not made *)

Filed == rows \cup outbox
Writes == [status : {"open", "closed"}, trade : ShadowTrades]

TradeOk(t, instant, count) ==
    t \in ShadowTrades /\ t.id.time = t.openedAt /\ t.openedAt <= instant /\ t.id.seq <= count
Running(t) == t.exit = NoExit /\ -Bracket < t.last /\ t.last < Bracket
Ended(t) ==
    /\ t.exit # NoExit /\ t.openedAt <= t.exit.at /\ t.exit.at <= Expires(t)
    /\ t.exit.reason = "TIME" <=> -Bracket < t.exit.price /\ t.exit.price < Bracket
Finished(instant, count) == {t \in ShadowTrades : TradeOk(t, instant, count) /\ Ended(t)}
WriteOk(w, instant, count) ==
    /\ w \in Writes /\ TradeOk(w.trade, instant, count)
    /\ w.status = "open" => Running(w.trade)
    /\ w.status = "closed" => Ended(w.trade)

CountsOk ==
    /\ clock \in 0..Horizon /\ recorded \in 0..MaxTrades /\ seq \in 0..recorded
    /\ lost \in Nat /\ adopted \in BOOLEAN
    /\ book \in {"up", "down", "booting"} /\ (book = "down" => clock < Horizon)
OpenOk ==
    /\ open \in [Symbols -> ShadowTrades \cup {NoTrade}]
    /\ \A s \in Symbols : open[s] # NoTrade =>
          open[s].symbol = s /\ TradeOk(open[s], clock, recorded) /\ Running(open[s])
    /\ Cardinality(OpenTrades) <= MaxOpen
    /\ book # "up" => OpenTrades = {}
ClosedOk == closed \in Seq(Finished(clock, recorded)) /\ Len(closed) <= MaxClosed
FiledOk ==
    /\ IsFiniteSet(rows) /\ IsFiniteSet(outbox)
    /\ \A w \in Filed : WriteOk(w, clock, recorded)
    /\ \A r \in rows, q \in rows : r.trade.id = q.trade.id => r = q

Identified == \A t \in Everything, u \in Everything : t.id = u.id => t.symbol = u.symbol
Fresh ==
    /\ book = "up" => \A t \in Everything : t.id.time = clock => t.id.seq <= seq
    /\ book = "booting" => \A t \in Everything : t.id.time < clock

(* While no boot has read rows that were being written, a trade ends once *)
EndsOnce ==
    ~adopted =>
      /\ \A v \in Filed, w \in Filed :
            v.status = "closed" /\ w.status = "closed" /\ v.trade.id = w.trade.id => v.trade.exit = w.trade.exit
      /\ \A t \in OpenTrades, w \in Filed : w.status = "closed" => w.trade.id # t.id

Said(status) == {w.trade.id : w \in {v \in Filed : v.status = status}}
LiveIds == Said("open") \ Said("closed")
OpenIds == {t.id : t \in OpenTrades}

(* The trades that a crash left open: what the rows will say of them when all is written *)
LeftOpen(K) ==
    /\ IsFiniteSet(K) /\ Cardinality(K) <= MaxOpen
    /\ \A k \in K, l \in K : k.symbol = l.symbol => k = l
    /\ LiveIds = {k.id : k \in K}
    /\ \A k \in K, w \in Filed : w.trade.id = k.id => w.trade.symbol = k.symbol
RowsKnown ==
    ~adopted /\ lost = 0 =>
        /\ book = "up" => LiveIds = OpenIds
        /\ book # "up" => \E K : LeftOpen(K)

ShadowInv ==
    CountsOk /\ OpenOk /\ ClosedOk /\ FiledOk /\ Identified /\ Fresh /\ EndsOnce /\ RowsKnown

(*-------------------------------------------------------------------------*)

LEMMA ShadowNumbers ==
  /\ Horizon \in Nat /\ MaxTrades \in Nat /\ MaxLost \in Nat /\ MaxBoots \in Nat
  /\ Bracket \in Nat \ {0} /\ MaxHold \in Nat \ {0} /\ MaxOpen \in Nat \ {0} /\ MaxClosed \in Nat \ {0}
  BY ShadowAssumption DEF ValidConfig

LEMMA TradeFields ==
  ASSUME NEW t \in ShadowTrades
  PROVE  /\ t.id.time \in 0..Horizon /\ t.id.seq \in 1..MaxTrades /\ t.id \in Ids
         /\ t.symbol \in Symbols /\ t.openedAt \in 0..Horizon /\ t.last \in Int /\ t.markedAt \in 0..Horizon
         /\ t.exit \in Exits /\ t # NoTrade
  BY ShadowAssumption DEF ShadowTrades, Ids

LEMMA OkLater ==
  ASSUME NEW t, NEW instant \in Int, NEW later \in Int, NEW count \in Int, NEW more \in Int,
         instant <= later, count <= more, TradeOk(t, instant, count)
  PROVE  TradeOk(t, later, more)
<1>1. t.openedAt \in Int /\ t.id.seq \in Int
  BY TradeFields DEF TradeOk
<1> QED BY <1>1 DEF TradeOk

LEMMA LastOfKind ==
  ASSUME NEW S, NEW q \in Seq(S), NEW n \in Nat
  PROVE  LastOf(q, n) \in Seq(S) /\ Len(LastOf(q, n)) <= n
<1> DEFINE first == (IF Len(q) > n THEN Len(q) - n ELSE 0) + 1
<1>1. first \in 1..(Len(q) + 1) /\ Len(q) \in Nat /\ Len(q) - first + 1 <= n
  OBVIOUS
<1>2. first \in Int /\ Len(q) \in Int /\ \A i \in first..Len(q) : q[i] \in S
  BY <1>1
<1> HIDE DEF first
<1>3. /\ SubSeq(q, first, Len(q)) \in Seq(S)
      /\ Len(SubSeq(q, first, Len(q))) = IF first <= Len(q) THEN Len(q) - first + 1 ELSE 0
  BY <1>2, SubSeqProperties
<1>4. LastOf(q, n) = SubSeq(q, first, Len(q))
  BY DEF LastOf, first
<1> QED BY <1>1, <1>3, <1>4

LEMMA ListedKind ==
  ASSUME NEW S, IsFiniteSet(S), NEW q \in [1..Cardinality(S) -> S]
  PROVE  q \in Seq(S) /\ Len(q) = Cardinality(S)
<1>1. Cardinality(S) \in Nat
  BY FS_CardinalityType
<1> QED BY <1>1

LEMMA RangeIn == ASSUME NEW S, NEW q \in Seq(S) PROVE Range(q) \subseteq S
  BY DEF Range

LEMMA OpenFinite ==
  ASSUME NEW f \in [Symbols -> ShadowTrades \cup {NoTrade}]
  PROVE  IsFiniteSet({f[s] : s \in Symbols} \ {NoTrade})
<1> DEFINE R == {f[s] : s \in Symbols}
<1>1. f \in Surjection(Symbols, R)
  BY DEF Surjection
<1>2. IsFiniteSet(R)
  BY <1>1, FS_Surjection, ShadowAssumption
<1> QED BY <1>2, FS_Subset

(* Ids and numbers stay in order when nothing is new *)
LEMMA IdsStay ==
  ASSUME CountsOk, Identified, Fresh, UNCHANGED <<clock, book>>, seq' \in Int, seq <= seq',
         \A t \in Everything : t.id.seq \in Int,
         \A t \in Everything' : \E u \in Everything : u.id = t.id /\ u.symbol = t.symbol
  PROVE  Identified' /\ Fresh'
<1>1. Identified'
  BY DEF Identified
<1>2. seq \in Int
  BY DEF CountsOk
<1>3. Fresh'
  <2>1. ASSUME book' = "up", NEW t \in Everything', t.id.time = clock' PROVE t.id.seq <= seq'
    <3>1. PICK u \in Everything : u.id = t.id
      OBVIOUS
    <3>2. u.id.seq <= seq /\ u.id.seq \in Int
      BY <2>1, <3>1 DEF Fresh
    <3> QED BY <1>2, <3>1, <3>2
  <2>2. ASSUME book' = "booting", NEW t \in Everything' PROVE t.id.time < clock'
    BY <2>2 DEF Fresh
  <2> QED BY <2>1, <2>2 DEF Fresh
<1> QED BY <1>1, <1>3

LEMMA EverythingOk ==
  ASSUME ShadowInv, NEW t \in Everything
  PROVE  TradeOk(t, clock, recorded) /\ (t.exit # NoExit => Ended(t))
<1>1. CASE t \in Range(closed)
  <2>1. t \in Finished(clock, recorded)
    BY <1>1, RangeIn DEF ShadowInv, ClosedOk
  <2> QED BY <2>1 DEF Finished
<1>2. CASE t \in OpenTrades
  BY <1>2 DEF ShadowInv, OpenOk, OpenTrades, Running
<1>3. CASE t \in {r.trade : r \in Filed}
  <2>1. PICK w \in Filed : t = w.trade
    BY <1>3
  <2>2. WriteOk(w, clock, recorded)
    BY DEF ShadowInv, FiledOk
  <2>3. w.status \in {"open", "closed"}
    BY <2>2 DEF WriteOk, Writes
  <2> QED BY <2>1, <2>2, <2>3 DEF WriteOk, Running
<1> QED BY <1>1, <1>2, <1>3 DEF Everything, Filed

LEMMA ShadowStarts == BookInit => ShadowInv
<1> SUFFICES ASSUME BookInit PROVE ShadowInv
  OBVIOUS
<1>1. /\ clock = 0 /\ open = [s \in Symbols |-> NoTrade] /\ closed = <<>> /\ seq = 0 /\ book = "up"
      /\ rows = {} /\ outbox = {} /\ lost = 0 /\ recorded = 0 /\ adopted = FALSE
  BY DEF BookInit
<1>2. OpenTrades = {} /\ Filed = {} /\ Range(closed) = {}
  BY <1>1 DEF OpenTrades, Filed, Range
<1>3. Everything = {}
  BY <1>1, <1>2 DEF Everything
<1>4. CountsOk
  <2>1. 0 \in 0..Horizon /\ 0 \in 0..MaxTrades /\ 0 \in 0..0 /\ 0 \in Nat
    BY ShadowNumbers
  <2> QED BY <1>1, <2>1 DEF CountsOk
<1>5. OpenOk
  BY <1>1, <1>2, ShadowNumbers, FS_EmptySet DEF OpenOk
<1>6. ClosedOk /\ FiledOk
  BY <1>1, <1>2, ShadowNumbers, FS_EmptySet DEF ClosedOk, FiledOk
<1>7. Identified /\ Fresh /\ EndsOnce
  BY <1>2, <1>3 DEF Identified, Fresh, EndsOnce
<1>8. RowsKnown
  BY <1>1, <1>2 DEF RowsKnown, LiveIds, Said, OpenIds
<1> QED BY <1>4, <1>5, <1>6, <1>7, <1>8 DEF ShadowInv

(*-------------------------------------------------------------------------*)
(* The clock, the writes that are lost, and a crash *)

LEMMA ClockKeeps == ASSUME ShadowInv, Clock PROVE ShadowInv'
<1>1. /\ clock < Horizon /\ clock' = clock + 1
      /\ book' = IF book = "down" THEN "booting" ELSE book
      /\ UNCHANGED <<open, closed, seq, rows, outbox, lost, recorded, adopted>>
  BY DEF Clock
<1>2. clock \in Nat /\ recorded \in Nat /\ clock' \in 0..Horizon /\ recorded' = recorded
  BY <1>1, ShadowNumbers DEF ShadowInv, CountsOk
<1>3. OpenTrades' = OpenTrades /\ Filed' = Filed /\ Everything' = Everything
  BY <1>1 DEF OpenTrades, Filed, Everything
<1>4. \A t : TradeOk(t, clock, recorded) => TradeOk(t, clock', recorded')
  BY <1>1, <1>2, OkLater
<1>5. CountsOk'
  BY <1>1, <1>2 DEF ShadowInv, CountsOk
<1>6. OpenOk'
  BY <1>1, <1>3, <1>4 DEF ShadowInv, OpenOk, Running
<1>7. ClosedOk'
  <2>1. Finished(clock, recorded) \subseteq Finished(clock', recorded')
    BY <1>4 DEF Finished, Ended, Expires
  <2> QED BY <1>1, <2>1 DEF ShadowInv, ClosedOk
<1>8. FiledOk'
  BY <1>1, <1>3, <1>4 DEF ShadowInv, FiledOk, WriteOk, Running, Ended, Expires
<1>9. Identified'
  BY <1>3 DEF ShadowInv, Identified
<1>10. Fresh'
  <2>1. \A t \in Everything : t.id.time \in Int /\ t.id.time <= clock
    BY EverythingOk, TradeFields DEF TradeOk
  <2> QED BY <1>1, <1>2, <1>3, <2>1 DEF ShadowInv, Fresh
<1>11. EndsOnce'
  BY <1>1, <1>3 DEF ShadowInv, EndsOnce
<1>12. RowsKnown'
  <2>1. LiveIds' = LiveIds /\ OpenIds' = OpenIds
    BY <1>3 DEF LiveIds, OpenIds, Said
  <2>2. \A K : LeftOpen(K) => LeftOpen(K)'
    BY <1>3, <2>1 DEF LeftOpen
  <2>3. book' = "up" <=> book = "up"
    BY <1>1
  <2> QED BY <1>1, <2>1, <2>2, <2>3 DEF ShadowInv, RowsKnown
<1> QED BY <1>5, <1>6, <1>7, <1>8, <1>9, <1>10, <1>11, <1>12 DEF ShadowInv

LEMMA LoseKeeps == ASSUME ShadowInv, NEW w \in outbox, Lose(w) PROVE ShadowInv'
<1>1. /\ lost' = lost + 1 /\ outbox' = outbox \ {w}
      /\ UNCHANGED <<clock, open, closed, seq, book, rows, recorded, adopted>>
  BY DEF Lose
<1>2. OpenTrades' = OpenTrades /\ Filed' \subseteq Filed /\ Everything' \subseteq Everything
  BY <1>1 DEF OpenTrades, Filed, Everything
<1>3. CountsOk' /\ OpenOk' /\ ClosedOk'
  BY <1>1, <1>2 DEF ShadowInv, CountsOk, OpenOk, ClosedOk, Running
<1>4. FiledOk'
  <2>1. IsFiniteSet(outbox')
    BY <1>1, FS_Subset DEF ShadowInv, FiledOk
  <2> QED BY <1>1, <1>2, <2>1 DEF ShadowInv, FiledOk
<1>5. Identified' /\ Fresh'
  BY <1>1, <1>2 DEF ShadowInv, Identified, Fresh
<1>6. EndsOnce'
  BY <1>1, <1>2 DEF ShadowInv, EndsOnce
<1>7. RowsKnown'
  BY <1>1 DEF ShadowInv, CountsOk, RowsKnown
<1> QED BY <1>3, <1>4, <1>5, <1>6, <1>7 DEF ShadowInv

LEMMA CrashKeeps == ASSUME ShadowInv, Crash PROVE ShadowInv'
<1>1. /\ book = "up" /\ book' = "down" /\ clock < Horizon
      /\ open' = [s \in Symbols |-> NoTrade] /\ closed' = <<>> /\ seq' = 0
      /\ UNCHANGED <<clock, rows, outbox, lost, recorded, adopted>>
  BY DEF Crash
<1>2. /\ OpenTrades' = {} /\ Filed' = Filed /\ Everything' \subseteq Everything
  BY <1>1 DEF OpenTrades, Filed, Everything, Range
<1>3. CountsOk'
  <2>1. recorded \in Nat /\ 0 \in 0..recorded
    BY ShadowNumbers DEF ShadowInv, CountsOk
  <2> QED BY <1>1, <2>1 DEF ShadowInv, CountsOk
<1>4. OpenOk' /\ ClosedOk'
  BY <1>1, <1>2, ShadowNumbers, FS_EmptySet DEF OpenOk, ClosedOk
<1>5. FiledOk'
  BY <1>1, <1>2 DEF ShadowInv, FiledOk
<1>6. Identified' /\ Fresh'
  BY <1>1, <1>2 DEF ShadowInv, Identified, Fresh
<1>7. EndsOnce'
  BY <1>1, <1>2 DEF ShadowInv, EndsOnce
<1>8. RowsKnown'
  <2> SUFFICES ASSUME ~adopted, lost = 0 PROVE \E K : LeftOpen(K)'
    BY <1>1 DEF RowsKnown
  <2>1. IsFiniteSet(OpenTrades) /\ Cardinality(OpenTrades) <= MaxOpen
    BY OpenFinite DEF ShadowInv, OpenOk, OpenTrades
  <2>2. \A k \in OpenTrades, l \in OpenTrades : k.symbol = l.symbol => k = l
    BY DEF ShadowInv, OpenOk, OpenTrades
  <2>3. LiveIds = {k.id : k \in OpenTrades}
    BY <1>1 DEF ShadowInv, RowsKnown, OpenIds
  <2>4. \A k \in OpenTrades, w \in Filed : w.trade.id = k.id => w.trade.symbol = k.symbol
    BY DEF ShadowInv, Identified, Everything, Filed
  <2>5. LiveIds' = LiveIds
    BY <1>2 DEF LiveIds, Said
  <2>6. PICK K : K = OpenTrades
    OBVIOUS
  <2>7. LeftOpen(K)'
    BY <1>2, <2>1, <2>2, <2>3, <2>4, <2>5, <2>6 DEF LeftOpen
  <2> QED BY <2>7
<1> QED BY <1>3, <1>4, <1>5, <1>6, <1>7, <1>8 DEF ShadowInv

(*-------------------------------------------------------------------------*)
(* A write lands *)

LEMMA LandingKeeps == ASSUME ShadowInv, NEW w \in outbox, Land(w) PROVE ShadowInv'
<1> DEFINE old == RowOf(w.trade.id)
           put == IF old = {} THEN {w}
                  ELSE IF w.status = "open" THEN {OpenUpsert(r, w.trade) : r \in old} ELSE {w}
<1>1. /\ rows' = (rows \ old) \cup put /\ outbox' = outbox \ {w}
      /\ UNCHANGED <<clock, open, closed, seq, book, lost, recorded, adopted>>
  BY DEF Land
<1>2. w \in Filed /\ WriteOk(w, clock, recorded)
  BY DEF ShadowInv, FiledOk, Filed
<1>3. old = {r \in rows : r.trade.id = w.trade.id}
  BY DEF RowOf
<1>4. \A r \in old, q \in old : r = q
  BY <1>3 DEF ShadowInv, FiledOk
<1>5. OpenTrades' = OpenTrades
  BY <1>1 DEF OpenTrades
<1>6. ASSUME NEW r \in old, w.status = "open"
      PROVE  LET n == OpenUpsert(r, w.trade)
             IN  /\ WriteOk(n, clock, recorded) /\ n.status = r.status
                 /\ n.trade.id = r.trade.id /\ n.trade.symbol = r.trade.symbol /\ n.trade.exit = r.trade.exit
  <2>1. WriteOk(r, clock, recorded)
    BY <1>3 DEF ShadowInv, FiledOk, Filed
  <2>2. r \in Writes /\ r.trade \in ShadowTrades /\ w.trade \in ShadowTrades /\ Running(w.trade)
    BY <1>2, <1>6, <2>1 DEF WriteOk, TradeOk
  <2>3. w.trade.last \in Int /\ w.trade.markedAt \in 0..Horizon
    BY <2>2, TradeFields
  <2> DEFINE n == OpenUpsert(r, w.trade)
             t == [r.trade EXCEPT !.last = w.trade.last, !.markedAt = w.trade.markedAt]
  <2>4. /\ t \in ShadowTrades /\ t.id = r.trade.id /\ t.symbol = r.trade.symbol /\ t.openedAt = r.trade.openedAt
        /\ t.exit = r.trade.exit /\ t.last = w.trade.last
    BY <2>2, <2>3 DEF ShadowTrades
  <2>5. n = [status |-> r.status, trade |-> t]
    BY <2>2 DEF OpenUpsert, Writes
  <2> HIDE DEF t, n
  <2>6. n \in Writes /\ n.status = r.status /\ n.trade = t
    BY <2>2, <2>4, <2>5 DEF Writes
  <2>7. TradeOk(t, clock, recorded)
    BY <2>1, <2>4 DEF WriteOk, TradeOk
  <2>8. (r.status = "open" => Running(t)) /\ (r.status = "closed" => Ended(t))
    BY <2>1, <2>2, <2>4 DEF WriteOk, Running, Ended, Expires
  <2>9. WriteOk(n, clock, recorded)
    BY <2>6, <2>7, <2>8 DEF WriteOk
  <2> QED BY <2>4, <2>6, <2>9 DEF n
<1>7. ASSUME NEW v \in put
      PROVE  /\ WriteOk(v, clock, recorded) /\ v.trade.id = w.trade.id
             /\ \E u \in Filed : /\ u.trade.id = v.trade.id /\ u.trade.symbol = v.trade.symbol
                                /\ u.status = v.status /\ u.trade.exit = v.trade.exit
             /\ \A u \in put : u = v
  <2>1. CASE v = w /\ put = {w}
    BY <1>2, <2>1
  <2>2. CASE old # {} /\ w.status = "open"
    <3>1. put = {OpenUpsert(r, w.trade) : r \in old}
      BY <2>2
    <3>2. PICK r \in old : v = OpenUpsert(r, w.trade)
      BY <3>1
    <3>3. r \in Filed /\ r.trade.id = w.trade.id
      BY <1>3 DEF Filed
    <3>4. \A u \in put : u = v
      BY <1>4, <3>1, <3>2
    <3> HIDE DEF put, old
    <3> QED BY <1>6, <2>2, <3>2, <3>3, <3>4
  <2> QED BY <2>1, <2>2
<1>8. \A v \in Filed' : v \in Filed \/ v \in put
  BY <1>1 DEF Filed
<1>9. IsFiniteSet(old) /\ IsFiniteSet(rows') /\ IsFiniteSet(outbox')
  <2>1. IsFiniteSet(rows \ old) /\ IsFiniteSet(outbox')
    BY <1>1, FS_Subset DEF ShadowInv, FiledOk
  <2>2. IsFiniteSet(old)
    BY <1>3, FS_Subset DEF ShadowInv, FiledOk
  <2>3. IsFiniteSet(put)
    <3>1. CASE put = {}
      BY <3>1, FS_EmptySet
    <3>2. CASE put # {}
      <4>1. PICK v : v \in put
        BY <3>2
      <4>2. put = {v}
        BY <1>7, <4>1
      <4> HIDE DEF put
      <4> QED BY <4>2, FS_Singleton
    <3> QED BY <3>1, <3>2
  <2> HIDE DEF put, old
  <2> QED BY <1>1, <2>1, <2>2, <2>3, FS_Union
<1> HIDE DEF put
<1>10. CountsOk' /\ OpenOk' /\ ClosedOk'
  BY <1>1, <1>5 DEF ShadowInv, CountsOk, OpenOk, ClosedOk, Running
<1>11. FiledOk'
  <2>1. \A v \in Filed' : WriteOk(v, clock', recorded')
    BY <1>1, <1>7, <1>8 DEF ShadowInv, FiledOk
  <2>2. ASSUME NEW r \in rows', NEW q \in rows', r.trade.id = q.trade.id PROVE r = q
    <3>1. CASE r \in rows \ old /\ q \in rows \ old
      BY <2>2, <3>1 DEF ShadowInv, FiledOk
    <3>2. CASE r \in put /\ q \in put
      BY <1>7, <3>2
    <3>3. CASE r \in put /\ q \in rows \ old
      BY <1>3, <1>7, <2>2, <3>3
    <3>4. CASE q \in put /\ r \in rows \ old
      BY <1>3, <1>7, <2>2, <3>4
    <3> QED BY <1>1, <3>1, <3>2, <3>3, <3>4
  <2> QED BY <1>9, <2>1, <2>2 DEF FiledOk
<1>12. \A t \in Everything' : \E u \in Everything : u.id = t.id /\ u.symbol = t.symbol
  <2> SUFFICES ASSUME NEW t \in Everything' PROVE \E u \in Everything : u.id = t.id /\ u.symbol = t.symbol
    OBVIOUS
  <2>1. CASE t \in Range(closed') \cup OpenTrades'
    <3>1. t \in Everything
      BY <1>1, <1>5, <2>1 DEF Everything
    <3> QED BY <3>1
  <2>2. CASE t \in {r.trade : r \in Filed'}
    <3>1. PICK v \in Filed' : t = v.trade
      BY <2>2
    <3>2. PICK u \in Filed : u.trade.id = v.trade.id /\ u.trade.symbol = v.trade.symbol
      BY <1>7, <1>8
    <3>3. u.trade \in Everything
      BY DEF Everything, Filed
    <3> QED BY <3>1, <3>2, <3>3
  <2> QED BY <2>1, <2>2 DEF Everything, Filed
<1>13. Identified' /\ Fresh'
  <2>1. \A t \in Everything : t.id.seq \in Int
    BY EverythingOk, TradeFields DEF TradeOk
  <2>2. seq \in Int /\ seq' = seq
    BY <1>1 DEF ShadowInv, CountsOk
  <2> QED BY <1>1, <1>12, <2>1, <2>2, IdsStay DEF ShadowInv
<1>14. \A v \in Filed' : \E u \in Filed : u.trade.id = v.trade.id /\ u.status = v.status /\ u.trade.exit = v.trade.exit
  BY <1>7, <1>8
<1>15. EndsOnce'
  BY <1>1, <1>5, <1>14 DEF ShadowInv, EndsOnce
<1>16. LiveIds' = LiveIds
  <2>1. Said("closed")' \subseteq Said("closed") /\ Said("open")' \subseteq Said("open")
    BY <1>14 DEF Said
  <2>2. \A v \in Filed : v \in Filed' \/ v = w \/ v \in old
    BY <1>1 DEF Filed
  <2>3. put # {} /\ put \subseteq Filed'
    BY <1>1 DEF put, Filed
  <2>4. PICK p \in put : p \in Filed'
    BY <2>3
  <2>5. p.trade.id = w.trade.id /\ p.status \in {"open", "closed"}
    BY <1>7 DEF WriteOk, Writes
  <2>6. ASSUME NEW r \in old PROVE p.status = IF w.status = "open" THEN r.status ELSE "closed"
    <3>1. w.status \in {"open", "closed"}
      BY <1>2 DEF WriteOk, Writes
    <3>2. CASE w.status = "open"
      <4>1. PICK q \in old : p = OpenUpsert(q, w.trade)
        BY <3>2 DEF put
      <4> HIDE DEF old
      <4> QED BY <1>4, <1>6, <3>2, <4>1
    <3>3. CASE w.status = "closed"
      BY <2>4, <3>3 DEF put
    <3> QED BY <3>1, <3>2, <3>3
  <2>7. old = {} => p = w
    BY <2>4 DEF put
  <2>8. \A r \in old : r.trade.id = w.trade.id
    BY <1>3
  <2>9. w.status \in {"open", "closed"} /\ \A r \in old : r.status \in {"open", "closed"}
    BY <1>2, <1>3 DEF WriteOk, Writes, ShadowInv, FiledOk, Filed
  <2> HIDE DEF old
  <2>10. Said("closed") \subseteq Said("closed")'
    <3> SUFFICES ASSUME NEW v \in Filed, v.status = "closed" PROVE v.trade.id \in Said("closed")'
      BY DEF Said
    <3>1. CASE v \in Filed'
      BY <3>1 DEF Said
    <3>2. CASE v = w \/ v \in old
      <4>1. p.status = "closed" /\ p.trade.id = v.trade.id
        BY <2>5, <2>6, <2>7, <2>8, <3>2
      <4> QED BY <2>4, <4>1 DEF Said
    <3> QED BY <2>2, <3>1, <3>2
  <2>11. Said("open") \subseteq Said("open")' \cup Said("closed")'
    <3> SUFFICES ASSUME NEW v \in Filed, v.status = "open" PROVE v.trade.id \in Said("open")' \cup Said("closed")'
      BY DEF Said
    <3>1. CASE v \in Filed'
      BY <3>1 DEF Said
    <3>2. CASE v = w \/ v \in old
      <4>1. p.trade.id = v.trade.id
        BY <2>5, <2>8, <3>2
      <4> QED BY <2>4, <2>5, <4>1 DEF Said
    <3> QED BY <2>2, <3>1, <3>2
  <2> QED BY <2>1, <2>10, <2>11 DEF LiveIds
<1>17. RowsKnown'
  <2>1. OpenIds' = OpenIds
    BY <1>5 DEF OpenIds
  <2>2. \A v \in Filed' : \E u \in Filed : u.trade.id = v.trade.id /\ u.trade.symbol = v.trade.symbol
    BY <1>7, <1>8
  <2>3. \A K : LeftOpen(K) => LeftOpen(K)'
    BY <1>16, <2>2 DEF LeftOpen
  <2> QED BY <1>1, <1>16, <2>1, <2>3 DEF ShadowInv, RowsKnown
<1> QED BY <1>10, <1>11, <1>13, <1>15, <1>17 DEF ShadowInv

(*-------------------------------------------------------------------------*)
(* A proposal is recorded *)

LEMMA RecordingKeeps == ASSUME ShadowInv, NEW s \in Symbols, Record(s) PROVE ShadowInv'
<1> DEFINE new == [id |-> NewId(clock), symbol |-> s, openedAt |-> clock, last |-> 0,
                   markedAt |-> clock, exit |-> NoExit]
<1>1. PICK t : t = new
  OBVIOUS
<1>2. PICK w : w = [status |-> "open", trade |-> t]
  OBVIOUS
<1>3. /\ book = "up" /\ recorded < MaxTrades /\ recorded' = recorded + 1 /\ open[s] = NoTrade
      /\ Cardinality(OpenTrades) < MaxOpen
      /\ open' = [open EXCEPT ![s] = t] /\ outbox' = outbox \cup {w} /\ seq' = seq + 1
      /\ UNCHANGED <<clock, closed, book, rows, lost, adopted>>
  BY <1>1, <1>2 DEF Record
<1>4. /\ clock \in 0..Horizon /\ recorded \in Nat /\ seq \in 0..recorded
      /\ recorded' \in 0..MaxTrades /\ seq' \in 0..recorded' /\ seq + 1 \in 1..MaxTrades
  BY <1>3, ShadowNumbers DEF ShadowInv, CountsOk
<1>5. NewId(clock) \in Ids /\ NewId(clock).time = clock /\ NewId(clock).seq = seq + 1
  BY <1>4 DEF NewId, Ids
<1>6. /\ t \in ShadowTrades /\ t.id.time = clock /\ t.id.seq = seq + 1 /\ t.symbol = s
      /\ t.openedAt = clock /\ t.last = 0 /\ t.exit = NoExit
  BY <1>1, <1>4, <1>5 DEF ShadowTrades, Exits
<1>7. TradeOk(t, clock, recorded') /\ Running(t) /\ t # NoTrade
  <2>1. seq + 1 <= recorded' /\ clock <= clock
    BY <1>4, <1>3
  <2> QED BY <1>6, <2>1, ShadowNumbers, ShadowAssumption DEF TradeOk, Running
<1>8. OpenTrades' = OpenTrades \cup {t}
  BY <1>3, <1>7 DEF ShadowInv, OpenOk, OpenTrades
<1>9. Filed' = Filed \cup {w} /\ Everything' = Everything \cup {t}
  <2>1. Filed' = Filed \cup {w}
    BY <1>3 DEF Filed
  <2>2. {v.trade : v \in Filed'} = {v.trade : v \in Filed} \cup {t}
    BY <1>2, <2>1
  <2> QED BY <1>3, <1>8, <2>1, <2>2 DEF Everything, Filed
<1>10. \A u \in Everything : u.id # t.id
  <2> SUFFICES ASSUME NEW u \in Everything, u.id = t.id PROVE FALSE
    OBVIOUS
  <2>1. u.id.time = clock /\ u.id.seq = seq + 1
    BY <1>6
  <2>2. u.id.seq <= seq
    BY <1>3, <2>1 DEF ShadowInv, Fresh
  <2> QED BY <1>4, <2>1, <2>2
<1>11. \A u : TradeOk(u, clock, recorded) => TradeOk(u, clock', recorded')
  <2>1. clock \in Int /\ clock' = clock /\ recorded \in Int /\ recorded' \in Int /\ recorded <= recorded'
    BY <1>3, <1>4
  <2> QED BY <2>1, OkLater
<1>12. w.status = "open" /\ w.trade = t /\ w \in Writes /\ WriteOk(w, clock', recorded')
  BY <1>2, <1>3, <1>6, <1>7 DEF Writes, WriteOk
<1>13. CountsOk'
  BY <1>3, <1>4 DEF ShadowInv, CountsOk
<1>14. OpenOk'
  <2>1. IsFiniteSet(OpenTrades)
    BY OpenFinite DEF ShadowInv, OpenOk, OpenTrades
  <2>2. Cardinality(OpenTrades) \in Nat
    BY <2>1, FS_CardinalityType
  <2>3. Cardinality(OpenTrades') \in {Cardinality(OpenTrades), Cardinality(OpenTrades) + 1}
    BY <1>8, <2>1, FS_AddElement
  <2>4. Cardinality(OpenTrades') <= MaxOpen
    <3>1. IsFiniteSet(OpenTrades')
      BY <1>8, <2>1, FS_AddElement
    <3>2. Cardinality(OpenTrades') \in Nat
      BY <3>1, FS_CardinalityType
    <3> QED BY <1>3, <2>2, <2>3, <3>2, ShadowNumbers
  <2>5. open' \in [Symbols -> ShadowTrades \cup {NoTrade}]
    BY <1>3, <1>6 DEF ShadowInv, OpenOk
  <2>6. ASSUME NEW z \in Symbols, open'[z] # NoTrade
        PROVE  open'[z].symbol = z /\ TradeOk(open'[z], clock', recorded') /\ Running(open'[z])
    <3>1. CASE z = s
      <4>1. open'[z] = t
        BY <1>3, <3>1 DEF ShadowInv, OpenOk
      <4> QED BY <1>3, <1>6, <1>7, <3>1, <4>1
    <3>2. CASE z # s
      <4>1. open'[z] = open[z]
        BY <1>3, <3>2 DEF ShadowInv, OpenOk
      <4> QED BY <1>11, <2>6, <4>1 DEF ShadowInv, OpenOk
    <3> QED BY <3>1, <3>2
  <2>7. OpenOk' <=> /\ open' \in [Symbols -> ShadowTrades \cup {NoTrade}]
                    /\ \A z \in Symbols : open'[z] # NoTrade =>
                          open'[z].symbol = z /\ TradeOk(open'[z], clock', recorded') /\ Running(open'[z])
                    /\ Cardinality(OpenTrades') <= MaxOpen
                    /\ book' # "up" => OpenTrades' = {}
    BY DEF OpenOk, TradeOk, Running
  <2> QED BY <1>3, <2>4, <2>5, <2>6, <2>7
<1>15. ClosedOk'
  <2>1. Finished(clock, recorded) \subseteq Finished(clock', recorded')
    BY <1>11 DEF Finished
  <2> QED BY <1>3, <2>1 DEF ShadowInv, ClosedOk
<1>16. FiledOk'
  <2>1. IsFiniteSet(outbox') /\ IsFiniteSet(rows')
    BY <1>3, FS_AddElement DEF ShadowInv, FiledOk
  <2>2. \A v \in Filed' : WriteOk(v, clock', recorded')
    BY <1>9, <1>11, <1>12 DEF ShadowInv, FiledOk, WriteOk
  <2> QED BY <1>3, <2>1, <2>2 DEF ShadowInv, FiledOk
<1>17. Identified'
  BY <1>9, <1>10 DEF ShadowInv, Identified
<1>18. Fresh'
  <2>1. \A u \in Everything : u.id.seq \in Int
    BY EverythingOk, TradeFields DEF TradeOk
  <2>2. ASSUME NEW u \in Everything', u.id.time = clock' PROVE u.id.seq <= seq'
    <3>1. CASE u \in Everything
      <4>1. u.id.seq <= seq
        BY <1>3, <2>2, <3>1 DEF ShadowInv, Fresh
      <4> QED BY <1>3, <1>4, <2>1, <3>1, <4>1
    <3>2. CASE u = t
      BY <1>3, <1>4, <1>6, <3>2
    <3> QED BY <1>9, <3>1, <3>2
  <2> QED BY <1>3, <2>2 DEF Fresh
<1>19. \A v \in Filed : v.trade.id # t.id
  BY <1>10 DEF Everything, Filed
<1>20. EndsOnce'
  BY <1>3, <1>8, <1>9, <1>12, <1>19 DEF ShadowInv, EndsOnce
<1>21. RowsKnown'
  <2>1. Said("open")' = Said("open") \cup {t.id}
    BY <1>9, <1>12 DEF Said
  <2>2. Said("closed")' = Said("closed")
    BY <1>9, <1>12 DEF Said
  <2>3. t.id \notin Said("closed")
    BY <1>19 DEF Said
  <2>4. LiveIds' = LiveIds \cup {t.id}
    BY <2>1, <2>2, <2>3 DEF LiveIds
  <2>5. OpenIds' = OpenIds \cup {t.id}
    BY <1>8 DEF OpenIds
  <2> QED BY <1>3, <2>4, <2>5 DEF ShadowInv, RowsKnown
<1> QED BY <1>13, <1>14, <1>15, <1>16, <1>17, <1>18, <1>20, <1>21 DEF ShadowInv

(*-------------------------------------------------------------------------*)
(* Trades are closed: each of the set is an open trade that has ended, of its symbol the only one *)

LEMMA ClosesKeep ==
  ASSUME ShadowInv, book = "up", NEW gone, IsFiniteSet(gone), Closes(gone),
         UNCHANGED <<clock, seq, book, rows, lost, recorded, adopted>>,
         gone \subseteq Finished(clock, recorded),
         \A t \in gone : \E u \in OpenTrades : u.id = t.id /\ u.symbol = t.symbol,
         \A t \in gone, u \in gone : t.symbol = u.symbol => t = u
  PROVE  ShadowInv'
<1> DEFINE written == {[status |-> "closed", trade |-> t] : t \in gone}
<1>1. PICK listed : listed \in [1..Cardinality(gone) -> gone] /\ closed' = LastOf(closed \o listed, MaxClosed)
  BY DEF Closes, Listed
<1>2. /\ open' = [s \in Symbols |-> IF \E t \in gone : t.symbol = s THEN NoTrade ELSE open[s]]
      /\ outbox' = outbox \cup written
  BY DEF Closes
<1>3. listed \in Seq(gone)
  BY <1>1, ListedKind
<1>4. closed \in Seq(Finished(clock, recorded)) /\ closed \in Seq(Range(closed))
  <2>1. closed \in Seq(Finished(clock, recorded))
    BY DEF ShadowInv, ClosedOk
  <2>2. closed \in Seq(Range(closed))
    <3> DEFINE R == {closed[i] : i \in DOMAIN closed}
    <3>1. \A i \in 1..Len(closed) : closed[i] \in R
      BY <2>1
    <3>2. closed \in Seq(R)
      BY <2>1, <3>1
    <3> QED BY <3>2 DEF Range
  <2> QED BY <2>1, <2>2
<1>5. /\ closed' \in Seq(Finished(clock, recorded)) /\ Len(closed') <= MaxClosed
      /\ Range(closed') \subseteq Range(closed) \cup gone
  <2>1. closed \o listed \in Seq(Finished(clock, recorded))
    BY <1>3, <1>4
  <2>2. closed \o listed \in Seq(Range(closed) \cup gone)
    BY <1>3, <1>4
  <2>3. closed' \in Seq(Range(closed) \cup gone)
    BY <1>1, <2>2, LastOfKind, ShadowNumbers
  <2> QED BY <1>1, <2>1, <2>3, LastOfKind, RangeIn, ShadowNumbers
<1>6. \A s \in Symbols : open[s] # NoTrade => open[s].symbol = s
  BY DEF ShadowInv, OpenOk
<1>7. \A s \in Symbols : open'[s] # NoTrade => open'[s] = open[s] /\ \A t \in gone : t.symbol # s
  BY <1>2
<1>8. OpenTrades' = {u \in OpenTrades : \A t \in gone : t.symbol # u.symbol}
  <2>1. ASSUME NEW u \in OpenTrades' PROVE u \in OpenTrades /\ \A t \in gone : t.symbol # u.symbol
    BY <1>6, <1>7 DEF OpenTrades
  <2>2. ASSUME NEW u \in OpenTrades, \A t \in gone : t.symbol # u.symbol PROVE u \in OpenTrades'
    <3>1. PICK s \in Symbols : u = open[s] /\ u # NoTrade
      BY DEF OpenTrades
    <3>2. open'[s] = u
      BY <1>2, <1>6, <2>2, <3>1
    <3> QED BY <3>1, <3>2 DEF OpenTrades
  <2> QED BY <2>1, <2>2
<1>9. \A u \in OpenTrades : u.id \in {t.id : t \in gone} <=> \E t \in gone : t.symbol = u.symbol
  <2>1. ASSUME NEW u \in OpenTrades, NEW t \in gone, t.id = u.id PROVE t.symbol = u.symbol
    <3>1. PICK v \in OpenTrades : v.id = t.id /\ v.symbol = t.symbol
      OBVIOUS
    <3> QED BY <2>1, <3>1 DEF ShadowInv, Identified, Everything
  <2>2. ASSUME NEW u \in OpenTrades, NEW t \in gone, t.symbol = u.symbol PROVE t.id = u.id
    <3>1. PICK v \in OpenTrades : v.id = t.id /\ v.symbol = t.symbol
      OBVIOUS
    <3>2. v = u
      BY <1>6, <2>2, <3>1 DEF OpenTrades
    <3> QED BY <3>1, <3>2
  <2> QED BY <2>1, <2>2
<1>10. Filed' = Filed \cup written
  BY <1>2 DEF Filed
<1>11. /\ \A w \in written : w.status = "closed" /\ w.trade \in gone
       /\ \A t \in gone : \E w \in written : w.status = "closed" /\ w.trade = t
  <2>1. ASSUME NEW t \in gone PROVE \E w \in written : w.status = "closed" /\ w.trade = t
    <3>1. [status |-> "closed", trade |-> t] \in written
      OBVIOUS
    <3>2. PICK w \in written : w = [status |-> "closed", trade |-> t]
      BY <3>1
    <3> QED BY <3>2
  <2> QED BY <2>1
<1>12. \A w \in written : WriteOk(w, clock, recorded)
  BY DEF Finished, WriteOk, TradeOk, Writes
<1>13. IsFiniteSet(written)
  <2>1. [t \in gone |-> [status |-> "closed", trade |-> t]] \in Surjection(gone, written)
    BY DEF Surjection
  <2> QED BY <2>1, FS_Surjection
<1> HIDE DEF written
<1>14. CountsOk'
  BY DEF ShadowInv, CountsOk
<1>15. OpenOk'
  <2>1. IsFiniteSet(OpenTrades) /\ IsFiniteSet(OpenTrades') /\ Cardinality(OpenTrades') <= Cardinality(OpenTrades)
    <3>1. IsFiniteSet(OpenTrades)
      BY OpenFinite DEF ShadowInv, OpenOk, OpenTrades
    <3> QED BY <1>8, <3>1, FS_Subset
  <2>2. Cardinality(OpenTrades) \in Nat /\ Cardinality(OpenTrades') \in Nat /\ Cardinality(OpenTrades) <= MaxOpen
    BY <2>1, FS_CardinalityType DEF ShadowInv, OpenOk
  <2>3. Cardinality(OpenTrades') <= MaxOpen
    BY <2>1, <2>2, ShadowNumbers
  <2>4. open' \in [Symbols -> ShadowTrades \cup {NoTrade}]
    BY <1>2 DEF ShadowInv, OpenOk
  <2>5. \A s \in Symbols : open'[s] # NoTrade =>
          open'[s].symbol = s /\ TradeOk(open'[s], clock, recorded) /\ Running(open'[s])
    BY <1>7 DEF ShadowInv, OpenOk
  <2> QED BY <2>3, <2>4, <2>5 DEF OpenOk, TradeOk, Running
<1>16. ClosedOk'
  BY <1>5 DEF ClosedOk
<1>17. FiledOk'
  <2>1. IsFiniteSet(outbox') /\ IsFiniteSet(rows')
    BY <1>2, <1>13, FS_Union DEF ShadowInv, FiledOk
  <2>2. \A w \in Filed' : WriteOk(w, clock', recorded')
    BY <1>10, <1>12 DEF ShadowInv, FiledOk
  <2> QED BY <2>1, <2>2 DEF ShadowInv, FiledOk
<1>18. \A t \in Everything' : \E u \in Everything : u.id = t.id /\ u.symbol = t.symbol
  <2> SUFFICES ASSUME NEW t \in Everything' PROVE \E u \in Everything : u.id = t.id /\ u.symbol = t.symbol
    OBVIOUS
  <2>1. CASE t \in gone
    <3>1. PICK u \in OpenTrades : u.id = t.id /\ u.symbol = t.symbol
      BY <2>1
    <3>2. u \in Everything
      BY DEF Everything
    <3> QED BY <3>1, <3>2
  <2>2. CASE t \in Range(closed) \cup OpenTrades
    BY <2>2 DEF Everything
  <2>3. CASE t \in {r.trade : r \in Filed}
    BY <2>3 DEF Everything, Filed
  <2>4. t \in Range(closed') \cup OpenTrades' \cup {r.trade : r \in Filed'}
    BY DEF Everything, Filed
  <2>5. CASE t \in {r.trade : r \in Filed'}
    BY <1>10, <1>11, <2>1, <2>3, <2>5
  <2>6. OpenTrades' \subseteq OpenTrades
    BY <1>8
  <2> QED BY <1>5, <2>1, <2>2, <2>4, <2>5, <2>6
<1>19. Identified' /\ Fresh'
  <2>1. \A t \in Everything : t.id.seq \in Int
    BY EverythingOk, TradeFields DEF TradeOk
  <2>2. seq \in Int /\ seq' = seq
    BY DEF ShadowInv, CountsOk
  <2> QED BY <1>18, <2>1, <2>2, IdsStay DEF ShadowInv
<1>20. EndsOnce'
  <2> SUFFICES ASSUME ~adopted
      PROVE  /\ \A v \in Filed', w \in Filed' :
                    v.status = "closed" /\ w.status = "closed" /\ v.trade.id = w.trade.id => v.trade.exit = w.trade.exit
             /\ \A t \in OpenTrades', w \in Filed' : w.status = "closed" => w.trade.id # t.id
    BY DEF EndsOnce
  <2>1. \A v \in Filed, w \in Filed :
            v.status = "closed" /\ w.status = "closed" /\ v.trade.id = w.trade.id => v.trade.exit = w.trade.exit
    BY DEF ShadowInv, EndsOnce
  <2>2. \A t \in OpenTrades, w \in Filed : w.status = "closed" => w.trade.id # t.id
    BY DEF ShadowInv, EndsOnce
  <2>3. \A t \in gone, w \in Filed : w.status = "closed" => w.trade.id # t.id
    <3> SUFFICES ASSUME NEW t \in gone, NEW w \in Filed, w.status = "closed" PROVE w.trade.id # t.id
      OBVIOUS
    <3>1. PICK u \in OpenTrades : u.id = t.id
      OBVIOUS
    <3> QED BY <2>2, <3>1
  <2>4. \A t \in gone, u \in gone : t.id = u.id => t = u
    <3> SUFFICES ASSUME NEW t \in gone, NEW u \in gone, t.id = u.id PROVE t = u
      OBVIOUS
    <3>1. PICK v \in OpenTrades : v.id = t.id /\ v.symbol = t.symbol
      OBVIOUS
    <3>2. PICK x \in OpenTrades : x.id = u.id /\ x.symbol = u.symbol
      OBVIOUS
    <3>3. v.symbol = x.symbol
      BY <3>1, <3>2 DEF ShadowInv, Identified, Everything
    <3> QED BY <3>1, <3>2, <3>3
  <2>5. ASSUME NEW v \in Filed', NEW w \in Filed', v.status = "closed", w.status = "closed", v.trade.id = w.trade.id
        PROVE  v.trade.exit = w.trade.exit
    BY <1>10, <1>11, <2>1, <2>3, <2>4, <2>5
  <2>6. ASSUME NEW t \in OpenTrades', NEW w \in Filed', w.status = "closed" PROVE w.trade.id # t.id
    <3>1. t \in OpenTrades /\ \A x \in gone : x.symbol # t.symbol
      BY <1>8
    <3>2. CASE w \in written
      BY <1>9, <1>11, <3>1, <3>2
    <3>3. CASE w \in Filed
      BY <2>2, <2>6, <3>1, <3>3
    <3> QED BY <1>10, <3>2, <3>3
  <2> QED BY <2>5, <2>6
<1>21. RowsKnown'
  <2>1. Said("open")' = Said("open")
    BY <1>10, <1>11 DEF Said
  <2>2. Said("closed")' = Said("closed") \cup {t.id : t \in gone}
    BY <1>10, <1>11 DEF Said
  <2>3. OpenIds' = OpenIds \ {t.id : t \in gone}
    <3>1. ASSUME NEW i \in OpenIds' PROVE i \in OpenIds /\ i \notin {t.id : t \in gone}
      <4>1. PICK u \in OpenTrades' : i = u.id
        BY DEF OpenIds
      <4> QED BY <1>8, <1>9, <4>1 DEF OpenIds
    <3>2. ASSUME NEW i \in OpenIds, i \notin {t.id : t \in gone} PROVE i \in OpenIds'
      <4>1. PICK u \in OpenTrades : i = u.id
        BY DEF OpenIds
      <4>2. u \in OpenTrades'
        BY <1>8, <1>9, <3>2, <4>1
      <4> QED BY <4>1, <4>2 DEF OpenIds
    <3> QED BY <3>1, <3>2
  <2> QED BY <2>1, <2>2, <2>3 DEF ShadowInv, RowsKnown, LiveIds
<1> QED BY <1>14, <1>15, <1>16, <1>17, <1>19, <1>20, <1>21 DEF ShadowInv

LEMMA ClosedTradeEnds ==
  ASSUME NEW t \in ShadowTrades, NEW instant \in 0..Horizon, NEW count, TradeOk(t, instant, count),
         NEW x \in Resolutions, t.openedAt <= x.at, x.at <= Expires(t),
         x.reason = "TIME" <=> -Bracket < x.price /\ x.price < Bracket
  PROVE  /\ ClosedTrade(t, x) \in Finished(instant, count)
         /\ ClosedTrade(t, x).id = t.id /\ ClosedTrade(t, x).symbol = t.symbol
<1> DEFINE at == IF x.at > t.markedAt THEN x.at ELSE t.markedAt
<1>1. x.price \in Int /\ x.at \in 0..Horizon /\ x \in Exits /\ x # NoExit
  BY ShadowAssumption DEF Resolutions, Exits
<1>2. at \in 0..Horizon
  BY <1>1, TradeFields
<1>3. ClosedTrade(t, x) = [t EXCEPT !.exit = x, !.last = x.price, !.markedAt = at]
  BY DEF ClosedTrade, ShadowTrades
<1> HIDE DEF at
<1>4. PICK c : c = ClosedTrade(t, x)
  OBVIOUS
<1>5. /\ c \in ShadowTrades /\ c.id = t.id /\ c.symbol = t.symbol /\ c.openedAt = t.openedAt /\ c.exit = x
  BY <1>1, <1>2, <1>3, <1>4 DEF ShadowTrades
<1>6. TradeOk(c, instant, count) /\ Ended(c)
  BY <1>1, <1>5 DEF TradeOk, Ended, Expires
<1> QED BY <1>4, <1>5, <1>6 DEF Finished

LEMMA SweepKeeps == ASSUME ShadowInv, Sweep PROVE ShadowInv'
<1> DEFINE Late(t) == ClosedTrade(t, Exit(t.last, Expires(t), "TIME"))
           gone == {Late(t) : t \in Overdue}
<1>1. book = "up" /\ Closes(gone) /\ UNCHANGED <<clock, seq, book, rows, lost, recorded, adopted>>
  BY DEF Sweep
<1>2. ASSUME NEW t \in Overdue
      PROVE  Late(t) \in Finished(clock, recorded) /\ Late(t).id = t.id /\ Late(t).symbol = t.symbol
  <2>1. t \in OpenTrades /\ clock >= Expires(t)
    BY DEF Overdue
  <2>2. t \in ShadowTrades /\ TradeOk(t, clock, recorded) /\ Running(t)
    BY <2>1 DEF ShadowInv, OpenOk, OpenTrades, TradeOk
  <2>3. t.openedAt \in 0..Horizon /\ t.last \in Int /\ clock \in 0..Horizon
    BY <2>2, TradeFields DEF ShadowInv, CountsOk
  <2>4. Expires(t) \in 0..Horizon /\ t.openedAt <= Expires(t) /\ Expires(t) <= Expires(t)
    BY <2>1, <2>3, ShadowNumbers DEF Expires
  <2>5. PICK x : x = Exit(t.last, Expires(t), "TIME")
    OBVIOUS
  <2>6. x \in Resolutions /\ x.at = Expires(t) /\ x.reason = "TIME" /\ x.price = t.last
    BY <2>3, <2>4, <2>5 DEF Exit, Resolutions
  <2>7. x.reason = "TIME" <=> -Bracket < x.price /\ x.price < Bracket
    BY <2>2, <2>6 DEF Running
  <2>8. Late(t) = ClosedTrade(t, x)
    BY <2>5
  <2> HIDE DEF Late
  <2> QED BY <2>2, <2>3, <2>4, <2>6, <2>7, <2>8, ClosedTradeEnds
<1>3. IsFiniteSet(gone)
  <2>1. IsFiniteSet(Overdue)
    <3>1. IsFiniteSet(OpenTrades)
      BY OpenFinite DEF ShadowInv, OpenOk, OpenTrades
    <3> QED BY <3>1, FS_Subset DEF Overdue
  <2> HIDE DEF Late
  <2>2. [t \in Overdue |-> Late(t)] \in Surjection(Overdue, gone)
    BY DEF Surjection
  <2> QED BY <2>1, <2>2, FS_Surjection
<1> HIDE DEF Late
<1>4. \A t \in gone : \E u \in OpenTrades : u.id = t.id /\ u.symbol = t.symbol
  BY <1>2 DEF Overdue
<1>5. ASSUME NEW t \in gone, NEW u \in gone, t.symbol = u.symbol PROVE t = u
  <2>1. PICK p \in Overdue, q \in Overdue : t = Late(p) /\ u = Late(q)
    OBVIOUS
  <2>2. p.symbol = q.symbol /\ p \in OpenTrades /\ q \in OpenTrades
    BY <1>2, <1>5, <2>1 DEF Overdue
  <2>3. p = q
    BY <2>2 DEF ShadowInv, OpenOk, OpenTrades
  <2> QED BY <2>1, <2>3
<1>6. gone \subseteq Finished(clock, recorded)
  BY <1>2
<1> HIDE DEF gone
<1> QED BY <1>1, <1>3, <1>4, <1>5, <1>6, ClosesKeep

(* A tick that leaves the trade open changes only its last price and time *)
LEMMA MarkStays ==
  ASSUME ShadowInv, book = "up", NEW s \in Symbols, open[s] # NoTrade,
         NEW t \in ShadowTrades, TradeOk(t, clock, recorded), Running(t),
         t.id = open[s].id, t.symbol = s, open' = [open EXCEPT ![s] = t],
         UNCHANGED <<clock, closed, seq, book, rows, outbox, lost, recorded, adopted>>
  PROVE  ShadowInv'
<1> DEFINE u == open[s]
<1>1. open \in [Symbols -> ShadowTrades \cup {NoTrade}] /\ t # NoTrade
  BY TradeFields DEF ShadowInv, OpenOk
<1>2. /\ open'[s] = t /\ \A z \in Symbols \ {s} : open'[z] = open[z]
      /\ open' \in [Symbols -> ShadowTrades \cup {NoTrade}]
  BY <1>1
<1>3. \A z \in Symbols : open[z] # NoTrade => open[z].symbol = z
  BY DEF ShadowInv, OpenOk
<1>4. OpenTrades' = (OpenTrades \ {u}) \cup {t} /\ u \in OpenTrades
  <2>1. u \in OpenTrades /\ t \in OpenTrades'
    BY <1>1, <1>2 DEF OpenTrades
  <2>2. ASSUME NEW v \in OpenTrades' PROVE v = t \/ (v \in OpenTrades /\ v # u)
    BY <1>2, <1>3 DEF OpenTrades
  <2>3. ASSUME NEW v \in OpenTrades, v # u PROVE v \in OpenTrades'
    <3>1. PICK z \in Symbols : v = open[z] /\ v # NoTrade
      BY DEF OpenTrades
    <3>2. z # s
      BY <2>3, <3>1
    <3> QED BY <1>2, <3>1, <3>2 DEF OpenTrades
  <2> QED BY <2>1, <2>2, <2>3
<1>5. Filed' = Filed
  BY DEF Filed
<1>6. u.id = t.id /\ u.symbol = t.symbol
  BY <1>3
<1> HIDE DEF u
<1>7. CountsOk' /\ ClosedOk' /\ FiledOk'
  BY <1>5 DEF ShadowInv, CountsOk, ClosedOk, FiledOk
<1>8. OpenOk'
  <2>1. IsFiniteSet(OpenTrades)
    BY OpenFinite DEF ShadowInv, OpenOk, OpenTrades
  <2>2. IsFiniteSet(OpenTrades \ {u}) /\ Cardinality(OpenTrades \ {u}) = Cardinality(OpenTrades) - 1
    BY <1>4, <2>1, FS_RemoveElement
  <2>3. Cardinality(OpenTrades') \in {Cardinality(OpenTrades) - 1, Cardinality(OpenTrades) - 1 + 1}
    BY <1>4, <2>2, FS_AddElement
  <2>4. Cardinality(OpenTrades) \in Nat /\ Cardinality(OpenTrades) <= MaxOpen
    BY <2>1, FS_CardinalityType DEF ShadowInv, OpenOk
  <2>5. Cardinality(OpenTrades') <= MaxOpen
    BY <2>3, <2>4, ShadowNumbers
  <2>6. \A z \in Symbols : open'[z] # NoTrade =>
          open'[z].symbol = z /\ TradeOk(open'[z], clock, recorded) /\ Running(open'[z])
    BY <1>2 DEF ShadowInv, OpenOk
  <2> QED BY <1>2, <2>5, <2>6 DEF OpenOk, TradeOk, Running
<1>9. \A v \in OpenTrades' : \E x \in OpenTrades : x.id = v.id /\ x.symbol = v.symbol
  BY <1>4, <1>6
<1>10. \A v \in Everything' : \E x \in Everything : x.id = v.id /\ x.symbol = v.symbol
  BY <1>9 DEF Everything
<1>11. Identified' /\ Fresh'
  <2>1. \A v \in Everything : v.id.seq \in Int
    BY EverythingOk, TradeFields DEF TradeOk
  <2>2. seq \in Int /\ seq' = seq
    BY DEF ShadowInv, CountsOk
  <2> QED BY <1>10, <2>1, <2>2, IdsStay DEF ShadowInv
<1>12. EndsOnce'
  BY <1>5, <1>9 DEF ShadowInv, EndsOnce
<1>13. RowsKnown'
  <2>1. OpenIds' = OpenIds
    BY <1>4, <1>6 DEF OpenIds
  <2>2. LiveIds' = LiveIds
    BY <1>5 DEF LiveIds, Said
  <2> QED BY <2>1, <2>2 DEF ShadowInv, RowsKnown
<1> QED BY <1>7, <1>8, <1>11, <1>12, <1>13 DEF ShadowInv

LEMMA MarkKeeps ==
  ASSUME ShadowInv, NEW s \in Symbols, NEW price \in Int, NEW time \in Int, time <= clock,
         Mark(s, price, time)
  PROVE  ShadowInv'
<1>1. PICK t : t = open[s]
  OBVIOUS
<1>2. PICK x : x = Outcome(t, price, time)
  OBVIOUS
<1>3. PICK marked : marked = [t EXCEPT !.last = price, !.markedAt = time]
  OBVIOUS
<1>4. /\ book = "up" /\ t # NoTrade /\ time >= t.openedAt /\ time >= t.markedAt
      /\ \/ x # NoExit /\ Closes({ClosedTrade(IF time > Expires(t) THEN t ELSE marked, x)})
         \/ x = NoExit /\ open' = [open EXCEPT ![s] = marked] /\ UNCHANGED <<closed, outbox>>
      /\ UNCHANGED <<clock, seq, book, rows, lost, recorded, adopted>>
  <2>1. open' = [open EXCEPT ![s] = [@ EXCEPT !.last = price, !.markedAt = time]]
          => open' = [open EXCEPT ![s] = marked]
    BY <1>1, <1>3
  <2> QED BY <1>1, <1>2, <1>3, <2>1 DEF Mark
<1>5. t \in ShadowTrades /\ TradeOk(t, clock, recorded) /\ Running(t) /\ t.symbol = s /\ t \in OpenTrades
  BY <1>1, <1>4 DEF ShadowInv, OpenOk, OpenTrades, TradeOk
<1>6. /\ t.openedAt \in 0..Horizon /\ t.last \in Int /\ t.markedAt \in 0..Horizon /\ clock \in 0..Horizon
      /\ time \in 0..Horizon /\ Expires(t) \in Nat /\ t.openedAt <= Expires(t) /\ Expires(t) = t.openedAt + MaxHold
  <2>1. t.openedAt \in 0..Horizon /\ t.last \in Int /\ t.markedAt \in 0..Horizon /\ clock \in 0..Horizon
    BY <1>5, TradeFields DEF ShadowInv, CountsOk
  <2> QED BY <1>4, <2>1, ShadowNumbers DEF Expires
<1>7. /\ marked \in ShadowTrades /\ marked.id = t.id /\ marked.symbol = t.symbol /\ marked.last = price
      /\ marked.openedAt = t.openedAt /\ marked.exit = t.exit
  BY <1>3, <1>5, <1>6 DEF ShadowTrades
<1>8. TradeOk(marked, clock, recorded) /\ Expires(marked) = Expires(t)
  BY <1>5, <1>7 DEF TradeOk, Expires
<1>9. CASE x = NoExit
  <2>1. -Bracket < price /\ price < Bracket
    <3>1. \A p \in Int, at \in 0..Horizon, reason \in {"TP", "SL", "TIME"} : Exit(p, at, reason) # NoExit
      BY ShadowAssumption DEF Exit, Resolutions
    <3>2. time <= Expires(t)
      <4>1. ASSUME time > Expires(t) PROVE FALSE
        <5>1. x = Exit(t.last, Expires(t), "TIME")
          BY <1>2, <4>1 DEF Outcome
        <5>2. Expires(t) \in 0..Horizon
          BY <1>6, <4>1, ShadowNumbers
        <5> QED BY <1>6, <1>9, <3>1, <5>1, <5>2
      <4> QED BY <1>6, <4>1
    <3>3. price < Bracket
      <4>1. ASSUME price >= Bracket PROVE FALSE
        <5>1. x = Exit(Bracket, time, "TP")
          BY <1>2, <1>6, <3>2, <4>1 DEF Outcome
        <5> QED BY <1>6, <1>9, <3>1, <5>1, ShadowNumbers
      <4> QED BY <4>1, ShadowNumbers
    <3>4. -Bracket < price
      <4>1. ASSUME price <= -Bracket PROVE FALSE
        <5>1. x = Exit(-Bracket, time, "SL") /\ -Bracket \in Int
          BY <1>2, <1>6, <3>2, <3>3, <4>1, ShadowNumbers DEF Outcome
        <5> QED BY <1>6, <1>9, <3>1, <5>1
      <4> QED BY <4>1, ShadowNumbers
    <3> QED BY <3>3, <3>4
  <2>2. Running(marked)
    BY <1>5, <1>7, <2>1 DEF Running
  <2>3. marked.id = open[s].id /\ marked.symbol = s /\ open[s] # NoTrade /\ open' = [open EXCEPT ![s] = marked]
        /\ UNCHANGED <<clock, closed, seq, book, rows, outbox, lost, recorded, adopted>>
    BY <1>1, <1>4, <1>5, <1>7, <1>9
  <2> QED BY <1>4, <1>7, <1>8, <2>2, <2>3, MarkStays
<1>10. CASE x # NoExit
  <2>1. /\ x \in Resolutions /\ t.openedAt <= x.at /\ x.at <= Expires(t)
        /\ x.reason = "TIME" <=> -Bracket < x.price /\ x.price < Bracket
    <3>1. CASE time > Expires(t)
      <4>1. x = Exit(t.last, Expires(t), "TIME")
        BY <1>2, <3>1 DEF Outcome
      <4>3. Expires(t) \in 0..Horizon
        BY <1>6, <3>1, ShadowNumbers
      <4>2. x.at = Expires(t) /\ x.reason = "TIME" /\ x.price = t.last /\ x \in Resolutions
        BY <1>6, <4>1, <4>3 DEF Exit, Resolutions
      <4> QED BY <1>5, <1>6, <4>2 DEF Running
    <3>2. CASE time <= Expires(t) /\ price >= Bracket
      <4>1. x = Exit(Bracket, time, "TP")
        BY <1>2, <1>6, <3>2 DEF Outcome
      <4>2. x.at = time /\ x.reason = "TP" /\ x.price = Bracket /\ x \in Resolutions
        BY <1>6, <4>1, ShadowNumbers DEF Exit, Resolutions
      <4> QED BY <1>4, <1>6, <3>2, <4>2, ShadowNumbers
    <3>3. CASE time <= Expires(t) /\ price < Bracket /\ price <= -Bracket
      <4>1. x = Exit(-Bracket, time, "SL")
        BY <1>2, <1>6, <3>3, ShadowNumbers DEF Outcome
      <4>2. x.at = time /\ x.reason = "SL" /\ x.price = -Bracket /\ x \in Resolutions
        BY <1>6, <4>1, ShadowNumbers DEF Exit, Resolutions
      <4> QED BY <1>4, <1>6, <3>3, <4>2, ShadowNumbers
    <3>4. CASE time <= Expires(t) /\ price < Bracket /\ -Bracket < price
      <4>1. x = Exit(price, time, "TIME")
        BY <1>2, <1>6, <1>10, <3>4, ShadowNumbers DEF Outcome
      <4>2. x.at = time /\ x.reason = "TIME" /\ x.price = price /\ x \in Resolutions
        BY <1>6, <4>1 DEF Exit, Resolutions
      <4> QED BY <1>4, <1>6, <3>4, <4>2
    <3> QED BY <1>6, <3>1, <3>2, <3>3, <3>4, ShadowNumbers
  <2>2. PICK last : last = IF time > Expires(t) THEN t ELSE marked
    OBVIOUS
  <2>3. /\ last \in ShadowTrades /\ TradeOk(last, clock, recorded) /\ last.id = t.id /\ last.symbol = t.symbol
        /\ last.openedAt = t.openedAt /\ Expires(last) = Expires(t)
    BY <1>5, <1>7, <1>8, <2>2
  <2>4. PICK c : c = ClosedTrade(last, x)
    OBVIOUS
  <2>5. c \in Finished(clock, recorded) /\ c.id = t.id /\ c.symbol = t.symbol
    BY <1>6, <2>1, <2>3, <2>4, ClosedTradeEnds
  <2>6. Closes({c})
    BY <1>4, <1>10, <2>2, <2>4
  <2>7. IsFiniteSet({c}) /\ {c} \subseteq Finished(clock, recorded)
    BY <2>5, FS_Singleton
  <2>8. \A y \in {c} : \E u \in OpenTrades : u.id = y.id /\ u.symbol = y.symbol
    BY <1>5, <2>5
  <2>9. \A y \in {c}, u \in {c} : y.symbol = u.symbol => y = u
    OBVIOUS
  <2> QED BY <1>4, <2>6, <2>7, <2>8, <2>9, ClosesKeep
<1> QED BY <1>9, <1>10

(*-------------------------------------------------------------------------*)
(* A boot reads the rows *)

LEMMA LargestSeqKind ==
  ASSUME NEW set, NEW n \in Nat, \A t \in set : t.id.seq \in 0..n
  PROVE  LargestSeq(set) \in 0..n
<1> DEFINE U == {t.id.seq : t \in set} \cup {0}
           V == {k \in Nat : \A u \in U : u <= k}
<1>1. U \subseteq 0..n /\ 0 \in U
  OBVIOUS
<1>2. \A u \in U : u \in Nat
  BY <1>1
<1>3. (\A t \in set : t.id.seq \in U) /\ n \in V /\ V \subseteq Nat
  BY <1>1
<1>4. PICK k \in V : \A m \in V : k <= m
  BY <1>3, LeastNatural
<1>5. k \in Nat /\ \A u \in U : u <= k
  OBVIOUS
<1> HIDE DEF U
<1>6. k \in U
  <2> SUFFICES ASSUME k \notin U PROVE FALSE
    OBVIOUS
  <2>1. k # 0
    BY <1>1
  <2>2. k - 1 \in Nat /\ \A u \in U : u <= k - 1
    BY <1>2, <1>5, <2>1
  <2>3. k - 1 \in V
    BY <2>2
  <2> QED BY <1>4, <1>5, <2>3
<1> HIDE DEF V
<1>7. \E m \in U : \A t \in set : t.id.seq <= m
  BY <1>3, <1>5, <1>6
<1>8. LargestSeq(set) \in U
  BY <1>7 DEF LargestSeq, U
<1> QED BY <1>1, <1>8

LEMMA FirstOfSymbolKind ==
  ASSUME NEW S, NEW q \in Seq(S), NEW s
  PROVE  \/ FirstOfSymbol(q, s) = NoTrade /\ \A t \in Range(q) : t.symbol # s
         \/ FirstOfSymbol(q, s) \in Range(q) /\ FirstOfSymbol(q, s).symbol = s
<1> DEFINE at == {i \in DOMAIN q : q[i].symbol = s}
<1>1. FirstOfSymbol(q, s) = IF at = {} THEN NoTrade ELSE q[Min(at)]
  BY DEF FirstOfSymbol
<1>2. CASE at = {}
  BY <1>1, <1>2 DEF Range
<1>3. CASE at # {}
  <2>1. at \subseteq Nat
    OBVIOUS
  <2>2. \E n \in at : \A m \in at : n <= m
    BY <1>3, <2>1, LeastNatural
  <2> HIDE DEF at
  <2>3. Min(at) \in at
    BY <2>2 DEF Min
  <2> QED BY <1>1, <1>3, <2>3 DEF at, Range
<1> QED BY <1>2, <1>3

LEMMA RangeSmall ==
  ASSUME NEW S, NEW q \in Seq(S)
  PROVE  IsFiniteSet(Range(q)) /\ Cardinality(Range(q)) <= Len(q)
<1>1. Len(q) \in Nat /\ DOMAIN q = 1..Len(q)
  OBVIOUS
<1>2. IsFiniteSet(1..Len(q)) /\ Cardinality(1..Len(q)) = Len(q)
  BY <1>1, FS_Interval
<1>3. q \in Surjection(1..Len(q), Range(q))
  <2>1. q = [i \in 1..Len(q) |-> q[i]]
    BY <1>1
  <2> QED BY <1>1, <2>1 DEF Surjection, Range
<1> QED BY <1>2, <1>3, FS_Surjection

LEMMA BootKeeps == ASSUME ShadowInv, Boot PROVE ShadowInv'
<1> DEFINE A == Trades("open")
           C == Trades("closed")
           m(q) == IF Len(q) < MaxOpen THEN Len(q) ELSE MaxOpen
<1>1. PICK newest, last :
        /\ newest \in [1..Cardinality(A) -> A] /\ Range(newest) = A
        /\ last \in [1..Cardinality(C) -> C]
        /\ open' = [s \in Symbols |-> FirstOfSymbol(SubSeq(newest, 1, m(newest)), s)]
        /\ closed' = LastOf(last, MaxClosed)
        /\ seq' = LargestSeq(Range(SubSeq(newest, 1, m(newest))) \cup Range(LastOf(last, MaxClosed)))
  BY DEF Boot, Listed
<1>2. /\ book = "booting" /\ book' = "up" /\ adopted' = (adopted \/ outbox # {})
      /\ UNCHANGED <<clock, rows, outbox, lost, recorded>>
  BY DEF Boot
<1>3. PICK o : o = SubSeq(newest, 1, m(newest))
  OBVIOUS
<1>4. \A r \in rows : WriteOk(r, clock, recorded)
  BY DEF ShadowInv, FiledOk, Filed
<1>5. /\ A = {r.trade : r \in {q \in rows : q.status = "open"}}
      /\ C = {r.trade : r \in {q \in rows : q.status = "closed"}}
  BY DEF Trades
<1>6. \A t \in A : t \in ShadowTrades /\ TradeOk(t, clock, recorded) /\ Running(t)
  BY <1>4, <1>5 DEF WriteOk, TradeOk
<1>7. C \subseteq Finished(clock, recorded)
  BY <1>4, <1>5 DEF WriteOk, TradeOk, Finished
<1>8. \A t \in A \cup C : \E r \in rows : r.trade = t
  BY <1>5
<1>9. IsFiniteSet(A) /\ IsFiniteSet(C)
  <2>1. [r \in {q \in rows : q.status = "open"} |-> r.trade] \in Surjection({q \in rows : q.status = "open"}, A)
    BY <1>5 DEF Surjection
  <2>2. [r \in {q \in rows : q.status = "closed"} |-> r.trade] \in Surjection({q \in rows : q.status = "closed"}, C)
    BY <1>5 DEF Surjection
  <2>3. IsFiniteSet({q \in rows : q.status = "open"}) /\ IsFiniteSet({q \in rows : q.status = "closed"})
    BY FS_Subset DEF ShadowInv, FiledOk
  <2> HIDE DEF A, C
  <2> QED BY <2>1, <2>2, <2>3, FS_Surjection
<1> HIDE DEF A, C
<1>10. /\ newest \in Seq(A) /\ Len(newest) = Cardinality(A) /\ Len(newest) \in Nat
       /\ last \in Seq(C)
  BY <1>1, <1>9, ListedKind, FS_CardinalityType
<1>11. o \in Seq(A) /\ Len(o) <= MaxOpen /\ Len(o) \in Nat /\ (Cardinality(A) <= MaxOpen => o = newest)
  <2>1. m(newest) \in 0..Len(newest) /\ m(newest) <= MaxOpen
    BY <1>10, ShadowNumbers
  <2>2. PICK k : k = m(newest)
    OBVIOUS
  <2>3. \A i \in 1..k : newest[i] \in A
    BY <1>10, <2>1, <2>2
  <2>4. o = SubSeq(newest, 1, k) /\ k \in 0..Len(newest) /\ k <= MaxOpen
    BY <1>3, <2>1, <2>2
  <2>5. o \in Seq(A) /\ Len(o) = IF 1 <= k THEN k - 1 + 1 ELSE 0
    BY <1>10, <2>3, <2>4, SubSeqProperties
  <2>6. ASSUME Cardinality(A) <= MaxOpen PROVE o = newest
    <3>1. k = Len(newest)
      BY <1>10, <2>2, <2>6, ShadowNumbers
    <3>2. SubSeq(newest, 1, Len(newest)) = newest
      BY <1>10
    <3> QED BY <2>4, <3>1, <3>2
  <2> QED BY <1>10, <2>4, <2>5, <2>6
<1>12. Range(o) \subseteq A
  BY <1>11, RangeIn
<1>13. \A s \in Symbols : \/ open'[s] = NoTrade /\ \A t \in Range(o) : t.symbol # s
                          \/ open'[s] \in Range(o) /\ open'[s].symbol = s
  BY <1>1, <1>3, <1>11, FirstOfSymbolKind
<1>14. OpenTrades' \subseteq Range(o)
  BY <1>13 DEF OpenTrades
<1>15. /\ closed' \in Seq(C) /\ Len(closed') <= MaxClosed /\ Range(closed') \subseteq C
  <2>1. closed' \in Seq(C) /\ Len(closed') <= MaxClosed
    BY <1>1, <1>10, LastOfKind, ShadowNumbers
  <2> QED BY <2>1, RangeIn
<1>16. CountsOk'
  <2>1. \A t \in Range(o) \cup Range(closed') : t.id.seq \in 0..recorded
    <3> SUFFICES ASSUME NEW t \in Range(o) \cup Range(closed') PROVE t.id.seq \in 0..recorded
      OBVIOUS
    <3>1. TradeOk(t, clock, recorded)
      BY <1>6, <1>7, <1>12, <1>15 DEF Finished
    <3>2. t.id.seq \in Nat
      BY <3>1, TradeFields DEF TradeOk
    <3>3. recorded \in Nat
      BY ShadowNumbers DEF ShadowInv, CountsOk
    <3> QED BY <3>1, <3>2, <3>3 DEF TradeOk
  <2>2. seq' \in 0..recorded
    <3>1. recorded \in Nat
      BY ShadowNumbers DEF ShadowInv, CountsOk
    <3> QED BY <1>1, <1>3, <2>1, <3>1, LargestSeqKind
  <2> QED BY <1>2, <2>2 DEF ShadowInv, CountsOk
<1>17. OpenOk'
  <2>1. IsFiniteSet(Range(o)) /\ Cardinality(Range(o)) <= Len(o)
    BY <1>11, RangeSmall
  <2>2. IsFiniteSet(OpenTrades') /\ Cardinality(OpenTrades') <= Cardinality(Range(o))
    BY <1>14, <2>1, FS_Subset
  <2>3. Cardinality(OpenTrades') \in Nat /\ Cardinality(Range(o)) \in Nat
    BY <2>1, <2>2, FS_CardinalityType
  <2>4. Cardinality(OpenTrades') <= MaxOpen
    BY <1>11, <2>1, <2>2, <2>3, ShadowNumbers
  <2>5. \A s \in Symbols : open'[s] # NoTrade =>
          open'[s].symbol = s /\ TradeOk(open'[s], clock, recorded) /\ Running(open'[s])
    BY <1>6, <1>12, <1>13
  <2>6. open' \in [Symbols -> ShadowTrades \cup {NoTrade}]
    BY <1>1, <1>6, <1>12, <1>13
  <2> QED BY <1>2, <2>4, <2>5, <2>6 DEF OpenOk, TradeOk, Running
<1>18. ClosedOk'
  <2>1. closed' \in Seq(Finished(clock, recorded))
    BY <1>7, <1>15
  <2> QED BY <1>2, <1>15, <2>1 DEF ClosedOk
<1>19. Filed' = Filed
  BY <1>2 DEF Filed
<1>20. FiledOk'
  BY <1>2, <1>19 DEF ShadowInv, FiledOk
<1>21. Everything' \subseteq Everything
  <2>1. Range(closed') \cup OpenTrades' \subseteq {r.trade : r \in Filed}
    BY <1>8, <1>12, <1>14, <1>15 DEF Filed
  <2> QED BY <1>19, <2>1 DEF Everything, Filed
<1>22. Identified' /\ Fresh'
  <2>1. \A t \in Everything : t.id.time < clock
    BY <1>2 DEF ShadowInv, Fresh
  <2>2. clock' = clock /\ clock \in Int
    BY <1>2 DEF ShadowInv, CountsOk
  <2>3. \A t \in Everything : t.id.time \in Int
    BY EverythingOk, TradeFields DEF TradeOk
  <2>4. Fresh'
    BY <1>2, <1>21, <2>1, <2>2, <2>3 DEF Fresh
  <2> QED BY <1>21, <2>4 DEF ShadowInv, Identified
<1>23. ~adopted' => ~adopted /\ outbox = {} /\ Filed = rows
  BY <1>2 DEF Filed
<1>24. \A r \in rows, q \in rows : r.trade.id = q.trade.id => r = q
  BY DEF ShadowInv, FiledOk
<1>25. EndsOnce'
  <2>1. ASSUME ~adopted', NEW t \in OpenTrades', NEW w \in rows, w.status = "closed" PROVE w.trade.id # t.id
    <3>1. PICK r \in rows : r.status = "open" /\ r.trade = t
      BY <1>5, <1>12, <1>14
    <3> QED BY <1>24, <2>1, <3>1
  <2> QED BY <1>19, <1>23, <2>1 DEF ShadowInv, EndsOnce
<1>26. RowsKnown'
  <2> SUFFICES ASSUME ~adopted', lost = 0 PROVE LiveIds' = OpenIds'
    BY <1>2 DEF RowsKnown
  <2>1. PICK K : LeftOpen(K)
    BY <1>2, <1>23 DEF ShadowInv, RowsKnown
  <2>2. LiveIds = {t.id : t \in A}
    <3>1. Said("open") = {t.id : t \in A}
      BY <1>5, <1>23 DEF Said
    <3>2. \A i \in Said("open") : i \notin Said("closed")
      BY <1>23, <1>24 DEF Said
    <3> QED BY <3>1, <3>2 DEF LiveIds
  <2>3. \A t \in A, u \in A : t.id = u.id => t = u
    BY <1>5, <1>24
  <2>4. (\A t \in A : \E k \in K : k.id = t.id) /\ (\A k \in K : \E t \in A : t.id = k.id)
    <3>1. {t.id : t \in A} = {k.id : k \in K}
      BY <2>1, <2>2 DEF LeftOpen
    <3>2. ASSUME NEW t \in A PROVE \E k \in K : k.id = t.id
      <4>1. t.id \in {k.id : k \in K}
        BY <3>1
      <4> QED BY <4>1
    <3>3. ASSUME NEW k \in K PROVE \E t \in A : t.id = k.id
      <4>1. k.id \in {t.id : t \in A}
        BY <3>1
      <4> QED BY <4>1
    <3> QED BY <3>2, <3>3
  <2>5. Cardinality(A) <= MaxOpen
    <3> DEFINE f == [k \in K |-> CHOOSE t \in A : t.id = k.id]
    <3>1. \A k \in K : f[k] \in A /\ f[k].id = k.id
      BY <2>4
    <3>2. f \in Surjection(K, A)
      <4>1. f \in [K -> A]
        BY <3>1
      <4>2. ASSUME NEW t \in A PROVE \E k \in K : f[k] = t
        <5>1. PICK k \in K : k.id = t.id
          BY <2>4
        <5>2. f[k] = t
          BY <2>3, <3>1, <5>1
        <5> QED BY <5>2
      <4> HIDE DEF f
      <4> QED BY <4>1, <4>2 DEF Surjection
    <3> HIDE DEF f
    <3>3. IsFiniteSet(K) /\ Cardinality(K) <= MaxOpen
      BY <2>1 DEF LeftOpen
    <3>4. Cardinality(A) <= Cardinality(K) /\ Cardinality(K) \in Nat /\ Cardinality(A) \in Nat
      BY <1>9, <3>2, <3>3, FS_Surjection, FS_CardinalityType
    <3> QED BY <3>3, <3>4, ShadowNumbers
  <2>6. Range(o) = A
    BY <1>1, <1>11, <2>5
  <2>7. \A t \in A, u \in A : t.symbol = u.symbol => t = u
    <3> SUFFICES ASSUME NEW t \in A, NEW u \in A, t.symbol = u.symbol PROVE t = u
      OBVIOUS
    <3>1. PICK k \in K, l \in K : k.id = t.id /\ l.id = u.id
      BY <2>4
    <3>2. k.symbol = t.symbol /\ l.symbol = u.symbol
      BY <1>5, <1>23, <2>1, <3>1 DEF LeftOpen
    <3>3. k = l
      BY <2>1, <3>2 DEF LeftOpen
    <3> QED BY <2>3, <3>1, <3>3
  <2>8. OpenTrades' = A
    <3>1. ASSUME NEW t \in A PROVE t \in OpenTrades'
      <4>1. t.symbol \in Symbols /\ t # NoTrade
        BY <1>6, TradeFields
      <4>2. open'[t.symbol] \in A /\ open'[t.symbol].symbol = t.symbol
        BY <1>13, <2>6, <4>1
      <4>3. open'[t.symbol] = t
        BY <2>7, <4>2
      <4> QED BY <4>1, <4>3 DEF OpenTrades
    <3> QED BY <1>14, <2>6, <3>1
  <2>9. LiveIds' = LiveIds
    BY <1>19 DEF LiveIds, Said
  <2> QED BY <2>2, <2>8, <2>9 DEF OpenIds
<1> QED BY <1>16, <1>17, <1>18, <1>20, <1>22, <1>25, <1>26 DEF ShadowInv

(*-------------------------------------------------------------------------*)

LEMMA ShadowStep == ASSUME ShadowInv, [BookNext]_bookVars PROVE ShadowInv'
<1>1. CASE UNCHANGED bookVars
  <2>1. UNCHANGED <<clock, open, closed, seq, book, rows, outbox, lost, recorded, adopted>>
    BY <1>1 DEF bookVars
  <2>2. UNCHANGED <<OpenTrades, Filed, Everything, LiveIds, OpenIds>>
    BY <2>1 DEF OpenTrades, Filed, Everything, LiveIds, Said, OpenIds
  <2>3. CountsOk' /\ OpenOk' /\ ClosedOk' /\ FiledOk'
    BY <2>1, <2>2 DEF ShadowInv, CountsOk, OpenOk, ClosedOk, FiledOk, TradeOk, Running
  <2>4. Identified' /\ Fresh' /\ EndsOnce'
    BY <2>1, <2>2 DEF ShadowInv, Identified, Fresh, EndsOnce
  <2>5. \A K : LeftOpen(K) => LeftOpen(K)'
    BY <2>1, <2>2 DEF LeftOpen
  <2>6. RowsKnown'
    BY <2>1, <2>2, <2>5 DEF ShadowInv, RowsKnown
  <2> QED BY <2>3, <2>4, <2>6 DEF ShadowInv
<1>2. ASSUME NEW s \in Symbols, NEW p \in Moves, NEW late \in {0, 1}, Mark(s, p, clock - late) PROVE ShadowInv'
  <2>1. p \in Int /\ clock - late \in Int /\ clock - late <= clock
    BY ShadowAssumption DEF ShadowInv, CountsOk
  <2> QED BY <1>2, <2>1, MarkKeeps
<1> QED BY <1>1, <1>2, ClockKeeps, SweepKeeps, CrashKeeps, BootKeeps, RecordingKeeps, LandingKeeps, LoseKeeps DEF BookNext

LEMMA ShadowClaims ==
  ASSUME ShadowInv PROVE BookTypeOK /\ WindowRespected /\ IdsUnique /\ RowsFollowBook
<1>1. BookTypeOK
  <2>1. seq \in 0..MaxTrades
    BY ShadowNumbers DEF ShadowInv, CountsOk
  <2>2. closed \in Seq(ShadowTrades)
    <3>1. Finished(clock, recorded) \subseteq ShadowTrades
      BY DEF Finished
    <3> QED BY <3>1 DEF ShadowInv, ClosedOk
  <2>3. \A w \in Filed : w \in Writes
    BY DEF ShadowInv, FiledOk, WriteOk
  <2> QED BY <2>1, <2>2, <2>3 DEF ShadowInv, CountsOk, OpenOk, ClosedOk, BookTypeOK, Filed, Writes
<1>2. WindowRespected
  BY EverythingOk DEF WindowRespected, Ended
<1>3. IdsUnique
  <2>1. \A t \in Everything : t.openedAt = t.id.time
    BY EverythingOk DEF TradeOk
  <2> QED BY <2>1 DEF ShadowInv, Identified, IdsUnique
<1>4. RowsFollowBook
  <2> SUFFICES ASSUME book = "up", outbox = {}, lost = 0, ~adopted
               PROVE  {t.id : t \in Trades("open")} = {t.id : t \in OpenTrades}
    BY DEF RowsFollowBook
  <2>1. Filed = rows
    BY DEF Filed
  <2>2. Said("open") = {t.id : t \in Trades("open")}
    BY <2>1 DEF Said, Trades
  <2>3. \A i \in Said("open") : i \notin Said("closed")
    BY <2>1 DEF Said, ShadowInv, FiledOk
  <2>4. LiveIds = OpenIds
    BY DEF ShadowInv, RowsKnown
  <2> QED BY <2>2, <2>3, <2>4 DEF LiveIds, OpenIds
<1> QED BY <1>1, <1>2, <1>3, <1>4

LEMMA ClosedRowKept ==
  ASSUME ShadowInv, [BookNext]_bookVars, NEW r \in rows, r.status = "closed"
  PROVE  \E q \in rows' : /\ q.trade.id = r.trade.id /\ q.status = "closed"
                          /\ ~adopted => q.trade.exit = r.trade.exit
<1>1. CASE rows' = rows
  BY <1>1
<1>2. ASSUME NEW w \in outbox, Land(w)
      PROVE  \E q \in rows' : /\ q.trade.id = r.trade.id /\ q.status = "closed"
                              /\ ~adopted => q.trade.exit = r.trade.exit
  <2>1. r \in Writes /\ w \in Writes /\ w \in Filed /\ r \in Filed /\ r.trade \in ShadowTrades
    BY DEF ShadowInv, FiledOk, WriteOk, TradeOk, Filed
  <2>2. PICK old : old = {q \in rows : q.trade.id = w.trade.id}
    OBVIOUS
  <2>3. rows' = (rows \ old) \cup
                  (IF old = {} THEN {w} ELSE IF w.status = "open" THEN {OpenUpsert(q, w.trade) : q \in old} ELSE {w})
    BY <1>2, <2>2 DEF Land, RowOf
  <2>4. CASE r \notin old
    BY <2>3, <2>4
  <2>5. CASE r \in old /\ w.status = "open"
    <3>1. PICK q : q = OpenUpsert(r, w.trade)
      OBVIOUS
    <3>2. q \in rows'
      BY <2>3, <2>5, <3>1
    <3>3. PICK t : t = [r.trade EXCEPT !.last = w.trade.last, !.markedAt = w.trade.markedAt]
      OBVIOUS
    <3>4. t.id = r.trade.id /\ t.exit = r.trade.exit
      BY <2>1, <3>3 DEF ShadowTrades
    <3>5. q = [r EXCEPT !.trade = t]
      BY <3>1, <3>3 DEF OpenUpsert
    <3>6. q.status = r.status /\ q.trade = t
      BY <2>1, <3>5 DEF Writes
    <3> QED BY <3>2, <3>4, <3>6
  <2>6. CASE r \in old /\ w.status = "closed"
    <3>1. w \in rows' /\ w.trade.id = r.trade.id
      BY <2>2, <2>3, <2>6
    <3>2. ~adopted => w.trade.exit = r.trade.exit
      BY <2>1, <2>6, <3>1 DEF ShadowInv, EndsOnce
    <3> QED BY <2>6, <3>1, <3>2
  <2>7. w.status \in {"open", "closed"}
    BY <2>1 DEF Writes
  <2> QED BY <2>4, <2>5, <2>6, <2>7
<1>3. rows' = rows \/ \E w \in outbox : Land(w)
  BY DEF BookNext, bookVars, Clock, Sweep, Crash, Boot, Record, Mark, Lose
<1> QED BY <1>1, <1>2, <1>3

(* For any symbols, ticks, configuration, failed writes and restarts: no result lies outside the
   holding window and a stop or a target is booked only by a tick inside it; no two trades share an
   id, also when a restart forgets the numbers; when the writes have landed the open rows are the open
   trades; a closed row stays closed, and its result stays unless a boot read rows still being written.
   The safety half of the run's ShadowKeeps. *)
THEOREM ShadowHolds ==
  ShadowSpec => /\ [](BookTypeOK /\ WindowRespected /\ IdsUnique /\ RowsFollowBook)
                /\ ClosedRowStays /\ OutcomeStands
<1>1. BookInit => ShadowInv
  BY ShadowStarts
<1>2. ShadowInv /\ [BookNext]_bookVars => ShadowInv'
  BY ShadowStep
<1>3. ShadowInv => BookTypeOK /\ WindowRespected /\ IdsUnique /\ RowsFollowBook
  BY ShadowClaims
<1>4. ShadowInv /\ [BookNext]_bookVars =>
        [\A r \in rows : r.status = "closed" =>
            \E q \in rows' : q.trade.id = r.trade.id /\ q.status = "closed"]_bookVars
  BY ClosedRowKept
<1>5. ShadowInv /\ [BookNext]_bookVars =>
        [\A r \in rows : r.status = "closed" /\ ~adopted =>
            \E q \in rows' : q.trade.id = r.trade.id /\ q.trade.exit = r.trade.exit]_bookVars
  BY ClosedRowKept
<1> QED BY <1>1, <1>2, <1>3, <1>4, <1>5, PTL DEF ShadowSpec, ClosedRowStays, OutcomeStands
=============================================================================
