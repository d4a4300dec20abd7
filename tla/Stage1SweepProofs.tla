------------------------- MODULE Stage1SweepProofs -------------------------
(***************************************************************************)
(* Theorems about Stage1Sweep, for every number of finalists, batteries,   *)
(* items, rounds, crashes and resumes: first what it keeps and persists,   *)
(* then what it spends, the evidence it holds, and the ledger it           *)
(* implements.                                                             *)
(***************************************************************************)
EXTENDS Stage1Sweep, CountingLemmas, TLAPS, FiniteSetTheorems, SequenceTheorems

(***************************************************************************)
(* Finite sets the resume counts                                           *)
(***************************************************************************)

\* Counting a part of a finite set gives a natural number.
LEMMA CountInNat ==
    ASSUME NEW S, IsFiniteSet(S), NEW T \in SUBSET S
    PROVE  Cardinality(T) \in Nat
  <1>1. IsFiniteSet(T)
    BY FS_Subset
  <1>2. QED
    BY <1>1, FS_CardinalityType

\* The measurement rows of a sweep are finitely many, and so are the
\* positions (round, item) of a battery.
LEMMA RowsFinite ==
    ASSUME runs \in Seq(RunRow)
    PROVE  /\ IsFiniteSet((1..Len(runs)) \X Items)
           /\ IsFiniteSet(Rounds) /\ IsFiniteSet(Items)
           /\ Visible \subseteq (1..Len(runs)) \X Items
  <1>1. Len(runs) \in Nat
    BY LenProperties
  <1>2. IsFiniteSet(1..Len(runs)) /\ IsFiniteSet(Items) /\ IsFiniteSet(Rounds)
    BY <1>1, FS_Interval, SizesAssumption DEF Items, Rounds
  <1>3. IsFiniteSet((1..Len(runs)) \X Items)
    BY <1>2, FS_Product
  <1>4. Visible \subseteq (1..Len(runs)) \X Items
    BY DEF Visible, Rows
  <1>5. QED
    BY <1>2, <1>3, <1>4

\* What the rebuild computes for a pair has the shape of a pair sequence.
LEMMA ReplayPairType ==
    ASSUME runs \in Seq(RunRow), NEW b \in Batteries, NEW p \in Pairs
    PROVE  ReplayPair(Visible, p, b) \in [n_rounds : Nat, n_diffs : Nat,
                                          seen : [Rounds -> SUBSET Items]]
  <1> DEFINE fits(r) == /\ Cardinality(RowsIn(Visible, p[1], b, r)) = BankSize[b]
                        /\ Cardinality(RowsIn(Visible, p[2], b, r)) = BankSize[b]
                        /\ Shared(Visible, p, b, r) # {}
             fed == {r \in Replayed(Visible, b) : fits(r)}
             given == {x \in fed \X Items : x[2] \in Shared(Visible, p, b, x[1])}
  <1>1. Cardinality(fed) \in Nat
    <2>1. fed \in SUBSET Rounds
      BY DEF Replayed
    <2>2. QED
      BY <2>1, RowsFinite, CountInNat
  <1>2. Cardinality(given) \in Nat
    <2>1. given \in SUBSET (Rounds \X Items)
      BY DEF Replayed
    <2>2. IsFiniteSet(Rounds \X Items)
      BY RowsFinite, FS_Product
    <2>3. QED
      BY <2>1, <2>2, CountInNat
  <1>3. \A r \in Rounds : Shared(Visible, p, b, r) \in SUBSET Items
    BY RowsFinite DEF Shared, ItemsIn, RowsIn
  <1>4. [r \in Rounds |-> IF r \in fed THEN Shared(Visible, p, b, r) ELSE {}]
            \in [Rounds -> SUBSET Items]
    BY <1>3
  <1>5. ReplayPair(Visible, p, b) =
            [n_rounds |-> Cardinality(fed), n_diffs |-> Cardinality(given),
             seen |-> [r \in Rounds |-> IF r \in fed THEN Shared(Visible, p, b, r) ELSE {}]]
    BY Zenon DEF ReplayPair
  <1> HIDE DEF fed, given
  <1>6. QED
    BY <1>1, <1>2, <1>4, <1>5

\* Counting one more of a table of tables of counters keeps it one.
LEMMA AddOne ==
    ASSUME NEW B, NEW M, NEW I, NEW f \in [B -> [M -> [I -> Nat]]],
           NEW b \in B, NEW m \in M, NEW i \in I
    PROVE  [f EXCEPT ![b][m][i] = @ + 1] \in [B -> [M -> [I -> Nat]]]
  <1>1. f[b] \in [M -> [I -> Nat]]
    OBVIOUS
  <1>2. [f[b][m] EXCEPT ![i] = @ + 1] \in [I -> Nat]
    BY <1>1
  <1>3. [f[b] EXCEPT ![m] = [f[b][m] EXCEPT ![i] = @ + 1]] \in [M -> [I -> Nat]]
    BY <1>1, <1>2
  <1>4. [f EXCEPT ![b] = [f[b] EXCEPT ![m] = [f[b][m] EXCEPT ![i] = @ + 1]]]
            \in [B -> [M -> [I -> Nat]]]
    BY <1>3
  <1>5. [f EXCEPT ![b][m][i] = @ + 1] =
            [f EXCEPT ![b] = [f[b] EXCEPT ![m] = [f[b][m] EXCEPT ![i] = @ + 1]]]
    BY Zenon
  <1>6. QED
    BY <1>4, <1>5

(***************************************************************************)
(* Type correctness                                                        *)
(***************************************************************************)

\* The rebuild of a resumed sweep leaves a well-typed state.
LEMMA OpenType ==
    ASSUME TypeOK, Open
    PROVE  TypeOK'
  <1> USE DEF TypeOK
  <1>1. recorded' \subseteq Keys
    <2>1. \A w \in Visible : KeyOf(w) \in Keys
      <3> SUFFICES ASSUME NEW w \in Visible
                   PROVE  KeyOf(w) \in Keys
        OBVIOUS
      <3>1. w[1] \in 1..Len(runs) /\ w[2] \in Items
        BY RowsFinite
      <3>2. runs[w[1]] \in RunRow
        BY <3>1, ElementOfSeq
      <3>3. QED
        BY <3>1, <3>2 DEF KeyOf, Keys, RunRow
    <2>2. QED
      BY <2>1 DEF Open
  <1>2. next' \in [Batteries -> Nat \ {0}]
    <2>1. \A b \in Batteries : FirstMissing(Visible, b) \in Nat \ {0}
      <3> SUFFICES ASSUME NEW b \in Batteries
                   PROVE  FirstMissing(Visible, b) \in Nat \ {0}
        OBVIOUS
      <3> DEFINE whole == {r \in PriorRounds(b) : \A q \in 1..r : \A m \in Models :
                               ItemsIn(Visible, m, b, q) = Bank(b)}
      <3>1. whole \in SUBSET Rounds
        BY DEF PriorRounds
      <3>2. Cardinality(whole) \in Nat
        BY <3>1, RowsFinite, CountInNat
      <3>3. FirstMissing(Visible, b) = 1 + Cardinality(whole)
        BY Zenon DEF FirstMissing
      <3> HIDE DEF whole
      <3>4. QED
        BY <3>2, <3>3
    <2>2. QED
      BY <2>1 DEF Open
  <1>3. pair' \in [Batteries -> [Pairs -> [n_rounds : Nat, n_diffs : Nat,
                                           seen : [Rounds -> SUBSET Items]]]]
    BY ReplayPairType DEF Open
  <1>4. modelRounds' \in [Batteries -> [Models -> Nat]]
    <2>1. \A b \in Batteries, m \in Models :
              Cardinality({r \in Replayed(Visible, b) : RowsIn(Visible, m, b, r) # {}}) \in Nat
      <3> SUFFICES ASSUME NEW b \in Batteries, NEW m \in Models
                   PROVE  Cardinality({r \in Replayed(Visible, b) :
                                           RowsIn(Visible, m, b, r) # {}}) \in Nat
        OBVIOUS
      <3>1. {r \in Replayed(Visible, b) : RowsIn(Visible, m, b, r) # {}} \in SUBSET Rounds
        BY DEF Replayed
      <3>2. QED
        BY <3>1, RowsFinite, CountInNat
    <2> DEFINE count(b, m) ==
            Cardinality({r \in Replayed(Visible, b) : RowsIn(Visible, m, b, r) # {}})
    <2>2. modelRounds' = [b \in Batteries |-> [m \in Models |-> count(b, m)]]
      BY DEF Open
    <2>3. \A b \in Batteries, m \in Models : count(b, m) \in Nat
      BY <2>1
    <2> HIDE DEF count
    <2>4. QED
      BY <2>2, <2>3
  <1>5. doneRounds' \in [Batteries -> Nat]
    <2>1. \A b \in Batteries : Cardinality(Replayed(Visible, b)) \in Nat
      <3> SUFFICES ASSUME NEW b \in Batteries
                   PROVE  Cardinality(Replayed(Visible, b)) \in Nat
        OBVIOUS
      <3>1. Replayed(Visible, b) \in SUBSET Rounds
        BY DEF Replayed
      <3>2. QED
        BY <3>1, RowsFinite, CountInNat
    <2>2. QED
      BY <2>1 DEF Open
  <1>6. mem' \in [Batteries -> [Models -> [Items -> Nat]]]
    <2>1. \A b \in Batteries, m \in Models, i \in Items :
              HeldScores(Visible, b, m, i) \in Nat
      <3> SUFFICES ASSUME NEW b \in Batteries, NEW m \in Models, NEW i \in Items
                   PROVE  HeldScores(Visible, b, m, i) \in Nat
        OBVIOUS
      <3>1. {w \in Visible : /\ runs[w[1]].model = m /\ runs[w[1]].battery = b
                             /\ w[2] = i} \in SUBSET ((1..Len(runs)) \X Items)
        BY RowsFinite
      <3>2. QED
        BY <3>1, RowsFinite, CountInNat DEF HeldScores
    <2>2. QED
      BY <2>1 DEF Open
  <1>7. total' \in Nat /\ opened' \in Nat
    BY RowsFinite, CountInNat DEF Open, SpentBefore
  <1>8. cb' \in 1..NBatteries + 1
    BY SizesAssumption DEF Open
  <1>9. QED
    BY <1>1, <1>2, <1>3, <1>4, <1>5, <1>6, <1>7, <1>8 DEF Open, oracle

\* A new lane appends one empty row of the current regime.
LEMMA InsertRunRow ==
    ASSUME TypeOK, CursorInv, InsertRun
    PROVE  /\ runs' \in Seq(RunRow)
           /\ Len(runs') = Len(runs) + 1
           /\ \A j \in 1..Len(runs) : runs'[j] = runs[j]
           /\ runs'[Len(runs) + 1] =
                  [regime |-> "current", model |-> cm, battery |-> cb,
                   round |-> next[cb], status |-> "scored", items |-> {}]
  <1> DEFINE row == [regime |-> "current", model |-> cm, battery |-> cb,
                     round |-> next[cb], status |-> "scored", items |-> {}]
  <1>1. row \in RunRow
    BY DEF TypeOK, RunRow, CursorInv, InRound, InsertRun
  <1>2. runs' = Append(runs, row)
    BY DEF InsertRun
  <1>3. runs \in Seq(RunRow)
    BY DEF TypeOK
  <1> HIDE DEF row
  <1>4. /\ Append(runs, row) \in Seq(RunRow)
        /\ Len(Append(runs, row)) = Len(runs) + 1
        /\ \A j \in 1..Len(runs) : Append(runs, row)[j] = runs[j]
        /\ Append(runs, row)[Len(runs) + 1] = row
    BY <1>1, <1>3, AppendProperties
  <1>5. QED
    BY <1>2, <1>4 DEF row

\* The two updates of a lane change its own row only: a scored call adds the
\* item in flight, the close sets the status.
LEMMA LaneRowUpdate ==
    ASSUME TypeOK, CursorInv, RecordResult \/ CloseRun
    PROVE  /\ runs' \in Seq(RunRow)
           /\ Len(runs') = Len(runs) /\ Len(runs) \in 1..Len(runs)
           /\ \A j \in 1..Len(runs) :
                  /\ runs'[j].regime = runs[j].regime
                  /\ runs'[j].model = runs[j].model
                  /\ runs'[j].battery = runs[j].battery
                  /\ runs'[j].round = runs[j].round
                  /\ j # Len(runs) \/ CloseRun => runs'[j].items = runs[j].items
           /\ RecordResult => /\ ci \in Items
                              /\ runs'[Len(runs)].items \subseteq runs[Len(runs)].items \cup {ci}
  <1>1. runs \in Seq(RunRow)
    BY DEF TypeOK
  <1>2. Len(runs) \in 1..Len(runs)
    <2>1. Len(runs) \in Nat
      BY <1>1, LenProperties
    <2>2. Len(runs) > 0
      BY DEF CursorInv, InLane, RecordResult, CloseRun
    <2>3. QED
      BY <2>1, <2>2
  <1>3. \A j \in 1..Len(runs) : runs[j] \in RunRow
    BY <1>1, ElementOfSeq
  <1> DEFINE n == Len(runs)
             old == runs[n]
  <1>4. CASE RecordResult
    <2>1. ci \in Items
      BY <1>4, SizesAssumption DEF CursorInv, InRound, RecordResult, Bank, Items, Batteries
    <2> DEFINE new == [old EXCEPT !.items = @ \cup {ci}]
    <2>2. new \in RunRow
      BY <1>2, <1>3, <2>1 DEF RunRow
    <2>3. /\ new.regime = old.regime /\ new.model = old.model
          /\ new.battery = old.battery /\ new.round = old.round
          /\ new.items = old.items \cup {ci}
      BY <1>2, <1>3 DEF RunRow
    <2>4. runs' = [runs EXCEPT ![n] = new] \/ runs' = runs
      BY <1>4 DEF RecordResult
    <2>5. CASE runs' = runs
      BY <1>1, <1>2, <1>4, <2>1, <2>5 DEF RecordResult, CloseRun
    <2>6. CASE runs' = [runs EXCEPT ![n] = new]
      <3> HIDE DEF new, old
      <3>1. /\ runs' \in Seq(RunRow) /\ Len(runs') = n
            /\ \A j \in 1..n : runs'[j] = IF j = n THEN new ELSE runs[j]
        BY <1>1, <1>2, <2>2, <2>6, ExceptSeq
      <3>2. ~ CloseRun
        BY <1>4 DEF RecordResult, CloseRun
      <3>3. QED
        BY <1>2, <2>1, <2>3, <3>1, <3>2 DEF old
    <2>7. QED
      BY <2>4, <2>5, <2>6
  <1>5. CASE CloseRun
    <2> DEFINE new == [old EXCEPT !.status = IF clean THEN "scored" ELSE "inconclusive"]
    <2>1. new \in RunRow
      BY <1>2, <1>3 DEF RunRow
    <2>2. /\ new.regime = old.regime /\ new.model = old.model
          /\ new.battery = old.battery /\ new.round = old.round
          /\ new.items = old.items
      BY <1>2, <1>3 DEF RunRow
    <2>3. runs' = [runs EXCEPT ![n] = new]
      BY <1>5 DEF CloseRun
    <2> HIDE DEF new, old
    <2>4. /\ runs' \in Seq(RunRow) /\ Len(runs') = n
          /\ \A j \in 1..n : runs'[j] = IF j = n THEN new ELSE runs[j]
      BY <1>1, <1>2, <2>1, <2>3, ExceptSeq
    <2>5. ~ RecordResult
      BY <1>5 DEF RecordResult, CloseRun
    <2>6. QED
      BY <1>2, <2>2, <2>4, <2>5 DEF old
  <1>6. QED
    BY <1>4, <1>5

\* A process without state holds no evidence, no scores and no keys.
LEMMA IdleType ==
        /\ [b \in Batteries |-> 1] \in [Batteries -> Nat \ {0}]
        /\ [b \in Batteries |-> [p \in Pairs |-> NoEvidence]]
               \in [Batteries -> [Pairs -> [n_rounds : Nat, n_diffs : Nat,
                                           seen : [Rounds -> SUBSET Items]]]]
        /\ [b \in Batteries |-> [m \in Models |-> 0]] \in [Batteries -> [Models -> Nat]]
        /\ [b \in Batteries |-> 0] \in [Batteries -> Nat]
        /\ [b \in Batteries |-> [m \in Models |-> [i \in Items |-> 0]]]
               \in [Batteries -> [Models -> [Items -> Nat]]]
        /\ [m \in Models |-> {}] \in [Models -> SUBSET Items]
        /\ 1 \in 1..NBatteries + 1 /\ 1 \in Models
  <1>1. NoEvidence \in [n_rounds : Nat, n_diffs : Nat, seen : [Rounds -> SUBSET Items]]
    BY DEF NoEvidence
  <1>2. 1 \in 1..NBatteries + 1 /\ 1 \in Models
    BY SizesAssumption DEF Models
  <1>3. QED
    BY <1>1, <1>2

\* The initial states are well-typed and satisfy the ledger's invariant.
LEMMA InitInv == Init => TypeOK /\ LedgerInv
  <1> SUFFICES ASSUME Init
               PROVE  TypeOK /\ LedgerInv
    OBVIOUS
  <1>1. TypeOK
    <2>1. runs \in Seq(RunRow)
      BY PriorAssumption DEF Init
    <2>2. stamp \in {"absent", "unmarked", "current"}
      BY DEF Init
    <2>3. /\ next \in [Batteries -> Nat \ {0}]
          /\ pair \in [Batteries -> [Pairs -> [n_rounds : Nat, n_diffs : Nat,
                                               seen : [Rounds -> SUBSET Items]]]]
          /\ modelRounds \in [Batteries -> [Models -> Nat]]
          /\ doneRounds \in [Batteries -> Nat]
          /\ mem \in [Batteries -> [Models -> [Items -> Nat]]]
          /\ scored \in [Models -> SUBSET Items]
          /\ cb \in 1..NBatteries + 1 /\ cm \in Models
      BY Zenon, IdleType DEF Init, IdleVolatile
    <2>4. /\ phase = "down" /\ recorded \subseteq Keys
          /\ total \in Nat /\ opened \in Nat /\ starts \in 0..MaxStarts
          /\ ci \in Nat \ {0} /\ got \in Outcomes \cup {"none"}
      BY SizesAssumption DEF Init, IdleVolatile
    <2> capped \in BOOLEAN /\ active \in BOOLEAN /\ clean \in BOOLEAN
      BY Zenon DEF Init, IdleVolatile
    <2>5. /\ need \in [Batteries -> [Pairs -> NeedRange]]
          /\ precise \in [Batteries -> NeedRange]
      BY DEF Init
    <2>6. QED
      BY <2>1, <2>2, <2>3, <2>4, <2>5 DEF TypeOK
  <1>2. \A j \in 1..Len(runs) : runs[j].regime = "legacy"
    BY PriorAssumption DEF Init
  <1>3. QED
    BY <1>1, <1>2 DEF Init, LedgerInv, CursorInv, StampInv, BehindInv, MeasuredOnce,
                      InRound, InLane, Looping

\* Every step keeps the types; the cursor tells which battery, round and run
\* row a step of the loop writes.
LEMMA TypeStep ==
    ASSUME TypeOK, CursorInv, [Next]_vars
    PROVE  TypeOK'
  <1> USE DEF durable, evidence, cursor, oracle, history
  <1>1. CASE Begin
    <2>1. stamp' \in {"absent", "unmarked", "current"} /\ starts' \in 0..MaxStarts
      BY <1>1, SizesAssumption DEF TypeOK, Begin
    <2>2. QED
      BY <1>1, <2>1 DEF TypeOK, Begin
  <1>2. CASE Open
    BY <1>2, OpenType
  <1>3. CASE SkipSettled
    BY <1>3, SizesAssumption DEF TypeOK, SkipSettled
  <1>4. CASE SkipEmptyBank
    <2>1. cb \in Batteries /\ cb' \in 1..NBatteries + 1
      BY <1>4, SizesAssumption DEF TypeOK, SkipEmptyBank, Batteries
    <2>2. next' \in [Batteries -> Nat \ {0}]
      BY <1>4, <2>1 DEF TypeOK, SkipEmptyBank
    <2>3. QED
      BY <1>4, <2>1, <2>2 DEF TypeOK, SkipEmptyBank
  <1>5. CASE BeginRound
    <2>1. cm' \in Models /\ scored' \in [Models -> SUBSET Items] /\ active' \in BOOLEAN
      BY <1>5, IdleType, Zenon DEF BeginRound
    <2>2. QED
      BY <1>5, <2>1 DEF TypeOK, BeginRound
  <1>6. CASE NextPass
    BY <1>6, IdleType DEF TypeOK, NextPass
  <1>7. CASE Finish
    BY <1>7 DEF TypeOK, Finish
  <1>8. CASE InsertRun
    BY <1>8, InsertRunRow DEF TypeOK, InsertRun
  <1>9. CASE ReuseScore
    <2>1. ci \in Items
      BY <1>9, SizesAssumption DEF ReuseScore, CursorInv, InRound, Bank, Batteries, Items
    <2>2. scored' \in [Models -> SUBSET Items] /\ ci' \in Nat \ {0}
      BY <1>9, <2>1 DEF TypeOK, ReuseScore
    <2>3. QED
      BY <1>9, <2>2 DEF TypeOK, ReuseScore
  <1>10. CASE RecordResult
    <2>1. runs' \in Seq(RunRow) /\ ci \in Items
      BY <1>10, LaneRowUpdate
    <2> cb \in Batteries
      BY <1>10 DEF CursorInv, InRound, RecordResult
    <2>2. mem' \in [Batteries -> [Models -> [Items -> Nat]]]
      <3>1. \/ mem' = mem
            \/ mem' = [mem EXCEPT ![cb][cm][ci] = @ + 1]
        BY <1>10 DEF RecordResult
      <3>2. /\ mem \in [Batteries -> [Models -> [Items -> Nat]]]
            /\ cb \in Batteries /\ cm \in Models /\ ci \in Items
        BY <2>1 DEF TypeOK
      <3>3. [mem EXCEPT ![cb][cm][ci] = @ + 1] \in [Batteries -> [Models -> [Items -> Nat]]]
        BY <3>2, AddOne, Zenon
      <3>4. QED
        BY <3>1, <3>2, <3>3
    <2>3. scored' \in [Models -> SUBSET Items]
      <3>1. \/ scored' = scored
            \/ scored' = [scored EXCEPT ![cm] = @ \cup {ci}]
        BY <1>10 DEF RecordResult
      <3>2. scored \in [Models -> SUBSET Items] /\ cm \in Models /\ ci \in Items
        BY <2>1 DEF TypeOK
      <3>3. QED
        BY <3>1, <3>2
    <2>4. clean' \in BOOLEAN /\ capped' \in BOOLEAN
      <3>1. capped' \in BOOLEAN
        <4>1. capped' = (total >= TokenCap)
          BY <1>10 DEF RecordResult, CapReached
        <4>2. (total >= TokenCap) \in BOOLEAN
          OBVIOUS
        <4>3. QED
          BY <4>1, <4>2
      <3>2. CASE got = "scored"
        BY <1>10, <3>1, <3>2, Zenon DEF TypeOK, RecordResult
      <3>3. CASE got # "scored"
        BY <1>10, <3>1, <3>3 DEF TypeOK, RecordResult
      <3>4. QED
        BY <3>2, <3>3
    <2>5. phase' \in {"item", "close"} /\ ci' \in Nat \ {0}
      BY <1>10 DEF TypeOK, RecordResult
    <2>6. QED
      BY <1>10, <2>1, <2>2, <2>3, <2>4, <2>5 DEF TypeOK, RecordResult
  <1>11. CASE EndOfBank
    BY <1>11 DEF TypeOK, EndOfBank
  <1>12. CASE CloseRun
    <2>1. runs' \in Seq(RunRow)
      BY <1>12, LaneRowUpdate
    <2> cb \in Batteries
      BY <1>12 DEF CursorInv, InRound, CloseRun
    <2>2. modelRounds' \in [Batteries -> [Models -> Nat]]
      <3>1. \/ modelRounds' = modelRounds
            \/ modelRounds' = [modelRounds EXCEPT ![cb][cm] = @ + 1]
        BY <1>12 DEF CloseRun
      <3>2. QED
        BY <3>1 DEF TypeOK
    <2>3. cm' \in Models
      <3>1. cm' = cm \/ (cm' = cm + 1 /\ cm # NModels)
        BY <1>12 DEF CloseRun
      <3>2. cm \in Models
        BY DEF TypeOK
      <3>3. QED
        BY <3>1, <3>2, SizesAssumption DEF Models
    <2>4. QED
      BY <1>12, <2>1, <2>2, <2>3 DEF TypeOK, CloseRun
  <1>13. CASE FeedPairs
    <2>1. cb \in Batteries /\ next[cb] \in Rounds
      BY <1>13 DEF CursorInv, InRound, FeedPairs
    <2>2. doneRounds' \in [Batteries -> Nat] /\ next' \in [Batteries -> Nat \ {0}]
      <3>1. \/ doneRounds' = doneRounds
            \/ doneRounds' = [doneRounds EXCEPT ![cb] = @ + 1]
        BY <1>13 DEF FeedPairs
      <3>2. next' = [next EXCEPT ![cb] = @ + 1]
        BY <1>13 DEF FeedPairs
      <3>3. /\ doneRounds \in [Batteries -> Nat] /\ cb \in Batteries
            /\ next \in [Batteries -> Nat \ {0}]
        BY <2>1 DEF TypeOK
      <3>4. QED
        BY <3>1, <3>2, <3>3
    <2>3. pair' \in [Batteries -> [Pairs -> [n_rounds : Nat, n_diffs : Nat,
                                             seen : [Rounds -> SUBSET Items]]]]
      <3> DEFINE Sequences == [n_rounds : Nat, n_diffs : Nat, seen : [Rounds -> SUBSET Items]]
      <3>1. \A p \in Pairs : SharedNow(p) \in SUBSET Items
        BY DEF SharedNow, TypeOK, Pairs
      <3>2. \A p \in Pairs : Cardinality(SharedNow(p)) \in Nat
        BY <3>1, RowsFinite, CountInNat DEF TypeOK
      <3>3. \A p \in Pairs : Feed(pair[cb][p], next[cb], SharedNow(p)) \in Sequences
        BY <2>1, <3>1, <3>2 DEF Feed, TypeOK
      <3>4. [p \in Pairs |-> IF SharedNow(p) = {} THEN pair[cb][p]
                             ELSE Feed(pair[cb][p], next[cb], SharedNow(p))]
                \in [Pairs -> Sequences]
        BY <2>1, <3>3 DEF TypeOK
      <3>5. QED
        BY <1>13, <2>1, <3>4 DEF TypeOK, FeedPairs
    <2>4. cb' \in 1..NBatteries + 1
      BY <1>13, <2>1, SizesAssumption DEF FeedPairs, Batteries
    <2>5. QED
      BY <1>13, <2>2, <2>3, <2>4 DEF TypeOK, FeedPairs
  <1>14. ASSUME NEW outcome \in Outcomes, CallModel(outcome)
         PROVE  TypeOK'
    BY <1>14 DEF TypeOK, CallModel
  <1>15. CASE Crash
    <2>1. /\ next' \in [Batteries -> Nat \ {0}]
          /\ pair' \in [Batteries -> [Pairs -> [n_rounds : Nat, n_diffs : Nat,
                                                seen : [Rounds -> SUBSET Items]]]]
          /\ modelRounds' \in [Batteries -> [Models -> Nat]]
          /\ doneRounds' \in [Batteries -> Nat]
          /\ mem' \in [Batteries -> [Models -> [Items -> Nat]]]
          /\ scored' \in [Models -> SUBSET Items]
          /\ cb' \in 1..NBatteries + 1 /\ cm' \in Models
      BY <1>15, IdleType, Zenon DEF Crash
    <2>2. /\ runs' \in Seq(RunRow) /\ stamp' \in {"absent", "unmarked", "current"}
          /\ need' \in [Batteries -> [Pairs -> NeedRange]]
          /\ precise' \in [Batteries -> NeedRange]
          /\ starts' \in 0..MaxStarts /\ opened' \in Nat
      BY <1>15 DEF TypeOK, Crash
    <2>3. /\ phase' = "down" /\ recorded' \subseteq Keys
          /\ total' \in Nat /\ ci' \in Nat \ {0} /\ got' \in Outcomes \cup {"none"}
      BY <1>15 DEF Crash
    <2>4. capped' \in BOOLEAN /\ active' \in BOOLEAN /\ clean' \in BOOLEAN
      BY <1>15, Zenon DEF Crash
    <2>5. QED
      BY <2>1, <2>2, <2>3, <2>4 DEF TypeOK
  <1>16. CASE Idle \/ UNCHANGED vars
    BY <1>16 DEF TypeOK, Idle, vars
  <1>17. QED
    BY <1>1, <1>2, <1>3, <1>4, <1>5, <1>6, <1>7, <1>8, <1>9, <1>10, <1>11, <1>12,
       <1>13, <1>14, <1>15, <1>16 DEF Next, Step

(***************************************************************************)
(* Each key is measured once                                               *)
(***************************************************************************)

\* The measurements of the last run row are items.
LEMMA LaneItems ==
    ASSUME TypeOK, Len(runs) > 0
    PROVE  runs[Len(runs)].items \subseteq Items
  <1>1. Len(runs) \in 1..Len(runs)
    BY LenProperties DEF TypeOK
  <1>2. runs[Len(runs)] \in RunRow
    BY <1>1, ElementOfSeq DEF TypeOK
  <1>3. QED
    BY <1>2 DEF RunRow

\* The loop always knows the battery, the round and the run row it is in.
LEMMA CursorStep ==
    ASSUME TypeOK, LedgerInv, [Next]_vars, TypeOK'
    PROVE  CursorInv'
  <1> USE DEF durable, evidence, cursor, oracle, history
  <1> CursorInv
    BY DEF LedgerInv
  <1>1. CASE Begin \/ Open \/ SkipSettled \/ SkipEmptyBank \/ NextPass \/ Finish
             \/ FeedPairs \/ Crash
    BY <1>1 DEF CursorInv, InRound, InLane, Begin, Open, SkipSettled, SkipEmptyBank,
                NextPass, Finish, FeedPairs, Crash
  <1>2. CASE BeginRound
    <2>1. cb \in Batteries /\ next[cb] \in Rounds
      <3>1. ~ (next[cb] > NMax)
        BY <1>2, Zenon DEF BeginRound, Settled
      <3>2. cb \in Batteries
        BY <1>2, SizesAssumption DEF BeginRound, TypeOK, Batteries
      <3>3. next[cb] \in Nat \ {0}
        BY <3>2 DEF TypeOK
      <3>4. QED
        BY <3>1, <3>2, <3>3, SizesAssumption DEF Rounds
    <2>2. QED
      BY <1>2, <2>1 DEF CursorInv, InRound, InLane, BeginRound
  <1>3. CASE InsertRun
    <2>1. Len(runs) \in Nat
      BY LenProperties DEF TypeOK
    <2>2. Len(runs') > 0 /\ LaneRow(runs[Len(runs)])' /\ runs'[Len(runs')].items = {}
      BY <1>3, <2>1, InsertRunRow DEF LaneRow, InsertRun
    <2>3. QED
      BY <1>3, <2>2 DEF CursorInv, InRound, InLane, InsertRun
  <1>4. CASE ReuseScore
    <2>1. /\ runs' = runs /\ cm' = cm /\ cb' = cb /\ next' = next
          /\ phase = "item" /\ phase' = "item"
      BY <1>4 DEF ReuseScore
    <2>2. \A i \in runs[Len(runs)].items : i < ci'
      <3>1. \A i \in runs[Len(runs)].items : i \in Items /\ i < ci
        BY <2>1, LaneItems DEF CursorInv, InLane
      <3>2. ci' = ci + 1 /\ ci \in Nat
        BY <1>4 DEF ReuseScore, TypeOK
      <3>3. QED
        BY <3>1, <3>2 DEF Items
    <2>3. QED
      BY <2>1, <2>2 DEF CursorInv, InRound, InLane, LaneRow
  <1>5. ASSUME NEW outcome \in Outcomes, CallModel(outcome)
        PROVE  CursorInv'
    BY <1>5 DEF CursorInv, InRound, InLane, LaneRow, CallModel, CurrentKey, Bank
  <1>6. CASE EndOfBank
    BY <1>6 DEF CursorInv, InRound, InLane, LaneRow, EndOfBank
  <1>7. CASE RecordResult
    <2>1. /\ Len(runs') = Len(runs) /\ Len(runs) > 0
          /\ LaneRow(runs[Len(runs)])'
      BY <1>7, LaneRowUpdate DEF LaneRow, RecordResult, CursorInv, InLane
    <2>2. \A i \in runs'[Len(runs)].items : i < ci'
      <3>1. /\ runs'[Len(runs)].items \subseteq runs[Len(runs)].items \cup {ci}
            /\ \A i \in runs[Len(runs)].items : i \in Items /\ i < ci
            /\ ci' = ci + 1 /\ ci \in Items
        BY <1>7, LaneRowUpdate, LaneItems DEF RecordResult, CursorInv, InLane
      <3>2. QED
        BY <3>1 DEF Items
    <2>3. phase' \in {"item", "close"} /\ cb' = cb /\ next' = next
      BY <1>7 DEF RecordResult
    <2>4. QED
      BY <1>7, <2>1, <2>2, <2>3 DEF CursorInv, InRound, InLane, RecordResult
  <1>8. CASE CloseRun
    BY <1>8 DEF CursorInv, InRound, InLane, CloseRun
  <1>9. CASE Idle \/ UNCHANGED vars
    BY <1>9 DEF CursorInv, InRound, InLane, LaneRow, CurrentKey, Bank, Idle, vars
  <1>10. QED
    BY <1>1, <1>2, <1>3, <1>4, <1>5, <1>6, <1>7, <1>8, <1>9 DEF Next, Step

\* The stamp is written before the first row of the current regime.
LEMMA StampStep ==
    ASSUME TypeOK, LedgerInv, [Next]_vars
    PROVE  StampInv'
  <1> USE DEF durable, evidence, cursor, oracle, history
  <1> StampInv /\ CursorInv
    BY DEF LedgerInv
  <1>1. CASE Begin
    BY <1>1 DEF StampInv, Looping, InRound, Begin
  <1>2. CASE Open
    BY <1>2 DEF StampInv, Looping, InRound, Open
  <1>3. CASE SkipSettled \/ SkipEmptyBank \/ BeginRound \/ NextPass \/ Finish
    BY <1>3 DEF StampInv, Looping, InRound, SkipSettled, SkipEmptyBank, BeginRound,
                NextPass, Finish
  <1>4. CASE InsertRun \/ RecordResult \/ CloseRun
    BY <1>4 DEF StampInv, Looping, InRound, InsertRun, RecordResult, CloseRun
  <1>5. CASE ReuseScore \/ EndOfBank \/ FeedPairs
    BY <1>5 DEF StampInv, Looping, InRound, ReuseScore, EndOfBank, FeedPairs
  <1>6. ASSUME NEW outcome \in Outcomes, CallModel(outcome)
        PROVE  StampInv'
    BY <1>6 DEF StampInv, Looping, InRound, CallModel
  <1>7. CASE Crash \/ Idle \/ UNCHANGED vars
    BY <1>7 DEF StampInv, Looping, InRound, Crash, Idle, vars
  <1>8. QED
    BY <1>1, <1>2, <1>3, <1>4, <1>5, <1>6, <1>7 DEF Next, Step

\* The resume records the key of every row: each row found is accounted for.
LEMMA OpenRecords ==
    ASSUME TypeOK, LedgerInv, Open, NEW j \in 1..Len(runs),
           runs[j].regime = "current", NEW i \in runs[j].items
    PROVE  <<runs[j].model, runs[j].battery, runs[j].round, i>> \in recorded'
  <1>1. stamp = "current"
    BY DEF LedgerInv, StampInv
  <1>2. i \in Items
    <2>1. runs[j] \in RunRow
      BY ElementOfSeq DEF TypeOK
    <2>2. QED
      BY <2>1 DEF RunRow
  <1>3. <<j, i>> \in Visible
    BY <1>1, <1>2 DEF Visible, Rows
  <1>4. KeyOf(<<j, i>>) = <<runs[j].model, runs[j].battery, runs[j].round, i>>
    BY DEF KeyOf
  <1>5. QED
    BY <1>3, <1>4, Zenon DEF Open

\* Every row of the current regime stays recorded, past, or the lane's own.
LEMMA BehindStep ==
    ASSUME TypeOK, LedgerInv, [Next]_vars
    PROVE  BehindInv'
  <1> USE DEF durable, evidence, cursor, oracle, history
  <1> BehindInv /\ CursorInv /\ runs \in Seq(RunRow)
    BY DEF LedgerInv, TypeOK
  <1>1. \A j \in 1..Len(runs) : /\ runs[j].battery \in Batteries
                                /\ runs[j].round \in Nat /\ runs[j].model \in Nat
    <2>1. \A j \in 1..Len(runs) : runs[j] \in RunRow
      BY ElementOfSeq
    <2>2. QED
      BY <2>1 DEF RunRow, Rounds, Models
  <1>2. next \in [Batteries -> Nat] /\ cm \in Nat /\ Len(runs) \in Nat
    BY LenProperties DEF TypeOK, Models
  <1>3. CASE Begin \/ Finish \/ Crash
    BY <1>3 DEF BehindInv, Looping, InRound, Begin, Finish, Crash
  <1>4. CASE Open
    BY <1>4, OpenRecords DEF BehindInv, Accounted, Open
  <1>5. CASE SkipSettled \/ NextPass
    BY <1>5 DEF BehindInv, Accounted, Past, Looping, InRound, InLane, SkipSettled, NextPass
  <1>6. CASE SkipEmptyBank \/ BeginRound
    <2>1. phase = "scan" /\ runs' = runs /\ recorded' = recorded
      BY <1>6 DEF SkipEmptyBank, BeginRound
    <2>2. \A b \in Batteries : next'[b] >= next[b]
      BY <1>2, <1>6 DEF SkipEmptyBank, BeginRound
    <2>3. next' \in [Batteries -> Nat]
      BY <1>2, <1>6 DEF SkipEmptyBank, BeginRound
    <2>4. QED
      BY <1>1, <1>2, <2>1, <2>2, <2>3 DEF BehindInv, Accounted, Past, Looping, InRound, InLane
  <1>7. CASE InsertRun
    <2>1. /\ phase = "insert" /\ phase' = "item" /\ cb' = cb /\ cm' = cm
          /\ next' = next /\ recorded' = recorded
      BY <1>7 DEF InsertRun
    <2> SUFFICES ASSUME NEW j \in 1..Len(runs'), runs'[j].regime = "current"
                 PROVE  Accounted(j)'
      BY DEF BehindInv
    <2>2. Len(runs') = Len(runs) + 1
      BY <1>7, InsertRunRow
    <2>3. CASE j = Len(runs')
      BY <2>1, <2>3 DEF Accounted, InLane
    <2>4. CASE j # Len(runs')
      <3>1. j \in 1..Len(runs) /\ runs'[j] = runs[j]
        BY <1>2, <1>7, <2>2, <2>4, InsertRunRow
      <3>2. Accounted(j)
        BY <2>1, <3>1 DEF BehindInv, Looping, InRound
      <3>3. QED
        BY <2>1, <3>1, <3>2 DEF Accounted, Past, InRound, InLane
    <2>5. QED
      BY <2>3, <2>4
  <1>8. CASE ReuseScore \/ EndOfBank \/ \E outcome \in Outcomes : CallModel(outcome)
    <2>1. /\ phase = "item" /\ phase' \in {"item", "graded", "close"}
          /\ cb' = cb /\ cm' = cm
          /\ next' = next /\ recorded' = recorded /\ runs' = runs
      BY <1>8 DEF ReuseScore, EndOfBank, CallModel
    <2>2. QED
      BY <2>1 DEF BehindInv, Accounted, Past, Looping, InRound, InLane
  <1>9. CASE RecordResult
    <2>1. /\ phase = "graded" /\ phase' \in {"item", "close"} /\ cb' = cb /\ cm' = cm
          /\ next' = next /\ recorded' = recorded
      BY <1>9 DEF RecordResult
    <2>2. QED
      BY <1>9, <2>1, LaneRowUpdate DEF BehindInv, Accounted, Past, Looping, InRound, InLane
  <1>10. CASE CloseRun
    <2>1. /\ phase = "close" /\ cb' = cb /\ next' = next /\ recorded' = recorded
          /\ \/ phase' = "feed" /\ cm' = cm
             \/ phase' = "insert" /\ cm' = cm + 1
      BY <1>10 DEF CloseRun
    <2> SUFFICES ASSUME NEW j \in 1..Len(runs'), runs'[j].regime = "current"
                 PROVE  Accounted(j)'
      BY DEF BehindInv
    <2>2. /\ Len(runs') = Len(runs) /\ Len(runs) \in 1..Len(runs)
          /\ runs'[j].regime = runs[j].regime /\ runs'[j].model = runs[j].model
          /\ runs'[j].battery = runs[j].battery /\ runs'[j].round = runs[j].round
          /\ runs'[j].items = runs[j].items
      BY <1>10, LaneRowUpdate
    <2>3. CASE j = Len(runs)
      <3>1. runs[j].model = cm /\ runs[j].battery = cb /\ runs[j].round = next[cb]
        BY <2>1, <2>3 DEF CursorInv, InLane, LaneRow
      <3>2. Past(runs[j])'
        BY <1>2, <2>1, <2>2, <3>1 DEF Past, InRound
      <3>3. QED
        BY <3>2 DEF Accounted
    <2>4. CASE j # Len(runs)
      <3>1. Accounted(j)
        BY <2>1, <2>2 DEF BehindInv, Looping, InRound
      <3>2. QED
        BY <1>1, <1>2, <2>1, <2>2, <2>4, <3>1 DEF Accounted, Past, InRound, InLane
    <2>5. QED
      BY <2>3, <2>4
  <1>11. CASE FeedPairs
    <2>1. /\ phase = "feed" /\ runs' = runs /\ recorded' = recorded /\ phase' \in {"scan", "done"}
          /\ next' = [next EXCEPT ![cb] = @ + 1]
      BY <1>11 DEF FeedPairs
    <2>2. cb \in Batteries
      BY <2>1 DEF CursorInv, InRound
    <2> SUFFICES ASSUME NEW j \in 1..Len(runs), runs[j].regime = "current"
                 PROVE  Accounted(j)'
      BY <2>1 DEF BehindInv
    <2>3. Accounted(j)
      BY <2>1 DEF BehindInv, Looping, InRound
    <2>4. ASSUME Past(runs[j])
          PROVE  Past(runs[j])'
      <3>1. runs[j].round < next'[runs[j].battery]
        BY <1>1, <1>2, <2>1, <2>2, <2>4 DEF Past
      <3>2. QED
        BY <2>1, <3>1 DEF Past
    <2>5. QED
      BY <2>1, <2>3, <2>4 DEF Accounted, InLane
  <1>12. CASE Idle \/ UNCHANGED vars
    BY <1>12 DEF BehindInv, Accounted, Past, Looping, InRound, InLane, Idle, vars
  <1>13. QED
    BY <1>3, <1>4, <1>5, <1>6, <1>7, <1>8, <1>9, <1>10, <1>11, <1>12 DEF Next, Step

\* A measurement is recorded only for a key without one: the other rows of
\* its finalist, battery and round are recorded, past or the lane's own, and
\* the key of the call in flight is none of these.
LEMMA OnceStep ==
    ASSUME TypeOK, LedgerInv, [Next]_vars
    PROVE  MeasuredOnce'
  <1> USE DEF durable, evidence, cursor, oracle, history
  <1> BehindInv /\ CursorInv /\ MeasuredOnce /\ runs \in Seq(RunRow)
    BY DEF LedgerInv, TypeOK
  <1>1. CASE runs' = runs
    BY <1>1 DEF MeasuredOnce
  <1>2. CASE InsertRun
    BY <1>2, InsertRunRow, LenProperties DEF MeasuredOnce
  <1>3. CASE CloseRun
    BY <1>3, LaneRowUpdate DEF MeasuredOnce
  <1>4. CASE RecordResult
    <2> DEFINE n == Len(runs)
    <2>1. /\ n \in 1..n /\ LaneRow(runs[n])
          /\ ci \in Items /\ CurrentKey \notin recorded /\ phase = "graded"
      BY <1>4, LaneRowUpdate DEF RecordResult, CursorInv, InLane
    <2>2. ASSUME NEW k \in 1..n, k # n, runs[k].regime = "current",
                 runs[k].model = cm, runs[k].battery = cb, runs[k].round = next[cb]
          PROVE  ci \notin runs[k].items
      <3>1. Accounted(k)
        BY <2>1, <2>2 DEF BehindInv, Looping, InRound
      <3>2. ~ Past(runs[k])
        <4>1. cm \in Nat /\ next[cb] \in Nat
          BY <2>1 DEF TypeOK, Models, CursorInv, InRound, Rounds
        <4>2. QED
          BY <2>1, <2>2, <4>1 DEF Past
      <3>3. QED
        BY <2>1, <2>2, <3>1, <3>2 DEF Accounted, CurrentKey
    <2>3. QED
      BY <1>4, <2>1, <2>2, LaneRowUpdate DEF MeasuredOnce, LaneRow
  <1>5. CASE ~ (InsertRun \/ CloseRun \/ RecordResult)
    BY <1>1, <1>5 DEF Next, Step, Begin, Open, SkipSettled, SkipEmptyBank, BeginRound,
       NextPass, Finish, ReuseScore, CallModel, EndOfBank, FeedPairs, Crash, Idle, vars
  <1>6. QED
    BY <1>2, <1>3, <1>4, <1>5

(***************************************************************************)
(* The theorems                                                            *)
(***************************************************************************)

\* The invariant that carries both theorems is inductive.
THEOREM LedgerInductive == Spec => [](TypeOK /\ LedgerInv)
  <1>1. Init => TypeOK /\ LedgerInv
    BY InitInv
  <1>2. TypeOK /\ LedgerInv /\ [Next]_vars => (TypeOK /\ LedgerInv)'
    <2> SUFFICES ASSUME TypeOK, LedgerInv, [Next]_vars
                 PROVE  TypeOK' /\ LedgerInv'
      OBVIOUS
    <2>1. TypeOK'
      BY TypeStep DEF LedgerInv
    <2>2. CursorInv' /\ StampInv' /\ BehindInv' /\ MeasuredOnce'
      BY <2>1, CursorStep, StampStep, BehindStep, OnceStep
    <2>3. QED
      BY <2>1, <2>2 DEF LedgerInv
  <1>3. QED
    BY <1>1, <1>2, PTL DEF Spec

\* Every reachable state of a sweep is well-typed, whatever the sizes, the cap
\* and the number of interruptions.
THEOREM TypeCorrect == Spec => []TypeOK
  <1>1. TypeOK /\ LedgerInv => TypeOK
    OBVIOUS
  <1>2. QED
    BY <1>1, LedgerInductive, PTL

\* However often a sweep is interrupted and resumed, no key is measured twice.
THEOREM AtMostOnce == Spec => []MeasuredOnce
  <1>1. TypeOK /\ LedgerInv => MeasuredOnce
    BY DEF LedgerInv
  <1>2. QED
    BY <1>1, LedgerInductive, PTL


(***************************************************************************)
(* What a step does to the measurement rows                                *)
(***************************************************************************)

\* What a step leaves alone of a row: everything its key is made of.
SameRow(w) ==
    /\ runs'[w[1]].regime = runs[w[1]].regime
    /\ runs'[w[1]].model = runs[w[1]].model
    /\ runs'[w[1]].battery = runs[w[1]].battery
    /\ runs'[w[1]].round = runs[w[1]].round

NewRow == <<Len(runs), ci>>

\* A scored answer adds the item in flight to the lane's run row.
LEMMA RecordedItems ==
    ASSUME TypeOK, CursorInv, RecordResult
    PROVE  /\ got = "scored" => runs'[Len(runs)].items = runs[Len(runs)].items \cup {ci}
           /\ got # "scored" => runs' = runs
  <1>1. Len(runs) \in 1..Len(runs) /\ runs \in Seq(RunRow)
    BY LaneRowUpdate DEF TypeOK
  <1>2. runs[Len(runs)] \in RunRow
    BY <1>1, ElementOfSeq
  <1>3. CASE got = "scored"
    <2> DEFINE new == [runs[Len(runs)] EXCEPT !.items = @ \cup {ci}]
    <2>1. runs' = [runs EXCEPT ![Len(runs)] = new]
      BY <1>3 DEF RecordResult
    <2>2. new.items = runs[Len(runs)].items \cup {ci}
      BY <1>2 DEF RunRow
    <2> HIDE DEF new
    <2>3. runs'[Len(runs)] = new
      BY <1>1, <2>1
    <2>4. QED
      BY <1>3, <2>2, <2>3
  <1>4. CASE got # "scored"
    BY <1>4 DEF RecordResult
  <1>5. QED
    BY <1>3, <1>4

\* Only a scored answer adds a measurement row, one at a time, under the key
\* of the call in flight; no step changes or removes one.
LEMMA RowsStep ==
    ASSUME TypeOK, CursorInv, [Next]_vars
    PROVE  /\ \A w \in Rows : SameRow(w)
           /\ \/ ~ (RecordResult /\ got = "scored") /\ Rows' = Rows
              \/ /\ RecordResult /\ got = "scored"
                 /\ NewRow \notin Rows
                 /\ Rows' = Rows \cup {NewRow}
                 /\ LaneRow(runs'[Len(runs)])
  <1> USE DEF durable, evidence, cursor, oracle, history
  <1>1. runs \in Seq(RunRow) /\ Len(runs) \in Nat
    BY LenProperties DEF TypeOK
  <1>2. \A j \in 1..Len(runs) : runs[j].items \subseteq Items
    <2>1. \A j \in 1..Len(runs) : runs[j] \in RunRow
      BY <1>1, ElementOfSeq
    <2>2. QED
      BY <2>1 DEF RunRow
  <1>3. CASE InsertRun
    <2>1. Len(runs') = Len(runs) + 1 /\ runs'[Len(runs) + 1].items = {}
      BY <1>3, InsertRunRow
    <2>2. \A j \in 1..Len(runs) : runs'[j] = runs[j]
      BY <1>3, InsertRunRow
    <2>3. Rows' = Rows
      BY <1>1, <2>1, <2>2 DEF Rows
    <2>4. \A w \in Rows : SameRow(w)
      BY <2>2 DEF Rows, SameRow
    <2>5. ~ RecordResult
      BY <1>3 DEF InsertRun, RecordResult
    <2>6. QED
      BY <2>3, <2>4, <2>5
  <1>4. CASE CloseRun
    <2>1. Rows' = Rows
      BY <1>4, LaneRowUpdate DEF Rows
    <2>2. \A w \in Rows : SameRow(w)
      BY <1>4, LaneRowUpdate DEF Rows, SameRow
    <2>3. ~ RecordResult
      BY <1>4 DEF CloseRun, RecordResult
    <2>4. QED
      BY <2>1, <2>2, <2>3
  <1>5. CASE RecordResult
    <2>1. \A w \in Rows : SameRow(w)
      BY <1>5, LaneRowUpdate DEF Rows, SameRow
    <2>2. CASE got # "scored"
      BY <1>5, <2>1, <2>2, RecordedItems DEF Rows
    <2>3. CASE got = "scored"
      <3>1. /\ Len(runs') = Len(runs) /\ Len(runs) \in 1..Len(runs) /\ ci \in Items
            /\ \A j \in 1..Len(runs) : j # Len(runs) => runs'[j].items = runs[j].items
            /\ runs'[Len(runs)].items = runs[Len(runs)].items \cup {ci}
        BY <1>5, <2>3, LaneRowUpdate, RecordedItems
      <3>2. Rows' = Rows \cup {NewRow}
        BY <3>1 DEF Rows, NewRow
      <3>3. LaneRow(runs[Len(runs)]) /\ \A i \in runs[Len(runs)].items : i < ci
        BY <1>5 DEF CursorInv, InLane, RecordResult
      <3>4. NewRow \notin Rows
        BY <3>1, <3>3 DEF NewRow, Rows, Items
      <3>5. LaneRow(runs'[Len(runs)])
        BY <1>5, <3>1, <3>3, LaneRowUpdate DEF LaneRow
      <3>6. QED
        BY <1>5, <2>1, <2>3, <3>2, <3>4, <3>5
    <2>4. QED
      BY <2>2, <2>3
  <1>6. CASE ~ (InsertRun \/ CloseRun \/ RecordResult)
    <2>1. runs' = runs
      BY <1>6 DEF Next, Step, Begin, Open, SkipSettled, SkipEmptyBank, BeginRound, NextPass,
         Finish, ReuseScore, CallModel, EndOfBank, FeedPairs, Crash, Idle, vars
    <2>2. QED
      BY <1>6, <2>1 DEF Rows, SameRow
  <1>7. QED
    BY <1>3, <1>4, <1>5, <1>6

(***************************************************************************)
(* A sweep that ends below the cap is settled                              *)
(***************************************************************************)

\* The inductive invariant: a pass that has reported no battery active has
\* found every battery so far settled, and nothing was run since.
SettledInv ==
    /\ InRound => active = TRUE
    /\ phase = "scan" /\ active = FALSE =>
           \A b \in Batteries : b < cb => Settled(b)
    /\ EndsSettled

\* Every step keeps it: whatever runs a round reports the battery active.
LEMMA SettledStep ==
    ASSUME TypeOK, CursorInv, SettledInv, [Next]_vars
    PROVE  SettledInv'
  <1> USE DEF durable, evidence, cursor, oracle, history
  <1>0. active \in BOOLEAN /\ cb \in 1..NBatteries + 1 /\ NBatteries \in Nat
    BY SizesAssumption DEF TypeOK
  <1>1. CASE Begin \/ Crash
    BY <1>1 DEF SettledInv, InRound, EndsSettled, Begin, Crash
  <1>2. CASE Open
    BY <1>2 DEF SettledInv, InRound, EndsSettled, Open, Batteries
  <1>3. CASE SkipSettled
    <2>1. /\ phase = "scan" /\ phase' = "scan" /\ cb' = cb + 1 /\ active' = active
          /\ Settled(cb)
      BY <1>3 DEF SkipSettled
    <2>2. \A b : Settled(b)' = Settled(b)
      BY <1>3 DEF SkipSettled, Settled, Resolved, Decided, ShouldStop
    <2>3. QED
      BY <1>0, <2>1, <2>2 DEF SettledInv, InRound, EndsSettled, Batteries
  <1>4. CASE SkipEmptyBank \/ BeginRound
    BY <1>4 DEF SettledInv, InRound, EndsSettled, SkipEmptyBank, BeginRound
  <1>5. CASE NextPass
    BY <1>5 DEF SettledInv, InRound, EndsSettled, NextPass, Batteries
  <1>6. CASE Finish
    <2>1. /\ phase = "scan" /\ phase' = "done" /\ cb > NBatteries /\ active = FALSE
      BY <1>0, <1>6 DEF Finish
    <2>2. \A b : Settled(b)' = Settled(b)
      BY <1>6 DEF Finish, Settled, Resolved, Decided, ShouldStop
    <2>3. QED
      BY <1>0, <2>1, <2>2 DEF SettledInv, InRound, EndsSettled, Batteries
  <1>7. CASE InsertRun \/ ReuseScore \/ EndOfBank \/ \E outcome \in Outcomes : CallModel(outcome)
    BY <1>7 DEF SettledInv, InRound, EndsSettled, InsertRun, ReuseScore, EndOfBank, CallModel
  <1>8. CASE RecordResult \/ CloseRun
    <2>1. /\ InRound /\ active' = active /\ phase' \notin {"scan", "done"}
      BY <1>8 DEF InRound, RecordResult, CloseRun
    <2>2. QED
      BY <2>1 DEF SettledInv, EndsSettled
  <1>9. CASE FeedPairs
    <2>1. /\ active' = TRUE
          /\ \/ phase' = "done" /\ capped'
             \/ phase' = "scan"
      BY <1>9 DEF SettledInv, InRound, FeedPairs
    <2>2. QED
      BY <2>1 DEF SettledInv, EndsSettled, InRound
  <1>10. CASE Idle \/ UNCHANGED vars
    <2>1. \A b : Settled(b)' = Settled(b)
      BY <1>10 DEF Idle, vars, Settled, Resolved, Decided, ShouldStop
    <2>2. phase' = phase /\ cb' = cb /\ active' = active /\ capped' = capped
      BY <1>10 DEF Idle, vars
    <2>3. QED
      BY <2>1, <2>2 DEF SettledInv, InRound, EndsSettled
  <1>11. QED
    BY <1>1, <1>2, <1>3, <1>4, <1>5, <1>6, <1>7, <1>8, <1>9, <1>10 DEF Next, Step

\* A sweep that ends below the cap has every battery out of rounds or with
\* every comparison settled, however it was interrupted.
THEOREM EndsOnlySettled == Spec => []EndsSettled
  <1>1. Init => SettledInv
    BY DEF Init, SettledInv, InRound, EndsSettled
  <1>2. TypeOK /\ LedgerInv /\ SettledInv /\ [Next]_vars => SettledInv'
    BY SettledStep DEF LedgerInv
  <1>3. SettledInv => EndsSettled
    BY DEF SettledInv
  <1>4. QED
    BY <1>1, <1>2, <1>3, LedgerInductive, PTL DEF Spec

(***************************************************************************)
(* The token cap                                                           *)
(***************************************************************************)

\* Measurement rows of the current regime, and the one a scored answer in
\* flight is about to add.
Persisted == Cardinality(CurrentRows)
Pending == IF phase = "graded" /\ got = "scored" THEN 1 ELSE 0

\* The inductive invariant.  The rows a process finds were paid for by the
\* processes before it, so they count in `total` when it opens the ledger;
\* from then on every row it adds is paid for by a token of its own, and a
\* process that opens over the cap has one token only.
BelowCap ==
    Looping /\ capped = FALSE /\ phase # "graded" => total = opened \/ total < TokenCap
PaidFor == Looping => opened <= total /\ Persisted + Pending <= total
OneOverCap ==
    Looping /\ opened >= TokenCap =>
        Persisted + Pending < TokenCap + starts + (total - opened)

BudgetInv ==
    /\ total <= Allowance(opened)
    /\ phase \in {"scan", "insert", "item", "graded"} => capped = FALSE
    /\ BelowCap /\ PaidFor /\ OneOverCap
    /\ Persisted <= TokenCap + starts
    /\ phase = "open" => Persisted < TokenCap + starts

\* The rows counted, and how a step changes their number.
LEMMA PersistedStep ==
    ASSUME TypeOK, CursorInv, [Next]_vars
    PROVE  /\ Persisted \in Nat
           /\ Persisted' = Persisted + (IF RecordResult /\ got = "scored" THEN 1 ELSE 0)
  <1>1. IsFiniteSet(CurrentRows) /\ CurrentRows \subseteq Rows
    <2>1. IsFiniteSet((1..Len(runs)) \X Items)
      BY RowsFinite DEF TypeOK
    <2>2. CurrentRows \in SUBSET ((1..Len(runs)) \X Items)
      BY DEF CurrentRows, Rows
    <2>3. QED
      BY <2>1, <2>2, FS_Subset DEF CurrentRows
  <1>2. Persisted \in Nat
    BY <1>1, FS_CardinalityType DEF Persisted
  <1>3. CASE ~ (RecordResult /\ got = "scored")
    <2>1. Rows' = Rows /\ \A w \in Rows : SameRow(w)
      BY <1>3, RowsStep
    <2>2. CurrentRows' = CurrentRows
      BY <2>1 DEF CurrentRows, SameRow
    <2>3. QED
      BY <1>2, <1>3, <2>2 DEF Persisted
  <1>4. CASE RecordResult /\ got = "scored"
    <2>1. /\ NewRow \notin Rows /\ Rows' = Rows \cup {NewRow} /\ \A w \in Rows : SameRow(w)
          /\ LaneRow(runs'[Len(runs)])
      BY <1>4, RowsStep
    <2>2. runs'[NewRow[1]].regime = "current"
      BY <2>1 DEF LaneRow, NewRow
    <2>3. CurrentRows' = CurrentRows \cup {NewRow}
      BY <2>1, <2>2 DEF CurrentRows, SameRow
    <2>4. NewRow \notin CurrentRows
      BY <1>1, <2>1
    <2>5. Cardinality(CurrentRows \cup {NewRow}) = Cardinality(CurrentRows) + 1
      BY <1>1, <2>4, FS_AddElement
    <2>6. QED
      BY <1>2, <1>4, <2>3, <2>5 DEF Persisted
  <1>5. QED
    BY <1>2, <1>3, <1>4

\* What a process finds when it opens the ledger: every row of the current
\* regime is counted in the total.
LEMMA OpenBudget ==
    ASSUME TypeOK, StampInv, Open
    PROVE  Persisted <= total' /\ total' \in Nat
  <1>1. IsFiniteSet(Rows) /\ IsFiniteSet(Visible)
    <2>1. IsFiniteSet((1..Len(runs)) \X Items)
      BY RowsFinite DEF TypeOK
    <2>2. Rows \in SUBSET ((1..Len(runs)) \X Items)
      BY DEF Rows
    <2>3. IsFiniteSet(Rows)
      BY <2>1, <2>2, FS_Subset
    <2>4. Visible \in SUBSET Rows
      BY DEF Visible
    <2>5. QED
      BY <2>3, <2>4, FS_Subset
  <1>2. CurrentRows \in SUBSET Visible
    <2>1. CASE stamp = "current"
      BY <2>1 DEF Visible, CurrentRows
    <2>2. CASE stamp # "current"
      <3>1. CurrentRows = {}
        BY <2>2 DEF StampInv, CurrentRows, Rows
      <3>2. QED
        BY <3>1
    <2>3. QED
      BY <2>1, <2>2
  <1>3. total' = Cardinality(Visible)
    BY DEF Open, SpentBefore
  <1>4. QED
    BY <1>1, <1>2, <1>3, FS_Subset, FS_CardinalityType DEF Persisted

\* Every step keeps it.
LEMMA BudgetStep ==
    ASSUME TypeOK, LedgerInv, BudgetInv, [Next]_vars
    PROVE  BudgetInv'
  <1> USE DEF durable, evidence, cursor, oracle, history
  <1> CursorInv /\ StampInv
    BY DEF LedgerInv
  <1>0. /\ Persisted \in Nat /\ total \in Nat /\ opened \in Nat /\ starts \in Nat
        /\ TokenCap \in Nat
    BY PersistedStep, SizesAssumption DEF TypeOK
  <1>p. PICK spent \in Nat, found \in Nat, held \in Nat, due \in Nat :
            total' = spent /\ opened' = found /\ Persisted' = held /\ Pending' = due
    <2>1. TypeOK'
      BY TypeStep
    <2>2. total' \in Nat /\ opened' \in Nat
      BY <2>1, Zenon DEF TypeOK
    <2>3. Persisted' \in Nat
      BY <1>0, PersistedStep
    <2> Pending' \in Nat
      BY DEF Pending
    <2>4. QED
      BY <2>2, <2>3, Zenon
  <1> DEFINE within == total <= Allowance(opened)
             uncapped == phase \in {"scan", "insert", "item", "graded"} => capped = FALSE
             sum == Persisted <= TokenCap + starts
             open == phase = "open" => Persisted < TokenCap + starts
  <1>a. within /\ uncapped /\ BelowCap /\ PaidFor /\ OneOverCap /\ sum /\ open
    BY DEF BudgetInv
  <1> SUFFICES within' /\ uncapped' /\ BelowCap' /\ PaidFor' /\ OneOverCap' /\ sum' /\ open'
    BY Zenon DEF BudgetInv
  <1>b. ASSUME phase \in {"scan", "insert", "item", "close", "feed"},
               phase' \in {"scan", "insert", "item", "close", "feed"},
               total' = total, opened' = opened, starts' = starts, capped' = capped,
               ~ RecordResult, uncapped'
        PROVE  within' /\ uncapped' /\ BelowCap' /\ PaidFor' /\ OneOverCap' /\ sum' /\ open'
    <2>1. Persisted' = Persisted
      BY <1>0, <1>b, PersistedStep
    <2>2. Pending' = 0 /\ Pending = 0
      BY <1>b DEF Pending
    <2>3. Looping
      BY <1>b DEF Looping, InRound
    <2>4. within' /\ sum' /\ open'
      BY <1>a, <1>b, <2>1 DEF Allowance
    <2>5. BelowCap' /\ PaidFor'
      BY <1>a, <1>b, <2>1, <2>2, <2>3 DEF BelowCap, PaidFor
    <2>6. OneOverCap'
      BY <1>a, <1>b, <2>1, <2>2, <2>3 DEF OneOverCap
    <2>7. QED
      BY <1>b, <2>4, <2>5, <2>6
  <1>1. CASE Begin
    <2>1. Persisted' = Persisted
      BY <1>0, <1>1, PersistedStep DEF Begin, RecordResult
    <2>2. /\ phase' = "open" /\ total' = total /\ opened' = opened /\ starts' = starts + 1
      BY <1>1 DEF Begin
    <2>3. ~ Looping'
      BY <2>2 DEF Looping, InRound
    <2>4. within' /\ uncapped'
      BY <1>a, <2>2 DEF Allowance
    <2>5. sum' /\ open'
      BY <1>0, <1>a, <2>1, <2>2
    <2>6. QED
      BY <2>3, <2>4, <2>5, Zenon DEF BelowCap, PaidFor, OneOverCap
  <1>2. CASE Open
    <2>1. Persisted' = Persisted
      BY <1>0, <1>2, PersistedStep DEF Open, RecordResult
    <2>2. /\ phase = "open" /\ phase' = "scan" /\ total' = opened' /\ starts' = starts
          /\ capped' = FALSE
      BY <1>2 DEF Open
    <2>3. Persisted <= total' /\ total' \in Nat
      BY <1>2, OpenBudget
    <2>4. Pending' = 0
      BY <2>2 DEF Pending
    <2>5. within' /\ uncapped' /\ BelowCap' /\ PaidFor'
      BY <1>0, <1>p, <2>1, <2>2, <2>3, <2>4 DEF Allowance, BelowCap, PaidFor
    <2>6. sum' /\ open' /\ OneOverCap'
      BY <1>0, <1>a, <1>p, <2>1, <2>2, <2>3, <2>4 DEF OneOverCap
    <2>7. QED
      BY <2>5, <2>6
  <1>3. CASE SkipSettled \/ SkipEmptyBank \/ BeginRound \/ NextPass \/ InsertRun \/ ReuseScore
             \/ EndOfBank
    <2>1. /\ phase \in {"scan", "insert", "item"}
          /\ phase' \in {"scan", "insert", "item", "close"}
          /\ total' = total /\ opened' = opened /\ starts' = starts /\ capped' = capped
      BY <1>3 DEF SkipSettled, SkipEmptyBank, BeginRound, NextPass, InsertRun, ReuseScore,
         EndOfBank
    <2>2. ~ RecordResult
      BY <2>1 DEF RecordResult
    <2>3. QED
      BY <1>a, <1>b, <2>1, <2>2
  <1>4. ASSUME NEW outcome \in Outcomes, CallModel(outcome)
        PROVE  within' /\ uncapped' /\ BelowCap' /\ PaidFor' /\ OneOverCap' /\ sum' /\ open'
    <2>1. Persisted' = Persisted
      BY <1>0, <1>4, PersistedStep DEF CallModel, RecordResult
    <2>2. /\ phase = "item" /\ phase' = "graded" /\ got' = outcome
          /\ total' = total + (IF outcome = "infra" THEN 0 ELSE 1)
          /\ opened' = opened /\ starts' = starts /\ capped' = capped
      BY <1>4 DEF CallModel
    <2>3. Pending = 0 /\ Pending' <= total' - total /\ Pending' \in Nat /\ total <= total'
          /\ total' <= total + 1 /\ total' \in Nat
      BY <1>0, <2>2 DEF Pending
    <2>4. total = opened \/ total < TokenCap
      BY <1>a, <2>2 DEF uncapped, BelowCap, Looping, InRound
    <2>5. within'
      BY <1>0, <2>2, <2>3, <2>4 DEF Allowance
    <2>6. uncapped' /\ BelowCap' /\ sum' /\ open'
      BY <1>a, <2>1, <2>2 DEF BelowCap
    <2>7. Looping
      BY <2>2 DEF Looping, InRound
    <2>8. opened' = opened /\ starts' = starts
      BY <2>2
    <2>9. PaidFor' /\ OneOverCap'
      BY <1>0, <1>a, <1>p, <2>1, <2>3, <2>7, <2>8 DEF PaidFor, OneOverCap
    <2>10. QED
      BY <2>5, <2>6, <2>9
  <1>5. CASE RecordResult
    <2>1. Persisted' = Persisted + Pending
      BY <1>0, <1>5, PersistedStep DEF RecordResult, Pending
    <2>2. /\ phase = "graded" /\ phase' \in {"item", "close"}
          /\ total' = total /\ opened' = opened /\ starts' = starts
      BY <1>5 DEF RecordResult
    <2>3. Pending' = 0 /\ Pending \in {0, 1} /\ Looping
      BY <2>2 DEF Pending, Looping, InRound
    <2>4. Persisted' + Pending' = Persisted + Pending
      BY <1>0, <2>1, <2>3
    <2>5. CASE CapReached
      <3>1. capped' = TRUE /\ phase' = "close"
        BY <1>5, <2>5, Zenon DEF RecordResult
      <3>2. QED
        BY <1>0, <1>a, <2>1, <2>2, <2>3, <2>4, <3>1
           DEF Allowance, BelowCap, PaidFor, OneOverCap
    <2>6. CASE ~ CapReached
      <3>1. ~ capped' /\ phase' = "item"
        BY <1>5, <2>6, Zenon DEF RecordResult
      <3>2. total < TokenCap
        BY <1>0, <2>6 DEF CapReached
      <3>3. capped' \in BOOLEAN
        BY TypeStep DEF TypeOK
      <3>4. capped' = FALSE
        BY <3>1, <3>3, Zenon
      <3>5. QED
        BY <1>0, <1>a, <2>1, <2>2, <2>3, <2>4, <3>1, <3>2, <3>4
           DEF Allowance, BelowCap, PaidFor, OneOverCap
    <2>7. QED
      BY <2>5, <2>6
  <1>6. CASE CloseRun \/ (FeedPairs /\ phase' = "scan")
    <2>1. /\ phase \in {"close", "feed"} /\ phase' \in {"insert", "feed", "scan"}
          /\ total' = total /\ opened' = opened /\ starts' = starts /\ capped' = capped
      BY <1>6 DEF CloseRun, FeedPairs
    <2>2. uncapped'
      <3>1. phase' \in {"insert", "scan"} => ~ capped
        BY <1>6 DEF CloseRun, FeedPairs
      <3>2. capped \in BOOLEAN
        BY DEF TypeOK
      <3>3. QED
        BY <2>1, <3>1, <3>2
    <2>3. ~ RecordResult
      BY <2>1 DEF RecordResult
    <2>4. QED
      BY <1>b, <2>1, <2>2, <2>3
  <1>7. CASE Finish \/ Crash \/ (FeedPairs /\ phase' # "scan")
    <2>1. /\ phase' \in {"done", "down"} /\ opened' = opened /\ starts' = starts
          /\ total' = total \/ total' = 0
      BY <1>7 DEF Finish, Crash, FeedPairs
    <2>2. ~ RecordResult
      BY <2>1 DEF RecordResult
    <2>3. Persisted' = Persisted
      BY <1>0, <2>2, PersistedStep
    <2>4. ~ Looping'
      BY <2>1 DEF Looping, InRound
    <2>5. within' /\ uncapped' /\ sum' /\ open'
      BY <1>0, <1>a, <2>1, <2>3 DEF Allowance
    <2>6. QED
      BY <2>4, <2>5, Zenon DEF BelowCap, PaidFor, OneOverCap
  <1>8. CASE Idle \/ UNCHANGED vars
    <2>1. UNCHANGED vars
      BY <1>8 DEF Idle
    <2>2. Persisted' = Persisted /\ Pending' = Pending /\ Looping' = Looping
      BY <2>1 DEF vars, Persisted, CurrentRows, Rows, Pending, Looping, InRound
    <2>3. QED
      BY <1>a, <2>1, <2>2 DEF vars, BelowCap, PaidFor, OneOverCap
  <1>9. CASE FeedPairs
    BY <1>6, <1>7, <1>9
  <1> HIDE DEF within, uncapped, sum, open
  <1>10. QED
    BY <1>1, <1>2, <1>3, <1>4, <1>5, <1>6, <1>7, <1>8, <1>9 DEF Next, Step

\* A sweep starts with no row of the current regime and nothing spent.
LEMMA BudgetInit == Init => BudgetInv
  <1> SUFFICES ASSUME Init
               PROVE  BudgetInv
    OBVIOUS
  <1>1. CurrentRows = {}
    <2>1. \A j \in 1..Len(runs) : runs[j].regime = "legacy"
      BY PriorAssumption DEF Init
    <2>2. QED
      BY <2>1 DEF CurrentRows, Rows
  <1>2. Persisted = 0
    BY <1>1, FS_EmptySet DEF Persisted
  <1>3. QED
    BY <1>2, SizesAssumption
       DEF Init, IdleVolatile, BudgetInv, BelowCap, PaidFor, OneOverCap, Looping, InRound,
           Allowance

\* A process overruns the cap by one call at most, and all processes together
\* by one per start, whatever the sweep finds of an older regime.
THEOREM WithinTheCap == Spec => []CapHolds
  <1>1. Init => BudgetInv
    BY BudgetInit
  <1>2. TypeOK /\ LedgerInv /\ BudgetInv /\ [Next]_vars => BudgetInv'
    BY BudgetStep
  <1>3. BudgetInv => CapHolds
    BY DEF BudgetInv, CapHolds, Persisted
  <1>4. QED
    BY <1>1, <1>2, <1>3, LedgerInductive, PTL DEF Spec

(***************************************************************************)
(* A sweep that no older regime has started                                *)
(***************************************************************************)

\* Every row is the current regime's and of an item of its battery's bank, and
\* a recorded key has a row.
FreshInv ==
    /\ \A w \in Rows : /\ runs[w[1]].regime = "current"
                       /\ w[2] \in Bank(runs[w[1]].battery)
    /\ recorded \subseteq {KeyOf(w) : w \in Rows}

\* The fields of a measurement row's run row.
LEMMA RowFields ==
    ASSUME runs \in Seq(RunRow), NEW w \in Rows
    PROVE  /\ w[1] \in 1..Len(runs) /\ w[2] \in Items /\ w = <<w[1], w[2]>>
           /\ w[2] \in runs[w[1]].items
           /\ runs[w[1]].model \in Models /\ runs[w[1]].battery \in Batteries
           /\ runs[w[1]].round \in Rounds
  <1>1. w[1] \in 1..Len(runs) /\ w[2] \in Items /\ w = <<w[1], w[2]>>
        /\ w[2] \in runs[w[1]].items
    BY DEF Rows
  <1>2. runs[w[1]] \in RunRow
    BY <1>1, ElementOfSeq
  <1>3. QED
    BY <1>1, <1>2 DEF RunRow

\* The rows of a sweep are finitely many.
LEMMA FiniteRows ==
    ASSUME TypeOK
    PROVE  IsFiniteSet(Rows)
  <1>1. IsFiniteSet((1..Len(runs)) \X Items)
    BY RowsFinite DEF TypeOK
  <1>2. Rows \in SUBSET ((1..Len(runs)) \X Items)
    BY DEF Rows
  <1>3. QED
    BY <1>1, <1>2, FS_Subset

\* In a fresh sweep a key has one row at most.
LEMMA OneRowPerKey ==
    TypeOK /\ MeasuredOnce /\ FreshInv =>
        \A v, w \in Rows : KeyOf(v) = KeyOf(w) => v = w
  <1> SUFFICES ASSUME TypeOK, MeasuredOnce, FreshInv,
                      NEW v \in Rows, NEW w \in Rows, KeyOf(v) = KeyOf(w)
               PROVE  v = w
    OBVIOUS
  <1>1. /\ runs[v[1]].model = runs[w[1]].model /\ runs[v[1]].battery = runs[w[1]].battery
        /\ runs[v[1]].round = runs[w[1]].round /\ v[2] = w[2]
    BY DEF KeyOf
  <1>2. runs[v[1]].regime = "current" /\ runs[w[1]].regime = "current"
    BY DEF FreshInv
  <1>3. /\ v[1] \in 1..Len(runs) /\ v = <<v[1], v[2]>> /\ v[2] \in runs[v[1]].items
        /\ w[1] \in 1..Len(runs) /\ w = <<w[1], w[2]>> /\ w[2] \in runs[w[1]].items
    BY RowFields DEF TypeOK
  <1>4. v[1] = w[1]
    <2> SUFFICES ASSUME v[1] # w[1]
                 PROVE  FALSE
      OBVIOUS
    <2>1. runs[v[1]].items \cap runs[w[1]].items = {}
      BY <1>1, <1>2, <1>3 DEF MeasuredOnce
    <2>2. QED
      BY <1>1, <1>3, <2>1
  <1>5. QED
    BY <1>1, <1>3, <1>4

\* What a resume sees of a fresh sweep is every row.
LEMMA FreshVisible ==
    ASSUME StampInv, FreshInv
    PROVE  Visible = Rows
  <1>1. CASE stamp # "current"
    <2>1. Rows = {}
      BY <1>1 DEF StampInv, FreshInv, Rows
    <2>2. QED
      BY <2>1 DEF Visible
  <1>2. QED
    BY <1>1 DEF Visible

\* Keys of rows are not changed by a step.
LEMMA SameKey ==
    ASSUME NEW w, SameRow(w)
    PROVE  KeyOf(w)' = KeyOf(w)
  BY DEF SameRow, KeyOf

\* A sweep without older rows stays one.
LEMMA FreshStep ==
    ASSUME TypeOK, LedgerInv, FreshInv, [Next]_vars
    PROVE  FreshInv'
  <1> USE DEF durable, evidence, cursor, oracle, history
  <1> CursorInv /\ StampInv
    BY DEF LedgerInv
  <1>1. /\ Rows \subseteq Rows'
        /\ \A w \in Rows : SameRow(w)
    BY RowsStep
  <1>2. \A w \in Rows' : /\ runs'[w[1]].regime = "current"
                         /\ w[2] \in Bank(runs'[w[1]].battery)
    <2>1. ASSUME NEW w \in Rows
          PROVE  runs'[w[1]].regime = "current" /\ w[2] \in Bank(runs'[w[1]].battery)
      BY <1>1, <2>1 DEF FreshInv, SameRow
    <2>2. CASE RecordResult
      <3>1. LaneRow(runs'[Len(runs)]) => /\ runs'[NewRow[1]].regime = "current"
                                         /\ NewRow[2] \in Bank(runs'[NewRow[1]].battery)
        BY <2>2 DEF LaneRow, NewRow, CursorInv, RecordResult
      <3>2. QED
        BY <2>1, <3>1, RowsStep
    <2>3. CASE ~ RecordResult
      BY <2>1, <2>3, RowsStep
    <2>4. QED
      BY <2>2, <2>3
  <1>3. recorded' \subseteq {KeyOf(w)' : w \in Rows'}
    <2>1. {KeyOf(w) : w \in Rows} \subseteq {KeyOf(w)' : w \in Rows'}
      <3> SUFFICES ASSUME NEW w \in Rows
                   PROVE  \E v \in Rows' : KeyOf(v)' = KeyOf(w)
        OBVIOUS
      <3>1. w \in Rows' /\ KeyOf(w)' = KeyOf(w)
        BY <1>1, SameKey
      <3>2. QED
        BY <3>1
    <2>2. CASE Open
      BY <2>1, <2>2, FreshVisible, Zenon DEF Open
    <2>3. CASE Crash
      BY <2>3 DEF Crash
    <2>4. CASE ~ (Open \/ Crash)
      <3>1. recorded' = recorded
        BY <2>4 DEF Next, Step, Begin, SkipSettled, SkipEmptyBank, BeginRound, NextPass,
           Finish, InsertRun, ReuseScore, CallModel, RecordResult, EndOfBank, CloseRun,
           FeedPairs, Idle, vars
      <3>2. QED
        BY <2>1, <3>1 DEF FreshInv
    <2>5. QED
      BY <2>2, <2>3, <2>4
  <1>4. QED
    BY <1>2, <1>3 DEF FreshInv

\* No row of an older regime means no row at the start.
LEMMA FreshInit ==
    ASSUME PriorSweeps = {<<>>}, Init
    PROVE  FreshInv /\ Rows = {}
  <1>1. runs = <<>> /\ recorded = {}
    BY DEF Init, IdleVolatile
  <1>2. Rows = {}
    BY <1>1 DEF Rows
  <1>3. QED
    BY <1>1, <1>2 DEF FreshInv

(***************************************************************************)
(* The scores in memory are the persisted ones                             *)
(***************************************************************************)

RowsOf(b, m, i) == {w \in Rows : runs[w[1]].model = m /\ runs[w[1]].battery = b /\ w[2] = i}

MemoryInv ==
    Running => \A b \in Batteries, m \in Models, i \in Items :
                   mem[b][m][i] = Cardinality(RowsOf(b, m, i))

\* Counting the run rows that hold an item is counting its measurement rows.
LEMMA RowsOfCount ==
    ASSUME TypeOK, NEW b \in Batteries, NEW m \in Models, NEW i \in Items
    PROVE  Cardinality({j \in 1..Len(runs) : /\ runs[j].model = m /\ runs[j].battery = b
                                             /\ i \in runs[j].items})
               = Cardinality(RowsOf(b, m, i))
  <1> DEFINE S == {j \in 1..Len(runs) : /\ runs[j].model = m /\ runs[j].battery = b
                                        /\ i \in runs[j].items}
             T == RowsOf(b, m, i)
             f == [j \in S |-> <<j, i>>]
  <1>1. IsFiniteSet(S)
    <2>1. IsFiniteSet(1..Len(runs))
      BY LenProperties, FS_Interval DEF TypeOK
    <2>2. S \in SUBSET (1..Len(runs))
      OBVIOUS
    <2>3. QED
      BY <2>1, <2>2, FS_Subset
  <1>2. \A j \in S : <<j, i>> \in T
    BY DEF RowsOf, Rows
  <1>3. f \in [S -> T]
    BY <1>2
  <1>4. \A x, y \in S : f[x] = f[y] => x = y
    OBVIOUS
  <1>5. \A t \in T : \E x \in S : f[x] = t
    <2> SUFFICES ASSUME NEW t \in T
                 PROVE  \E x \in S : <<x, i>> = t
      OBVIOUS
    <2>1. t[1] \in S /\ t = <<t[1], i>>
      BY DEF RowsOf, Rows
    <2>2. QED
      BY <2>1
  <1> HIDE DEF S, T, f
  <1>6. Cardinality(T) = Cardinality(S)
    BY <1>1, <1>3, <1>4, <1>5, SameSize
  <1>7. QED
    BY <1>6 DEF S, T

\* Every step keeps it: the rebuild counts every row, and the loop appends a
\* score exactly when it adds a row.
LEMMA MemoryStep ==
    ASSUME TypeOK, LedgerInv, FreshInv, MemoryInv, [Next]_vars
    PROVE  MemoryInv'
  <1> USE DEF durable, evidence, cursor, oracle, history
  <1> CursorInv /\ StampInv
    BY DEF LedgerInv
  <1> SUFFICES ASSUME Running', NEW b \in Batteries, NEW m \in Models, NEW i \in Items
               PROVE  mem'[b][m][i] = Cardinality(RowsOf(b, m, i)')
    BY Zenon DEF MemoryInv
  <1>1. ASSUME ~ RecordResult \/ got # "scored"
        PROVE  RowsOf(b, m, i)' = RowsOf(b, m, i)
    <2>1. Rows' = Rows /\ \A w \in Rows : SameRow(w)
      BY <1>1, RowsStep
    <2>2. QED
      BY <2>1 DEF RowsOf, SameRow
  <1>2. CASE Open
    <2>1. mem'[b][m][i] = HeldScores(Rows, b, m, i)
      BY <1>2, FreshVisible DEF Open
    <2>2. RowsOf(b, m, i)' = RowsOf(b, m, i)
      BY <1>1, <1>2 DEF Open, RecordResult
    <2>3. QED
      BY <2>1, <2>2 DEF HeldScores, RowsOf
  <1>3. CASE RecordResult
    <2>1. Running /\ cb \in Batteries /\ cm \in Models /\ ci \in Items
      BY <1>3, LaneRowUpdate DEF Running, RecordResult, CursorInv, InRound, TypeOK
    <2>2. CASE got # "scored"
      BY <1>1, <1>3, <2>1, <2>2 DEF RecordResult, MemoryInv
    <2>3. CASE got = "scored"
      <3>1. /\ NewRow \notin Rows /\ Rows' = Rows \cup {NewRow} /\ \A w \in Rows : SameRow(w)
            /\ LaneRow(runs'[Len(runs)])
        BY <1>3, <2>3, RowsStep
      <3>2. mem' = [mem EXCEPT ![cb][cm][ci] = @ + 1]
        BY <1>3, <2>3 DEF RecordResult
      <3>3. mem \in [Batteries -> [Models -> [Items -> Nat]]]
        BY DEF TypeOK
      <3>4. CASE b = cb /\ m = cm /\ i = ci
        <4>1. RowsOf(b, m, i)' = RowsOf(b, m, i) \cup {NewRow}
          BY <3>1, <3>4 DEF RowsOf, SameRow, LaneRow, NewRow
        <4>2. NewRow \notin RowsOf(b, m, i)
          BY <3>1 DEF RowsOf
        <4>3. IsFiniteSet(RowsOf(b, m, i))
          <5>1. RowsOf(b, m, i) \in SUBSET Rows
            BY DEF RowsOf
          <5>2. QED
            BY <5>1, FiniteRows, FS_Subset
        <4>4. Cardinality(RowsOf(b, m, i)') = Cardinality(RowsOf(b, m, i)) + 1
          BY <4>1, <4>2, <4>3, FS_AddElement
        <4>5. mem'[b][m][i] = mem[b][m][i] + 1
          BY <2>1, <3>2, <3>3, <3>4
        <4>6. mem[b][m][i] = Cardinality(RowsOf(b, m, i))
          BY <2>1 DEF MemoryInv
        <4>7. QED
          BY <4>4, <4>5, <4>6
      <3>5. CASE ~ (b = cb /\ m = cm /\ i = ci)
        <4>1. RowsOf(b, m, i)' = RowsOf(b, m, i)
          BY <3>1, <3>5 DEF RowsOf, SameRow, LaneRow, NewRow
        <4>2. mem'[b][m][i] = mem[b][m][i]
          BY <2>1, <3>2, <3>3, <3>5
        <4>3. QED
          BY <2>1, <4>1, <4>2 DEF MemoryInv
      <3>6. QED
        BY <3>4, <3>5
    <2>4. QED
      BY <2>2, <2>3
  <1>4. CASE ~ (Open \/ RecordResult)
    <2>1. mem' = mem /\ Running
      BY <1>4 DEF Running, Next, Step, Begin, SkipSettled, SkipEmptyBank, BeginRound, NextPass,
         Finish, InsertRun, ReuseScore, CallModel, EndOfBank, CloseRun, FeedPairs, Crash,
         Idle, vars
    <2>2. QED
      BY <1>1, <1>4, <2>1 DEF MemoryInv
  <1>5. QED
    BY <1>2, <1>3, <1>4

\* A sweep no older regime has started holds in memory exactly the persisted
\* scores, each once, however it was interrupted and resumed.
THEOREM MemoryIsLedger ==
    ASSUME PriorSweeps = {<<>>}
    PROVE  Spec => []MemoryMatchesLedger
  <1>1. Init => FreshInv /\ MemoryInv
    BY FreshInit DEF Init, MemoryInv, Running
  <1>2. TypeOK /\ LedgerInv /\ FreshInv /\ MemoryInv /\ [Next]_vars => FreshInv' /\ MemoryInv'
    BY FreshStep, MemoryStep
  <1>3. TypeOK /\ MemoryInv => MemoryMatchesLedger
    BY RowsOfCount DEF MemoryInv, MemoryMatchesLedger
  <1>4. QED
    BY <1>1, <1>2, <1>3, LedgerInductive, PTL DEF Spec

(***************************************************************************)
(* The sweep implements the ledger                                         *)
(***************************************************************************)

\* The ledger's cardinality is the one of this module.
LEMMA SameCardinality == \A S : Ledger!Cardinality(S) = Cardinality(S)
  BY Zenon DEF Ledger!Cardinality, Cardinality

Count == [key \in Keys |-> RowCount(key)]
RecordedKeys == {KeyOf(w) : w \in Rows}

\* The rows of a key are counted as one or none, and as many keys are
\* measured as there are rows.
LEMMA CountOfKey ==
    TypeOK /\ MeasuredOnce /\ FreshInv =>
        /\ RecordedKeys \subseteq Keys
        /\ \A key \in Keys : RowCount(key) = IF key \in RecordedKeys THEN 1 ELSE 0
        /\ Ledger!Measured = RecordedKeys
        /\ Cardinality(RecordedKeys) = Cardinality(Rows)
  <1> SUFFICES ASSUME TypeOK, MeasuredOnce, FreshInv
               PROVE  /\ RecordedKeys \subseteq Keys
                      /\ \A key \in Keys :
                             RowCount(key) = IF key \in RecordedKeys THEN 1 ELSE 0
                      /\ Ledger!Measured = RecordedKeys
                      /\ Cardinality(RecordedKeys) = Cardinality(Rows)
    OBVIOUS
  <1>1. \A w \in Rows : KeyOf(w) \in Keys
    BY RowFields DEF TypeOK, KeyOf, Keys
  <1>2. RecordedKeys \subseteq Keys
    BY <1>1 DEF RecordedKeys
  <1>3. ASSUME NEW key \in Keys
        PROVE  RowCount(key) = IF key \in RecordedKeys THEN 1 ELSE 0
    <2>1. CASE key \notin RecordedKeys
      <3>1. {w \in Rows : KeyOf(w) = key} = {}
        BY <2>1 DEF RecordedKeys
      <3>2. QED
        BY <2>1, <3>1, FS_EmptySet DEF RowCount
    <2>2. CASE key \in RecordedKeys
      <3>1. PICK w \in Rows : KeyOf(w) = key
        BY <2>2 DEF RecordedKeys
      <3>2. {v \in Rows : KeyOf(v) = key} = {w}
        BY <3>1, OneRowPerKey
      <3>3. QED
        BY <2>2, <3>2, FS_Singleton DEF RowCount
    <2>3. QED
      BY <2>1, <2>2
  <1>4. Ledger!Measured = RecordedKeys
    BY <1>2, <1>3 DEF Ledger!Measured
  <1>5. Cardinality(RecordedKeys) = Cardinality(Rows)
    <2> DEFINE f == [w \in Rows |-> KeyOf(w)]
    <2>1. f \in [Rows -> RecordedKeys] /\ \A w \in Rows : f[w] = KeyOf(w)
      BY DEF RecordedKeys
    <2>2. \A x, y \in Rows : f[x] = f[y] => x = y
      BY <2>1, OneRowPerKey
    <2>3. \A key \in RecordedKeys : \E w \in Rows : f[w] = key
      BY <2>1 DEF RecordedKeys
    <2> HIDE DEF f
    <2>4. QED
      BY <2>1, <2>2, <2>3, FiniteRows, SameSize
  <1>6. QED
    BY <1>2, <1>3, <1>4, <1>5

\* A step that adds no row counts the same.
LEMMA CountUnchanged ==
    ASSUME TypeOK, LedgerInv, [Next]_vars, ~ (RecordResult /\ got = "scored")
    PROVE  Count' = Count
  <1>1. Rows' = Rows /\ \A w \in Rows : SameRow(w)
    BY RowsStep DEF LedgerInv
  <1>2. \A w \in Rows : KeyOf(w)' = KeyOf(w)
    BY <1>1, SameKey
  <1>3. \A key : RowCount(key)' = RowCount(key)
    BY <1>1, <1>2 DEF RowCount
  <1>4. QED
    BY <1>3 DEF Count

\* A scored answer measures a key that had no row, while the ledger holds
\* fewer rows than the process may have.
LEMMA ScoredMeasures ==
    ASSUME TypeOK, LedgerInv, FreshInv, BudgetInv, RecordResult, got = "scored"
    PROVE  Ledger!Measure(CurrentKey) /\ CurrentKey \in Keys
  <1> CursorInv /\ MeasuredOnce
    BY DEF LedgerInv
  <1>1. [Next]_vars
    BY DEF Next, Step
  <1>2. /\ NewRow \notin Rows /\ Rows' = Rows \cup {NewRow} /\ \A w \in Rows : SameRow(w)
        /\ LaneRow(runs'[Len(runs)])
    BY <1>1, RowsStep
  <1>3. TypeOK' /\ MeasuredOnce' /\ FreshInv'
    BY <1>1, TypeStep, FreshStep, OnceStep
  <1> PICK added : added = NewRow
    OBVIOUS
  <1>4. KeyOf(added)' = CurrentKey
    <2>1. added[1] = Len(runs) /\ added[2] = ci
      BY DEF NewRow
    <2>2. cm' = cm /\ cb' = cb /\ next' = next
      BY DEF RecordResult
    <2>3. QED
      BY <1>2, <2>1, <2>2 DEF KeyOf, LaneRow, CurrentKey
  <1>5. \A w \in Rows : KeyOf(w)' = KeyOf(w)
    BY <1>2, SameKey
  <1>6. (\A v, w \in Rows : KeyOf(v) = KeyOf(w) => v = w)'
    BY <1>3, OneRowPerKey, PTL
  <1>7. CurrentKey \notin RecordedKeys
    <2> SUFFICES ASSUME NEW w \in Rows, KeyOf(w) = CurrentKey
                 PROVE  FALSE
      BY DEF RecordedKeys
    <2>1. w \in Rows' /\ added \in Rows' /\ w # added
      BY <1>2
    <2>2. KeyOf(w)' = KeyOf(added)'
      BY <1>4, <1>5
    <2>3. QED
      BY <1>6, <2>1, <2>2
  <1>8. RecordedKeys' = RecordedKeys \cup {CurrentKey}
    <2>1. RecordedKeys' = {KeyOf(w)' : w \in Rows \cup {added}}
      BY <1>2 DEF RecordedKeys
    <2>2. QED
      BY <1>4, <1>5, <2>1 DEF RecordedKeys
  <1>9. CurrentKey \in Keys /\ Count' = [Count EXCEPT ![CurrentKey] = 1]
    <2>1. (RecordedKeys \subseteq Keys)'
      BY <1>3, CountOfKey, PTL
    <2>2. (\A key \in Keys : RowCount(key) = IF key \in RecordedKeys THEN 1 ELSE 0)'
      BY <1>3, CountOfKey, PTL
    <2>3. \A key \in Keys : RowCount(key) = IF key \in RecordedKeys THEN 1 ELSE 0
      BY CountOfKey
    <2>4. CurrentKey \in Keys
      BY <1>8, <2>1
    <2> DEFINE k == CurrentKey
    <2> HIDE DEF k
    <2>5. \A key \in Keys : RowCount(key)' = IF key = k THEN 1 ELSE RowCount(key)
      BY <1>8, <2>2, <2>3 DEF k
    <2>6. Count' = [key \in Keys |-> RowCount(key)'] /\ Count = [key \in Keys |-> RowCount(key)]
      BY DEF Count
    <2>7. Count' = [Count EXCEPT ![k] = 1]
      BY <2>5, <2>6
    <2>8. QED
      BY <2>4, <2>7 DEF k
  <1>10. Count[CurrentKey] = 0
    BY <1>7, <1>9, CountOfKey DEF Count
  <1>11. Cardinality(Ledger!Measured) < Allowance(opened)
    <2>1. CurrentRows = Rows
      BY DEF CurrentRows, FreshInv
    <2>2. Persisted + 1 <= total /\ total <= Allowance(opened)
      BY DEF BudgetInv, PaidFor, Pending, RecordResult, Looping, InRound
    <2>3. Persisted \in Nat /\ total \in Nat /\ opened \in Nat /\ TokenCap \in Nat
      BY <1>1, PersistedStep, SizesAssumption DEF TypeOK
    <2>4. Persisted < Allowance(opened)
      BY <2>2, <2>3 DEF Allowance
    <2>5. Cardinality(Ledger!Measured) = Persisted
      BY <2>1, CountOfKey DEF Persisted
    <2>6. QED
      BY <2>4, <2>5
  <1>12. opened' = opened
    BY DEF RecordResult, history
  <1>13. QED
    BY <1>9, <1>10, <1>11, <1>12, SameCardinality DEF Ledger!Measure, Count

\* Every step of the sweep is a step of the ledger or leaves it alone.
LEMMA LedgerStep ==
    ASSUME TypeOK, LedgerInv, FreshInv, BudgetInv, [Next]_vars
    PROVE  [Ledger!Next]_<<Count, Allowance(opened)>>
  <1> USE DEF durable, evidence, cursor, oracle, history
  <1> CursorInv /\ StampInv /\ MeasuredOnce
    BY DEF LedgerInv
  <1>1. CASE Open
    <2>1. Count' = Count
      BY <1>1, CountUnchanged DEF Open, RecordResult
    <2>2. opened' = Cardinality(Ledger!Measured)
      BY <1>1, FreshVisible, CountOfKey DEF Open, SpentBefore
    <2>3. Allowance(opened)' = Ledger!AllowanceAt(Cardinality(Ledger!Measured))
      BY <2>2 DEF Allowance, Ledger!AllowanceAt
    <2>4. Ledger!OpenLedger
      BY <2>1, <2>3, SameCardinality DEF Ledger!OpenLedger, Count
    <2>5. QED
      BY <2>4 DEF Ledger!Next
  <1>2. CASE RecordResult /\ got = "scored"
    BY <1>2, ScoredMeasures DEF Ledger!Next
  <1>3. CASE ~ Open /\ ~ (RecordResult /\ got = "scored")
    <2>1. Count' = Count
      BY <1>3, CountUnchanged
    <2>2. opened' = opened
      BY <1>3 DEF Next, Step, Begin, SkipSettled, SkipEmptyBank, BeginRound, NextPass,
         Finish, InsertRun, ReuseScore, CallModel, RecordResult, EndOfBank, CloseRun,
         FeedPairs, Crash, Idle, vars
    <2>3. Allowance(opened)' = Allowance(opened)
      BY <2>2 DEF Allowance
    <2>4. QED
      BY <2>1, <2>3
  <1>4. QED
    BY <1>1, <1>2, <1>3

\* A sweep no older regime has started implements the ledger: however often it
\* is interrupted, its measurements are what one careful clerk would write.
THEOREM SweepIsLedger ==
    ASSUME PriorSweeps = {<<>>}
    PROVE  Spec => ImplementsLedger
  <1>1. Init => FreshInv /\ BudgetInv /\ Ledger!Init
    <2> SUFFICES ASSUME Init
                 PROVE  FreshInv /\ BudgetInv /\ Ledger!Init
      OBVIOUS
    <2>1. FreshInv /\ Rows = {}
      BY FreshInit
    <2>2. \A key : RowCount(key) = 0
      BY <2>1, FS_EmptySet DEF RowCount
    <2>3. Ledger!Init
      BY <2>2 DEF Init, Ledger!Init, Ledger!AllowanceAt, Allowance
    <2>4. BudgetInv
      BY BudgetInit
    <2>5. QED
      BY <2>1, <2>3, <2>4
  <1>2. TypeOK /\ LedgerInv /\ FreshInv /\ BudgetInv /\ [Next]_vars =>
            /\ FreshInv' /\ BudgetInv'
            /\ [Ledger!Next]_<<Count, Allowance(opened)>>
    BY FreshStep, BudgetStep, LedgerStep
  <1>3. QED
    BY <1>1, <1>2, LedgerInductive, PTL DEF Spec, ImplementsLedger, Ledger!Spec, Count

(***************************************************************************)
(* The evidence is what the ledger says                                    *)
(***************************************************************************)

\* Items of a battery's round that a finalist has a measurement of.
ItemsOf(m, b, r) == ItemsIn(Rows, m, b, r)

\* What the round under way has collected: finalists behind the loop have
\* all their items of the round, the one in the lane those before the cursor,
\* the ones ahead none; a lane closes below the cap only at the end of the
\* bank.
ScoredInv ==
    /\ InRound /\ capped = FALSE => \A m \in Models : m < cm \/ phase = "feed" =>
                                        scored[m] = ItemsOf(m, cb, next[cb])
    /\ InRound => \A m \in Models : m > cm => scored[m] = {}
    /\ phase = "insert" => scored[cm] = {}
    /\ InLane => scored[cm] = {i \in ItemsOf(cm, cb, next[cb]) : i < ci}
    /\ phase = "close" /\ capped = FALSE => ci \notin Bank(cb)

FedOnce == \A b \in Batteries, p \in Pairs : CountedOnce(pair[b][p])
FedLedger ==
    Running /\ capped = FALSE =>
        \A b \in Batteries, p \in Pairs, r \in Rounds :
            pair[b][p].seen[r] = IF r < next[b] THEN Shared(Rows, p, b, r) ELSE {}

\* A step adds an item to what is measured only in the lane under way.
LEMMA ItemsOfStep ==
    ASSUME TypeOK, CursorInv, [Next]_vars
    PROVE  \A m, b, r : ItemsOf(m, b, r)' =
               ItemsOf(m, b, r) \cup
                   (IF RecordResult /\ got = "scored" /\ m = cm /\ b = cb /\ r = next[cb]
                    THEN {ci} ELSE {})
  <1>0. \A m, b, r : ItemsOf(m, b, r) =
            {w[2] : w \in {v \in Rows : /\ runs[v[1]].model = m /\ runs[v[1]].battery = b
                                        /\ runs[v[1]].round = r}}
    BY DEF ItemsOf, ItemsIn, RowsIn
  <1>1. CASE ~ (RecordResult /\ got = "scored")
    <2>1. Rows' = Rows /\ \A w \in Rows : SameRow(w)
      BY <1>1, RowsStep
    <2>2. \A m, b, r : ItemsOf(m, b, r)' = ItemsOf(m, b, r)
      BY <2>1 DEF ItemsOf, ItemsIn, RowsIn, SameRow
    <2>3. QED
      BY <1>1, <2>2
  <1>2. CASE RecordResult /\ got = "scored"
    <2>1. /\ Rows' = Rows \cup {NewRow} /\ \A w \in Rows : SameRow(w)
          /\ LaneRow(runs'[Len(runs)])
      BY <1>2, RowsStep
    <2> SUFFICES ASSUME NEW m, NEW b, NEW r
                 PROVE  ItemsOf(m, b, r)' =
                            ItemsOf(m, b, r) \cup
                                (IF m = cm /\ b = cb /\ r = next[cb] THEN {ci} ELSE {})
      BY <1>2
    <2> PICK added : added = NewRow
      OBVIOUS
    <2>2. /\ added[2] = ci /\ runs'[added[1]].model = cm
          /\ runs'[added[1]].battery = cb /\ runs'[added[1]].round = next[cb]
      BY <2>1 DEF NewRow, LaneRow
    <2>3. RowsIn(Rows, m, b, r)' =
              RowsIn(Rows, m, b, r) \cup
                  (IF m = cm /\ b = cb /\ r = next[cb] THEN {added} ELSE {})
      BY <2>1, <2>2 DEF RowsIn, SameRow
    <2>4. QED
      BY <2>2, <2>3 DEF ItemsOf, ItemsIn
  <1>3. QED
    BY <1>1, <1>2

\* Items measured are items of the bank.
LEMMA ItemsInBank ==
    ASSUME TypeOK, FreshInv
    PROVE  \A m, b, r : ItemsOf(m, b, r) \subseteq Bank(b)
  BY DEF ItemsOf, ItemsIn, RowsIn, FreshInv

\* A recorded key has a measurement.
LEMMA RecordedIsMeasured ==
    ASSUME TypeOK, FreshInv, CurrentKey \in recorded, CursorInv, InRound
    PROVE  ci \in ItemsOf(cm, cb, next[cb])
  <1>1. PICK w \in Rows : KeyOf(w) = CurrentKey
    BY DEF FreshInv
  <1>2. /\ runs[w[1]].model = cm /\ runs[w[1]].battery = cb /\ runs[w[1]].round = next[cb]
        /\ w[2] = ci
    BY <1>1 DEF KeyOf, CurrentKey
  <1>3. QED
    BY <1>2 DEF ItemsOf, ItemsIn, RowsIn

\* The key of the call in flight has no measurement yet.
LEMMA InFlightUnmeasured ==
    ASSUME TypeOK, LedgerInv, FreshInv, phase = "graded"
    PROVE  ci \notin ItemsOf(cm, cb, next[cb])
  <1> CursorInv /\ BehindInv
    BY DEF LedgerInv
  <1> SUFFICES ASSUME ci \in ItemsOf(cm, cb, next[cb])
               PROVE  FALSE
    OBVIOUS
  <1>1. PICK w \in Rows : /\ runs[w[1]].model = cm /\ runs[w[1]].battery = cb
                          /\ runs[w[1]].round = next[cb] /\ w[2] = ci
    BY DEF ItemsOf, ItemsIn, RowsIn
  <1>2. w[1] \in 1..Len(runs) /\ ci \in runs[w[1]].items
    BY <1>1 DEF Rows
  <1>3. Accounted(w[1])
    BY <1>2 DEF BehindInv, Looping, InRound, FreshInv
  <1>4. CurrentKey \notin recorded /\ cm \in Nat /\ next[cb] \in Nat /\ cb \in Batteries
    BY DEF CursorInv, InRound, TypeOK, Models, Rounds
  <1>5. ~ Past(runs[w[1]])
    BY <1>1, <1>4 DEF Past
  <1>6. w[1] # Len(runs)
    <2>1. \A i \in runs[Len(runs)].items : i < ci
      BY DEF CursorInv, InLane
    <2>2. ci \in Nat
      BY DEF TypeOK
    <2>3. QED
      BY <1>2, <2>1, <2>2
  <1>7. QED
    BY <1>1, <1>2, <1>3, <1>4, <1>5, <1>6 DEF Accounted, CurrentKey

\* Every step of a round keeps it.
LEMMA ScoredStep ==
    ASSUME TypeOK, LedgerInv, FreshInv, BudgetInv, ScoredInv, [Next]_vars
    PROVE  ScoredInv'
  <1> USE DEF durable, evidence, cursor, oracle, history
  <1> CursorInv
    BY DEF LedgerInv
  <1>0. /\ cm \in Models /\ ci \in Nat \ {0} /\ capped \in BOOLEAN
        /\ scored \in [Models -> SUBSET Items] /\ NModels \in Nat
    BY SizesAssumption DEF TypeOK
  <1>1. \A m, b, r : ItemsOf(m, b, r) \subseteq Items
    BY RowFields DEF ItemsOf, ItemsIn, RowsIn, TypeOK
  <1>2. ASSUME ~ (RecordResult /\ got = "scored")
        PROVE  \A m, b, r : ItemsOf(m, b, r)' = ItemsOf(m, b, r)
    <2>1. Rows' = Rows /\ \A w \in Rows : SameRow(w)
      BY <1>2, RowsStep
    <2>2. QED
      BY <2>1 DEF ItemsOf, ItemsIn, RowsIn, SameRow
  <1>3. CASE Begin \/ Open \/ SkipSettled \/ SkipEmptyBank \/ NextPass \/ Finish
             \/ FeedPairs \/ Crash \/ Idle
    <2>1. phase' \in {"open", "scan", "done", "down"}
      BY <1>3 DEF Begin, Open, SkipSettled, SkipEmptyBank, NextPass, Finish, FeedPairs,
         Crash, Idle, vars
    <2>2. QED
      BY <2>1 DEF ScoredInv, InRound, InLane
  <1>4. CASE BeginRound
    BY <1>0, <1>4 DEF ScoredInv, InRound, InLane, BeginRound, Models
  <1>5. CASE InsertRun
    <2>1. /\ phase = "insert" /\ phase' = "item" /\ ci' = 1 /\ cm' = cm /\ cb' = cb
          /\ next' = next /\ scored' = scored /\ capped' = capped
      BY <1>5 DEF InsertRun
    <2>2. \A m, b, r : ItemsOf(m, b, r)' = ItemsOf(m, b, r)
      BY <1>2, <2>1 DEF RecordResult
    <2>3. {i \in ItemsOf(cm, cb, next[cb]) : i < 1} = {}
      BY <1>1 DEF Items
    <2>4. QED
      BY <2>1, <2>2, <2>3 DEF ScoredInv, InRound, InLane
  <1>6. CASE ReuseScore
    <2>1. /\ phase = "item" /\ phase' = "item" /\ ci' = ci + 1 /\ cm' = cm /\ cb' = cb
          /\ next' = next /\ scored' = [scored EXCEPT ![cm] = @ \cup {ci}]
          /\ capped' = capped /\ CurrentKey \in recorded
      BY <1>6 DEF ReuseScore
    <2>2. \A m, b, r : ItemsOf(m, b, r)' = ItemsOf(m, b, r)
      BY <1>2, <2>1 DEF RecordResult
    <2>3. ci \in ItemsOf(cm, cb, next[cb])
      BY <2>1, RecordedIsMeasured DEF InRound
    <2>4. {i \in ItemsOf(cm, cb, next[cb]) : i < ci + 1} =
              {i \in ItemsOf(cm, cb, next[cb]) : i < ci} \cup {ci}
      BY <1>0, <1>1, <2>3 DEF Items
    <2>5. scored'[cm] = {i \in ItemsOf(cm, cb, next[cb]) : i < ci + 1}
      BY <1>0, <2>1, <2>4 DEF ScoredInv, InLane
    <2>6. \A m \in Models : m # cm => scored'[m] = scored[m]
      BY <1>0, <2>1
    <2>7. QED
      BY <1>0, <2>1, <2>2, <2>5, <2>6 DEF ScoredInv, InRound, InLane, Models
  <1>7. ASSUME NEW outcome \in Outcomes, CallModel(outcome)
        PROVE  ScoredInv'
    <2>1. /\ phase = "item" /\ phase' = "graded" /\ ci' = ci /\ cm' = cm /\ cb' = cb
          /\ next' = next /\ scored' = scored /\ capped' = capped
      BY <1>7 DEF CallModel
    <2>2. \A m, b, r : ItemsOf(m, b, r)' = ItemsOf(m, b, r)
      BY <1>2, <2>1 DEF RecordResult
    <2>3. QED
      BY <2>1, <2>2 DEF ScoredInv, InRound, InLane
  <1>8. CASE RecordResult
    <2>1. /\ phase = "graded" /\ phase' \in {"item", "close"} /\ ci' = ci + 1 /\ cm' = cm
          /\ cb' = cb /\ next' = next
      BY <1>8 DEF RecordResult
    <2>2. phase' = "close" => capped'
      BY <1>8 DEF RecordResult
    <2>3. capped = FALSE
      BY <2>1 DEF BudgetInv
    <2>4. ci \notin ItemsOf(cm, cb, next[cb])
      BY <2>1, InFlightUnmeasured
    <2>5. \A m \in Models : m # cm =>
              scored'[m] = scored[m] /\ ItemsOf(m, cb, next[cb])' = ItemsOf(m, cb, next[cb])
      <3>1. \A m : m # cm => ItemsOf(m, cb, next[cb])' = ItemsOf(m, cb, next[cb])
        BY <2>1, ItemsOfStep
      <3>2. scored' = scored \/ scored' = [scored EXCEPT ![cm] = @ \cup {ci}]
        BY <1>8 DEF RecordResult
      <3>3. QED
        BY <1>0, <3>1, <3>2
    <2>6. scored'[cm] = {i \in ItemsOf(cm, cb, next[cb])' : i < ci + 1}
      <3>1. scored[cm] = {i \in ItemsOf(cm, cb, next[cb]) : i < ci}
        BY <2>1 DEF ScoredInv, InLane
      <3>2. CASE got = "scored"
        <4>1. scored'[cm] = scored[cm] \cup {ci}
          BY <1>0, <1>8, <3>2 DEF RecordResult
        <4>2. ItemsOf(cm, cb, next[cb])' = ItemsOf(cm, cb, next[cb]) \cup {ci}
          BY <1>8, <2>1, <3>2, ItemsOfStep
        <4>3. QED
          BY <1>0, <1>1, <3>1, <4>1, <4>2 DEF Items
      <3>3. CASE got # "scored"
        <4>1. scored'[cm] = scored[cm]
          BY <1>8, <3>3 DEF RecordResult
        <4>2. ItemsOf(cm, cb, next[cb])' = ItemsOf(cm, cb, next[cb])
          BY <1>2, <2>1, <3>3
        <4>3. QED
          BY <1>0, <1>1, <2>4, <3>1, <4>1, <4>2 DEF Items
      <3>4. QED
        BY <3>2, <3>3
    <2>7. ASSUME NEW m \in Models, m < cm
          PROVE  scored'[m] = ItemsOf(m, cb, next[cb])'
      BY <1>0, <2>1, <2>3, <2>5, <2>7 DEF ScoredInv, InRound, Models
    <2>8. ASSUME NEW m \in Models, m > cm
          PROVE  scored'[m] = {}
      BY <1>0, <2>1, <2>5, <2>8 DEF ScoredInv, InRound, Models
    <2>9. phase' = "close" /\ capped' = FALSE => FALSE
      BY <2>2
    <2>10. QED
      BY <2>1, <2>6, <2>7, <2>8, <2>9 DEF ScoredInv, InRound, InLane
  <1>9. CASE EndOfBank
    <2>1. /\ phase = "item" /\ phase' = "close" /\ ci' = ci /\ cm' = cm /\ cb' = cb
          /\ next' = next /\ scored' = scored /\ capped' = capped /\ ci \notin Bank(cb)
      BY <1>9 DEF EndOfBank
    <2>2. \A m, b, r : ItemsOf(m, b, r)' = ItemsOf(m, b, r)
      BY <1>2, <2>1 DEF RecordResult
    <2>3. QED
      BY <2>1, <2>2 DEF ScoredInv, InRound, InLane, Bank
  <1>10. CASE CloseRun
    <2>1. /\ phase = "close" /\ phase' \in {"insert", "feed"} /\ cb' = cb /\ next' = next
          /\ scored' = scored /\ capped' = capped
      BY <1>10 DEF CloseRun
    <2>2. /\ phase' = "insert" => cm' = cm + 1
          /\ phase' = "feed" => cm' = cm /\ (capped \/ cm = NModels)
      BY <1>10 DEF CloseRun
    <2>3. \A m, b, r : ItemsOf(m, b, r)' = ItemsOf(m, b, r)
      BY <1>2, <2>1 DEF RecordResult
    <2>4. capped = FALSE => scored[cm] = ItemsOf(cm, cb, next[cb])
      <3> SUFFICES ASSUME capped = FALSE
                   PROVE  scored[cm] = ItemsOf(cm, cb, next[cb])
        OBVIOUS
      <3>1. scored[cm] = {i \in ItemsOf(cm, cb, next[cb]) : i < ci} /\ ci \notin Bank(cb)
        BY <2>1 DEF ScoredInv, InLane
      <3>2. ItemsOf(cm, cb, next[cb]) \subseteq 1..BankSize[cb]
        BY ItemsInBank DEF Bank
      <3>3. BankSize[cb] \in Nat
        BY <2>1, SizesAssumption DEF CursorInv, InRound, Batteries
      <3>4. \A i \in 1..BankSize[cb] : i < ci
        BY <1>0, <3>1, <3>3 DEF Bank
      <3>5. QED
        BY <3>1, <3>2, <3>4
    <2>5. \A m \in Models : m <= cm /\ capped = FALSE => scored[m] = ItemsOf(m, cb, next[cb])
      BY <1>0, <2>1, <2>4 DEF ScoredInv, InRound, Models
    <2>6. \A m \in Models : m > cm => scored[m] = {}
      BY <2>1 DEF ScoredInv, InRound
    <2>7. CASE phase' = "insert"
      <3>1. cm' = cm + 1 /\ cm' \in Models
        <4>1. cm' = cm + 1
          BY <2>2, <2>7
        <4>2. TypeOK'
          BY TypeStep
        <4>3. QED
          BY <4>1, <4>2 DEF TypeOK
      <3>2. QED
        BY <1>0, <2>1, <2>3, <2>5, <2>6, <2>7, <3>1 DEF ScoredInv, InRound, InLane, Models
    <2>8. CASE phase' = "feed"
      <3>1. cm' = cm /\ (capped = FALSE => cm = NModels)
        BY <1>0, <2>2, <2>8
      <3>2. QED
        BY <1>0, <2>1, <2>3, <2>5, <2>6, <2>8, <3>1 DEF ScoredInv, InRound, InLane, Models
    <2>9. QED
      BY <2>1, <2>7, <2>8
  <1>11. CASE UNCHANGED vars
    <2>1. \A m, b, r : ItemsOf(m, b, r)' = ItemsOf(m, b, r)
      BY <1>11 DEF vars, ItemsOf, ItemsIn, RowsIn, Rows
    <2>2. QED
      BY <1>11, <2>1 DEF vars, ScoredInv, InRound, InLane, Bank
  <1>12. QED
    BY <1>3, <1>4, <1>5, <1>6, <1>7, <1>8, <1>9, <1>10, <1>11 DEF Next, Step

(***************************************************************************)
(* What the rebuild of a resumed sweep holds                               *)
(***************************************************************************)

\* Rounds of a battery every finalist has measured in full.
Whole(b) == {r \in PriorRounds(b) : \A q \in 1..r : \A m \in Models :
                 ItemsOf(m, b, q) = Bank(b)}

\* The rounds that are whole are those before the first that is not.
LEMMA WholeIsPrefix ==
    ASSUME TypeOK, NEW b \in Batteries
    PROVE  \A r \in Rounds : r \in Whole(b) <=> r < FirstMissing(Rows, b)
  <1> DEFINE k == Cardinality(Whole(b))
  <1>1. NMax \in Nat /\ Whole(b) \in SUBSET (1..NMax)
    BY SizesAssumption DEF Whole, PriorRounds, Rounds
  <1>2. \A x \in Whole(b) : \A y \in 1..x : y \in Whole(b)
    <2> SUFFICES ASSUME NEW x \in Whole(b), NEW y \in 1..x
                 PROVE  y \in Whole(b)
      OBVIOUS
    <2>1. x \in 1..NMax /\ y \in 1..NMax /\ y <= x
      BY <1>1
    <2>2. PICK j \in 1..Len(runs) : runs[j].battery = b /\ x <= runs[j].round
      BY DEF Whole, PriorRounds
    <2>3. runs[j].round \in 1..NMax
      <3>1. runs \in Seq(RunRow)
        BY DEF TypeOK
      <3>2. runs[j] \in RunRow
        BY <2>2, <3>1, ElementOfSeq
      <3>3. QED
        BY <3>2 DEF RunRow, Rounds
    <2>4. y \in PriorRounds(b)
      BY <1>1, <2>1, <2>2, <2>3 DEF PriorRounds, Rounds
    <2>5. \A q \in 1..y : q \in 1..x
      BY <1>1, <2>1
    <2>6. QED
      BY <2>4, <2>5 DEF Whole
  <1>3. k \in 0..NMax /\ Whole(b) = 1..k
    BY <1>1, <1>2, InitialSegment
  <1>4. FirstMissing(Rows, b) = 1 + k
    BY DEF FirstMissing, Whole, ItemsOf
  <1> HIDE DEF k
  <1>5. QED
    BY <1>1, <1>3, <1>4 DEF Rounds

\* A battery's round has as many rows as finalists and items together exactly
\* when every finalist has measured the whole bank in it.
LEMMA RoundIsWhole ==
    ASSUME TypeOK, MeasuredOnce, FreshInv, NEW b \in Batteries, NEW q \in Rounds
    PROVE  Cardinality({w \in Rows : runs[w[1]].battery = b /\ runs[w[1]].round = q})
               >= BankSize[b] * NModels
           <=> \A m \in Models : ItemsOf(m, b, q) = Bank(b)
  <1> DEFINE S == {w \in Rows : runs[w[1]].battery = b /\ runs[w[1]].round = q}
             f == [w \in S |-> <<w[2], runs[w[1]].model>>]
             T == {<<w[2], runs[w[1]].model>> : w \in S}
             P == Bank(b) \X Models
  <1>1. IsFiniteSet(S)
    <2>1. S \in SUBSET Rows
      OBVIOUS
    <2>2. QED
      BY <2>1, FiniteRows, FS_Subset
  <1>2. Cardinality(T) = Cardinality(S)
    <2>1. f \in [S -> T] /\ \A w \in S : f[w] = <<w[2], runs[w[1]].model>>
      OBVIOUS
    <2>2. \A x, y \in S : f[x] = f[y] => x = y
      <3> SUFFICES ASSUME NEW x \in S, NEW y \in S, f[x] = f[y]
                   PROVE  x = y
        OBVIOUS
      <3>1. KeyOf(x) = KeyOf(y)
        BY <2>1 DEF KeyOf
      <3>2. QED
        BY <3>1, OneRowPerKey
    <2>3. \A t \in T : \E x \in S : f[x] = t
      BY <2>1
    <2> HIDE DEF S, T, f
    <2>4. QED
      BY <1>1, <2>1, <2>2, <2>3, SameSize
  <1>3. T \in SUBSET P
    BY RowFields DEF FreshInv, TypeOK
  <1>4. IsFiniteSet(P) /\ Cardinality(P) = BankSize[b] * NModels
    <2>1. BankSize[b] \in Nat /\ NModels \in Nat
      BY SizesAssumption DEF Batteries
    <2>2. IsFiniteSet(Bank(b)) /\ Cardinality(Bank(b)) = BankSize[b]
      <3>1. IsFiniteSet(1..BankSize[b]) /\ Cardinality(1..BankSize[b]) = BankSize[b]
        BY <2>1, FS_Interval, SMTT(30)
      <3>2. QED
        BY <3>1 DEF Bank
    <2>3. IsFiniteSet(Models) /\ Cardinality(Models) = NModels
      <3>1. IsFiniteSet(1..NModels) /\ Cardinality(1..NModels) = NModels
        BY <2>1, FS_Interval, SMTT(30)
      <3>2. QED
        BY <3>1 DEF Models
    <2>4. QED
      BY <2>2, <2>3, FS_Product
  <1>5. T = P <=> \A m \in Models : ItemsOf(m, b, q) = Bank(b)
    <2>1. ASSUME T = P, NEW m \in Models
          PROVE  ItemsOf(m, b, q) = Bank(b)
      <3>1. ItemsOf(m, b, q) \subseteq Bank(b)
        BY ItemsInBank
      <3>2. ASSUME NEW i \in Bank(b)
            PROVE  i \in ItemsOf(m, b, q)
        <4>1. <<i, m>> \in T
          BY <2>1, <3>2
        <4>2. PICK w \in S : <<i, m>> = <<w[2], runs[w[1]].model>>
          BY <4>1
        <4>3. QED
          BY <4>2 DEF ItemsOf, ItemsIn, RowsIn
      <3>3. QED
        BY <3>1, <3>2
    <2>2. ASSUME \A m \in Models : ItemsOf(m, b, q) = Bank(b)
          PROVE  P \subseteq T
      <3> SUFFICES ASSUME NEW i \in Bank(b), NEW m \in Models
                   PROVE  <<i, m>> \in T
        OBVIOUS
      <3>1. i \in ItemsOf(m, b, q)
        BY <2>2
      <3>2. PICK w \in Rows : /\ runs[w[1]].model = m /\ runs[w[1]].battery = b
                              /\ runs[w[1]].round = q /\ w[2] = i
        BY <3>1 DEF ItemsOf, ItemsIn, RowsIn
      <3>3. QED
        BY <3>2
    <2>3. QED
      BY <1>3, <2>1, <2>2
  <1> HIDE DEF S, T, P
  <1>6. Cardinality(S) >= BankSize[b] * NModels <=> T = P
    <2>1. Cardinality(S) >= Cardinality(P) => T = P
      BY <1>2, <1>3, <1>4, PartOfSameSize
    <2>2. Cardinality(P) \in Nat
      BY <1>4, FS_CardinalityType
    <2>3. QED
      BY <1>2, <1>4, <2>1, <2>2
  <1>7. QED
    BY <1>5, <1>6 DEF S

\* A finalist's rows of a round are as many as its items.
LEMMA LaneCount ==
    ASSUME TypeOK, MeasuredOnce, FreshInv, NEW b \in Batteries, NEW q \in Rounds,
           NEW m \in Models, ItemsOf(m, b, q) = Bank(b)
    PROVE  Cardinality(RowsIn(Rows, m, b, q)) = BankSize[b]
  <1> DEFINE S == RowsIn(Rows, m, b, q)
             f == [w \in S |-> w[2]]
  <1>1. IsFiniteSet(S)
    <2>1. S \in SUBSET Rows
      BY DEF RowsIn
    <2>2. QED
      BY <2>1, FiniteRows, FS_Subset
  <1>2. Bank(b) = {w[2] : w \in S}
    BY DEF ItemsOf, ItemsIn
  <1>3. f \in [S -> Bank(b)] /\ \A w \in S : f[w] = w[2]
    BY <1>2
  <1>4. \A x, y \in S : f[x] = f[y] => x = y
    <2> SUFFICES ASSUME NEW x \in S, NEW y \in S, f[x] = f[y]
                 PROVE  x = y
      OBVIOUS
    <2>1. KeyOf(x) = KeyOf(y)
      BY <1>3 DEF KeyOf, RowsIn
    <2>2. QED
      BY <2>1, OneRowPerKey DEF RowsIn
  <1>5. \A t \in Bank(b) : \E x \in S : f[x] = t
    BY <1>2, <1>3
  <1>6. BankSize[b] \in Nat
    BY SizesAssumption DEF Batteries
  <1>7. Cardinality(Bank(b)) = BankSize[b]
    BY <1>6, FS_Interval DEF Bank
  <1> HIDE DEF S, f
  <1>8. Cardinality(S) = Cardinality(Bank(b))
    BY <1>1, <1>3, <1>4, <1>5, SameSize
  <1>9. QED
    BY <1>7, <1>8 DEF S

\* The rounds the rebuild replays are the whole ones, where there is anything
\* to measure.
LEMMA ReplayedIsWhole ==
    ASSUME TypeOK, MeasuredOnce, FreshInv, NEW b \in Batteries, Bank(b) # {}
    PROVE  Replayed(Rows, b) = Whole(b)
  <1> DEFINE seen(q) == \E w \in Rows : runs[w[1]].battery = b /\ q <= runs[w[1]].round
             many(q) == Cardinality({w \in Rows : runs[w[1]].battery = b /\ runs[w[1]].round = q})
                            >= BankSize[b] * NModels
             whole(q) == \A m \in Models : ItemsOf(m, b, q) = Bank(b)
  <1>1. \A r \in Rounds : r \in Replayed(Rows, b) <=> \A q \in 1..r : seen(q) /\ many(q)
    BY DEF Replayed
  <1>2. \A r \in Rounds : r \in Whole(b) <=> r \in PriorRounds(b) /\ \A q \in 1..r : whole(q)
    BY DEF Whole, PriorRounds
  <1>3. \A q \in Rounds : many(q) <=> whole(q)
    BY RoundIsWhole
  <1>4. \A q \in Rounds : whole(q) => seen(q)
    <2> SUFFICES ASSUME NEW q \in Rounds, whole(q)
                 PROVE  seen(q)
      OBVIOUS
    <2>1. 1 \in Models
      BY SizesAssumption DEF Models
    <2>2. ItemsOf(1, b, q) # {}
      BY <2>1
    <2>3. PICK w \in Rows : runs[w[1]].battery = b /\ runs[w[1]].round = q
      BY <2>2 DEF ItemsOf, ItemsIn, RowsIn
    <2>4. q <= runs[w[1]].round
      BY <2>3 DEF Rounds
    <2>5. QED
      BY <2>3, <2>4
  <1>5. \A r \in Rounds : seen(r) <=> r \in PriorRounds(b) /\ seen(r)
    BY DEF PriorRounds, Rows
  <1>6. \A r \in Rounds : r \in 1..r /\ \A q \in 1..r : q \in Rounds
    BY SizesAssumption DEF Rounds
  <1> HIDE DEF seen, many, whole
  <1>7. \A r \in Rounds : r \in Replayed(Rows, b) <=> r \in Whole(b)
    BY <1>1, <1>2, <1>3, <1>4, <1>5, <1>6
  <1>8. Replayed(Rows, b) \subseteq Rounds /\ Whole(b) \subseteq Rounds
    BY DEF Replayed, Whole, PriorRounds
  <1>9. QED
    BY <1>7, <1>8

\* What the rebuild feeds a pair is what the ledger holds of the rounds before
\* the first missing one, each round once.
LEMMA ReplayIsLedger ==
    ASSUME TypeOK, MeasuredOnce, FreshInv, NEW b \in Batteries, NEW p \in Pairs
    PROVE  /\ CountedOnce(ReplayPair(Rows, p, b))
           /\ \A r \in Rounds : ReplayPair(Rows, p, b).seen[r] =
                  IF r < FirstMissing(Rows, b) THEN Shared(Rows, p, b, r) ELSE {}
  <1> DEFINE sh(r) == Shared(Rows, p, b, r)
             fed == {r \in Replayed(Rows, b) :
                        /\ Cardinality(RowsIn(Rows, p[1], b, r)) = BankSize[b]
                        /\ Cardinality(RowsIn(Rows, p[2], b, r)) = BankSize[b]
                        /\ sh(r) # {}}
             diffs == {x \in fed \X Items : x[2] \in sh(x[1])}
             seq == ReplayPair(Rows, p, b)
  <1>1. seq = [n_rounds |-> Cardinality(fed), n_diffs |-> Cardinality(diffs),
               seen |-> [r \in Rounds |-> IF r \in fed THEN sh(r) ELSE {}]]
    BY DEF ReplayPair
  <1>2. fed \subseteq Rounds /\ \A r \in fed : sh(r) # {}
    BY DEF Replayed
  <1>3. \A r \in Rounds : sh(r) \subseteq Bank(b)
    BY ItemsInBank DEF Shared, ItemsOf
  <1>4. \A r \in Rounds : r \in fed <=> r < FirstMissing(Rows, b) /\ sh(r) # {}
    <2>1. CASE Bank(b) = {}
      BY <1>2, <1>3, <2>1
    <2>2. CASE Bank(b) # {}
      <3>1. \A r \in Rounds : r \in Replayed(Rows, b) <=> r < FirstMissing(Rows, b)
        BY <2>2, ReplayedIsWhole, WholeIsPrefix
      <3>2. p[1] \in Models /\ p[2] \in Models
        BY DEF Pairs
      <3>3. \A r \in Rounds : r \in Whole(b) =>
                /\ Cardinality(RowsIn(Rows, p[1], b, r)) = BankSize[b]
                /\ Cardinality(RowsIn(Rows, p[2], b, r)) = BankSize[b]
        <4> SUFFICES ASSUME NEW r \in Rounds, r \in Whole(b), NEW m \in Models
                     PROVE  Cardinality(RowsIn(Rows, m, b, r)) = BankSize[b]
          BY <3>2
        <4>1. r \in 1..r
          BY DEF Rounds
        <4>2. ItemsOf(m, b, r) = Bank(b)
          BY <4>1 DEF Whole
        <4>3. QED
          BY <4>2, LaneCount
      <3>4. QED
        BY <2>2, <3>1, <3>3, ReplayedIsWhole
    <2>3. QED
      BY <2>1, <2>2
  <1> HIDE DEF sh, fed
  <1>5. \A r \in Rounds : seq.seen[r] = IF r \in fed THEN sh(r) ELSE {}
    BY <1>1
  <1>6. \A r \in Rounds : seq.seen[r] = IF r < FirstMissing(Rows, b) THEN sh(r) ELSE {}
    BY <1>4, <1>5
  <1>7. fed = {r \in Rounds : seq.seen[r] # {}}
    BY <1>2, <1>5
  <1>8. diffs = {x \in Rounds \X Items : x[2] \in seq.seen[x[1]]}
    <2>1. \A x \in Rounds \X Items : x \in diffs <=> x[2] \in seq.seen[x[1]]
      BY <1>5
    <2>2. diffs \subseteq Rounds \X Items
      BY <1>2
    <2>3. QED
      BY <2>1, <2>2
  <1>9. seq.n_rounds = Cardinality(fed) /\ seq.n_diffs = Cardinality(diffs)
    BY <1>1
  <1> HIDE DEF seq, diffs
  <1>10. CountedOnce(seq)
    BY <1>7, <1>8, <1>9 DEF CountedOnce
  <1>11. QED
    BY <1>6, <1>10 DEF seq, sh

\* Feeding a round that was not fed yet counts it once.
LEMMA FeedOnce ==
    ASSUME NEW seq \in [n_rounds : Nat, n_diffs : Nat, seen : [Rounds -> SUBSET Items]],
           CountedOnce(seq), NEW r \in Rounds, seq.seen[r] = {},
           NEW sh \in SUBSET Items, sh # {}
    PROVE  /\ CountedOnce(Feed(seq, r, sh))
           /\ Feed(seq, r, sh).seen = [seq.seen EXCEPT ![r] = sh]
  <1> DEFINE new == Feed(seq, r, sh)
             fed == {q \in Rounds : seq.seen[q] # {}}
             diffs == {x \in Rounds \X Items : x[2] \in seq.seen[x[1]]}
             more == {r} \X sh
  <1>1. /\ new.n_rounds = seq.n_rounds + 1 /\ new.n_diffs = seq.n_diffs + Cardinality(sh)
        /\ new.seen = [seq.seen EXCEPT ![r] = sh]
    BY DEF Feed
  <1>2. seq.n_rounds = Cardinality(fed) /\ seq.n_diffs = Cardinality(diffs)
    BY DEF CountedOnce
  <1>3. \A q \in Rounds : new.seen[q] = IF q = r THEN sh ELSE seq.seen[q]
    BY <1>1
  <1>4. IsFiniteSet(Rounds) /\ IsFiniteSet(Items)
    <2>1. IsFiniteSet(1..NMax)
      BY SizesAssumption, FS_Interval
    <2>2. IsFiniteSet(1..MaxBank)
      BY SizesAssumption, FS_Interval
    <2>3. QED
      BY <2>1, <2>2 DEF Rounds, Items
  <1> HIDE DEF new
  <1>5. Cardinality({q \in Rounds : new.seen[q] # {}}) = Cardinality(fed) + 1
    <2>1. {q \in Rounds : new.seen[q] # {}} = fed \cup {r}
      BY <1>3
    <2>2. r \notin fed /\ fed \in SUBSET Rounds
      OBVIOUS
    <2> HIDE DEF fed
    <2>3. IsFiniteSet(fed)
      BY <1>4, <2>2, FS_Subset
    <2>4. QED
      BY <2>1, <2>2, <2>3, FS_AddElement
  <1>6. Cardinality({x \in Rounds \X Items : x[2] \in new.seen[x[1]]})
            = Cardinality(diffs) + Cardinality(sh)
    <2>1. {x \in Rounds \X Items : x[2] \in new.seen[x[1]]} = diffs \cup more
      BY <1>3
    <2>2. diffs \cap more = {}
      OBVIOUS
    <2>3. diffs \in SUBSET (Rounds \X Items)
      OBVIOUS
    <2>4. IsFiniteSet(sh)
      BY <1>4, FS_Subset
    <2> HIDE DEF diffs
    <2>5. IsFiniteSet(more) /\ Cardinality(more) = Cardinality(sh)
      <3> DEFINE f == [i \in sh |-> <<r, i>>]
      <3>1. f \in [sh -> more]
        OBVIOUS
      <3>2. \A x, y \in sh : f[x] = f[y] => x = y
        OBVIOUS
      <3>3. \A t \in more : \E x \in sh : f[x] = t
        OBVIOUS
      <3> HIDE DEF f, more
      <3>4. QED
        BY <2>4, <3>1, <3>2, <3>3, SameSize
    <2> HIDE DEF more
    <2>6. IsFiniteSet(diffs)
      <3>1. IsFiniteSet(Rounds \X Items)
        BY <1>4, FS_Product
      <3>2. QED
        BY <2>3, <3>1, FS_Subset
    <2>7. Cardinality(diffs \cup more)
              = Cardinality(diffs) + Cardinality(more) - Cardinality(diffs \cap more)
      BY <2>5, <2>6, FS_Union
    <2>8. Cardinality(diffs \cap more) = 0
      BY <2>2, FS_EmptySet
    <2>9. Cardinality(diffs) \in Nat /\ Cardinality(sh) \in Nat
      BY <2>4, <2>6, FS_CardinalityType
    <2>10. Cardinality(diffs \cup more) = Cardinality(diffs) + Cardinality(sh)
      <3>1. Cardinality(diffs \cup more) = Cardinality(diffs) + Cardinality(sh) - 0
        BY <2>5, <2>7, <2>8, Zenon
      <3>2. QED
        BY <2>9, <3>1
    <2>11. QED
      BY <2>1, <2>10
  <1>7. QED
    BY <1>1, <1>2, <1>5, <1>6 DEF CountedOnce, new

\* Nothing fed is nothing counted.
LEMMA NothingFed == CountedOnce(NoEvidence)
  <1>1. {r \in Rounds : NoEvidence.seen[r] # {}} = {}
    BY DEF NoEvidence
  <1>2. {x \in Rounds \X Items : x[2] \in NoEvidence.seen[x[1]]} = {}
    BY DEF NoEvidence
  <1>3. NoEvidence.n_rounds = 0 /\ NoEvidence.n_diffs = 0
    BY DEF NoEvidence
  <1>4. QED
    BY <1>1, <1>2, <1>3, FS_EmptySet DEF CountedOnce

\* What a pair is fed at the end of a round, and the evidence it has then.
FedPair(p) == IF SharedNow(p) = {} THEN pair[cb][p]
              ELSE Feed(pair[cb][p], next[cb], SharedNow(p))

\* The end of a round below the cap feeds each pair what the round's ledger
\* holds of it.
LEMMA FeedStep ==
    ASSUME TypeOK, CursorInv, ScoredInv, FedOnce, FedLedger, phase = "feed",
           capped = FALSE, NEW p \in Pairs
    PROVE  /\ CountedOnce(FedPair(p))
           /\ \A r \in Rounds : FedPair(p).seen[r] =
                  IF r < next[cb] + 1 THEN Shared(Rows, p, cb, r) ELSE {}
  <1>1. cb \in Batteries /\ next[cb] \in Rounds /\ NMax \in Nat
    BY SizesAssumption DEF CursorInv, InRound
  <1>2. p[1] \in Models /\ p[2] \in Models
    BY DEF Pairs
  <1>3. SharedNow(p) = Shared(Rows, p, cb, next[cb])
    BY <1>2 DEF ScoredInv, InRound, SharedNow, Shared, ItemsOf
  <1>4. \A r \in Rounds : pair[cb][p].seen[r] =
            IF r < next[cb] THEN Shared(Rows, p, cb, r) ELSE {}
    BY <1>1 DEF FedLedger, Running
  <1>5. pair[cb][p] \in [n_rounds : Nat, n_diffs : Nat, seen : [Rounds -> SUBSET Items]]
    BY <1>1 DEF TypeOK
  <1>6. SharedNow(p) \in SUBSET Items
    BY <1>2 DEF TypeOK, SharedNow
  <1>7. pair[cb][p].seen[next[cb]] = {}
    BY <1>1, <1>4 DEF Rounds
  <1>8. CountedOnce(pair[cb][p])
    BY <1>1 DEF FedOnce
  <1>9. \A r \in Rounds : r < next[cb] + 1 <=> (r < next[cb] \/ r = next[cb])
    BY <1>1 DEF Rounds
  <1>10. CASE SharedNow(p) = {}
    <2>1. FedPair(p) = pair[cb][p]
      BY <1>10 DEF FedPair
    <2>2. QED
      BY <1>3, <1>4, <1>7, <1>8, <1>9, <1>10, <2>1
  <1>11. CASE SharedNow(p) # {}
    <2>1. FedPair(p) = Feed(pair[cb][p], next[cb], SharedNow(p))
      BY <1>11 DEF FedPair
    <2>2. /\ CountedOnce(FedPair(p))
          /\ FedPair(p).seen = [pair[cb][p].seen EXCEPT ![next[cb]] = SharedNow(p)]
      BY <1>1, <1>5, <1>6, <1>7, <1>8, <1>11, <2>1, FeedOnce
    <2>3. \A r \in Rounds : FedPair(p).seen[r] =
              IF r = next[cb] THEN SharedNow(p) ELSE pair[cb][p].seen[r]
      BY <1>1, <1>5, <2>2
    <2>4. \A r \in Rounds : r = next[cb] => ~ (r < next[cb])
      BY <1>1 DEF Rounds
    <2>5. QED
      BY <1>3, <1>4, <1>9, <2>2, <2>3, <2>4
  <1>12. QED
    BY <1>10, <1>11

EvidenceInv == FedOnce /\ FedLedger

\* Every step keeps the evidence equal to the ledger.
LEMMA EvidenceStep ==
    ASSUME TypeOK, LedgerInv, FreshInv, BudgetInv, ScoredInv, EvidenceInv, [Next]_vars
    PROVE  EvidenceInv'
  <1> USE DEF durable, evidence, cursor, oracle, history
  <1> CursorInv /\ StampInv /\ MeasuredOnce /\ FedOnce /\ FedLedger
    BY DEF LedgerInv, EvidenceInv
  <1>0. /\ pair \in [Batteries -> [Pairs -> [n_rounds : Nat, n_diffs : Nat,
                                            seen : [Rounds -> SUBSET Items]]]]
        /\ next \in [Batteries -> Nat \ {0}]
    BY DEF TypeOK
  <1>1. ASSUME ~ (RecordResult /\ got = "scored")
        PROVE  \A p, b, r : Shared(Rows, p, b, r)' = Shared(Rows, p, b, r)
    <2>1. Rows' = Rows /\ \A w \in Rows : SameRow(w)
      BY <1>1, RowsStep
    <2>2. \A m, b, r : ItemsOf(m, b, r)' = ItemsOf(m, b, r)
      BY <2>1 DEF ItemsOf, ItemsIn, RowsIn, SameRow
    <2>3. QED
      BY <2>2 DEF ItemsOf, Shared
  <1>2. CASE Open
    <2>1. Visible = Rows
      BY FreshVisible
    <2>2. \A b \in Batteries, p \in Pairs : pair'[b][p] = ReplayPair(Rows, p, b)
      BY <1>2, <2>1 DEF Open
    <2>3. \A b \in Batteries : next'[b] = FirstMissing(Rows, b)
      BY <1>2, <2>1 DEF Open
    <2>4. \A p, b, r : Shared(Rows, p, b, r)' = Shared(Rows, p, b, r)
      BY <1>1, <1>2 DEF Open, RecordResult
    <2>5. ASSUME NEW b \in Batteries, NEW p \in Pairs
          PROVE  /\ CountedOnce(pair'[b][p])
                 /\ \A r \in Rounds : pair'[b][p].seen[r] =
                        IF r < next'[b] THEN Shared(Rows, p, b, r)' ELSE {}
      BY <2>2, <2>3, <2>4, <2>5, ReplayIsLedger
    <2>6. QED
      BY <2>5 DEF EvidenceInv, FedOnce, FedLedger
  <1>3. CASE Crash
    <2>1. \A b \in Batteries, p \in Pairs : pair'[b][p] = NoEvidence
      BY <1>3 DEF Crash
    <2>2. phase' = "down"
      BY <1>3 DEF Crash
    <2>3. \A b \in Batteries, p \in Pairs : CountedOnce(pair'[b][p])
      BY <2>1, NothingFed
    <2>4. QED
      BY <2>2, <2>3 DEF EvidenceInv, FedOnce, FedLedger, Running
  <1>4. CASE FeedPairs
    <2>1. /\ phase = "feed" /\ capped' = capped /\ cb \in Batteries
          /\ next' = [next EXCEPT ![cb] = @ + 1]
      BY <1>4 DEF FeedPairs, CursorInv, InRound
    <2>2. \A p, b, r : Shared(Rows, p, b, r)' = Shared(Rows, p, b, r)
      BY <1>1, <2>1 DEF RecordResult
    <2>3. CASE capped = FALSE
      <3>1. pair' = [pair EXCEPT ![cb] = [p \in Pairs |-> FedPair(p)]]
        BY <1>4, <2>3 DEF FeedPairs, FedPair
      <3>2. ASSUME NEW b \in Batteries, NEW p \in Pairs
            PROVE  /\ CountedOnce(pair'[b][p])
                   /\ \A r \in Rounds : pair'[b][p].seen[r] =
                          IF r < next'[b] THEN Shared(Rows, p, b, r)' ELSE {}
        <4>1. CASE b = cb
          <5>1. pair'[b][p] = FedPair(p) /\ next'[b] = next[cb] + 1
            BY <1>0, <2>1, <3>1, <4>1
          <5>2. QED
            BY <2>1, <2>2, <2>3, <4>1, <5>1, FeedStep
        <4>2. CASE b # cb
          <5>1. pair'[b] = pair[b] /\ next'[b] = next[b]
            BY <1>0, <2>1, <3>1, <4>2
          <5>2. QED
            BY <2>1, <2>2, <2>3, <5>1 DEF FedOnce, FedLedger, Running
        <4>3. QED
          BY <4>1, <4>2
      <3>3. QED
        BY <3>2 DEF EvidenceInv, FedOnce, FedLedger
    <2>4. CASE capped # FALSE
      <3>1. pair' = pair /\ capped' # FALSE
        BY <1>4, <2>1, <2>4, Zenon DEF FeedPairs, TypeOK
      <3>2. QED
        BY <3>1 DEF EvidenceInv, FedOnce, FedLedger
    <2>5. QED
      BY <2>3, <2>4
  <1>5. CASE SkipEmptyBank
    <2>1. /\ phase = "scan" /\ pair' = pair /\ capped' = capped /\ cb \in Batteries
          /\ next' = [next EXCEPT ![cb] = @ + 1] /\ Bank(cb) = {}
      BY <1>5, SizesAssumption DEF SkipEmptyBank, TypeOK, Batteries
    <2>2. \A p, b, r : Shared(Rows, p, b, r)' = Shared(Rows, p, b, r)
      BY <1>1, <2>1 DEF RecordResult
    <2>3. \A p, r : Shared(Rows, p, cb, r) = {}
      BY <2>1, ItemsInBank DEF Shared, ItemsOf
    <2>4. ASSUME capped = FALSE, NEW b \in Batteries, NEW p \in Pairs, NEW r \in Rounds
          PROVE  pair[b][p].seen[r] = IF r < next'[b] THEN Shared(Rows, p, b, r) ELSE {}
      <3>1. pair[b][p].seen[r] = IF r < next[b] THEN Shared(Rows, p, b, r) ELSE {}
        BY <2>1, <2>4 DEF FedLedger, Running
      <3>2. b # cb => next'[b] = next[b]
        BY <1>0, <2>1
      <3>3. QED
        BY <2>3, <3>1, <3>2
    <2>5. FedLedger'
      <3>1. ASSUME capped' = FALSE, NEW b \in Batteries, NEW p \in Pairs, NEW r \in Rounds
            PROVE  pair'[b][p].seen[r] = IF r < next'[b] THEN Shared(Rows, p, b, r)' ELSE {}
        <4>1. capped = FALSE
          BY <2>1, <3>1
        <4>2. pair[b][p].seen[r] = IF r < next'[b] THEN Shared(Rows, p, b, r) ELSE {}
          BY <2>4, <4>1
        <4>3. pair' = pair /\ Shared(Rows, p, b, r)' = Shared(Rows, p, b, r)
          BY <2>1, <2>2
        <4>4. QED
          BY <4>2, <4>3
      <3>2. QED
        BY <3>1 DEF FedLedger
    <2>6. FedOnce'
      BY <2>1 DEF FedOnce
    <2>7. QED
      BY <2>5, <2>6 DEF EvidenceInv
  <1>6. CASE RecordResult
    <2>1. pair' = pair /\ next' = next /\ phase = "graded" /\ capped = FALSE
      BY <1>6 DEF RecordResult, BudgetInv
    <2>2. \A p, b, r : b \in Batteries /\ r \in Rounds /\ r < next[b] =>
              Shared(Rows, p, b, r)' = Shared(Rows, p, b, r)
      <3>1. \A b \in Batteries, r \in Rounds : r < next[b] => ~ (b = cb /\ r = next[cb])
        BY DEF Rounds
      <3>2. \A m, b, r : b \in Batteries /\ r \in Rounds /\ r < next[b] =>
                ItemsOf(m, b, r)' = ItemsOf(m, b, r)
        <4> SUFFICES ASSUME NEW m, NEW b \in Batteries, NEW r \in Rounds, r < next[b]
                     PROVE  ItemsOf(m, b, r)' = ItemsOf(m, b, r)
          OBVIOUS
        <4>1. ~ (b = cb /\ r = next[cb])
          BY <3>1
        <4>2. ItemsOf(m, b, r)' = ItemsOf(m, b, r) \cup
                  (IF RecordResult /\ got = "scored" /\ m = cm /\ b = cb /\ r = next[cb]
                   THEN {ci} ELSE {})
          BY ItemsOfStep
        <4>3. QED
          BY <4>1, <4>2
      <3>3. QED
        BY <3>2 DEF ItemsOf, Shared
    <2>3. QED
      BY <2>1, <2>2 DEF EvidenceInv, FedOnce, FedLedger, Running
  <1>7. CASE Begin
    <2>1. pair' = pair /\ phase' = "open"
      BY <1>7 DEF Begin
    <2>2. QED
      BY <2>1 DEF EvidenceInv, FedOnce, FedLedger, Running
  <1>8. CASE \/ SkipSettled \/ BeginRound \/ NextPass \/ Finish \/ InsertRun \/ ReuseScore
             \/ EndOfBank \/ CloseRun \/ Idle \/ UNCHANGED vars
             \/ \E outcome \in Outcomes : CallModel(outcome)
    <2>1. pair' = pair /\ next' = next /\ capped' = capped /\ (Running' => Running)
      BY <1>8 DEF SkipSettled, BeginRound, NextPass, Finish, InsertRun, ReuseScore,
         EndOfBank, CloseRun, Idle, CallModel, vars, Running
    <2>2. ~ RecordResult \/ UNCHANGED vars
      BY <1>8 DEF SkipSettled, BeginRound, NextPass, Finish, InsertRun, ReuseScore,
         EndOfBank, CloseRun, Idle, CallModel, RecordResult
    <2>3. \A p, b, r : Shared(Rows, p, b, r)' = Shared(Rows, p, b, r)
      <3>1. CASE ~ RecordResult
        BY <1>1, <3>1
      <3>2. CASE UNCHANGED vars
        BY <3>2 DEF vars, Shared, ItemsIn, RowsIn, Rows
      <3>3. QED
        BY <2>2, <3>1, <3>2
    <2>4. QED
      BY <2>1, <2>3 DEF EvidenceInv, FedOnce, FedLedger
  <1>9. QED
    BY <1>2, <1>3, <1>4, <1>5, <1>6, <1>7, <1>8 DEF Next, Step

\* In a sweep no older regime has started, the evidence a running process
\* decides on is what the database holds of the rounds behind it, each round
\* once, however often it was stopped and resumed.
THEOREM EvidenceFromLedger ==
    ASSUME PriorSweeps = {<<>>}
    PROVE  Spec => []EvidenceIsLedger
  <1>1. Init => FreshInv /\ BudgetInv /\ ScoredInv /\ EvidenceInv
    <2> SUFFICES ASSUME Init
                 PROVE  FreshInv /\ BudgetInv /\ ScoredInv /\ EvidenceInv
      OBVIOUS
    <2>1. FreshInv /\ BudgetInv
      BY FreshInit, BudgetInit
    <2>2. phase = "down" /\ \A b \in Batteries, p \in Pairs : pair[b][p] = NoEvidence
      BY DEF Init, IdleVolatile
    <2>3. ScoredInv
      BY <2>2 DEF ScoredInv, InRound, InLane
    <2>4. FedOnce /\ FedLedger
      BY <2>2, NothingFed DEF FedOnce, FedLedger, Running
    <2>5. QED
      BY <2>1, <2>3, <2>4 DEF EvidenceInv
  <1>2. TypeOK /\ LedgerInv /\ FreshInv /\ BudgetInv /\ ScoredInv /\ EvidenceInv
            /\ [Next]_vars
            => FreshInv' /\ BudgetInv' /\ ScoredInv' /\ EvidenceInv'
    BY FreshStep, BudgetStep, ScoredStep, EvidenceStep
  <1>3. TypeOK /\ EvidenceInv => EvidenceIsLedger
    <2> SUFFICES ASSUME TypeOK, EvidenceInv
                 PROVE  EvidenceIsLedger
      OBVIOUS
    <2>1. ~ capped => capped = FALSE
      BY Zenon DEF TypeOK
    <2>2. QED
      BY <2>1, Zenon DEF EvidenceInv, FedOnce, FedLedger, EvidenceIsLedger
  <1>4. QED
    BY <1>1, <1>2, <1>3, LedgerInductive, PTL DEF Spec
=============================================================================
