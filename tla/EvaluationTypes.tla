--------------------------- MODULE EvaluationTypes ----------------------------
(***************************************************************************)
(* The types of Evaluation, for every fleet, every set of batteries, every *)
(* answer of the models and every number of kills and lost requests: what  *)
(* the tables hold, and the shape of the process that runs.  The theorems  *)
(* of EvaluationProofs start from here.                                    *)
(***************************************************************************)
EXTENDS Evaluation, CountingLemmas, SequenceTheorems, TLAPS

(* Types *)

\* What a command other than a calibration names.
Measuring == {c \in Commands : c.cmd # "calibrate"}
Models == UNION {Range(c.models) : c \in Measuring}

LiveCells == Models \X Live
PoolCells == Models \X Pool

Statuses0 == {"none", "scored", "inconclusive", "not_applicable"}
Replied == Streams \cup {"reject"}
Partial(D, R) == UNION {[d -> R] : d \in SUBSET D}

\* The rows of a run: item to score.
Rows == {f \in Partial(Nat, {0, 1}) : IsFiniteSet(DOMAIN f)}

Sweeps == [purpose : {"livebench", "stage0", Marker}, at : Nat, plan : Seq(Models \X Batteries),
           of : Nat, forced : BOOLEAN]
Runs == [sweep : Nat, model : Models, battery : Batteries, status : Statuses0, at : Nat,
         scores : Rows, unanswered : SUBSET Nat, mute : SUBSET Nat, cut : SUBSET Nat]

Endpoints == {Endpoint[m] : m \in Models}
FactSets == {Probe(e, lost) : e \in Endpoints, lost \in Losses}
Contracts == [model : Models, endpoint : Endpoints, facts : FactSets, at : Nat]

Outcomes == [status : Statuses0, scores : Partial(Nat, Replied), silent : BOOLEAN]
Seen == [battery : Live, out : Outcomes]

SessionJobs ==
    [cmd : {"bench", "preflight"}, phase : {"cell", "call", "store", "incident", "rows", "judge"},
     sweep : Nat, run : Nat, plan : Seq(LiveCells), left : Seq(LiveCells),
     cache : Partial(Models, FactSets), attempt : Nat, tries : Nat,
     http : [try : Nat, lean : BOOLEAN], got : Seq(Replied), out : Outcomes, seen : Seq(Seen)]

SessionOK ==
    /\ job \in SessionJobs
    /\ job.phase # "judge" => job.left # <<>>
    /\ job.phase \in {"incident", "rows"} => job.run \in DOMAIN runs

Stage0OK ==
    /\ DOMAIN job = {"cmd", "phase", "database", "sweep", "run", "left", "item", "heard", "spoilt",
                     "tokens", "pairs"}
    /\ job.cmd = "stage0" /\ job.phase \in {"round", "ask", "close", "separate"}
    /\ job.database \in BOOLEAN /\ job.spoilt \in BOOLEAN
    /\ job.sweep \in Nat /\ job.item \in Nat
    /\ job.left \in Seq(PoolCells)
    /\ job.phase # "separate" => job.left # <<>>
    /\ job.phase \in {"ask", "close"} /\ job.database => job.run \in DOMAIN runs

CalibrateOK ==
    /\ {"cmd", "pool"} \subseteq DOMAIN job
    /\ job.cmd = "calibrate" /\ job.pool \subseteq DOMAIN Tier

TypeInv ==
    /\ now \in Nat /\ todo \in Seq(Commands)
    /\ sweeps \in Seq(Sweeps) /\ runs \in Seq(Runs) /\ contracts \in Seq(Contracts)
    /\ job = Idle \/ SessionOK \/ Stage0OK \/ CalibrateOK

(* Lists and cells *)

\* A quotient is below k where the dividend is below k times the divisor.
LEMMA DivBelow ==
    ASSUME NEW a \in Nat, NEW n \in Nat \ {0}, NEW k \in Nat, a < k * n
    PROVE  a \div n \in 0..(k - 1) /\ a % n \in 0..(n - 1)
  <1>1. PICK q \in Int : q = a \div n
    OBVIOUS
  <1>2. PICK r \in Int : r = a % n
    OBVIOUS
  <1>3. a = n * q + r /\ r \in 0..(n - 1) /\ q >= 0
    BY <1>1, <1>2
  <1>4. q < k
    <2>1. SUFFICES ASSUME q >= k PROVE FALSE
      BY <1>3
    <2>2. PICK d \in Nat : q = k + d
      BY <2>1, <1>3
    <2>3. n * q = n * k + n * d
      BY <2>2
    <2>4. n * d >= 0
      OBVIOUS
    <2>5. n * k = k * n
      OBVIOUS
    <2>6. PICK x \in Int, y \in Int, z \in Int : x = n * q /\ y = n * k /\ z = n * d
      OBVIOUS
    <2>7. QED
      BY <1>3, <2>3, <2>4, <2>5, <2>6
  <1>5. QED
    BY <1>1, <1>2, <1>3, <1>4

\* The cells of a session are pairs of what was listed, and there are some.
LEMMA CellsType ==
    ASSUME NEW M, NEW B, NEW models \in Seq(M), NEW batteries \in Seq(B),
           models # <<>>, batteries # <<>>
    PROVE  Cells(models, batteries) \in Seq(M \X B) /\ Cells(models, batteries) # <<>>
  <1> DEFINE k == Len(models)
             n == Len(batteries)
             cell(i) == <<models[(i - 1) \div n + 1], batteries[((i - 1) % n) + 1]>>
  <1>1. k \in Nat \ {0} /\ n \in Nat \ {0}
    OBVIOUS
  <1>2. k * n \in Nat \ {0}
    BY <1>1
  <1>3. ASSUME NEW i \in 1..(k * n)
        PROVE  cell(i) \in M \X B
    <2>1. (i - 1) \in Nat /\ i - 1 < k * n
      BY <1>2
    <2>2. (i - 1) \div n \in 0..(k - 1) /\ (i - 1) % n \in 0..(n - 1)
      BY <2>1, <1>1, DivBelow
    <2>3. (i - 1) \div n + 1 \in 1..k /\ ((i - 1) % n) + 1 \in 1..n
      BY <2>2, <1>1
    <2>4. models[(i - 1) \div n + 1] \in M /\ batteries[((i - 1) % n) + 1] \in B
      BY <2>3
    <2>5. QED
      BY <2>4
  <1>4. Cells(models, batteries) = [i \in 1..(k * n) |-> cell(i)]
    BY DEF Cells
  <1>5. QED
    BY <1>2, <1>3, <1>4

\* So is every round of them.
LEMMA RoundsType ==
    ASSUME NEW C, NEW cells \in Seq(C), cells # <<>>
    PROVE  InRounds(cells) \in Seq(C) /\ InRounds(cells) # <<>>
  <1> DEFINE k == Len(cells)
  <1>1. k \in Nat \ {0} /\ Rounds \in Nat \ {0}
    BY Stage0Assumption
  <1>2. k * Rounds \in Nat \ {0}
    BY <1>1
  <1>3. ASSUME NEW i \in 1..(k * Rounds)
        PROVE  cells[((i - 1) \div Rounds) + 1] \in C
    <2>1. (i - 1) \in Nat /\ i - 1 < k * Rounds
      BY <1>2
    <2>2. (i - 1) \div Rounds \in 0..(k - 1)
      BY <2>1, <1>1, DivBelow
    <2>3. (i - 1) \div Rounds + 1 \in 1..k
      BY <2>2, <1>1
    <2>4. QED
      BY <2>3
  <1>4. QED
    BY <1>2, <1>3 DEF InRounds

(* What the calls of a cell come to *)

\* What a partial function is.
LEMMA PartialIs ==
    ASSUME NEW D, NEW R, NEW f
    PROVE  f \in Partial(D, R) <=> DOMAIN f \in SUBSET D /\ f \in [DOMAIN f -> R]
  <1>1. ASSUME f \in Partial(D, R)
        PROVE  DOMAIN f \in SUBSET D /\ f \in [DOMAIN f -> R]
    <2>1. PICK d \in SUBSET D : f \in [d -> R]
      BY <1>1 DEF Partial
    <2>2. QED
      BY <2>1
  <1>2. ASSUME DOMAIN f \in SUBSET D, f \in [DOMAIN f -> R]
        PROVE  f \in Partial(D, R)
    BY <1>2, Zenon DEF Partial
  <1>3. QED
    BY <1>1, <1>2

\* The empty function is one, and so is one over another, or with a new value.
LEMMA PartialEmpty ==
    ASSUME NEW D, NEW R
    PROVE  <<>> \in Partial(D, R)
  <1>1. DOMAIN <<>> = {} /\ <<>> \in [{} -> R]
    OBVIOUS
  <1>2. QED
    BY <1>1, PartialIs

\* One partial function over another is one again.
LEMMA PartialOver ==
    ASSUME NEW D, NEW R, NEW f \in Partial(D, R), NEW g \in Partial(D, R)
    PROVE  Over(f, g) \in Partial(D, R)
  <1>1. /\ DOMAIN f \in SUBSET D /\ f \in [DOMAIN f -> R]
        /\ DOMAIN g \in SUBSET D /\ g \in [DOMAIN g -> R]
    BY PartialIs
  <1>2. DOMAIN Over(f, g) \in SUBSET D /\ Over(f, g) \in [DOMAIN Over(f, g) -> R]
    BY <1>1 DEF Over
  <1>3. QED
    BY <1>2, PartialIs

\* So is a partial function with a new value.
LEMMA PartialEntered ==
    ASSUME NEW D, NEW R, NEW f \in Partial(D, R), NEW d \in D, NEW r \in R
    PROVE  Entered(f, d, r) \in Partial(D, R)
  <1>1. DOMAIN f \in SUBSET D /\ f \in [DOMAIN f -> R]
    BY PartialIs
  <1>2. /\ DOMAIN Entered(f, d, r) \in SUBSET D
        /\ Entered(f, d, r) \in [DOMAIN Entered(f, d, r) -> R]
    BY <1>1 DEF Entered
  <1>3. QED
    BY <1>2, PartialIs

\* A call gives what was read of a stream, or one of the two errors.
LEMMA ResultType ==
    ASSUME NEW wire, NEW r \in Replies
    PROVE  Result(wire, r) \in Streams \cup Errors
  <1>1. CASE Answered(wire, r)
    <2>1. r \in Streams /\ Read(r) \in {r, "empty", "blank"}
      BY <1>1 DEF Answered, Read
    <2>2. {"empty", "blank"} \subseteq Streams
      BY DEF Streams, Parts
    <2>3. Result(wire, r) = Read(r)
      BY <1>1, <2>1 DEF Result, Streams, Statuses, Parts, StatusCode
    <2>4. QED
      BY <2>1, <2>2, <2>3
  <1>2. CASE ~Answered(wire, r)
    BY <1>2 DEF Result, Errors
  <1>3. QED
    BY <1>1, <1>2

\* Said is a set of positions.
LEMMA SaidIn ==
    ASSUME NEW got \in Seq(Replied)
    PROVE  Said(got) \in SUBSET (1..Len(got)) /\ DOMAIN got = 1..Len(got) /\ Len(got) \in Nat
  BY DEF Said

\* When a runner is done with its calls, each item has the call that grades it.
LEMMA GradedType ==
    ASSUME NEW b \in Live, NEW got \in Seq(Replied), got # <<>>, Finished(b, got),
           NEW item \in Items(b)
    PROVE  Graded(b, got, item) \in Replied
  <1>1. NItems[b] \in Nat /\ item \in 1..NItems[b] /\ Len(got) \in Nat \ {0}
    BY EvidenceAssumption DEF Items, Batteries
  <1>2. CASE PerItem(b)
    BY <1>1, <1>2 DEF PerItem, Finished, Calls, Graded
  <1>3. CASE ~PerItem(b) /\ Kind[b] = "dialog"
    <2>1. Len(got) = NItems[b] + 1
      BY <1>3 DEF Finished, Calls
    <2>2. got[item + 1] \in Replied
      BY <1>1, <2>1
    <2>3. QED
      BY <1>3, <2>2 DEF Graded
  <1>4. CASE ~PerItem(b) /\ Kind[b] = "tools"
    <2>1. {"empty", "blank"} \subseteq Replied
      BY DEF Replied, Streams, Parts
    <2>2. CASE Said(got) # {}
      <3>1. Max(Said(got)) \in 1..Len(got)
        BY <2>2, SaidIn, GreatestIn
      <3>2. got[Max(Said(got))] \in Replied
        BY <3>1
      <3>3. QED
        BY <1>4, <2>2, <3>2 DEF Graded
    <2>3. CASE Said(got) = {}
      BY <1>4, <2>1, <2>3 DEF Graded
    <2>4. QED
      BY <2>2, <2>3
  <1>5. CASE ~PerItem(b) /\ Kind[b] \notin {"dialog", "tools"}
    BY <1>1, <1>5 DEF Graded
  <1>6. QED
    BY <1>2, <1>3, <1>4, <1>5

\* What a runner makes of its calls is an outcome.
LEMMA OutcomeType ==
    ASSUME NEW b \in Live, NEW got \in Seq(Replied), got # <<>>, Finished(b, got)
    PROVE  Outcome(b, got) \in Outcomes
  <1>1. NItems[b] \in Nat
    BY EvidenceAssumption DEF Batteries
  <1>2. Items(b) \in SUBSET Nat
    BY <1>1 DEF Items
  <1> DEFINE scores == [i \in Items(b) |-> Graded(b, got, i)]
  <1>3. scores \in [Items(b) -> Replied]
    BY GradedType
  <1>4. scores \in Partial(Nat, Replied)
    BY <1>2, <1>3, PartialIs
  <1>5. Silent(b, got) \in BOOLEAN
    <2>1. (Said(got) = {}) \in BOOLEAN /\ (got[Len(got)] \in Silences) \in BOOLEAN
      OBVIOUS
    <2>2. QED
      BY <2>1 DEF Silent
  <1>6. [NoOutcome EXCEPT !.status = "inconclusive"] \in Outcomes
    <2>1. <<>> \in Partial(Nat, Replied)
      BY PartialEmpty
    <2>2. QED
      BY <2>1 DEF NoOutcome, Outcomes, Statuses0
  <1> HIDE DEF scores
  <1>7. [status |-> "scored", scores |-> scores, silent |-> Silent(b, got)] \in Outcomes
    BY <1>4, <1>5 DEF Outcomes, Statuses0
  <1>8. QED
    BY <1>6, <1>7 DEF Outcome, scores

(* The types are kept: the session *)

\* Which process runs, by the name of its command.
LEMMA SessionHere ==
    ASSUME TypeInv, Session
    PROVE  SessionOK
  BY DEF TypeInv, Session, Idle, Stage0OK, CalibrateOK

\* The cell in front.
LEMMA CellHere ==
    ASSUME TypeInv, Session, job.phase # "judge"
    PROVE  /\ job \in SessionJobs /\ job.left \in Seq(LiveCells) /\ job.left # <<>>
           /\ job.left[1] = <<Model, Battery>> /\ Model \in Models /\ Battery \in Live
           /\ Battery \in Batteries
  <1>1. job \in SessionJobs /\ job.left # <<>>
    BY SessionHere DEF SessionOK
  <1>2. job.left \in Seq(LiveCells)
    BY <1>1 DEF SessionJobs
  <1>3. job.left[1] \in LiveCells
    BY <1>1, <1>2
  <1>4. QED
    BY <1>1, <1>2, <1>3 DEF LiveCells, Model, Battery, Batteries

\* A job that stays in the session, with a cell in front of it.
LEMMA JobKept ==
    ASSUME TypeInv, UNCHANGED <<sweeps, runs, contracts, control>>,
           job' \in SessionJobs, job'.phase \in {"cell", "call", "store"}, job'.left # <<>>
    PROVE  TypeInv'
  BY DEF TypeInv, SessionOK, control

\* A cell that has an outcome waits to be stored.
LEMMA SettleType ==
    ASSUME TypeInv, Session, job.phase # "judge", NEW outcome \in Outcomes
    PROVE  Settle(outcome) \in SessionJobs /\ Settle(outcome).phase = "store"
           /\ Settle(outcome).left = job.left
  BY CellHere DEF SessionJobs, Settle

\* The same for an outcome without scores.
LEMMA SettleAsType ==
    ASSUME TypeInv, Session, job.phase # "judge", NEW status \in Statuses0
    PROVE  /\ SettleAs(status) \in SessionJobs /\ SettleAs(status).phase = "store"
           /\ SettleAs(status).left = job.left
           /\ SettleAs(status).out.status = status
  <1>1. [NoOutcome EXCEPT !.status = status] \in Outcomes
        /\ [NoOutcome EXCEPT !.status = status].status = status
    <2>1. <<>> \in Partial(Nat, Replied)
      BY PartialEmpty
    <2>2. QED
      BY <2>1 DEF NoOutcome, Outcomes, Statuses0
  <1>2. job \in SessionJobs
    BY CellHere
  <1>3. QED
    BY <1>1, <1>2, SettleType DEF SettleAs, Settle, SessionJobs

\* A model that is not set up leaves the types as they are.
LEMMA SetupFailsType ==
    ASSUME TypeInv, SetupFails
    PROVE  TypeInv'
  <1>1. Session /\ job.phase = "cell" /\ job' = SettleAs("inconclusive")
    BY DEF SetupFails, At
  <1>2. "inconclusive" \in Statuses0
    BY DEF Statuses0
  <1>3. UNCHANGED <<sweeps, runs, contracts, control>>
    BY DEF SetupFails, tables, dialect
  <1>4. QED
    BY <1>1, <1>2, <1>3, SettleAsType, CellHere, JobKept

\* The facts of a model, from the database or from a probe.
LEMMA LoadedType ==
    ASSUME NEW m, contracts \in Seq(Contracts), LoadValidFacts(m) # None
    PROVE  /\ LoadValidFacts(m) \in FactSets
           /\ \E i \in DOMAIN contracts : /\ Valid(contracts[i], m)
                                          /\ LoadValidFacts(m) = contracts[i].facts
  <1> DEFINE valid == {i \in DOMAIN contracts : Valid(contracts[i], m)}
  <1>1. valid \in SUBSET (1..Len(contracts)) /\ valid # {} /\ Len(contracts) \in Nat
    BY DEF LoadValidFacts
  <1>2. Max(valid) \in valid
    BY <1>1, GreatestIn
  <1>3. LoadValidFacts(m) = contracts[Max(valid)].facts
    BY <1>1 DEF LoadValidFacts
  <1>4. contracts[Max(valid)] \in Contracts
    BY <1>2
  <1>5. QED
    BY <1>2, <1>3, <1>4 DEF Contracts

\* The rows of a table of contracts, without one of them, and with another.
LEMMA UpsertedType ==
    ASSUME NEW m \in Models, NEW facts \in FactSets, contracts \in Seq(Contracts), now \in Nat
    PROVE  /\ Upserted(m, Endpoint[m], facts) \in Seq(Contracts)
           /\ \A i \in DOMAIN Upserted(m, Endpoint[m], facts) :
                  LET c == Upserted(m, Endpoint[m], facts)[i]
                  IN  \/ \E j \in DOMAIN contracts : c = contracts[j]
                      \/ Same(c, Endpoint[m], facts) /\ c.at = now
  <1> DEFINE e == Endpoint[m]
             same == {i \in DOMAIN contracts : Same(contracts[i], e, facts)}
             fresh == [model |-> m, endpoint |-> e, facts |-> facts, at |-> now]
             k == Max(same)
             moved == [contracts[k] EXCEPT !.at = now]
             rest == RemoveAt(contracts, k)
  <1>1. e \in Endpoints /\ fresh \in Contracts /\ Same(fresh, e, facts) /\ fresh.at = now
    BY DEF Endpoints, Contracts, Same
  <1>2. CASE same = {}
    <2>1. Upserted(m, e, facts) = Append(contracts, fresh)
      BY <1>2 DEF Upserted
    <2> HIDE DEF fresh, e
    <2>2. Append(contracts, fresh) \in Seq(Contracts)
          /\ \A i \in DOMAIN Append(contracts, fresh) :
                \/ i \in DOMAIN contracts /\ Append(contracts, fresh)[i] = contracts[i]
                \/ Append(contracts, fresh)[i] = fresh
      BY <1>1
    <2>3. QED
      BY <1>1, <2>1, <2>2 DEF e
  <1>3. CASE same # {}
    <2>1. same \in SUBSET (1..Len(contracts)) /\ Len(contracts) \in Nat
      OBVIOUS
    <2>2. k \in same
      BY <1>3, <2>1, GreatestIn
    <2>3. contracts[k] \in Contracts /\ Same(contracts[k], e, facts) /\ k \in 1..Len(contracts)
      BY <2>2
    <2>4. moved \in Contracts /\ Same(moved, e, facts) /\ moved.at = now
      BY <2>3 DEF Contracts, Same
    <2>5. Upserted(m, e, facts) = Append(rest, moved)
      BY <1>3 DEF Upserted
    <2>6. /\ rest \in Seq(Contracts)
          /\ \A i \in DOMAIN rest : \E j \in DOMAIN contracts : rest[i] = contracts[j]
      <3>0. /\ Len(contracts) \in Nat /\ k \in 1..Len(contracts)
            /\ \A i \in 1..Len(contracts) : contracts[i] \in Contracts
        BY <2>3
      <3> DEFINE a == SubSeq(contracts, 1, k - 1)
                 b == SubSeq(contracts, k + 1, Len(contracts))
      <3>1. a \in Seq(Contracts) /\ \A i \in DOMAIN a : \E j \in DOMAIN contracts : a[i] = contracts[j]
        <4>0. k - 1 \in Int /\ \A i \in 1..(k - 1) : contracts[i] \in Contracts
          <5> HIDE DEF k
          <5>1. QED
            BY <3>0
        <4>1. a \in Seq(Contracts) /\ Len(a) = k - 1 /\ \A i \in 1..(k - 1) : a[i] = contracts[i]
          <5> HIDE DEF k
          <5>1. /\ a \in Seq(Contracts) /\ Len(a) = IF 1 <= k - 1 THEN (k - 1) - 1 + 1 ELSE 0
                /\ \A i \in 1..((k - 1) - 1 + 1) : a[i] = contracts[1 + i - 1]
            BY <4>0, SubSeqProperties
          <5>2. QED
            BY <5>1, <2>3
        <4>2. \A i \in DOMAIN a : i \in DOMAIN contracts /\ a[i] = contracts[i]
          BY <4>1, <2>3
        <4>3. QED
          BY <4>1, <4>2
      <3>2. b \in Seq(Contracts) /\ \A i \in DOMAIN b : \E j \in DOMAIN contracts : b[i] = contracts[j]
        <4>0. /\ k + 1 \in Int /\ Len(contracts) \in Int
              /\ \A i \in (k + 1)..Len(contracts) : contracts[i] \in Contracts
          <5> HIDE DEF k
          <5>1. QED
            BY <3>0
        <4>1. /\ b \in Seq(Contracts) /\ Len(b) = Len(contracts) - k
              /\ \A i \in 1..(Len(contracts) - k) : b[i] = contracts[k + 1 + i - 1]
          <5> DEFINE n == Len(contracts)
          <5> HIDE DEF k, n
          <5>1. /\ b \in Seq(Contracts)
                /\ Len(b) = IF k + 1 <= n THEN n - (k + 1) + 1 ELSE 0
                /\ \A i \in 1..(n - (k + 1) + 1) : b[i] = contracts[k + 1 + i - 1]
            BY <4>0, SubSeqProperties DEF n
          <5>2. QED
            BY <5>1, <2>3 DEF n
        <4>2. \A i \in DOMAIN b : k + i \in DOMAIN contracts /\ b[i] = contracts[k + i]
          <5> HIDE DEF k, b
          <5>1. QED
            BY <4>1, <3>0
        <4>3. QED
          BY <4>1, <4>2
      <3>3. rest = a \o b
        BY DEF RemoveAt
      <3> HIDE DEF a, b, rest
      <3>4. /\ rest \in Seq(Contracts) /\ Len(rest) = Len(a) + Len(b)
            /\ \A i \in 1..Len(rest) : rest[i] = IF i <= Len(a) THEN a[i] ELSE b[i - Len(a)]
        BY <3>1, <3>2, <3>3, ConcatProperties
      <3>5. ASSUME NEW i \in DOMAIN rest
            PROVE  \E j \in DOMAIN contracts : rest[i] = contracts[j]
        <4>1. CASE i <= Len(a)
          BY <4>1, <3>1, <3>4
        <4>2. CASE ~(i <= Len(a))
          <5>1. i - Len(a) \in DOMAIN b /\ rest[i] = b[i - Len(a)]
            BY <4>2, <3>1, <3>2, <3>4
          <5>2. QED
            BY <5>1, <3>2
        <4>3. QED
          BY <4>1, <4>2
      <3>6. QED
        BY <3>4, <3>5
    <2> HIDE DEF rest, moved, k, e
    <2>7. Append(rest, moved) \in Seq(Contracts)
          /\ \A i \in DOMAIN Append(rest, moved) :
                \/ i \in DOMAIN rest /\ Append(rest, moved)[i] = rest[i]
                \/ Append(rest, moved)[i] = moved
      BY <2>4, <2>6
    <2>8. QED
      BY <2>4, <2>5, <2>6, <2>7 DEF e
  <1>4. QED
    BY <1>2, <1>3

\* What a session does when it learns the facts of a model.
LEMMA CacheType ==
    ASSUME job \in SessionJobs, NEW m \in Models, NEW facts \in FactSets
    PROVE  /\ [job EXCEPT !.cache = Cache(m, facts)] \in SessionJobs
           /\ [job EXCEPT !.cache = Cache(m, facts)].phase = job.phase
           /\ [job EXCEPT !.cache = Cache(m, facts)].left = job.left
  <1>1. job.cache \in Partial(Models, FactSets)
    BY DEF SessionJobs
  <1>2. PICK cache \in Partial(Models, FactSets) : cache = Cache(m, facts)
    BY <1>1, PartialEntered DEF Cache
  <1>3. QED
    BY <1>2 DEF SessionJobs

\* So does reading or probing the abilities of an endpoint.
LEMMA ContractType ==
    ASSUME TypeInv, Contract
    PROVE  TypeInv'
  <1>1. /\ job \in SessionJobs /\ job.left # <<>> /\ job.phase = "cell" /\ Model \in Models
        /\ contracts \in Seq(Contracts) /\ now \in Nat
    BY CellHere DEF Contract, At, TypeInv
  <1>2. UNCHANGED <<sweeps, runs, control>>
    BY DEF Contract, tables
  <1>3. CASE FromDatabase(Model)
    <2>1. LoadValidFacts(Model) \in FactSets
      BY <1>1, <1>3, LoadedType DEF FromDatabase
    <2>2. /\ job' = [job EXCEPT !.cache = Cache(Model, LoadValidFacts(Model))]
          /\ UNCHANGED contracts
      BY <1>3 DEF FromDatabase
    <2>3. QED
      BY <1>1, <1>2, <2>1, <2>2, CacheType, JobKept
  <1>4. ASSUME NEW lost \in Losses, NEW database \in BOOLEAN, FromProbe(Model, lost, database)
        PROVE  TypeInv'
    <2> DEFINE facts == Probe(Endpoint[Model], lost)
    <2>1. facts \in FactSets
      <3>1. PICK e \in Endpoints : e = Endpoint[Model]
        BY <1>1 DEF Endpoints
      <3>2. Probe(e, lost) \in FactSets
        <4>1. e \in Endpoints /\ lost \in Losses
          BY <3>1
        <4>2. QED
          BY <4>1, SMT DEF FactSets
      <3>3. QED
        BY <3>1, <3>2
    <2>2. job' = [job EXCEPT !.cache = Cache(Model, facts)]
      BY <1>4 DEF FromProbe
    <2>3. contracts' \in Seq(Contracts)
      BY <1>1, <1>4, <2>1, UpsertedType DEF FromProbe
    <2> HIDE DEF facts
    <2>4. job' \in SessionJobs /\ job'.phase = "cell" /\ job'.left = job.left
      BY <1>1, <2>1, <2>2, CacheType
    <2>5. QED
      BY <1>1, <1>2, <2>3, <2>4 DEF TypeInv, SessionOK, control
  <1>5. QED
    BY <1>3, <1>4 DEF Contract, EnsureFacts

\* So does the gate before the first call.
LEMMA GateType ==
    ASSUME TypeInv, Gate
    PROVE  TypeInv'
  <1>1. /\ job \in SessionJobs /\ job.left # <<>> /\ job.phase = "cell" /\ Session
    BY CellHere DEF Gate, At
  <1>2. UNCHANGED <<sweeps, runs, contracts, control>>
    BY DEF Gate, tables, dialect
  <1>3. "not_applicable" \in Statuses0
    BY DEF Statuses0
  <1>4. CASE job' = SettleAs("not_applicable")
    BY <1>1, <1>2, <1>3, <1>4, SettleAsType, JobKept
  <1>5. CASE job' = [job EXCEPT !.phase = "call"]
    <2>1. job' \in SessionJobs /\ job'.phase = "call" /\ job'.left = job.left
      BY <1>1, <1>5 DEF SessionJobs
    <2>2. QED
      BY <1>1, <1>2, <2>1, JobKept
  <1>6. QED
    BY <1>4, <1>5 DEF Gate

\* What a reply to a request leaves in the session.
CallJob(j) ==
    j \in SessionJobs /\ j.phase \in {"call", "store"} /\ j.left = job.left

\* A call that returned leads to the next call or to an outcome.
LEMMA ReturnedType ==
    ASSUME TypeInv, Session, job.phase = "call", NEW r \in Replied
    PROVE  CallJob(Returned(r))
  <1>1. job \in SessionJobs /\ Battery \in Live
    BY CellHere
  <1>2. job.got \in Seq(Replied)
    BY <1>1 DEF SessionJobs
  <1>3. PICK got \in Seq(Replied) : got = Append(job.got, r) /\ got # <<>>
    BY <1>2, AppendProperties
  <1>4. CASE Finished(Battery, got)
    <2>1. Outcome(Battery, got) \in Outcomes
      BY <1>1, <1>3, <1>4, OutcomeType
    <2>2. Returned(r) = Settle(Outcome(Battery, got))
      BY <1>3, <1>4 DEF Returned
    <2>3. QED
      BY <2>1, <2>2, SettleType DEF CallJob
  <1>5. CASE ~Finished(Battery, got)
    <2>1. Returned(r) = [job EXCEPT !.got = got, !.tries = 0]
      BY <1>3, <1>5 DEF Returned
    <2>2. PICK zero \in Nat : zero = 0
      OBVIOUS
    <2>3. QED
      BY <1>1, <1>3, <2>1, <2>2 DEF CallJob, SessionJobs
  <1>6. QED
    BY <1>4, <1>5

\* A call that raised leads to another attempt or to an outcome.
LEMMA RaisedType ==
    ASSUME TypeInv, Session, job.phase = "call", NEW r
    PROVE  CallJob(Raised(r))
  <1>1. job \in SessionJobs
    BY CellHere
  <1>2. CallJob(SettleAs("inconclusive"))
    BY SettleAsType DEF CallJob, Statuses0
  <1>a. job.tries \in Nat /\ job.attempt \in Nat
    BY <1>1 DEF SessionJobs
  <1>b. PICK tries \in Nat, attempt \in Nat, zero \in Nat :
            tries = job.tries + 1 /\ attempt = job.attempt + 1 /\ zero = 0
    BY <1>a
  <1>c. PICK none \in Seq(Replied) : none = <<>>
    <2>1. <<>> \in Seq(Replied)
      OBVIOUS
    <2>2. QED
      BY <2>1, Zenon
  <1>3. CallJob([job EXCEPT !.tries = @ + 1])
    <2>1. [job EXCEPT !.tries = @ + 1] = [job EXCEPT !.tries = tries]
      BY <1>b
    <2>2. QED
      BY <1>1, <2>1 DEF CallJob, SessionJobs
  <1>4. CallJob([job EXCEPT !.attempt = @ + 1, !.tries = 0, !.got = <<>>])
    <2>1. [job EXCEPT !.attempt = @ + 1, !.tries = 0, !.got = <<>>]
            = [job EXCEPT !.attempt = attempt, !.tries = zero, !.got = none]
      BY <1>b, <1>c
    <2>2. QED
      BY <1>1, <2>1, ZenonT(30) DEF CallJob, SessionJobs
  <1>5. QED
    BY <1>2, <1>3, <1>4 DEF Raised

\* A reply ends the call, the cell, or neither.
LEMMA RepliedJob ==
    ASSUME TypeInv, NEW r \in Replies, Call(r)
    PROVE  CallJob(job')
  <1>1. Session /\ job.phase = "call" /\ job \in SessionJobs
    BY CellHere DEF Call, At
  <1> DEFINE wire == Wire(Provider(Model))
  <1> HIDE DEF wire
  <1>2. CASE GoesOn(wire, r)
    <2>1. job' = [job EXCEPT !.http = Again(wire, r)]
      BY <1>2 DEF Call, wire
    <2>2. Again(wire, r) \in [try : Nat, lean : BOOLEAN]
      BY <1>1 DEF SessionJobs, Again
    <2>3. QED
      BY <1>1, <2>1, <2>2 DEF CallJob, SessionJobs
  <1>3. CASE ~GoesOn(wire, r)
    <2>1. job' = [Ended(r, Result(wire, r)) EXCEPT !.http = NewCall]
      BY <1>3 DEF Call, wire
    <2>2. "reject" \in Replied /\ Streams \subseteq Replied
      BY DEF Replied
    <2>3. CallJob(Ended(r, Result(wire, r)))
      BY <1>1, <2>2, ResultType, ReturnedType, RaisedType DEF Ended
    <2>4. NewCall \in [try : Nat, lean : BOOLEAN]
      BY DEF NewCall
    <2>5. QED
      BY <2>1, <2>3, <2>4 DEF CallJob, SessionJobs
  <1>4. QED
    BY <1>2, <1>3

\* A reply to the adapter leaves the types as they are.
LEMMA CallType ==
    ASSUME TypeInv, NEW r \in Replies, Call(r)
    PROVE  TypeInv'
  <1>1. job.left # <<>>
    BY CellHere DEF Call, At
  <1>2. UNCHANGED <<sweeps, runs, contracts, control>>
    BY DEF Call, tables, dialect
  <1>3. CallJob(job')
    BY RepliedJob
  <1>4. QED
    BY <1>1, <1>2, <1>3, JobKept DEF CallJob

\* What a session is after a cell was stored.
NextCell(j) ==
    \/ j = Idle
    \/ /\ j \in SessionJobs /\ j.phase \in {"cell", "judge"}
       /\ j.phase = "cell" => j.left # <<>>

\* Behind a stored cell comes the next cell, the judgment or nothing.
LEMMA OnwardType ==
    ASSUME TypeInv, Session, job.phase # "judge",
           NEW stored \in SessionJobs, stored.left # <<>>
    PROVE  NextCell(Onward(stored))
  <1>1. Battery \in Live
    BY CellHere
  <1>2. /\ stored.left \in Seq(LiveCells) /\ stored.seen \in Seq(Seen) /\ stored.out \in Outcomes
    BY DEF SessionJobs
  <1>3. PICK left \in Seq(LiveCells) : left = Tail(stored.left)
    <2>1. Tail(stored.left) \in Seq(LiveCells)
      BY <1>2, HeadTailProperties
    <2>2. QED
      BY <2>1, Zenon
  <1>4. PICK seen \in Seq(Seen) :
            seen = IF stored.cmd = "bench" THEN <<>>
                   ELSE Append(stored.seen, [battery |-> Battery, out |-> stored.out])
    <2>1. [battery |-> Battery, out |-> stored.out] \in Seen
      BY <1>1, <1>2 DEF Seen
    <2>2. Append(stored.seen, [battery |-> Battery, out |-> stored.out]) \in Seq(Seen)
      BY <1>2, <2>1, AppendProperties
    <2>3. <<>> \in Seq(Seen)
      OBVIOUS
    <2>4. QED
      BY <2>2, <2>3, Zenon
  <1>5. PICK none \in Seq(Replied), zero \in Nat : none = <<>> /\ zero = 0
    <2>1. <<>> \in Seq(Replied) /\ 0 \in Nat
      OBVIOUS
    <2>2. QED
      BY <2>1, Zenon
  <1>6. NoOutcome \in Outcomes
    <2>1. <<>> \in Partial(Nat, Replied)
      BY PartialEmpty
    <2>2. QED
      BY <2>1 DEF NoOutcome, Outcomes, Statuses0
  <1> DEFINE next == [stored EXCEPT !.phase = "cell", !.left = left, !.seen = seen,
                                    !.out = NoOutcome, !.got = none, !.tries = zero, !.attempt = zero]
  <1>7. /\ next \in SessionJobs /\ next.phase = "cell" /\ next.left = left
    BY <1>3, <1>4, <1>5, <1>6 DEF SessionJobs
  <1> HIDE DEF next
  <1>8. [next EXCEPT !.phase = "judge"] \in SessionJobs /\ [next EXCEPT !.phase = "judge"].phase = "judge"
    BY <1>7 DEF SessionJobs
  <1>9. Onward(stored) = IF stored.cmd = "bench" THEN IF left = <<>> THEN Idle ELSE next
                         ELSE IF left = <<>> \/ Spent(seen) THEN [next EXCEPT !.phase = "judge"]
                         ELSE next
    BY <1>3, <1>4, <1>5 DEF Onward, next
  <1>10. CASE left = <<>>
    <2>1. Onward(stored) \in {Idle, [next EXCEPT !.phase = "judge"]}
      BY <1>9, <1>10
    <2>2. QED
      BY <1>8, <2>1 DEF NextCell
  <1>11. CASE left # <<>>
    <2>1. Onward(stored) \in {next, [next EXCEPT !.phase = "judge"]}
      BY <1>9, <1>11
    <2>2. QED
      BY <1>7, <1>8, <1>11, <2>1 DEF NextCell
  <1>12. QED
    BY <1>10, <1>11

\* A new row of the run table, and a new sweep.
LEMMA NewRowTypes ==
    ASSUME now \in Nat
    PROVE  /\ \A s \in Nat, m \in Models, b \in Batteries, status \in Statuses0 :
                  NewRun(s, m, b, status) \in Runs
           /\ \A purpose \in {"livebench", "stage0", Marker}, plan \in Seq(Models \X Batteries) :
                  NewSweep(purpose, plan) \in Sweeps
  <1>1. <<>> \in Rows
    <2>1. DOMAIN <<>> = {}
      OBVIOUS
    <2>2. QED
      BY <2>1, PartialEmpty, FS_EmptySet DEF Rows
  <1>2. QED
    BY <1>1 DEF NewRun, Runs, NewSweep, Sweeps

\* Cells of the engine or of the pool are cells.
LEMMA CellSorts ==
    /\ Seq(LiveCells) \subseteq Seq(Models \X Batteries)
    /\ Seq(PoolCells) \subseteq Seq(Models \X Batteries)
  <1>1. LiveCells \subseteq Models \X Batteries /\ PoolCells \subseteq Models \X Batteries
    BY DEF LiveCells, PoolCells, Batteries
  <1>2. QED
    BY <1>1

\* Storing the run of a cell leaves the types as they are, its first sweep included.
LEMMA StoreRunType ==
    ASSUME TypeInv, StoreRun
    PROVE  TypeInv' /\ (job' = Idle \/ job'.cmd \in {"bench", "preflight"})
  <1>1. /\ Session /\ job.phase = "store" /\ job \in SessionJobs /\ job.left # <<>>
        /\ Model \in Models /\ Battery \in Batteries
    BY CellHere DEF StoreRun, At
  <1>2. UNCHANGED <<contracts, now, todo>>
    BY DEF StoreRun, control, dialect
  <1>3. CASE ~registered
    <2>1. job' = Idle /\ UNCHANGED <<sweeps, runs>>
      BY <1>3 DEF StoreRun
    <2>2. QED
      BY <1>2, <2>1 DEF TypeInv
  <1>4. CASE registered
    <2> DEFINE s0 == IF job.sweep = 0 THEN Len(sweeps) + 1 ELSE job.sweep
               stored0 == [job EXCEPT !.sweep = s0, !.run = Len(runs) + 1]
    <2>1. /\ sweeps \in Seq(Sweeps) /\ runs \in Seq(Runs) /\ now \in Nat
          /\ Len(runs) \in Nat /\ Len(sweeps) \in Nat
      BY DEF TypeInv
    <2>2. /\ job.sweep \in Nat /\ job.plan \in Seq(LiveCells) /\ job.out \in Outcomes
          /\ job.out.status \in Statuses0
      BY <1>1 DEF SessionJobs, Outcomes
    <2>3. PICK s \in Nat, k \in Nat : s = s0 /\ k = Len(runs) + 1
      BY <2>1, <2>2
    <2> DEFINE stored == [job EXCEPT !.sweep = s, !.run = k]
    <2>4. stored \in SessionJobs /\ stored.left = job.left /\ stored.run = k /\ stored.phase = "store"
      BY <1>1, <2>3 DEF SessionJobs
    <2>5. /\ runs' = Append(runs, NewRun(s, Model, Battery, job.out.status))
          /\ sweeps' = IF job.sweep = 0 THEN Append(sweeps, NewSweep("livebench", job.plan)) ELSE sweeps
          /\ job' = IF job.out.status = "inconclusive" THEN [stored EXCEPT !.phase = "incident"]
                    ELSE IF job.out.status = "scored" THEN [stored EXCEPT !.phase = "rows"]
                    ELSE Onward(stored)
      BY <1>4, <2>3 DEF StoreRun
    <2>6. runs' \in Seq(Runs) /\ Len(runs') = k
      <3>1. NewRun(s, Model, Battery, job.out.status) \in Runs
        BY <1>1, <2>1, <2>2, NewRowTypes
      <3>2. QED
        BY <2>1, <2>3, <2>5, <3>1, AppendProperties
    <2>7. sweeps' \in Seq(Sweeps)
      <3>1. NewSweep("livebench", job.plan) \in Sweeps
        BY <2>1, <2>2, NewRowTypes, CellSorts
      <3>2. QED
        BY <2>1, <2>5, <3>1, AppendProperties
    <2> HIDE DEF stored
    <2>8. NextCell(Onward(stored))
      BY <1>1, <2>4, OnwardType
    <2>9. /\ [stored EXCEPT !.phase = "incident"] \in SessionJobs
          /\ [stored EXCEPT !.phase = "incident"].left = job.left
          /\ [stored EXCEPT !.phase = "incident"].run = k
          /\ [stored EXCEPT !.phase = "rows"] \in SessionJobs
          /\ [stored EXCEPT !.phase = "rows"].left = job.left
          /\ [stored EXCEPT !.phase = "rows"].run = k
      BY <2>4 DEF SessionJobs
    <2>10. k \in DOMAIN runs'
      BY <2>1, <2>3, <2>6
    <2>11. job' = Idle \/ SessionOK'
      <3>1. CASE job.out.status = "inconclusive"
        <4>1. job' = [stored EXCEPT !.phase = "incident"]
          BY <2>5, <3>1
        <4>2. job' \in SessionJobs /\ job'.left # <<>> /\ job'.run \in DOMAIN runs'
          BY <1>1, <4>1, <2>9, <2>10
        <4>3. QED
          BY <4>2 DEF SessionOK
      <3>2. CASE job.out.status = "scored"
        <4>1. job' = [stored EXCEPT !.phase = "rows"]
          BY <2>5, <3>2
        <4>2. job' \in SessionJobs /\ job'.left # <<>> /\ job'.run \in DOMAIN runs'
          BY <1>1, <4>1, <2>9, <2>10
        <4>3. QED
          BY <4>2 DEF SessionOK
      <3>3. CASE job.out.status \notin {"inconclusive", "scored"}
        <4>1. NextCell(job')
          BY <2>5, <2>8, <3>3
        <4>2. QED
          BY <4>1 DEF NextCell, SessionOK
      <3>4. QED
        BY <3>1, <3>2, <3>3
    <2>12. now' \in Nat /\ todo' \in Seq(Commands) /\ contracts' \in Seq(Contracts)
      BY <1>2 DEF TypeInv
    <2>13. job' = Idle \/ job'.cmd \in {"bench", "preflight"}
      BY <2>11 DEF SessionOK, SessionJobs
    <2>14. QED
      BY <2>6, <2>7, <2>11, <2>12, <2>13 DEF TypeInv
  <1>5. QED
    BY <1>3, <1>4

\* So does storing an incident.
LEMMA StoreIncidentType ==
    ASSUME TypeInv, StoreIncident
    PROVE  TypeInv'
  <1>1. /\ Session /\ job.phase = "incident" /\ job \in SessionJobs /\ job.left # <<>>
    BY CellHere DEF StoreIncident, At
  <1>2. UNCHANGED <<sweeps, runs, contracts, now, todo>> /\ job' = Onward(job)
    BY DEF StoreIncident, control, dialect
  <1>3. NextCell(job')
    BY <1>1, <1>2, OnwardType
  <1>4. job' = Idle \/ SessionOK'
    BY <1>3 DEF NextCell, SessionOK
  <1>5. QED
    BY <1>2, <1>4 DEF TypeInv

\* A run with one more row is a run, and it is the same one.
LEMMA WithRowType ==
    ASSUME NEW run \in Runs, NEW i \in Nat, NEW r
    PROVE  /\ WithRow(run, i, r) \in Runs
           /\ WithRow(run, i, r).sweep = run.sweep /\ WithRow(run, i, r).model = run.model
           /\ WithRow(run, i, r).battery = run.battery /\ WithRow(run, i, r).status = run.status
           /\ WithRow(run, i, r).at = run.at
           /\ WithRow(run, i, r).scores = Entered(run.scores, i, Grade(r))
           /\ WithRow(run, i, r).mute = IF r = "empty" THEN run.mute \cup {i} ELSE run.mute
  <1>1. /\ run.scores \in Rows /\ run.unanswered \in SUBSET Nat
        /\ run.mute \in SUBSET Nat /\ run.cut \in SUBSET Nat
    BY DEF Runs
  <1>2. Grade(r) \in {0, 1}
    BY DEF Grade
  <1>3. PICK scores \in Rows, unanswered \in SUBSET Nat, mute \in SUBSET Nat,
             cut \in SUBSET Nat :
            /\ scores = Entered(run.scores, i, Grade(r))
            /\ unanswered = IF r \in Silences THEN run.unanswered \cup {i} ELSE run.unanswered
            /\ mute = IF r = "empty" THEN run.mute \cup {i} ELSE run.mute
            /\ cut = IF r = "cut" THEN run.cut \cup {i} ELSE run.cut
    <2>1. Entered(run.scores, i, Grade(r)) \in Rows
      <3>1. Entered(run.scores, i, Grade(r)) \in Partial(Nat, {0, 1})
        BY <1>1, <1>2, PartialEntered DEF Rows
      <3>2. DOMAIN Entered(run.scores, i, Grade(r)) = DOMAIN run.scores \cup {i}
        BY DEF Entered
      <3>3. IsFiniteSet(DOMAIN run.scores \cup {i})
        BY <1>1, FS_AddElement DEF Rows
      <3>4. QED
        BY <3>1, <3>2, <3>3 DEF Rows
    <2>2. /\ (IF r \in Silences THEN run.unanswered \cup {i} ELSE run.unanswered) \in SUBSET Nat
          /\ (IF r = "empty" THEN run.mute \cup {i} ELSE run.mute) \in SUBSET Nat
          /\ (IF r = "cut" THEN run.cut \cup {i} ELSE run.cut) \in SUBSET Nat
      BY <1>1
    <2>3. QED
      BY <2>1, <2>2, Zenon
  <1>4. WithRow(run, i, r) = [run EXCEPT !.scores = scores, !.unanswered = unanswered,
                                         !.mute = mute, !.cut = cut]
    BY <1>3 DEF WithRow
  <1>5. QED
    BY <1>3, <1>4 DEF Runs

\* So does storing a row of the run in front.
LEMMA StoreRowType ==
    ASSUME TypeInv, StoreRow
    PROVE  TypeInv'
  <1>1. /\ Session /\ job.phase = "rows" /\ job \in SessionJobs /\ job.left # <<>>
        /\ runs \in Seq(Runs)
    BY CellHere DEF StoreRow, At, TypeInv
  <1>2. UNCHANGED <<sweeps, contracts, now, todo>>
    BY DEF StoreRow, control, dialect
  <1>3. job.run \in DOMAIN runs /\ runs[job.run] \in Runs
    <2>1. job.run \in DOMAIN runs
      BY <1>1, SessionHere DEF SessionOK
    <2>2. QED
      BY <1>1, <2>1
  <1>4. PICK item \in Nat : item = Cardinality(DOMAIN runs[job.run].scores) + 1
    <2>1. Cardinality(DOMAIN runs[job.run].scores) \in Nat
      BY <1>3, FS_CardinalityType DEF Runs, Rows
    <2>2. QED
      BY <2>1
  <1>5. /\ runs' = [runs EXCEPT ![job.run] = WithRow(@, item, job.out.scores[item])]
        /\ job' = IF item = NItems[Battery] THEN Onward(job) ELSE job
    BY <1>4 DEF StoreRow
  <1>6. runs' \in Seq(Runs) /\ DOMAIN runs' = DOMAIN runs
    <2>1. WithRow(runs[job.run], item, job.out.scores[item]) \in Runs
      BY <1>3, WithRowType
    <2>2. QED
      BY <1>1, <1>3, <1>5, <2>1
  <1>7. job' = Idle \/ SessionOK'
    <2>1. CASE job' = Onward(job)
      <3>1. NextCell(job')
        BY <1>1, <2>1, OnwardType
      <3>2. QED
        BY <3>1 DEF NextCell, SessionOK
    <2>2. CASE job' = job
      BY <1>1, <1>3, <1>6, <2>2 DEF SessionOK
    <2>3. QED
      BY <1>5, <2>1, <2>2
  <1>8. QED
    BY <1>2, <1>6, <1>7 DEF TypeInv

\* So does the judgment, and the marker it may write.
LEMMA JudgeType ==
    ASSUME TypeInv, Judge
    PROVE  TypeInv'
  <1>1. job.plan \in Seq(LiveCells) /\ job.sweep \in Nat
    BY SessionHere DEF Judge, At, SessionOK, SessionJobs
  <1>2. UNCHANGED <<runs, contracts, now, todo>> /\ job' = Idle
    BY DEF Judge, control, dialect
  <1>3. sweeps' \in Seq(Sweeps)
    <2>1. NewSweep(Marker, job.plan) \in Sweeps
      BY <1>1, NewRowTypes, CellSorts DEF TypeInv
    <2>2. [NewSweep(Marker, job.plan) EXCEPT !.of = job.sweep] \in Sweeps
      BY <1>1, <2>1 DEF Sweeps
    <2>3. QED
      BY <2>2, AppendProperties DEF Judge, TypeInv
  <1>4. QED
    BY <1>2, <1>3 DEF TypeInv

\* What a user types is what the scripts have.
LEMMA TypedType ==
    ASSUME TypeInv, todo # <<>>
    PROVE  /\ todo[1] \in Commands /\ Tail(todo) \in Seq(Commands)
           /\ todo[1].cmd \in {"bench", "preflight"} =>
                  /\ todo[1].models \in Seq(Models) \ {<<>>}
                  /\ todo[1].batteries \in Seq(Live) \ {<<>>}
           /\ todo[1].cmd = "stage0" =>
                  /\ todo[1].models \in Seq(Models) \ {<<>>}
                  /\ todo[1].batteries \in Seq(Pool) \ {<<>>}
                  /\ todo[1].forced \in BOOLEAN /\ todo[1].database \in BOOLEAN
  <1>1. todo[1] \in Commands /\ Tail(todo) \in Seq(Commands)
    BY HeadTailProperties DEF TypeInv
  <1>2. PICK c \in Commands : c = todo[1]
    BY <1>1
  <1>3. c.cmd # "calibrate" => Range(c.models) \subseteq Models
    BY DEF Models, Measuring
  <1>4. CASE c.cmd \in {"bench", "preflight"}
    <2>1. List(c.models, Range(c.models)) /\ List(c.batteries, Live)
      BY <1>4, ScriptsAssumption
    <2>2. c.models \in Seq(Models)
      BY <1>3, <1>4, <2>1 DEF List
    <2>3. QED
      BY <1>1, <1>2, <1>4, <2>1, <2>2 DEF List
  <1>5. CASE c.cmd = "stage0"
    <2>1. /\ List(c.models, Range(c.models)) /\ List(c.batteries, Pool)
          /\ {c.forced, c.database} \subseteq BOOLEAN
      BY <1>5, ScriptsAssumption
    <2>2. c.models \in Seq(Models)
      BY <1>3, <1>5, <2>1 DEF List
    <2>3. QED
      BY <1>1, <1>2, <1>5, <2>1, <2>2 DEF List
  <1>6. CASE c.cmd \notin {"bench", "preflight", "stage0"}
    BY <1>1, <1>2, <1>6
  <1>7. QED
    BY <1>4, <1>5, <1>6

\* A new session.
LEMMA ProcessType ==
    ASSUME TypeInv, todo # <<>>, todo[1].cmd \in {"bench", "preflight"}
    PROVE  /\ Process(todo[1]) \in SessionJobs
           /\ Process(todo[1]).phase = "cell" /\ Process(todo[1]).left # <<>>
  <1> DEFINE cells == Cells(todo[1].models, todo[1].batteries)
  <1>1. cells \in Seq(LiveCells) /\ cells # <<>>
    BY TypedType, CellsType DEF LiveCells
  <1>2. <<>> \in Partial(Models, FactSets) /\ <<>> \in Seq(Replied) /\ <<>> \in Seq(Seen)
    BY PartialEmpty
  <1>3. NoOutcome \in Outcomes
    BY PartialEmpty DEF NoOutcome, Outcomes, Statuses0
  <1>4. NewCall \in [try : Nat, lean : BOOLEAN]
    BY DEF NewCall
  <1> HIDE DEF cells
  <1>5. Process(todo[1]) =
          [cmd |-> todo[1].cmd, phase |-> "cell", sweep |-> 0, run |-> 0, plan |-> cells,
           left |-> cells, cache |-> <<>>, attempt |-> 0, tries |-> 0, http |-> NewCall,
           got |-> <<>>, out |-> NoOutcome, seen |-> <<>>]
    BY DEF Process, cells
  <1>6. QED
    BY <1>1, <1>2, <1>3, <1>4, <1>5 DEF SessionJobs

\* A command that starts leaves the types as they are.
LEMMA CommandType ==
    ASSUME TypeInv, Bench \/ Preflight
    PROVE  TypeInv'
  <1>1. todo # <<>> /\ todo[1].cmd \in {"bench", "preflight"} /\ job = Idle
    BY DEF Bench, Preflight, Typed, AtRest
  <1>2. UNCHANGED <<sweeps, runs, contracts, now>> /\ todo' = Tail(todo)
    BY DEF Bench, Preflight, tables, dialect
  <1>3. job' \in {Idle, Process(todo[1])}
    BY <1>1 DEF Bench, Preflight
  <1>4. job' = Idle \/ SessionOK'
    BY <1>1, <1>3, ProcessType DEF SessionOK
  <1>5. todo' \in Seq(Commands)
    BY <1>1, <1>2, TypedType
  <1>6. QED
    BY <1>2, <1>4, <1>5 DEF TypeInv

\* A session stays one until it ends.
LEMMA SessionStays ==
    ASSUME TypeInv, SetupFails \/ Contract \/ Gate \/ (\E r \in Replies : Call(r)) \/ StoreRun
                    \/ StoreIncident \/ StoreRow \/ Judge
    PROVE  Session /\ SessionOK /\ (job' = Idle \/ SessionOK')
  <1>1. Session /\ SessionOK
    BY SessionHere DEF SetupFails, Contract, Gate, Call, StoreRun, StoreIncident, StoreRow, Judge, At
  <1>2. job.cmd \in {"bench", "preflight"} /\ "cmd" \in DOMAIN job
    BY <1>1 DEF SessionOK, SessionJobs
  <1>3. TypeInv'
    BY SetupFailsType, ContractType, GateType, CallType, StoreRunType, StoreIncidentType,
       StoreRowType, JudgeType
  <1>4. job' = Idle \/ job'.cmd \in {"bench", "preflight"}
    <2>1. CASE SetupFails
      BY <1>1, <2>1, SettleAsType DEF SetupFails, At, SessionJobs, Statuses0
    <2>2. CASE Contract
      BY <1>2, <2>2 DEF Contract, EnsureFacts, FromDatabase, FromProbe
    <2>3. CASE Gate
      <3>1. job' = SettleAs("not_applicable") \/ job' = [job EXCEPT !.phase = "call"]
        BY <2>3 DEF Gate
      <3>2. QED
        BY <1>1, <1>2, <2>3, <3>1, SettleAsType DEF Gate, At, SessionJobs, Statuses0
    <2>4. CASE \E r \in Replies : Call(r)
      BY <2>4, RepliedJob DEF CallJob, SessionJobs
    <2>5. CASE StoreIncident \/ StoreRow
      <3>1. job' \in {job, Onward(job)}
        BY <2>5 DEF StoreIncident, StoreRow
      <3>2. job.left # <<>> /\ job.phase # "judge" /\ job \in SessionJobs
        BY <2>5, CellHere DEF StoreIncident, StoreRow, At
      <3>3. NextCell(Onward(job))
        BY <1>1, <3>2, OnwardType
      <3>4. QED
        BY <1>2, <3>1, <3>3 DEF NextCell, SessionJobs
    <2>6. CASE Judge
      BY <2>6 DEF Judge
    <2>7. CASE StoreRun
      BY <2>7, StoreRunType
    <2>8. QED
      BY <2>1, <2>2, <2>3, <2>4, <2>5, <2>6, <2>7
  <1>5. QED
    BY <1>1, <1>3, <1>4 DEF TypeInv, Stage0OK, CalibrateOK

(* The types are kept: Stage 0, calibration and the rest *)

\* The cell in front of a Stage 0 sweep.
LEMMA Stage0Here ==
    ASSUME TypeInv, NEW phase \in {"round", "ask", "close"}, Sweeping(phase)
    PROVE  /\ Stage0OK /\ job.left # <<>> /\ job.left[1] = <<Model, Battery>>
           /\ Model \in Models /\ Battery \in Pool /\ Battery \in Batteries
  <1>1. Stage0OK
    BY DEF TypeInv, Sweeping, Idle, SessionOK, SessionJobs, CalibrateOK
  <1>2. job.left # <<>> /\ job.left \in Seq(PoolCells)
    BY <1>1 DEF Stage0OK, Sweeping
  <1>3. job.left[1] \in PoolCells
    BY <1>2
  <1>4. QED
    BY <1>1, <1>2, <1>3 DEF PoolCells, Model, Battery, Batteries

\* A Stage 0 command leaves the types as they are.
LEMMA Stage0Type ==
    ASSUME TypeInv, Stage0
    PROVE  TypeInv'
  <1>1. todo # <<>> /\ todo[1].cmd = "stage0" /\ job = Idle
    BY DEF Stage0, Typed, AtRest
  <1>2. UNCHANGED <<runs, contracts, now>> /\ todo' = Tail(todo)
    BY DEF Stage0, dialect
  <1>3. todo' \in Seq(Commands)
    BY <1>1, <1>2, TypedType
  <1> DEFINE c == todo[1]
             plan == RoundsOf(c)
  <1>4. /\ c.models \in Seq(Models) \ {<<>>} /\ c.batteries \in Seq(Pool) \ {<<>>}
        /\ c.forced \in BOOLEAN /\ c.database \in BOOLEAN
    BY <1>1, TypedType
  <1>5. plan \in Seq(PoolCells) /\ plan # <<>>
    BY <1>4, CellsType DEF RoundsOf, PoolCells
  <1>6. InRounds(plan) \in Seq(PoolCells) /\ InRounds(plan) # <<>>
    BY <1>5, RoundsType
  <1>7. CASE ~Admitted(c)
    BY <1>1, <1>2, <1>3, <1>7 DEF Stage0, TypeInv
  <1>8. CASE Admitted(c)
    <2>1. /\ sweeps' = IF ~c.database THEN sweeps
                       ELSE Append(sweeps, [NewSweep("stage0", plan) EXCEPT !.forced = c.forced])
          /\ job' = [cmd |-> "stage0", phase |-> "round", database |-> c.database,
                     sweep |-> Len(sweeps) + 1, run |-> 0, left |-> InRounds(plan), item |-> 1,
                     heard |-> <<>>, spoilt |-> FALSE, tokens |-> 0, pairs |-> {}]
      BY <1>8 DEF Stage0
    <2>2. sweeps' \in Seq(Sweeps)
      <3>1. NewSweep("stage0", plan) \in Sweeps
        BY <1>5, NewRowTypes, CellSorts DEF TypeInv
      <3>2. [NewSweep("stage0", plan) EXCEPT !.forced = c.forced] \in Sweeps
        BY <1>4, <3>1 DEF Sweeps
      <3>3. QED
        BY <2>1, <3>2, AppendProperties DEF TypeInv
    <2>3. Len(sweeps) + 1 \in Nat
      BY DEF TypeInv
    <2> HIDE DEF plan, c
    <2>4. Stage0OK'
      BY <1>4, <1>6, <2>1, <2>3 DEF Stage0OK
    <2>5. QED
      BY <1>2, <1>3, <2>2, <2>4 DEF TypeInv
  <1>9. QED
    BY <1>7, <1>8

\* So does the start of a round.
LEMMA BeginRoundType ==
    ASSUME TypeInv, BeginRound
    PROVE  TypeInv'
  <1>1. Stage0OK /\ job.left # <<>> /\ job.phase = "round" /\ Model \in Models /\ Battery \in Batteries
    BY Stage0Here DEF BeginRound, Sweeping
  <1>2. UNCHANGED <<sweeps, contracts, now, todo>> /\ runs \in Seq(Runs)
    BY DEF BeginRound, control, dialect, TypeInv
  <1>3. CASE job.database
    <2>1. PICK k \in Nat : k = Len(runs) + 1
      BY <1>2
    <2>2. /\ runs' = Append(runs, NewRun(job.sweep, Model, Battery, "scored"))
          /\ job' = [job EXCEPT !.phase = "ask", !.run = k]
      BY <1>3, <2>1 DEF BeginRound
    <2>3. NewRun(job.sweep, Model, Battery, "scored") \in Runs
      BY <1>1, NewRowTypes DEF TypeInv, Stage0OK, Statuses0
    <2>4. runs' \in Seq(Runs) /\ k \in DOMAIN runs'
      BY <1>2, <2>1, <2>2, <2>3, AppendProperties
    <2>5. Stage0OK'
      BY <1>1, <2>2, <2>4 DEF Stage0OK
    <2>6. QED
      BY <1>2, <2>4, <2>5 DEF TypeInv
  <1>4. CASE ~job.database
    <2>1. job' = [job EXCEPT !.phase = "ask"] /\ UNCHANGED runs
      BY <1>4 DEF BeginRound
    <2>2. Stage0OK'
      BY <1>1, <1>4, <2>1 DEF Stage0OK
    <2>3. QED
      BY <1>2, <2>1, <2>2 DEF TypeInv
  <1>5. QED
    BY <1>3, <1>4

\* A question changes the run of the round, and not its number.
LEMMA AskJob ==
    ASSUME TypeInv, NEW r, Ask(r)
    PROVE  /\ Stage0OK /\ job.phase = "ask" /\ job.left # <<>> /\ job.item \in Nat
           /\ DOMAIN job' = DOMAIN job
           /\ job'.cmd = "stage0" /\ job'.phase \in {"ask", "close"} /\ job'.item \in Nat
           /\ job'.spoilt \in BOOLEAN
           /\ UNCHANGED <<job.database, job.sweep, job.run, job.left, job.pairs>>
  <1>1. Stage0OK /\ job.left # <<>> /\ job.phase = "ask"
    BY Stage0Here DEF Ask, Sweeping
  <1>2. job.item \in Nat /\ job.spoilt \in BOOLEAN
    BY <1>1 DEF Stage0OK
  <1> DEFINE scored == r \in Answers \cup Silences
             tokens == job.tokens + IF r = "hard" THEN 0 ELSE 1
             heard == IF scored THEN WithHeard(r) ELSE job.heard
             spoilt == job.spoilt \/ ~scored
             after == [job EXCEPT !.tokens = tokens, !.spoilt = spoilt, !.heard = heard]
  <1>3. \/ job' = [after EXCEPT !.phase = "close", !.item = 1]
        \/ job' = [after EXCEPT !.item = @ + 1]
    BY DEF Ask
  <1>4. spoilt \in BOOLEAN
    BY <1>2
  <1> HIDE DEF tokens, heard, spoilt
  <1>5. PICK one \in Nat, more \in Nat : one = 1 /\ more = job.item + 1
    BY <1>2
  <1>6. after.item = job.item
    BY <1>1 DEF Stage0OK
  <1>7. \/ job' = [after EXCEPT !.phase = "close", !.item = one]
        \/ job' = [after EXCEPT !.item = more]
    BY <1>3, <1>5, <1>6
  <1>8. QED
    BY <1>1, <1>2, <1>4, <1>7 DEF Stage0OK

\* So does a graded call.
LEMMA AskType ==
    ASSUME TypeInv, NEW r, Ask(r)
    PROVE  TypeInv'
  <1>1. UNCHANGED <<sweeps, contracts, now, todo>> /\ runs \in Seq(Runs)
    BY DEF Ask, control, dialect, TypeInv
  <1>2. runs' \in Seq(Runs) /\ DOMAIN runs' = DOMAIN runs
    <2>1. CASE runs' = runs
      BY <1>1, <2>1
    <2>2. CASE job.database /\ runs' = [runs EXCEPT ![job.run] = WithRow(@, job.item, r)]
      <3>1. job.run \in DOMAIN runs /\ job.item \in Nat
        BY <2>2, AskJob DEF Stage0OK
      <3>2. WithRow(runs[job.run], job.item, r) \in Runs
        <4>1. runs[job.run] \in Runs
          BY <1>1, <3>1
        <4>2. QED
          BY <3>1, <4>1, WithRowType
      <3>3. QED
        BY <1>1, <2>2, <3>1, <3>2
    <2>3. QED
      BY <2>1, <2>2 DEF Ask
  <1>3. Stage0OK'
    BY <1>2, AskJob DEF Stage0OK
  <1>4. QED
    BY <1>1, <1>2, <1>3 DEF TypeInv

\* So does the end of a round.
LEMMA EndRoundType ==
    ASSUME TypeInv, EndRound
    PROVE  TypeInv'
  <1>1. Stage0OK /\ job.left # <<>> /\ job.phase = "close"
    BY Stage0Here DEF EndRound, Sweeping
  <1>2. UNCHANGED <<sweeps, contracts, now, todo>> /\ runs \in Seq(Runs)
    BY DEF EndRound, control, dialect, TypeInv
  <1>3. PICK left \in Seq(PoolCells) :
            left = IF Capped(job.tokens) THEN <<>> ELSE Tail(job.left)
    <2>1. Tail(job.left) \in Seq(PoolCells) /\ <<>> \in Seq(PoolCells)
      BY <1>1, HeadTailProperties DEF Stage0OK
    <2>2. QED
      BY <2>1, Zenon
  <1>4. PICK pairs : pairs = IF left = <<>> THEN PairsOf(job.heard) ELSE {}
    OBVIOUS
  <1>5. PICK phase \in {"separate", "round"} : phase = IF left = <<>> THEN "separate" ELSE "round"
    OBVIOUS
  <1>6. job' = [job EXCEPT !.left = left, !.spoilt = FALSE, !.phase = phase, !.pairs = pairs]
    BY <1>3, <1>4, <1>5 DEF EndRound
  <1>7. runs' \in Seq(Runs) /\ DOMAIN runs' = DOMAIN runs
    <2>1. CASE ~job.database
      BY <1>2, <2>1 DEF EndRound
    <2>2. CASE job.database
      <3>1. job.run \in DOMAIN runs /\ runs[job.run] \in Runs
        <4>1. job.run \in DOMAIN runs
          BY <1>1, <2>2 DEF Stage0OK
        <4>2. QED
          BY <1>2, <4>1
      <3>2. PICK status \in Statuses0 : status = IF job.spoilt THEN "inconclusive" ELSE "scored"
        BY DEF Statuses0
      <3>3. runs' = [runs EXCEPT ![job.run].status = status]
        BY <2>2, <3>2 DEF EndRound
      <3>4. [runs[job.run] EXCEPT !.status = status] \in Runs
        BY <3>1 DEF Runs
      <3>5. QED
        BY <1>2, <3>1, <3>3, <3>4
    <2>3. QED
      BY <2>1, <2>2
  <1>8. Stage0OK'
    BY <1>1, <1>3, <1>5, <1>6 DEF Stage0OK
  <1>9. QED
    BY <1>2, <1>7, <1>8 DEF TypeInv

\* So does storing a separation.
LEMMA SeparateType ==
    ASSUME TypeInv, Separate
    PROVE  TypeInv'
  <1>1. Stage0OK /\ job.phase = "separate"
    BY SMTT(30) DEF TypeInv, Separate, Sweeping, Idle, SessionOK, SessionJobs, CalibrateOK
  <1>2. UNCHANGED <<sweeps, runs, contracts, now, todo>>
    BY DEF Separate, control, dialect
  <1>3. job' = Idle \/ \E pairs : job' = [job EXCEPT !.pairs = pairs]
    BY DEF Separate
  <1>4. job' = Idle \/ Stage0OK'
    BY <1>1, <1>2, <1>3 DEF Stage0OK
  <1>5. QED
    BY <1>2, <1>4 DEF TypeInv

\* A calibration that goes on is a calibration, and it touches nothing of this.
LEMMA CalibrationStepType ==
    ASSUME TypeInv, CalibrationStep
    PROVE  /\ TypeInv' /\ job.cmd = "calibrate"
           /\ UNCHANGED <<tables, control, dialect>>
           /\ job' = Idle \/ CalibrateOK'
  <1>1. CalibrateOK
    <2>1. job.cmd = "calibrate"
      BY DEF CalibrationStep, LoadRecorded, ProbeRaises, AskAnchor, Persist, Calibrating
    <2>2. QED
      BY <2>1 DEF TypeInv, Idle, SessionOK, SessionJobs, Stage0OK
  <1>2. UNCHANGED <<tables, control, dialect>>
    BY DEF CalibrationStep, LoadRecorded, ProbeRaises, AskAnchor, Persist
  <1>3. \A j : {"cmd", "pool"} \subseteq DOMAIN j =>
            /\ {"cmd", "pool"} \subseteq DOMAIN Asking(j)
            /\ Asking(j).cmd = j.cmd /\ Asking(j).pool = j.pool
    BY DEF Asking
  <1>b. ASSUME NEW got, NEW tokens, NEW left,
               job' = Asking([job EXCEPT !.got = got, !.tokens = tokens, !.left = left])
        PROVE  CalibrateOK'
    <2>1. PICK j : j = [job EXCEPT !.got = got, !.tokens = tokens, !.left = left]
      OBVIOUS
    <2>2. {"cmd", "pool"} \subseteq DOMAIN j /\ j.cmd = job.cmd /\ j.pool = job.pool
      BY <1>1, <2>1 DEF CalibrateOK
    <2>3. job' = Asking(j)
      BY <1>b, <2>1
    <2>4. QED
      BY <1>1, <1>3, <2>2, <2>3 DEF CalibrateOK
  <1>4. job' = Idle \/ CalibrateOK'
    <2>1. CASE LoadRecorded
      <3>1. CASE job' \in {Idle, Asking(job)}
        BY <1>1, <1>3, <3>1 DEF CalibrateOK
      <3>2. CASE job' \notin {Idle, Asking(job)}
        <4>1. \E got, tokens, left :
                   job' = Asking([job EXCEPT !.got = got, !.tokens = tokens, !.left = left])
          BY <2>1, <3>2 DEF LoadRecorded
        <4>2. QED
          BY <1>b, <4>1
      <3>3. QED
        BY <3>1, <3>2
    <2>2. ASSUME NEW r \in Stage0Results, AskAnchor(r)
          PROVE  CalibrateOK'
      <3>1. \E got, tokens, left :
                   job' = Asking([job EXCEPT !.got = got, !.tokens = tokens, !.left = left])
        BY <2>2 DEF AskAnchor
      <3>2. QED
        BY <1>b, <3>1
    <2>3. CASE ProbeRaises \/ Persist
      BY <2>3 DEF ProbeRaises, Persist
    <2>4. QED
      BY <2>1, <2>2, <2>3 DEF CalibrationStep
  <1>5. QED
    BY <1>1, <1>2, <1>4 DEF TypeInv, CalibrateOK, tables, control, dialect

\* So does a calibration that starts.
LEMMA CalibrateType ==
    ASSUME TypeInv, Calibrate
    PROVE  /\ TypeInv' /\ job = Idle /\ UNCHANGED <<tables, now, dialect>>
           /\ job' = Idle \/ CalibrateOK'
  <1>1. todo # <<>> /\ todo' = Tail(todo) /\ job = Idle /\ UNCHANGED <<tables, now, dialect>>
    BY DEF Calibrate, Typed, AtRest
  <1>2. todo' \in Seq(Commands)
    BY <1>1, TypedType
  <1>3. job' = Idle \/ CalibrateOK'
    <2>1. CASE job' # Idle
      <3>1. /\ todo[1].cmd = "calibrate" /\ todo[1] \in Commands
            /\ job'.cmd = "calibrate" /\ job'.pool = Range(todo[1].batteries)
            /\ {"cmd", "pool"} \subseteq DOMAIN job'
        BY <1>1, <2>1, TypedType DEF Calibrate, Typed, PoolHash
      <3>2. PICK c \in Commands : c = todo[1]
        BY <3>1
      <3>3. List(c.batteries, DOMAIN Tier)
        BY <3>1, <3>2, ScriptsAssumption
      <3>4. Range(c.batteries) \subseteq DOMAIN Tier
        BY <3>3 DEF List, Range
      <3>5. QED
        BY <3>1, <3>2, <3>4 DEF CalibrateOK
    <2>2. QED
      BY <2>1
  <1>4. QED
    BY <1>1, <1>2, <1>3 DEF TypeInv, tables, dialect

\* So do the clock and a kill.
LEMMA OutsideType ==
    ASSUME TypeInv, Outside
    PROVE  TypeInv'
  BY DEF TypeInv, Outside, Tick, Kill, tables, control, dialect, AtRest, Idle, SessionOK, SessionJobs,
         Stage0OK, CalibrateOK

\* Any step keeps the types.
LEMMA StepType ==
    ASSUME TypeInv, [Next]_vars
    PROVE  TypeInv'
  <1>1. CASE UNCHANGED vars
    BY <1>1 DEF TypeInv, SessionOK, Stage0OK, CalibrateOK, vars, tables, control, dialect
  <1>2. CASE MeasuringStep
    BY <1>2, SetupFailsType, ContractType, GateType, CallType, StoreRunType, StoreIncidentType,
       StoreRowType, JudgeType, BeginRoundType, AskType, EndRoundType, SeparateType DEF MeasuringStep
  <1>3. CASE CalibrationStep
    BY <1>3, CalibrationStepType
  <1>4. CASE Command
    BY <1>4, CommandType, Stage0Type, CalibrateType DEF Command
  <1>5. CASE Outside
    BY <1>5, OutsideType
  <1>6. QED
    BY <1>1, <1>2, <1>3, <1>4, <1>5 DEF Next, Step

\* Before the first command the types hold.
LEMMA InitType == Init => TypeInv
  <1>1. SUFFICES ASSUME Init PROVE TypeInv
    OBVIOUS
  <1>2. /\ now = 0 /\ sweeps = <<>> /\ runs = <<>> /\ contracts = <<>> /\ job = Idle
        /\ \E s \in Scripts : todo = s.commands /\ trouble = s.trouble
    BY <1>1, Zenon DEF Init, EvidenceInit
  <1>3. todo \in Seq(Commands)
    BY <1>2, ScriptsAssumption
  <1>4. QED
    BY <1>2, <1>3 DEF TypeInv

\* The shape of the process, the tables and the commands.
THEOREM TypesKept == Spec => []TypeInv
  BY InitType, StepType, PTL DEF Spec
=============================================================================
