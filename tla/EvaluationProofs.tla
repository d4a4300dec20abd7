--------------------------- MODULE EvaluationProofs ---------------------------
(***************************************************************************)
(* Proofs about Evaluation: what a sweep, a scored run, a marker, a verdict *)
(* and a calibration report rest on.                                       *)
(***************************************************************************)
EXTENDS EvaluationTypes

-----------------------------------------------------------------------------
(* Sweeps                                                                  *)

\* Sweeps are only added, one at a time, by the command that starts one.
LEMMA SweepsGrow ==
    ASSUME TypeInv, [Next]_vars
    PROVE  \/ UNCHANGED sweeps
           \/ StoreRun /\ job.sweep = 0 /\ sweeps' = Append(sweeps, NewSweep("livebench", job.plan))
           \/ /\ Judge /\ Passed /\ ReadBack
              /\ sweeps' = Append(sweeps, [NewSweep(Marker, job.plan) EXCEPT !.of = job.sweep])
           \/ /\ Stage0 /\ Admitted(todo[1]) /\ todo[1].database
              /\ sweeps' = Append(sweeps, [NewSweep("stage0", RoundsOf(todo[1]))
                                              EXCEPT !.forced = todo[1].forced])
  <1>1. CASE UNCHANGED vars
    BY <1>1 DEF vars, tables
  <1>2. CASE SetupFails \/ Contract \/ Gate \/ (\E r \in Replies : Call(r)) \/ StoreIncident \/ StoreRow
             \/ BeginRound \/ (\E r \in Stage0Results : Ask(r)) \/ EndRound \/ Separate
    BY <1>2 DEF SetupFails, Contract, Gate, Call, StoreIncident, StoreRow, BeginRound, Ask, EndRound,
                Separate, tables
  <1>3. CASE StoreRun
    BY <1>3 DEF StoreRun
  <1>4. CASE Judge
    BY <1>4 DEF Judge
  <1>5. CASE CalibrationStep
    BY <1>5, CalibrationStepType DEF tables
  <1>6. CASE Bench \/ Preflight \/ Calibrate
    BY <1>6 DEF Bench, Preflight, Calibrate, tables
  <1>7. CASE Stage0
    BY <1>7 DEF Stage0
  <1>8. CASE Outside
    BY <1>8 DEF Outside, Tick, Kill, tables
  <1>9. QED
    BY <1>1, <1>2, <1>3, <1>4, <1>5, <1>6, <1>7, <1>8 DEF Next, Step, MeasuringStep, Command

\* A marker that is fresh is one of the sweeps.
LEMMA FreshPassIs ==
    ASSUME TypeInv, FreshPass
    PROVE  \E k \in Markers : now - sweeps[k].at <= FreshFor
  <1>1. Markers # {}
    BY DEF FreshPass, MarkerAge
  <1>2. Markers \in SUBSET (1..Len(sweeps)) /\ Len(sweeps) \in Nat
    BY DEF Markers, TypeInv
  <1>3. Max(Markers) \in Markers
    BY <1>1, <1>2, GreatestIn
  <1>4. MarkerAge = now - sweeps[Max(Markers)].at
    BY <1>1 DEF MarkerAge
  <1>5. QED
    BY <1>3, <1>4 DEF FreshPass

\* A Stage 0 sweep keeps the marker it was started on: sweeps are only added.
LEMMA FreshStep ==
    ASSUME TypeInv, SweepAfterFreshPass, [Next]_vars
    PROVE  SweepAfterFreshPass'
  <1>1. sweeps \in Seq(Sweeps) /\ Len(sweeps) \in Nat
    BY DEF TypeInv
  <1>2. CASE UNCHANGED sweeps
    BY <1>2 DEF SweepAfterFreshPass, Markers
  <1>3. ASSUME NEW sweep \in Sweeps, sweeps' = Append(sweeps, sweep),
               sweep.purpose = "stage0" /\ ~sweep.forced =>
                   \E k \in Markers : sweep.at - sweeps[k].at <= FreshFor
        PROVE  SweepAfterFreshPass'
    <2>1. /\ DOMAIN sweeps' = 1..(Len(sweeps) + 1) /\ DOMAIN sweeps = 1..Len(sweeps)
          /\ \A s \in DOMAIN sweeps : sweeps'[s] = sweeps[s]
          /\ sweeps'[Len(sweeps) + 1] = sweep
      BY <1>1, <1>3, AppendProperties
    <2>2. \A k \in Markers : k \in Markers' /\ sweeps'[k] = sweeps[k] /\ k \in 1..Len(sweeps)
      BY <2>1 DEF Markers
    <2>3. ASSUME NEW s \in DOMAIN sweeps', sweeps'[s].purpose = "stage0", ~sweeps'[s].forced
          PROVE  \E k \in Markers' : k < s /\ sweeps'[s].at - sweeps'[k].at <= FreshFor
      <3>1. CASE s \in DOMAIN sweeps
        BY <2>1, <2>2, <2>3, <3>1 DEF SweepAfterFreshPass
      <3>2. CASE s = Len(sweeps) + 1
        <4>1. PICK k \in Markers : sweep.at - sweeps[k].at <= FreshFor
          BY <1>3, <2>1, <2>3, <3>2
        <4>2. k \in Markers' /\ k < s /\ sweeps'[s].at - sweeps'[k].at <= FreshFor
          BY <1>1, <2>1, <2>2, <3>2, <4>1
        <4>3. QED
          BY <4>2
      <3>3. QED
        BY <1>1, <2>1, <3>1, <3>2
    <2>4. QED
      BY <2>3 DEF SweepAfterFreshPass
  <1>4. CASE StoreRun /\ sweeps' = Append(sweeps, NewSweep("livebench", job.plan))
    <2>1. Session /\ job \in SessionJobs
      BY <1>4, CellHere DEF StoreRun, At
    <2>2. NewSweep("livebench", job.plan) \in Sweeps /\ NewSweep("livebench", job.plan).purpose # "stage0"
      BY <2>1, NewRowTypes, CellSorts DEF SessionJobs, TypeInv, NewSweep
    <2>3. QED
      BY <1>3, <1>4, <2>2
  <1>5. CASE Judge /\ sweeps' = Append(sweeps, [NewSweep(Marker, job.plan) EXCEPT !.of = job.sweep])
    <2>1. job.plan \in Seq(LiveCells) /\ job.sweep \in Nat
      BY <1>5, SessionHere DEF Judge, At, SessionOK, SessionJobs
    <2>2. NewSweep(Marker, job.plan) \in Sweeps
      BY <2>1, NewRowTypes, CellSorts DEF TypeInv
    <2>3. PICK sweep : sweep = [NewSweep(Marker, job.plan) EXCEPT !.of = job.sweep]
      OBVIOUS
    <2>4. sweep \in Sweeps /\ sweep.purpose # "stage0"
      BY <2>1, <2>2, <2>3 DEF Sweeps, NewSweep, Marker
    <2>5. QED
      BY <1>3, <1>5, <2>3, <2>4
  <1>6. CASE /\ Stage0 /\ Admitted(todo[1]) /\ todo[1].database
             /\ sweeps' = Append(sweeps, [NewSweep("stage0", RoundsOf(todo[1]))
                                             EXCEPT !.forced = todo[1].forced])
    <2>1. todo # <<>> /\ todo[1].cmd = "stage0"
      BY <1>6 DEF Stage0, Typed
    <2>2. PICK c : c = todo[1]
      OBVIOUS
    <2>3. c.models \in Seq(Models) \ {<<>>} /\ c.batteries \in Seq(Pool) \ {<<>>} /\ c.forced \in BOOLEAN
      BY <2>1, <2>2, TypedType
    <2>4. RoundsOf(c) \in Seq(PoolCells)
      BY <2>3, CellsType DEF RoundsOf, PoolCells
    <2>5. NewSweep("stage0", RoundsOf(c)) \in Sweeps /\ NewSweep("stage0", RoundsOf(c)).at = now
      BY <2>4, NewRowTypes, CellSorts DEF TypeInv, NewSweep
    <2>6. PICK sweep : sweep = [NewSweep("stage0", RoundsOf(c)) EXCEPT !.forced = c.forced]
      OBVIOUS
    <2>7. sweep \in Sweeps /\ sweep.forced = c.forced /\ sweep.at = now
      BY <2>3, <2>5, <2>6 DEF Sweeps
    <2>8. c.forced \/ FreshPass
      BY <1>6, <2>2 DEF Admitted
    <2>9. QED
      BY <1>3, <1>6, <2>2, <2>6, <2>7, <2>8, FreshPassIs
  <1>7. QED
    BY <1>2, <1>4, <1>5, <1>6, SweepsGrow

\* A Stage 0 sweep in the database that nobody forced was started on a marker no older than
\* the preflight stays fresh.
THEOREM StartsOnAFreshPass == Spec => []SweepAfterFreshPass
  <1>1. Init => SweepAfterFreshPass
    BY DEF Init, EvidenceInit, SweepAfterFreshPass
  <1>2. TypeInv /\ SweepAfterFreshPass /\ [Next]_vars => SweepAfterFreshPass'
    BY FreshStep
  <1>3. QED
    BY <1>1, <1>2, TypesKept, PTL DEF Spec

-----------------------------------------------------------------------------
(* The cell a session measures                                             *)

\* What a scored outcome tells: every item, and not on tokens that gave no text.
Told(b, out) ==
    /\ DOMAIN out.scores = Items(b)
    /\ Kind[b] \in {"text", "image", "tools"} => \A i \in Items(b) : out.scores[i] # "empty"
    /\ Kind[b] \in {"parts", "code"} => \E i \in Items(b) : out.scores[i] # "empty"

\* A job with the same cell in front of it and the same rows behind it.
SameCell(j) ==
    /\ j.cmd = job.cmd /\ j.sweep = job.sweep /\ j.run = job.run
    /\ j.plan = job.plan /\ j.left = job.left /\ j.seen = job.seen

\* A job whose cell has no outcome yet, or one that tells what it should.
InCell(j) ==
    /\ SameCell(j) /\ j.cache = job.cache /\ j.phase \in {"call", "store"}
    /\ j.phase = "store" /\ j.out.status = "scored" => Told(Battery, j.out)

\* A runner that scores a cell has heard each of its items.
LEMMA ToldOutcome ==
    ASSUME NEW b \in Live, NEW got \in Seq(Replied), got # <<>>, Finished(b, got),
           Outcome(b, got).status = "scored"
    PROVE  Told(b, Outcome(b, got))
  <1> DEFINE scores == [i \in Items(b) |-> Graded(b, got, i)]
  <1>1. ~Unspoken(b, got)
    BY DEF Outcome, NoOutcome
  <1>2. Outcome(b, got) = [status |-> "scored", scores |-> scores, silent |-> Silent(b, got)]
    BY <1>1 DEF Outcome
  <1>3. Outcome(b, got).scores = scores
    BY <1>2
  <1>4. NItems[b] \in Nat \ {0} /\ DOMAIN got = 1..Len(got) /\ Len(got) \in Nat \ {0}
    BY EvidenceAssumption DEF Batteries
  <1>5. ASSUME Kind[b] \in {"text", "image"}
        PROVE  \A i \in Items(b) : Graded(b, got, i) # "empty"
    BY <1>1, <1>5 DEF Graded, PerItem, Unspoken
  <1>6. ASSUME Kind[b] = "tools"
        PROVE  \A i \in Items(b) : Graded(b, got, i) # "empty"
    <2>1. CASE Said(got) # {}
      <3>1. Max(Said(got)) \in Said(got)
        BY <2>1, SaidIn, GreatestIn
      <3>2. got[Max(Said(got))] \in Answers
        BY <3>1 DEF Said
      <3>3. \A i \in Items(b) : Graded(b, got, i) = got[Max(Said(got))]
        BY <1>6, <2>1 DEF Graded, PerItem
      <3>4. QED
        BY <3>2, <3>3 DEF Answers
    <2>2. CASE Said(got) = {}
      <3>1. ~Generated(got)
        BY <1>1, <1>6, <2>2 DEF Unspoken
      <3>2. \A i \in Items(b) : Graded(b, got, i) = "blank"
        BY <1>6, <2>2, <3>1 DEF Graded, PerItem
      <3>3. QED
        BY <3>2
    <2>3. QED
      BY <2>1, <2>2
  <1>7. ASSUME Kind[b] \in {"parts", "code"}
        PROVE  \E i \in Items(b) : Graded(b, got, i) # "empty"
    <2>1. PICK i \in DOMAIN got : got[i] # "empty"
      BY <1>1, <1>7 DEF Unspoken
    <2>2. Len(got) = NItems[b] /\ PerItem(b)
      BY <1>7 DEF Finished, Calls, PerItem
    <2>3. i \in Items(b)
      BY <1>4, <2>1, <2>2 DEF Items
    <2>a. Graded(b, got, i) = got[i]
      BY <1>7, <2>2 DEF Graded
    <2>4. QED
      BY <2>1, <2>3, <2>a
  <1>8. QED
    BY <1>3, <1>5, <1>6, <1>7 DEF Told

\* An outcome that is not a score, and one of the calls.
LEMMA SettleInCell ==
    ASSUME TypeInv, Session, job.phase # "judge", NEW outcome \in Outcomes,
           outcome.status = "scored" => Told(Battery, outcome)
    PROVE  InCell(Settle(outcome))
  <1>1. job \in SessionJobs
    BY CellHere
  <1>2. QED
    BY <1>1 DEF Settle, SessionJobs, InCell, SameCell

\* The same without scores.
LEMMA SettleAsInCell ==
    ASSUME TypeInv, Session, job.phase # "judge", NEW status \in Statuses0 \ {"scored"}
    PROVE  InCell(SettleAs(status))
  <1>1. [NoOutcome EXCEPT !.status = status] \in Outcomes
        /\ [NoOutcome EXCEPT !.status = status].status = status
    <2>1. <<>> \in Partial(Nat, Replied)
      BY PartialEmpty
    <2>2. QED
      BY <2>1 DEF NoOutcome, Outcomes, Statuses0
  <1>2. QED
    BY <1>1, SettleInCell DEF SettleAs

\* A call that returned leaves the cell, and an outcome it gives tells what it should.
LEMMA ReturnedInCell ==
    ASSUME TypeInv, Session, job.phase = "call", NEW r \in Replied
    PROVE  InCell(Returned(r))
  <1>1. job \in SessionJobs /\ Battery \in Live
    BY CellHere
  <1>2. job.got \in Seq(Replied)
    BY <1>1 DEF SessionJobs
  <1>3. PICK got \in Seq(Replied) : got = Append(job.got, r) /\ got # <<>>
    BY <1>2, AppendProperties
  <1>4. CASE Finished(Battery, got)
    <2>1. Outcome(Battery, got) \in Outcomes
      BY <1>1, <1>3, <1>4, OutcomeType
    <2>2. Outcome(Battery, got).status = "scored" => Told(Battery, Outcome(Battery, got))
      BY <1>1, <1>3, <1>4, ToldOutcome
    <2>3. Returned(r) = Settle(Outcome(Battery, got))
      BY <1>3, <1>4 DEF Returned
    <2>4. QED
      BY <2>1, <2>2, <2>3, SettleInCell
  <1>5. CASE ~Finished(Battery, got)
    <2>1. Returned(r) = [job EXCEPT !.got = got, !.tries = 0]
      BY <1>3, <1>5 DEF Returned
    <2>2. PICK zero \in Nat : zero = 0
      OBVIOUS
    <2>3. QED
      BY <1>1, <1>3, <2>1, <2>2 DEF InCell, SameCell, SessionJobs
  <1>6. QED
    BY <1>4, <1>5

\* A call that raised leaves the cell, and gives no score.
LEMMA RaisedInCell ==
    ASSUME TypeInv, Session, job.phase = "call", NEW r
    PROVE  InCell(Raised(r))
  <1>1. job \in SessionJobs
    BY CellHere
  <1>2. InCell(SettleAs("inconclusive"))
    BY SettleAsInCell DEF Statuses0
  <1>3. \A tries, attempt, got :
            /\ InCell([job EXCEPT !.tries = tries])
            /\ InCell([job EXCEPT !.attempt = attempt, !.tries = tries, !.got = got])
    BY <1>1 DEF InCell, SameCell, SessionJobs
  <1>4. QED
    BY <1>2, <1>3 DEF Raised

\* A reply leaves the cell where it is.
LEMMA RepliedInCell ==
    ASSUME TypeInv, NEW r \in Replies, Call(r)
    PROVE  InCell(job')
  <1>1. Session /\ job.phase = "call" /\ job \in SessionJobs
    BY CellHere DEF Call, At
  <1> DEFINE wire == Wire(Provider(Model))
  <1> HIDE DEF wire
  <1>2. CASE GoesOn(wire, r)
    <2>1. PICK http : job' = [job EXCEPT !.http = http]
      BY <1>2 DEF Call, wire
    <2>2. QED
      BY <1>1, <2>1 DEF InCell, SameCell, SessionJobs
  <1>3. CASE ~GoesOn(wire, r)
    <2>1. job' = [Ended(r, Result(wire, r)) EXCEPT !.http = NewCall]
      BY <1>3 DEF Call, wire
    <2>2. "reject" \in Replied /\ Streams \subseteq Replied
      BY DEF Replied
    <2>3. InCell(Ended(r, Result(wire, r))) /\ CallJob(Ended(r, Result(wire, r)))
      BY <1>1, <2>2, ResultType, ReturnedType, RaisedType, ReturnedInCell, RaisedInCell DEF Ended
    <2>4. QED
      BY <2>1, <2>3 DEF InCell, SameCell, CallJob, SessionJobs
  <1>4. QED
    BY <1>2, <1>3

\* A cell that is not called yet has no outcome, or one that is not a score.
LEMMA CellSteps ==
    ASSUME TypeInv
    PROVE  /\ SetupFails => InCell(job') /\ job'.phase = "store" /\ job'.out.status # "scored"
           /\ Gate => /\ InCell(job')
                      /\ job'.phase = "store" => job'.out.status # "scored"
                      /\ job'.phase = "call" => ~Inapplicable(Model, Battery)
           /\ Contract => SameCell(job') /\ job'.phase = "cell"
  <1>1. ASSUME SetupFails
        PROVE  InCell(job') /\ job'.phase = "store" /\ job'.out.status # "scored"
    <2>1. Session /\ job.phase = "cell" /\ job' = SettleAs("inconclusive")
      BY <1>1 DEF SetupFails, At
    <2>2. QED
      BY <2>1, SettleAsInCell, SettleAsType DEF Statuses0
  <1>2. ASSUME Gate
        PROVE  /\ InCell(job')
               /\ job'.phase = "store" => job'.out.status # "scored"
               /\ job'.phase = "call" => ~Inapplicable(Model, Battery)
    <2>1. Session /\ job.phase = "cell" /\ job \in SessionJobs
      BY <1>2, CellHere DEF Gate, At
    <2>2. CASE Inapplicable(Model, Battery)
      <3>1. job' = SettleAs("not_applicable")
        BY <1>2, <2>2 DEF Gate
      <3>2. QED
        BY <2>1, <3>1, SettleAsInCell, SettleAsType DEF Statuses0
    <2>3. CASE ~Inapplicable(Model, Battery)
      <3>1. job' = [job EXCEPT !.phase = "call"]
        BY <1>2, <2>3 DEF Gate
      <3>2. QED
        BY <2>1, <2>3, <3>1 DEF InCell, SameCell, SessionJobs
    <2>4. QED
      BY <2>2, <2>3
  <1>3. ASSUME Contract
        PROVE  SameCell(job') /\ job'.phase = "cell"
    <2>1. job \in SessionJobs /\ job.phase = "cell"
      BY <1>3, CellHere DEF Contract, At
    <2>2. PICK cache : job' = [job EXCEPT !.cache = cache]
      BY <1>3 DEF Contract, EnsureFacts, FromDatabase, FromProbe
    <2>3. QED
      BY <2>1, <2>2 DEF SameCell, SessionJobs
  <1>4. QED
    BY <1>1, <1>2, <1>3

-----------------------------------------------------------------------------
(* The run table                                                           *)

\* A new run, and a run that changes and stays that of its cell.
Added(run) == run \in Runs /\ run.at = now /\ runs' = Append(runs, run)

Changed(run) ==
    /\ job.run \in DOMAIN runs /\ run \in Runs /\ runs' = [runs EXCEPT ![job.run] = run]
    /\ run.sweep = runs[job.run].sweep /\ run.model = runs[job.run].model
    /\ run.battery = runs[job.run].battery /\ run.at = runs[job.run].at

NewStored == NewRun(IF job.sweep = 0 THEN Len(sweeps) + 1 ELSE job.sweep, Model, Battery, job.out.status)
NextItem == Cardinality(DOMAIN runs[job.run].scores) + 1
Status0 == IF job.spoilt THEN "inconclusive" ELSE "scored"

\* A run with one more row is one that changed.
LEMMA RowChanged ==
    ASSUME TypeInv, job.run \in DOMAIN runs, NEW i \in Nat, NEW r,
           runs' = [runs EXCEPT ![job.run] = WithRow(runs[job.run], i, r)]
    PROVE  Changed(WithRow(runs[job.run], i, r)) /\ runs'[job.run] = WithRow(runs[job.run], i, r)
  <1>1. runs \in Seq(Runs)
    BY DEF TypeInv
  <1>2. PICK run \in Runs : run = runs[job.run]
    BY <1>1
  <1>3. PICK row : row = WithRow(run, i, r)
    OBVIOUS
  <1>4. /\ row \in Runs /\ row.sweep = run.sweep /\ row.model = run.model
        /\ row.battery = run.battery /\ row.at = run.at
    <2>1. run \in Runs /\ i \in Nat
      BY <1>2
    <2>2. /\ WithRow(run, i, r) \in Runs
          /\ WithRow(run, i, r).sweep = run.sweep /\ WithRow(run, i, r).model = run.model
          /\ WithRow(run, i, r).battery = run.battery /\ WithRow(run, i, r).at = run.at
      <3>1. WithRow(run, i, r) \in Runs
        BY <2>1, WithRowType
      <3>2. WithRow(run, i, r).sweep = run.sweep
        BY <2>1, WithRowType, ZenonT(30)
      <3>3. WithRow(run, i, r).model = run.model
        BY <2>1, WithRowType, ZenonT(30)
      <3>4. WithRow(run, i, r).battery = run.battery
        BY <2>1, WithRowType, ZenonT(30)
      <3>5. WithRow(run, i, r).at = run.at
        BY <2>1 DEF WithRow, Runs
      <3>6. QED
        BY <3>1, <3>2, <3>3, <3>4, <3>5
    <2>3. QED
      BY <1>3, <2>2
  <1>5. runs' = [runs EXCEPT ![job.run] = row]
    BY <1>2, <1>3
  <1>6. Changed(row) /\ runs'[job.run] = row
    BY <1>1, <1>2, <1>4, <1>5 DEF Changed
  <1>7. QED
    BY <1>2, <1>3, <1>6

\* The six ways a step treats the run table.
LEMMA RunsStep ==
    ASSUME TypeInv, [Next]_vars
    PROVE  \/ UNCHANGED runs
           \/ StoreRun /\ registered /\ Added(NewStored)
           \/ BeginRound /\ job.database /\ Added(NewRun(job.sweep, Model, Battery, "scored"))
           \/ StoreRow /\ Changed(WithRow(runs[job.run], NextItem, job.out.scores[NextItem]))
           \/ \E r \in Stage0Results :
                  Ask(r) /\ job.database /\ Changed(WithRow(runs[job.run], job.item, r))
           \/ EndRound /\ job.database /\ Changed([runs[job.run] EXCEPT !.status = Status0])
  <1>0. runs \in Seq(Runs) /\ Len(sweeps) \in Nat /\ now \in Nat
    BY DEF TypeInv
  <1>1. CASE UNCHANGED vars
    BY <1>1 DEF vars, tables
  <1>2. CASE SetupFails \/ Contract \/ Gate \/ (\E r \in Replies : Call(r)) \/ StoreIncident \/ Judge
             \/ Separate
    BY <1>2 DEF SetupFails, Contract, Gate, Call, StoreIncident, Judge, Separate, tables
  <1>3. CASE StoreRun
    <2>1. CASE ~registered
      BY <1>3, <2>1 DEF StoreRun
    <2>2. CASE registered
      <3>1. runs' = Append(runs, NewStored)
        BY <1>3, <2>2 DEF StoreRun, NewStored
      <3>2. /\ job.sweep \in Nat /\ job.out.status \in Statuses0
            /\ Model \in Models /\ Battery \in Batteries
        BY <1>3, CellHere DEF StoreRun, At, SessionJobs, Outcomes
      <3>3. NewStored \in Runs
        BY <1>0, <3>2, NewRowTypes DEF NewStored
      <3>4. QED
        BY <1>3, <2>2, <3>1, <3>3 DEF Added, NewStored, NewRun
    <2>3. QED
      BY <2>1, <2>2
  <1>4. CASE StoreRow
    <2>1. job.run \in DOMAIN runs
      BY <1>4, SessionHere DEF SessionOK, StoreRow, At
    <2>2. runs[job.run] \in Runs
      BY <1>0, <2>1
    <2>3. NextItem \in Nat
      <3>1. Cardinality(DOMAIN runs[job.run].scores) \in Nat
        BY <2>2, FS_CardinalityType DEF Runs, Rows
      <3>2. QED
        BY <3>1 DEF NextItem
    <2>4. runs' = [runs EXCEPT ![job.run] = WithRow(runs[job.run], NextItem, job.out.scores[NextItem])]
      BY <1>4 DEF StoreRow, NextItem
    <2>5. QED
      BY <1>4, <2>1, <2>3, <2>4, RowChanged
  <1>5. ASSUME NEW r \in Stage0Results, Ask(r)
        PROVE  UNCHANGED runs \/ (job.database /\ Changed(WithRow(runs[job.run], job.item, r)))
    <2>1. CASE UNCHANGED runs
      BY <2>1
    <2>2. CASE runs' # runs
      <3>1. job.database /\ runs' = [runs EXCEPT ![job.run] = WithRow(runs[job.run], job.item, r)]
        BY <1>5, <2>2 DEF Ask
      <3>2. job.run \in DOMAIN runs /\ job.item \in Nat
        BY <1>5, <3>1, AskJob DEF Stage0OK
      <3>3. runs[job.run] \in Runs
        BY <1>0, <3>2
      <3>4. QED
        BY <3>1, <3>2, RowChanged
    <2>3. QED
      BY <2>1, <2>2
  <1>6. CASE BeginRound
    <2>1. CASE ~job.database
      BY <1>6, <2>1 DEF BeginRound
    <2>2. CASE job.database
      <3>1. /\ Stage0OK /\ Model \in Models /\ Battery \in Batteries
        BY <1>6, Stage0Here DEF BeginRound
      <3>2. NewRun(job.sweep, Model, Battery, "scored") \in Runs
        BY <1>0, <3>1, NewRowTypes DEF Stage0OK, Statuses0
      <3>3. QED
        BY <1>6, <2>2, <3>2 DEF BeginRound, Added, NewRun
    <2>3. QED
      BY <2>1, <2>2
  <1>7. CASE EndRound
    <2>1. CASE ~job.database
      BY <1>7, <2>1 DEF EndRound
    <2>2. CASE job.database
      <3>1. Stage0OK /\ job.phase = "close"
        BY <1>7, Stage0Here DEF EndRound, Sweeping
      <3>2. job.run \in DOMAIN runs
        BY <2>2, <3>1 DEF Stage0OK
      <3>3. runs[job.run] \in Runs
        BY <1>0, <3>2
      <3>4. PICK status \in Statuses0 : status = Status0
        BY DEF Statuses0, Status0
      <3>5. runs' = [runs EXCEPT ![job.run].status = status]
        BY <1>7, <2>2, <3>4 DEF EndRound, Status0
      <3>6. runs' = [runs EXCEPT ![job.run] = [runs[job.run] EXCEPT !.status = status]]
        BY <3>5
      <3>7. Changed([runs[job.run] EXCEPT !.status = status])
        BY <3>2, <3>3, <3>6 DEF Changed, Runs
      <3>8. QED
        BY <1>7, <2>2, <3>4, <3>7
    <2>3. QED
      BY <2>1, <2>2
  <1>8. CASE CalibrationStep
    BY <1>8, CalibrationStepType DEF tables
  <1>9. CASE Bench \/ Preflight \/ Calibrate \/ Stage0
    BY <1>9 DEF Bench, Preflight, Calibrate, Stage0, tables
  <1>10. CASE Outside
    BY <1>10 DEF Outside, Tick, Kill, tables
  <1>11. QED
    BY <1>1, <1>2, <1>3, <1>4, <1>5, <1>6, <1>7, <1>8, <1>9, <1>10 DEF Next, Step, MeasuringStep, Command

-----------------------------------------------------------------------------
(* The run of a round                                                      *)

\* A round of Stage 0 that is stored has a run of its own sweep, of a battery of the pool.
RoundInv ==
    (Sweeping("ask") \/ Sweeping("close")) /\ job.database =>
        runs[job.run].sweep = job.sweep /\ runs[job.run].battery \in Pool

\* The run of a round stays that of its sweep, through the whole round.
LEMMA RoundStep ==
    ASSUME TypeInv, RoundInv, [Next]_vars
    PROVE  RoundInv'
  <1>0. runs \in Seq(Runs)
    BY DEF TypeInv
  <1>1. CASE UNCHANGED <<job, runs>>
    BY <1>1 DEF RoundInv, Sweeping
  <1>2. CASE job' = Idle \/ SessionOK' \/ CalibrateOK'
    BY <1>2 DEF RoundInv, Sweeping, Idle, SessionOK, SessionJobs, CalibrateOK
  <1>3. CASE BeginRound
    <2>1. /\ Stage0OK /\ job.phase = "round" /\ Battery \in Pool
      BY <1>3, Stage0Here DEF BeginRound, Sweeping
    <2>2. CASE ~job.database
      <3>1. job' = [job EXCEPT !.phase = "ask"]
        BY <1>3, <2>2 DEF BeginRound
      <3>2. ~job'.database
        BY <2>1, <2>2, <3>1 DEF Stage0OK
      <3>3. QED
        BY <3>2 DEF RoundInv
    <2>3. CASE job.database
      <3>1. PICK k \in Nat : k = Len(runs) + 1
        BY <1>0
      <3>2. /\ runs' = Append(runs, NewRun(job.sweep, Model, Battery, "scored"))
            /\ job' = [job EXCEPT !.phase = "ask", !.run = k]
        BY <1>3, <2>3, <3>1 DEF BeginRound
      <3>3. job'.run = k /\ job'.sweep = job.sweep
        BY <2>1, <3>2 DEF Stage0OK
      <3>4. NewRun(job.sweep, Model, Battery, "scored") \in Runs
        BY <1>3, <2>1, Stage0Here, NewRowTypes DEF TypeInv, Stage0OK, Statuses0, BeginRound
      <3>5. runs'[k] = NewRun(job.sweep, Model, Battery, "scored")
        BY <1>0, <3>1, <3>2, <3>4, AppendProperties
      <3>6. QED
        BY <2>1, <3>3, <3>5 DEF RoundInv, NewRun
    <2>4. QED
      BY <2>2, <2>3
  <1>4. ASSUME NEW r \in Stage0Results, Ask(r)
        PROVE  RoundInv'
    <2>1. /\ UNCHANGED <<job.database, job.sweep, job.run>> /\ job.phase = "ask" /\ job.cmd = "stage0"
      BY <1>4, AskJob DEF Ask, Sweeping
    <2>2. ASSUME job.database
          PROVE  runs'[job.run].sweep = job.sweep /\ runs'[job.run].battery \in Pool
      <3>1. runs[job.run].sweep = job.sweep /\ runs[job.run].battery \in Pool
        BY <2>1, <2>2 DEF RoundInv, Sweeping
      <3>2. CASE UNCHANGED runs
        BY <3>1, <3>2
      <3>3. CASE runs' # runs
        <4>1. runs' = [runs EXCEPT ![job.run] = WithRow(runs[job.run], job.item, r)]
          BY <1>4, <3>3 DEF Ask
        <4>2. job.run \in DOMAIN runs /\ job.item \in Nat
          BY <1>4, <2>2, AskJob DEF Stage0OK
        <4>3. runs[job.run] \in Runs
          BY <1>0, <4>2
        <4>4. QED
          BY <3>1, <4>1, <4>2, RowChanged DEF Changed
      <3>4. QED
        BY <3>2, <3>3
    <2>3. QED
      BY <2>1, <2>2 DEF RoundInv
  <1>5. CASE EndRound \/ Separate
    <2>1. Stage0OK
      BY <1>5, Stage0Here DEF TypeInv, EndRound, Separate, Sweeping, Idle, SessionOK, SessionJobs, CalibrateOK
    <2>2. job' = Idle \/ job'.phase \in {"separate", "round"}
      <3>1. CASE EndRound
        BY <2>1, <3>1 DEF EndRound, Stage0OK
      <3>2. CASE Separate
        BY <2>1, <3>2 DEF Separate, Sweeping, Stage0OK
      <3>3. QED
        BY <1>5, <3>1, <3>2
    <2>3. QED
      BY <1>2, <2>2 DEF RoundInv, Sweeping
  <1>6. CASE SetupFails \/ Contract \/ Gate \/ (\E r \in Replies : Call(r)) \/ StoreRun
             \/ StoreIncident \/ StoreRow \/ Judge
    BY <1>2, <1>6, SessionStays
  <1>7. CASE CalibrationStep \/ Calibrate
    BY <1>2, <1>7, CalibrationStepType, CalibrateType
  <1>8. CASE Bench \/ Preflight
    <2>1. job' \in {Idle, Process(todo[1])} /\ todo # <<>> /\ todo[1].cmd \in {"bench", "preflight"}
      BY <1>8 DEF Bench, Preflight, Typed, AtRest
    <2>2. QED
      BY <2>1, ProcessType DEF RoundInv, Sweeping, Idle, SessionJobs
  <1>9. CASE Stage0
    <2>1. job' = Idle \/ job'.phase = "round"
      BY <1>9 DEF Stage0, Typed, AtRest
    <2>2. QED
      BY <1>2, <2>1 DEF RoundInv, Sweeping
  <1>10. CASE Outside \/ UNCHANGED vars
    BY <1>1, <1>2, <1>10 DEF Outside, Tick, Kill, tables, vars
  <1>11. QED
    BY <1>3, <1>4, <1>5, <1>6, <1>7, <1>8, <1>9, <1>10 DEF Next, Step, MeasuringStep, Command

-----------------------------------------------------------------------------
(* How a session goes on                                                   *)

\* A session that stored a cell has one cell less, and what it knew.
LEMMA OnwardIs ==
    ASSUME NEW stored \in SessionJobs
    PROVE  \/ Onward(stored) = Idle
           \/ /\ Onward(stored).phase \in {"cell", "judge"}
              /\ Onward(stored).cmd = stored.cmd /\ Onward(stored).sweep = stored.sweep
              /\ Onward(stored).plan = stored.plan /\ Onward(stored).cache = stored.cache
              /\ Onward(stored).left = Tail(stored.left)
              /\ Onward(stored).phase = "judge" => stored.cmd # "bench"
              /\ stored.cmd # "bench" =>
                     Onward(stored).seen
                       = Append(stored.seen, [battery |-> Battery, out |-> stored.out])
  <1> DEFINE seen == IF stored.cmd = "bench" THEN <<>>
                     ELSE Append(stored.seen, [battery |-> Battery, out |-> stored.out])
             next == [stored EXCEPT !.phase = "cell", !.left = Tail(stored.left), !.seen = seen,
                                    !.out = NoOutcome, !.got = <<>>, !.tries = 0, !.attempt = 0]
             judged == [next EXCEPT !.phase = "judge"]
  <1>1. Onward(stored) \in {Idle, next} \/ (Onward(stored) = judged /\ stored.cmd # "bench")
    BY DEF Onward
  <1>2. PICK none, zero, some, rest : none = <<>> /\ zero = 0 /\ some = seen /\ rest = Tail(stored.left)
    OBVIOUS
  <1>3. next = [stored EXCEPT !.phase = "cell", !.left = rest, !.seen = some,
                              !.out = NoOutcome, !.got = none, !.tries = zero, !.attempt = zero]
    BY <1>2
  <1>4. stored.cmd # "bench" => some = Append(stored.seen, [battery |-> Battery, out |-> stored.out])
    BY <1>2
  <1> HIDE DEF next, seen
  <1>5. /\ next.phase = "cell" /\ next.cmd = stored.cmd /\ next.sweep = stored.sweep
        /\ next.plan = stored.plan /\ next.cache = stored.cache /\ next.left = rest
        /\ next.seen = some 
    BY <1>3 DEF SessionJobs
  <1>6. /\ judged.phase = "judge" /\ judged.cmd = stored.cmd /\ judged.sweep = stored.sweep
        /\ judged.plan = stored.plan /\ judged.cache = stored.cache /\ judged.left = rest
        /\ judged.seen = some
    BY <1>3 DEF SessionJobs
  <1> HIDE DEF judged
  <1>7. QED
    BY <1>1, <1>2, <1>4, <1>5, <1>6

\* A cell that is stored has its run, of the sweep of the session or of a new one.
LEMMA StoreRunJob ==
    ASSUME TypeInv, StoreRun, registered
    PROVE  \E stored \in SessionJobs :
               /\ stored.cmd = job.cmd /\ stored.plan = job.plan /\ stored.left = job.left
               /\ stored.seen = job.seen /\ stored.cache = job.cache /\ stored.out = job.out
               /\ stored.run = Len(runs) + 1
               /\ stored.sweep = IF job.sweep = 0 THEN Len(sweeps) + 1 ELSE job.sweep
               /\ CASE job.out.status = "inconclusive" -> job' = stored /\ stored.phase = "incident"
                    [] job.out.status = "scored"       -> job' = stored /\ stored.phase = "rows"
                    [] OTHER                           -> job' = Onward(stored)
  <1>1. job \in SessionJobs
    BY CellHere DEF StoreRun, At
  <1>2. job.sweep \in Nat /\ Len(sweeps) \in Nat /\ Len(runs) \in Nat
    BY <1>1 DEF SessionJobs, TypeInv
  <1>3. PICK s \in Nat, k \in Nat :
            s = (IF job.sweep = 0 THEN Len(sweeps) + 1 ELSE job.sweep) /\ k = Len(runs) + 1
    BY <1>2
  <1> DEFINE stored == [job EXCEPT !.sweep = s, !.run = k]
             phased(phase) == [stored EXCEPT !.phase = phase]
  <1>4. job' = IF job.out.status = "inconclusive" THEN phased("incident")
               ELSE IF job.out.status = "scored" THEN phased("rows")
               ELSE Onward(stored)
    BY <1>3 DEF StoreRun
  <1>5. /\ stored \in SessionJobs
        /\ stored.cmd = job.cmd /\ stored.plan = job.plan /\ stored.left = job.left
        /\ stored.seen = job.seen /\ stored.cache = job.cache /\ stored.out = job.out
        /\ stored.run = k /\ stored.sweep = s
    BY <1>1 DEF SessionJobs
  <1>6. ASSUME NEW phase \in {"incident", "rows"}
        PROVE  /\ phased(phase) \in SessionJobs
               /\ phased(phase).cmd = job.cmd /\ phased(phase).plan = job.plan
               /\ phased(phase).left = job.left /\ phased(phase).seen = job.seen
               /\ phased(phase).cache = job.cache /\ phased(phase).out = job.out
               /\ phased(phase).run = k /\ phased(phase).sweep = s /\ phased(phase).phase = phase
    BY <1>1 DEF SessionJobs
  <1> HIDE DEF stored, phased
  <1>7. CASE job.out.status = "inconclusive"
    <2>1. job' = phased("incident")
      BY <1>4, <1>7
    <2>2. QED
      BY <1>3, <1>6, <1>7, <2>1
  <1>8. CASE job.out.status = "scored"
    <2>1. job' = phased("rows")
      BY <1>4, <1>8
    <2>2. QED
      BY <1>3, <1>6, <1>8, <2>1
  <1>9. CASE job.out.status \notin {"inconclusive", "scored"}
    <2>1. job' = Onward(stored)
      BY <1>4, <1>9
    <2>2. QED
      BY <1>3, <1>5, <1>9, <2>1
  <1>10. QED
    BY <1>7, <1>8, <1>9

-----------------------------------------------------------------------------
(* Abilities                                                               *)

\* Facts of an endpoint that were shown, since a given time or recently enough.
SinceIn(map, e, facts, since) ==
    \A fact \in facts : <<e, fact>> \in DOMAIN map /\ since <= map[<<e, fact>>]
RecentIn(map, time, e, facts) ==
    \A fact \in facts : <<e, fact>> \in DOMAIN map /\ time - map[<<e, fact>>] < ValidFor
ShownSince(e, facts, since) == SinceIn(shown, e, facts, since)
Recent(e, facts) == RecentIn(shown, now, e, facts)

NeededOf(m, b) == Needs[b] \ (IF m \in Thinks THEN {} ELSE {"thinking"})
Proven(m, b) == Probed(m) => Recent(Endpoint[m], {Proof[need] : need \in NeededOf(m, b)})

TimesInv ==
    /\ \A ability \in DOMAIN shown : shown[ability] \in Nat /\ shown[ability] <= now
    /\ \A i \in DOMAIN runs : runs[i].at <= now

\* What a contract says was shown when it was last confirmed, or later; what the cache of
\* a session says is recent; and a cell that is called, or scored, leans on nothing else.
ShownInv ==
    /\ \A i \in DOMAIN contracts :
           /\ contracts[i].facts # None
           /\ ShownSince(contracts[i].endpoint, contracts[i].facts, contracts[i].at)
    /\ Session =>
           \A m \in DOMAIN job.cache : job.cache[m] # None => Recent(Endpoint[m], job.cache[m])
    /\ At("call") \/ (At("store") /\ job.out.status = "scored") => Proven(Model, Battery)

\* Facts from the database are recent: a contract that is valid was confirmed recently.
LEMMA LoadedRecent ==
    ASSUME TypeInv, TimesInv, ShownInv, NEW m, LoadValidFacts(m) # None
    PROVE  Recent(Endpoint[m], LoadValidFacts(m))
  <1>1. contracts \in Seq(Contracts) /\ now \in Nat
    BY DEF TypeInv
  <1>2. PICK i \in DOMAIN contracts :
            Valid(contracts[i], m) /\ LoadValidFacts(m) = contracts[i].facts
    BY <1>1, LoadedType
  <1>3. contracts[i].endpoint = Endpoint[m] /\ now - contracts[i].at < ValidFor
    BY <1>2 DEF Valid
  <1>4. contracts[i].at \in Nat
    <2>1. contracts[i] \in Contracts
      BY <1>1
    <2>2. QED
      BY <2>1 DEF Contracts
  <1>5. ASSUME NEW fact \in LoadValidFacts(m)
        PROVE  <<Endpoint[m], fact>> \in DOMAIN shown /\ now - shown[<<Endpoint[m], fact>>] < ValidFor
    <2>1. /\ <<Endpoint[m], fact>> \in DOMAIN shown
          /\ contracts[i].at <= shown[<<Endpoint[m], fact>>]
      BY <1>2, <1>3, <1>5 DEF ShownInv, ShownSince, SinceIn, Recent, RecentIn
    <2>2. shown[<<Endpoint[m], fact>>] \in Nat
      BY <2>1 DEF TimesInv
    <2>3. QED
      BY <1>1, <1>3, <1>4, <2>1, <2>2, DialectAssumption
  <1>6. QED
    BY <1>5 DEF Recent, RecentIn

\* What has been shown stays shown, and is never older than it was.
ShownGrows ==
    /\ DOMAIN shown \subseteq DOMAIN shown'
    /\ \A ability \in DOMAIN shown : shown[ability] <= shown'[ability]
    /\ \A ability \in DOMAIN shown' : shown'[ability] \in Nat

\* A probe shows what it finds, now.
LEMMA ProbeShows ==
    ASSUME TypeInv, TimesInv, NEW e, NEW facts,
           shown' = Over([ability \in {e} \X facts |-> now], shown)
    PROVE  /\ ShownGrows
           /\ \A fact \in facts : <<e, fact>> \in DOMAIN shown' /\ shown'[<<e, fact>>] = now
           /\ \A ability \in DOMAIN shown' : shown'[ability] <= now
  <1>1. now \in Nat
    BY DEF TypeInv
  <1>2. /\ DOMAIN shown' = ({e} \X facts) \cup DOMAIN shown
        /\ \A ability \in DOMAIN shown' :
               shown'[ability] = IF ability \in {e} \X facts THEN now ELSE shown[ability]
    BY DEF Over
  <1>3. \A fact \in facts : <<e, fact>> \in {e} \X facts
    OBVIOUS
  <1>4. QED
    BY <1>1, <1>2, <1>3 DEF ShownGrows, TimesInv

\* Facts that were shown recently are still, as long as the clock stands.
LEMMA RecentStays ==
    ASSUME TypeInv, TimesInv, ShownGrows, UNCHANGED now, NEW e, NEW facts, Recent(e, facts)
    PROVE  \A fact \in facts :
               <<e, fact>> \in DOMAIN shown' /\ now' - shown'[<<e, fact>>] < ValidFor
  <1>1. now \in Nat
    BY DEF TypeInv
  <1>2. ASSUME NEW fact \in facts
        PROVE  <<e, fact>> \in DOMAIN shown' /\ now' - shown'[<<e, fact>>] < ValidFor
    <2>1. /\ <<e, fact>> \in DOMAIN shown /\ now - shown[<<e, fact>>] < ValidFor
          /\ shown[<<e, fact>>] \in Nat
      BY DEF Recent, RecentIn, TimesInv
    <2>2. /\ <<e, fact>> \in DOMAIN shown' /\ shown'[<<e, fact>>] \in Nat
          /\ shown[<<e, fact>>] <= shown'[<<e, fact>>]
      BY <2>1 DEF ShownGrows
    <2>3. QED
      BY <1>1, <2>1, <2>2, DialectAssumption
  <1>3. QED
    BY <1>2

\* What a session learns about a model, from the database or from a probe.
LEMMA ContractShows ==
    ASSUME TypeInv, TimesInv, ShownInv, Contract
    PROVE  TimesInv' /\ ShownInv' /\ ShownGrows
  <1>1. /\ Session /\ job \in SessionJobs /\ job.phase = "cell" /\ Model \in Models
        /\ contracts \in Seq(Contracts) /\ now \in Nat
    BY CellHere DEF Contract, At, TypeInv
  <1>2. UNCHANGED <<runs, now>>
    BY DEF Contract, tables, control
  <1>3. ~At("call")' /\ ~At("store")'
    BY CellSteps DEF At
  <1>4. job.cache \in Partial(Models, FactSets)
    BY <1>1 DEF SessionJobs
  <1>5. ASSUME NEW facts, job' = [job EXCEPT !.cache = Cache(Model, facts)], ShownGrows,
               facts # None => \A fact \in facts :
                   /\ <<Endpoint[Model], fact>> \in DOMAIN shown'
                   /\ now' - shown'[<<Endpoint[Model], fact>>] < ValidFor
        PROVE  \A m \in DOMAIN job'.cache : job'.cache[m] # None => RecentIn(shown', now', Endpoint[m], job'.cache[m])
    <2>1. job'.cache = Entered(job.cache, Model, facts)
      BY <1>1, <1>5 DEF Cache, SessionJobs
    <2>2. ASSUME NEW m \in DOMAIN job'.cache, job'.cache[m] # None
          PROVE  RecentIn(shown', now', Endpoint[m], job'.cache[m])
      <3>1. CASE m = Model
        <4>1. job'.cache[m] = facts
          BY <2>1, <2>2, <3>1 DEF Entered
        <4>2. QED
          BY <1>5, <2>2, <3>1, <4>1 DEF RecentIn
      <3>2. CASE m # Model
        <4>1. m \in DOMAIN job.cache /\ job'.cache[m] = job.cache[m]
          BY <2>1, <2>2, <3>2 DEF Entered
        <4>2. Recent(Endpoint[m], job.cache[m])
          BY <1>1, <2>2, <4>1 DEF ShownInv
        <4>3. QED
          BY <1>2, <1>5, <4>1, <4>2, RecentStays DEF RecentIn
      <3>3. QED
        BY <3>1, <3>2
    <2>3. QED
      BY <2>2
  <1>6. CASE FromDatabase(Model)
    <2>1. /\ LoadValidFacts(Model) # None /\ UNCHANGED <<contracts, shown>>
          /\ job' = [job EXCEPT !.cache = Cache(Model, LoadValidFacts(Model))]
      BY <1>6 DEF FromDatabase
    <2>2. ShownGrows
      BY <1>2, <2>1 DEF ShownGrows, TimesInv
    <2>3. Recent(Endpoint[Model], LoadValidFacts(Model))
      BY <2>1, LoadedRecent
    <2>4. PICK facts : facts = LoadValidFacts(Model)
      OBVIOUS
    <2>5. \A fact \in facts : /\ <<Endpoint[Model], fact>> \in DOMAIN shown'
                              /\ now' - shown'[<<Endpoint[Model], fact>>] < ValidFor
      BY <1>2, <2>1, <2>3, <2>4 DEF Recent, RecentIn
    <2>6. \A m \in DOMAIN job'.cache : job'.cache[m] # None => RecentIn(shown', now', Endpoint[m], job'.cache[m])
      BY <1>5, <2>1, <2>2, <2>4, <2>5
    <2>7. TimesInv'
      BY <1>2, <2>1 DEF TimesInv
    <2>8. ShownInv'
      BY <1>3, <2>1, <2>6 DEF ShownInv, ShownSince, SinceIn, Recent, RecentIn
    <2>9. QED
      BY <2>2, <2>7, <2>8
  <1>7. ASSUME NEW lost \in Losses, NEW database \in BOOLEAN, FromProbe(Model, lost, database)
        PROVE  TimesInv' /\ ShownInv' /\ ShownGrows
    <2>1. PICK facts : facts = Probe(Endpoint[Model], lost)
      OBVIOUS
    <2>2. /\ job' = [job EXCEPT !.cache = Cache(Model, facts)]
          /\ contracts' = IF database /\ facts # None
                          THEN Upserted(Model, Endpoint[Model], facts) ELSE contracts
          /\ shown' = IF facts = None THEN shown
                      ELSE Over([fact \in {Endpoint[Model]} \X facts |-> now], shown)
      BY <1>7, <2>1 DEF FromProbe
    <2>3. /\ ShownGrows
          /\ facts # None => \A fact \in facts :
                 <<Endpoint[Model], fact>> \in DOMAIN shown' /\ shown'[<<Endpoint[Model], fact>>] = now
          /\ \A ability \in DOMAIN shown' : shown'[ability] <= now
      <3>1. CASE facts = None
        BY <2>2, <3>1 DEF ShownGrows, TimesInv
      <3>2. CASE facts # None
        BY <2>2, <3>2, ProbeShows
      <3>3. QED
        BY <3>1, <3>2
    <2>4. \A m \in DOMAIN job'.cache : job'.cache[m] # None => RecentIn(shown', now', Endpoint[m], job'.cache[m])
      <3>1. facts # None => \A fact \in facts :
                /\ <<Endpoint[Model], fact>> \in DOMAIN shown'
                /\ now' - shown'[<<Endpoint[Model], fact>>] < ValidFor
        BY <1>1, <1>2, <2>3, DialectAssumption
      <3>2. QED
        BY <1>5, <2>2, <2>3, <3>1
    <2>5. TimesInv'
      BY <1>2, <2>3 DEF TimesInv, ShownGrows
    <2>6. ASSUME NEW i \in DOMAIN contracts'
          PROVE  contracts'[i].facts # None
                 /\ SinceIn(shown', contracts'[i].endpoint, contracts'[i].facts, contracts'[i].at)
      <3>1. \/ \E k \in DOMAIN contracts : contracts'[i] = contracts[k]
            \/ facts # None /\ Same(contracts'[i], Endpoint[Model], facts) /\ contracts'[i].at = now
        <4>1. CASE contracts' = contracts
          BY <4>1
        <4>2. CASE facts # None /\ contracts' = Upserted(Model, Endpoint[Model], facts)
          <5>1. facts \in FactSets
            <6>1. Endpoint[Model] \in Endpoints
              BY <1>1 DEF Endpoints
            <6>2. PICK e \in Endpoints : e = Endpoint[Model]
              BY <6>1
            <6>3. Probe(e, lost) \in FactSets
              BY SMT DEF FactSets
            <6>4. QED
              BY <2>1, <6>2, <6>3
          <5>2. QED
            BY <1>1, <4>2, <5>1, UpsertedType
        <4>3. QED
          BY <2>2, <4>1, <4>2
      <3>2. CASE \E k \in DOMAIN contracts : contracts'[i] = contracts[k]
        <4>1. PICK k \in DOMAIN contracts : contracts'[i] = contracts[k]
          BY <3>2
        <4>2. /\ contracts[k].facts # None
              /\ ShownSince(contracts[k].endpoint, contracts[k].facts, contracts[k].at)
          BY DEF ShownInv
        <4>3. contracts[k].at \in Nat
          <5>1. contracts[k] \in Contracts
            BY <1>1
          <5>2. QED
            BY <5>1 DEF Contracts
        <4>4. ASSUME NEW fact \in contracts[k].facts
              PROVE  /\ <<contracts[k].endpoint, fact>> \in DOMAIN shown'
                     /\ contracts[k].at <= shown'[<<contracts[k].endpoint, fact>>]
          <5> DEFINE ability == <<contracts[k].endpoint, fact>>
          <5>1. ability \in DOMAIN shown /\ contracts[k].at <= shown[ability] /\ shown[ability] \in Nat
            BY <4>2 DEF ShownSince, SinceIn, TimesInv
          <5>2. ability \in DOMAIN shown' /\ shown[ability] <= shown'[ability] /\ shown'[ability] \in Nat
            BY <2>3, <5>1 DEF ShownGrows
          <5> HIDE DEF ability
          <5>3. ability \in DOMAIN shown' /\ contracts[k].at <= shown'[ability]
            BY <4>3, <5>1, <5>2
          <5>4. QED
            BY <5>3 DEF ability
        <4>5. QED
          BY <4>1, <4>2, <4>4 DEF SinceIn
      <3>3. CASE facts # None /\ Same(contracts'[i], Endpoint[Model], facts) /\ contracts'[i].at = now
        BY <1>1, <2>3, <3>3 DEF Same, SinceIn
      <3>4. QED
        BY <3>1, <3>2, <3>3
    <2>7. ShownInv'
      BY <1>3, <2>4, <2>6 DEF ShownInv, ShownSince, Recent
    <2>8. QED
      BY <2>3, <2>5, <2>7
  <1>8. QED
    BY <1>6, <1>7 DEF Contract, EnsureFacts

\* A cell that the contract carries leans on what was shown recently.
LEMMA GateProves ==
    ASSUME ShownInv, Gate, ~Inapplicable(Model, Battery)
    PROVE  Proven(Model, Battery)
  <1>1. SUFFICES ASSUME Probed(Model)
                 PROVE  Recent(Endpoint[Model], {Proof[need] : need \in NeededOf(Model, Battery)})
    BY DEF Proven
  <1>2. Session /\ Model \in DOMAIN job.cache /\ Facts(Model) = job.cache[Model]
    BY <1>1 DEF Gate, At, Cached, Facts
  <1>3. ~Unmet(Model, Battery, job.cache[Model])
    BY <1>1, <1>2 DEF Inapplicable
  <1>4. job.cache[Model] # None /\ {Proof[need] : need \in NeededOf(Model, Battery)} \subseteq job.cache[Model]
    BY <1>3 DEF Unmet, NeededOf
  <1>5. Recent(Endpoint[Model], job.cache[Model])
    BY <1>2, <1>4 DEF ShownInv
  <1>6. QED
    BY <1>4, <1>5 DEF Recent, RecentIn

\* A sweep of Stage 0 goes on as one, or ends.
LEMMA Stage0Stays ==
    ASSUME TypeInv, BeginRound \/ (\E r \in Stage0Results : Ask(r)) \/ EndRound \/ Separate
    PROVE  job' = Idle \/ job'.cmd = "stage0"
  <1>1. CASE \E r \in Stage0Results : Ask(r)
    BY <1>1, AskJob
  <1>2. CASE BeginRound \/ EndRound \/ Separate
    <2>1. Stage0OK
      BY <1>2, Stage0Here, SMTT(30) DEF TypeInv, BeginRound, EndRound, Separate, Sweeping, Idle, SessionOK,
                              SessionJobs, CalibrateOK
    <2>2. QED
      BY <1>2, <2>1 DEF BeginRound, EndRound, Separate, Stage0OK
  <1>3. QED
    BY <1>1, <1>2

\* What a process has loaded or probed stays shown for as long as it scores on it.
LEMMA ShownStep ==
    ASSUME TypeInv, TimesInv, ShownInv, [Next]_vars
    PROVE  TimesInv' /\ ShownInv' /\ ShownGrows
  <1>1. CASE Contract
    BY <1>1, ContractShows
  <1>2. CASE ~Contract
    <2>1. UNCHANGED dialect
      BY <1>2, CalibrationStepType
         DEF Next, Step, MeasuringStep, SetupFails, Gate, Call, StoreRun, StoreIncident, StoreRow, Judge,
             BeginRound, Ask, EndRound, Separate, Command, Bench, Preflight, Stage0, Calibrate, Outside, vars
    <2>2. UNCHANGED <<contracts, shown>>
      BY <2>1 DEF dialect
    <2>3. ShownGrows
      BY <2>2 DEF ShownGrows, TimesInv
    <2>4. now \in Nat /\ runs \in Seq(Runs) /\ (now' = now \/ (now' = now + 1 /\ job' = Idle /\ job = Idle))
      BY <1>2, CalibrationStepType
         DEF TypeInv, Next, Step, MeasuringStep, SetupFails, Gate, Call, StoreRun, StoreIncident, StoreRow, Judge,
             BeginRound, Ask, EndRound, Separate, Command, Bench, Preflight, Stage0, Calibrate, Outside,
             Tick, Kill, AtRest, vars, control
    <2>5. TimesInv'
      <3>1. \A ability \in DOMAIN shown' : shown'[ability] \in Nat /\ shown'[ability] <= now'
        BY <2>2, <2>4 DEF TimesInv
      <3>2. ASSUME NEW i \in DOMAIN runs'
            PROVE  runs'[i].at <= now'
        <4>1. runs'[i].at = now \/ (i \in DOMAIN runs /\ runs'[i].at = runs[i].at)
          <5>1. CASE UNCHANGED runs
            BY <5>1
          <5>2. ASSUME NEW run, Added(run)
                PROVE  runs'[i].at = now \/ (i \in DOMAIN runs /\ runs'[i].at = runs[i].at)
            BY <2>4, <5>2, AppendProperties DEF Added
          <5>3. ASSUME NEW run, Changed(run)
                PROVE  runs'[i].at = now \/ (i \in DOMAIN runs /\ runs'[i].at = runs[i].at)
            BY <2>4, <5>3 DEF Changed
          <5>4. QED
            BY <5>1, <5>2, <5>3, RunsStep
        <4>2. i \in DOMAIN runs => runs[i].at \in Nat /\ runs[i].at <= now
          <5>1. i \in DOMAIN runs => runs[i] \in Runs
            BY <2>4
          <5>2. QED
            BY <5>1 DEF TimesInv, Runs
        <4>3. QED
          BY <2>4, <4>1, <4>2
      <3>3. QED
        BY <3>1, <3>2 DEF TimesInv
    <2>6. ShownInv'
      <3>1. ASSUME ~Session'
            PROVE  ShownInv'
        BY <2>2, <3>1 DEF ShownInv, ShownSince, SinceIn, At
      <3>2. ASSUME Session, UNCHANGED now, job'.cache = job.cache,
                   job'.phase = "call" \/ (job'.phase = "store" /\ job'.out.status = "scored")
                       => job'.left = job.left /\ Proven(Model, Battery)
            PROVE  ShownInv'
        <4>1. Session' => \A m \in DOMAIN job'.cache :
                              job'.cache[m] # None => Recent(Endpoint[m], job'.cache[m])
          BY <3>2 DEF ShownInv
        <4>2. \A e, facts : RecentIn(shown', now', e, facts) = Recent(e, facts)
          BY <2>2, <3>2 DEF Recent, RecentIn
        <4>3. job'.left = job.left /\ Proven(Model, Battery) => Proven(Model, Battery)'
          BY <2>2, <3>2 DEF Proven, Recent, RecentIn, Model, Battery
        <4>4. QED
          BY <2>2, <3>2, <4>1, <4>2, <4>3 DEF ShownInv, ShownSince, SinceIn, At, Recent
      <3>3. CASE UNCHANGED job /\ UNCHANGED now
        <4>1. CASE ~Session
          BY <3>1, <3>3, <4>1 DEF Session
        <4>2. CASE Session
          BY <3>2, <3>3, <4>2 DEF ShownInv, At
        <4>3. QED
          BY <4>1, <4>2
      <3>4. CASE job' = Idle \/ CalibrateOK'
        BY <3>1, <3>4 DEF Session, Idle, CalibrateOK
      <3>5. CASE SetupFails \/ Gate \/ (\E r \in Replies : Call(r)) \/ StoreRun \/ StoreIncident
                 \/ StoreRow \/ Judge
        <4>0. Session /\ UNCHANGED now
          BY <3>5, SessionStays
             DEF SetupFails, Gate, Call, StoreRun, StoreIncident, StoreRow, Judge, control
        <4>1. CASE SetupFails
          BY <3>2, <4>0, <4>1, CellSteps DEF InCell
        <4>2. CASE Gate
          BY <3>2, <4>0, <4>2, CellSteps, GateProves DEF InCell, SameCell
        <4>3. CASE \E r \in Replies : Call(r)
          <5>1. InCell(job') /\ At("call")
            BY <4>3, RepliedInCell DEF Call
          <5>2. Proven(Model, Battery)
            BY <5>1 DEF ShownInv
          <5>3. QED
            BY <3>2, <4>0, <5>1, <5>2 DEF InCell, SameCell
        <4>4. CASE StoreRun
          <5>1. CASE ~registered
            BY <3>4, <4>4, <5>1 DEF StoreRun
          <5>2. CASE registered
            <6>1. PICK stored \in SessionJobs :
                      /\ stored.cache = job.cache
                      /\ CASE job.out.status = "inconclusive" -> job' = stored /\ stored.phase = "incident"
                           [] job.out.status = "scored"       -> job' = stored /\ stored.phase = "rows"
                           [] OTHER                           -> job' = Onward(stored)
              BY <4>4, <5>2, StoreRunJob
            <6>2. \/ job' = stored /\ stored.phase \in {"incident", "rows"}
                  \/ job' = Onward(stored)
              BY <6>1
            <6>3. CASE job' = stored /\ stored.phase \in {"incident", "rows"}
              BY <3>2, <4>0, <6>1, <6>3
            <6>4. CASE job' = Onward(stored)
              BY <3>2, <3>4, <4>0, <6>1, <6>4, OnwardIs
            <6>5. QED
              BY <6>2, <6>3, <6>4
          <5>3. QED
            BY <5>1, <5>2
        <4>5. CASE StoreIncident \/ StoreRow
          <5>1. job \in SessionJobs /\ job.phase \in {"incident", "rows"} /\ job' \in {job, Onward(job)}
            BY <4>5, CellHere DEF StoreIncident, StoreRow, At
          <5>2. CASE job' = job
            BY <3>3, <4>0, <5>2
          <5>3. CASE job' = Onward(job)
            BY <3>2, <3>4, <4>0, <5>1, <5>3, OnwardIs
          <5>4. QED
            BY <5>1, <5>2, <5>3
        <4>6. CASE Judge
          BY <3>4, <4>6 DEF Judge
        <4>7. QED
          BY <3>5, <4>1, <4>2, <4>3, <4>4, <4>5, <4>6
      <3>6. CASE BeginRound \/ (\E r \in Stage0Results : Ask(r)) \/ EndRound \/ Separate
        <4>1. job' = Idle \/ job'.cmd = "stage0"
          BY <3>6, Stage0Stays
        <4>2. QED
          BY <3>1, <4>1 DEF Session, Idle
      <3>7. CASE CalibrationStep \/ Calibrate
        BY <3>4, <3>7, CalibrationStepType, CalibrateType
      <3>8. CASE Bench \/ Preflight
        <4>1. job' \in {Idle, Process(todo[1])}
          BY <3>8 DEF Bench, Preflight, Typed, AtRest
        <4>2. CASE job' = Process(todo[1])
          <5>1. job'.cache = <<>> /\ job'.phase = "cell"
            BY <4>2 DEF Process
          <5>2. QED
            BY <2>2, <5>1 DEF ShownInv, ShownSince, SinceIn, At
        <4>3. QED
          BY <3>4, <4>1, <4>2
      <3>9. CASE Stage0
        <4>1. job' = Idle \/ job'.cmd = "stage0"
          BY <3>9 DEF Stage0, Typed, AtRest
        <4>2. QED
          BY <3>1, <4>1 DEF Session, Idle
      <3>10. CASE Outside \/ UNCHANGED vars
        BY <3>3, <3>4, <3>10 DEF Outside, Tick, Kill, AtRest, vars, control
      <3>11. QED
        BY <1>2, <3>5, <3>6, <3>7, <3>8, <3>9, <3>10 DEF Next, Step, MeasuringStep, Command
    <2>7. QED
      BY <2>3, <2>5, <2>6
  <1>3. QED
    BY <1>1, <1>2

\* A run keeps what it was scored on, and a new one was scored on what was shown.
LEMMA ProvenStep ==
    ASSUME TypeInv, RoundInv, TimesInv, ShownInv, ProvenBeforeScored, [Next]_vars
    PROVE  ProvenBeforeScored'
  <1>1. /\ runs \in Seq(Runs) /\ runs' \in Seq(Runs) /\ now \in Nat /\ ShownGrows
    BY StepType, ShownStep DEF TypeInv
  <1> DEFINE needsOf(run) ==
                 Needs[run.battery] \ (IF run.model \in Thinks THEN {} ELSE {"thinking"})
             rests(run, map) ==
                 run.status = "scored" /\ run.battery \in Live /\ Probed(run.model) =>
                     \A need \in needsOf(run) :
                         LET ability == <<Endpoint[run.model], Proof[need]>>
                         IN  ability \in DOMAIN map /\ run.at - map[ability] < ValidFor
  <1>2. ASSUME NEW run \in Runs, rests(run, shown)
        PROVE  rests(run, shown')
    <2>1. run.at \in Nat
      BY DEF Runs
    <2>2. ASSUME NEW ability \in DOMAIN shown, run.at - shown[ability] < ValidFor
          PROVE  ability \in DOMAIN shown' /\ run.at - shown'[ability] < ValidFor
      <3>1. /\ ability \in DOMAIN shown' /\ shown[ability] <= shown'[ability]
            /\ shown[ability] \in Nat /\ shown'[ability] \in Nat
        BY <1>1 DEF ShownGrows, TimesInv
      <3>2. QED
        BY <2>1, <2>2, <3>1, DialectAssumption
    <2>3. QED
      BY <1>2, <2>2
  <1>3. \A i \in DOMAIN runs : rests(runs[i], shown)
    BY DEF ProvenBeforeScored
  <1>4. SUFFICES ASSUME NEW i \in DOMAIN runs'
                 PROVE  rests(runs'[i], shown')
    BY <1>4 DEF ProvenBeforeScored
  <1> HIDE DEF rests
  <1>5. \A k \in DOMAIN runs : runs[k] \in Runs
    BY <1>1
  <1>6. CASE i \in DOMAIN runs /\ runs'[i] = runs[i]
    BY <1>2, <1>3, <1>5, <1>6
  <1>7. ASSUME i \in DOMAIN runs, runs'[i].model = runs[i].model, runs'[i].battery = runs[i].battery,
               runs'[i].status = runs[i].status, runs'[i].at = runs[i].at
        PROVE  rests(runs'[i], shown')
    <2>1. rests(runs[i], shown')
      BY <1>2, <1>3, <1>5, <1>7
    <2>2. QED
      BY <1>7, <2>1 DEF rests
  <1>8. ASSUME runs'[i].battery \in Pool
        PROVE  rests(runs'[i], shown')
    BY <1>8, EvidenceAssumption DEF rests
  <1>9. ASSUME NEW run, Added(run), rests(run, shown)
        PROVE  rests(runs'[i], shown')
    <2>1. runs'[i] = run \/ (i \in DOMAIN runs /\ runs'[i] = runs[i])
      BY <1>1, <1>9, AppendProperties DEF Added
    <2>2. run \in Runs
      BY <1>9 DEF Added
    <2>3. QED
      BY <1>2, <1>6, <1>9, <2>1, <2>2
  <1>10. ASSUME NEW run, Changed(run), i # job.run
         PROVE  rests(runs'[i], shown')
    BY <1>1, <1>6, <1>10 DEF Changed
  <1>11. CASE UNCHANGED runs
    BY <1>6, <1>11
  <1>12. CASE StoreRun /\ registered /\ Added(NewStored)
    <2>1. /\ job.out.status = "scored" => Proven(Model, Battery)
      BY <1>12 DEF StoreRun, ShownInv, At
    <2>2. PICK run : run = NewStored
      OBVIOUS
    <2>3. run.model = Model /\ run.battery = Battery /\ run.status = job.out.status /\ run.at = now
      BY <2>2 DEF NewStored, NewRun
    <2>4. rests(run, shown)
      BY <2>1, <2>3 DEF rests, Proven, Recent, RecentIn, NeededOf
    <2>5. QED
      BY <1>9, <1>12, <2>2, <2>4
  <1>13. CASE BeginRound /\ job.database /\ Added(NewRun(job.sweep, Model, Battery, "scored"))
    <2>1. Battery \in Pool /\ Battery \notin Live
      BY <1>13, Stage0Here, EvidenceAssumption DEF BeginRound
    <2>2. PICK run : run = NewRun(job.sweep, Model, Battery, "scored")
      OBVIOUS
    <2>3. rests(run, shown)
      BY <2>1, <2>2 DEF rests, NewRun
    <2>4. QED
      BY <1>9, <1>13, <2>2, <2>3
  <1>14. ASSUME NEW k \in Nat, NEW r, job.run \in DOMAIN runs,
                runs' = [runs EXCEPT ![job.run] = WithRow(runs[job.run], k, r)]
         PROVE  rests(runs'[i], shown')
    <2>1. CASE i # job.run
      BY <1>1, <1>6, <1>14, <2>1
    <2>2. CASE i = job.run
      <3>1. runs[i] \in Runs /\ runs'[i] = WithRow(runs[i], k, r)
        BY <1>1, <1>14, <2>2
      <3>2. WithRow(runs[i], k, r).status = runs[i].status
        BY <3>1 DEF WithRow, Runs
      <3>3. Changed(WithRow(runs[job.run], k, r))
        BY <1>14, RowChanged
      <3>4. QED
        BY <1>7, <1>14, <2>2, <3>1, <3>2, <3>3 DEF Changed
    <2>3. QED
      BY <2>1, <2>2
  <1>15. CASE StoreRow /\ Changed(WithRow(runs[job.run], NextItem, job.out.scores[NextItem]))
    <2>1. job.run \in DOMAIN runs
      BY <1>15 DEF Changed
    <2>2. NextItem \in Nat
      <3>1. Cardinality(DOMAIN runs[job.run].scores) \in Nat
        BY <1>5, <2>1, FS_CardinalityType DEF Runs, Rows
      <3>2. QED
        BY <3>1 DEF NextItem
    <2>3. QED
      BY <1>14, <1>15, <2>1, <2>2 DEF Changed
  <1>16. ASSUME NEW r \in Stage0Results, Ask(r), Changed(WithRow(runs[job.run], job.item, r))
         PROVE  rests(runs'[i], shown')
    <2>1. job.run \in DOMAIN runs /\ job.item \in Nat
      BY <1>16, AskJob DEF Changed
    <2>2. QED
      BY <1>14, <1>16, <2>1 DEF Changed
  <1>17. CASE EndRound /\ job.database /\ Changed([runs[job.run] EXCEPT !.status = Status0])
    <2>1. CASE i # job.run
      BY <1>10, <1>17, <2>1
    <2>2. CASE i = job.run
      <3>1. runs[job.run].battery \in Pool
        BY <1>17 DEF EndRound, RoundInv
      <3>2. runs'[i].battery = runs[job.run].battery
        BY <1>1, <1>17, <2>2 DEF Changed
      <3>3. QED
        BY <1>8, <3>1, <3>2
    <2>3. QED
      BY <2>1, <2>2
  <1>18. QED
    BY <1>11, <1>12, <1>13, <1>15, <1>16, <1>17, RunsStep

\* A score rests on abilities the endpoint has shown less than ValidFor before.
THEOREM ScoresAreProven == Spec => []ProvenBeforeScored
  <1> DEFINE Inv == RoundInv /\ TimesInv /\ ShownInv /\ ProvenBeforeScored
  <1>1. Init => Inv
    BY DEF Init, EvidenceInit, RoundInv, TimesInv, ShownInv, ProvenBeforeScored, Sweeping, Session, At, Idle
  <1>2. TypeInv /\ Inv /\ [Next]_vars => Inv'
    BY RoundStep, ShownStep, ProvenStep
  <1>3. QED
    BY <1>1, <1>2, TypesKept, PTL DEF Spec

-----------------------------------------------------------------------------
(* Rows                                                                    *)

\* The run of the cell in front, and one that has some of its rows.
RunOfCell(run, j) ==
    /\ run.sweep = j.sweep /\ run.model = j.left[1][1] /\ run.battery = j.left[1][2]
    /\ run.status = j.out.status

RowsOf(run, out, k) ==
    /\ DOMAIN run.scores = 1..k
    /\ \A i \in 1..k : run.scores[i] = Grade(out.scores[i])
    /\ \A i \in run.mute : i \in 1..k /\ out.scores[i] = "empty"

\* A score tells all its items; the run that is being stored is the last one, it is the
\* run of the cell, and it has the first of its rows.
CellInv ==
    /\ At("store") /\ job.out.status = "scored" => Told(Battery, job.out)
    /\ At("incident") => /\ job.out.status = "inconclusive" /\ job.run = Len(runs)
                         /\ RunOfCell(runs[job.run], job)
    /\ At("rows") => /\ job.out.status = "scored" /\ Told(Battery, job.out)
                     /\ job.run = Len(runs) /\ RunOfCell(runs[job.run], job)
                     /\ \E k \in Nat : k < NItems[Battery] /\ RowsOf(runs[job.run], job.out, k)

\* The next row of a run is that of the next item.
LEMMA NextRow ==
    ASSUME TypeInv, CellInv, StoreRow
    PROVE  \E k \in Nat :
               /\ k \in Items(Battery) /\ RunOfCell(runs'[job.run], job) /\ RowsOf(runs'[job.run], job.out, k)
               /\ job' = IF k = NItems[Battery] THEN Onward(job) ELSE job
  <1>1. /\ At("rows") /\ Session /\ job \in SessionJobs /\ Battery \in Batteries /\ runs \in Seq(Runs)
        /\ job.run \in DOMAIN runs
    BY CellHere, SessionHere DEF StoreRow, At, TypeInv, SessionOK
  <1>2. PICK k \in Nat : k < NItems[Battery] /\ RowsOf(runs[job.run], job.out, k)
    BY <1>1 DEF CellInv
  <1>3. Told(Battery, job.out) /\ RunOfCell(runs[job.run], job)
    BY <1>1 DEF CellInv
  <1>4. PICK run \in Runs : run = runs[job.run]
    BY <1>1
  <1>5. NextItem = k + 1
    <2>1. Cardinality(1..k) = k
      BY <1>2, FS_Interval
    <2>2. QED
      BY <1>2, <2>1 DEF NextItem, RowsOf
  <1>6. PICK n \in Nat : n = k + 1
    BY <1>2
  <1>7. NItems[Battery] \in Nat /\ n \in Items(Battery) /\ 1..n = (1..k) \cup {n} /\ n \notin 1..k
    BY <1>1, <1>2, <1>6, EvidenceAssumption DEF Items
  <1>8. /\ runs' = [runs EXCEPT ![job.run] = WithRow(runs[job.run], n, job.out.scores[n])]
        /\ job' = IF n = NItems[Battery] THEN Onward(job) ELSE job
    BY <1>5, <1>6 DEF StoreRow, NextItem
  <1>9. runs'[job.run] = WithRow(run, n, job.out.scores[n])
    BY <1>1, <1>4, <1>8
  <1>10. PICK r : r = job.out.scores[n]
    OBVIOUS
  <1>11. PICK row : row = WithRow(run, n, r)
    OBVIOUS
  <1>12. /\ row.sweep = run.sweep /\ row.model = run.model /\ row.battery = run.battery
         /\ row.status = run.status
         /\ row.scores = Entered(run.scores, n, Grade(r))
         /\ row.mute = IF r = "empty" THEN run.mute \cup {n} ELSE run.mute
    BY <1>11 DEF WithRow, Runs
  <1>13. RunOfCell(row, job)
    BY <1>3, <1>4, <1>12 DEF RunOfCell
  <1>14. RowsOf(row, job.out, n)
    <2>1. DOMAIN row.scores = 1..n
      BY <1>2, <1>4, <1>7, <1>12 DEF RowsOf, Entered
    <2>2. \A i \in 1..n : row.scores[i] = Grade(job.out.scores[i])
      BY <1>2, <1>4, <1>7, <1>10, <1>12 DEF RowsOf, Entered
    <2>3. \A i \in row.mute : i \in 1..n /\ job.out.scores[i] = "empty"
      BY <1>2, <1>4, <1>7, <1>10, <1>12 DEF RowsOf
    <2>4. QED
      BY <2>1, <2>2, <2>3 DEF RowsOf
  <1>15. QED
    BY <1>7, <1>8, <1>9, <1>10, <1>11, <1>13, <1>14

\* The run that is being stored stays the run of its cell, with the first of its rows.
LEMMA CellStep ==
    ASSUME TypeInv, CellInv, [Next]_vars
    PROVE  CellInv'
  <1>0. runs \in Seq(Runs) /\ runs' \in Seq(Runs) /\ Len(runs) \in Nat
    BY StepType DEF TypeInv
  <1>1. ASSUME ~Session' PROVE CellInv'
    BY <1>1 DEF CellInv, At
  <1>2. ASSUME job'.phase \in {"cell", "call", "judge"} PROVE CellInv'
    BY <1>2 DEF CellInv, At
  <1>3. CASE UNCHANGED <<job, runs>>
    BY <1>3 DEF CellInv, At, Session, Told, Battery, Model, RunOfCell, RowsOf
  <1>4. CASE job' = Idle \/ CalibrateOK'
    BY <1>1, <1>4 DEF Session, Idle, CalibrateOK
  <1>5. ASSUME Session, job'.phase = "store", InCell(job') PROVE CellInv'
    BY <1>5 DEF CellInv, At, InCell, SameCell, Told, Battery
  <1>6. CASE SetupFails
    BY <1>5, <1>6, CellSteps DEF SetupFails, At
  <1>7. CASE Gate
    BY <1>2, <1>5, <1>7, CellSteps DEF Gate, At, InCell
  <1>8. CASE Contract
    BY <1>2, <1>8, CellSteps
  <1>9. CASE \E r \in Replies : Call(r)
    BY <1>2, <1>5, <1>9, RepliedInCell DEF Call, At, InCell
  <1>10. CASE StoreRun
    <2>1. CASE ~registered
      BY <1>4, <1>10, <2>1 DEF StoreRun
    <2>2. CASE registered
      <3>1. PICK stored \in SessionJobs :
                /\ stored.left = job.left /\ stored.out = job.out /\ stored.run = Len(runs) + 1
                /\ stored.sweep = IF job.sweep = 0 THEN Len(sweeps) + 1 ELSE job.sweep
                /\ CASE job.out.status = "inconclusive" -> job' = stored /\ stored.phase = "incident"
                     [] job.out.status = "scored"       -> job' = stored /\ stored.phase = "rows"
                     [] OTHER                           -> job' = Onward(stored)
        BY <1>10, <2>2, StoreRunJob
      <3>2. PICK run : run = NewStored
        OBVIOUS
      <3>3. Added(run)
        BY <1>10, <2>2, <3>2, RunsStep DEF BeginRound, StoreRow, Ask, EndRound, Sweeping, StoreRun, At, Session
      <3>4. runs'[Len(runs) + 1] = run /\ Len(runs') = Len(runs) + 1
        BY <1>0, <3>3, AppendProperties DEF Added
      <3>5. /\ run.sweep = stored.sweep /\ run.model = Model /\ run.battery = Battery
            /\ run.status = job.out.status /\ run.scores = <<>> /\ run.mute = {}
        BY <3>1, <3>2 DEF NewStored, NewRun
      <3>6. Battery \in Batteries
        BY <1>10, CellHere DEF StoreRun, At
      <3>7. ASSUME job' = stored
            PROVE  job'.run = Len(runs') /\ RunOfCell(runs'[job'.run], job')
        BY <3>1, <3>4, <3>5, <3>7 DEF RunOfCell, Model, Battery
      <3>8. CASE job.out.status = "inconclusive"
        <4>1. job' = stored /\ stored.phase = "incident"
          BY <3>1, <3>8
        <4>2. QED
          BY <3>1, <3>7, <3>8, <4>1 DEF CellInv, At
      <3>9. CASE job.out.status = "scored"
        <4>1. job' = stored /\ stored.phase = "rows"
          BY <3>1, <3>9
        <4>2. Told(Battery, job.out)
          BY <1>10, <3>9 DEF CellInv, StoreRun, At
        <4>3. RowsOf(runs'[job'.run], job'.out, 0) /\ 0 < NItems[Battery]
          BY <3>1, <3>4, <3>5, <3>6, <4>1, EvidenceAssumption DEF RowsOf
        <4>4. Battery' = Battery
          BY <3>1, <4>1 DEF Battery
        <4>5. QED
          BY <3>1, <3>7, <3>9, <4>1, <4>2, <4>3, <4>4 DEF CellInv, At, Told
      <3>10. CASE job.out.status \notin {"inconclusive", "scored"}
        <4>1. job' = Onward(stored)
          BY <3>1, <3>10
        <4>2. QED
          BY <1>2, <1>4, <4>1, OnwardIs
      <3>11. QED
        BY <3>8, <3>9, <3>10
    <2>3. QED
      BY <2>1, <2>2
  <1>11. CASE StoreIncident
    <2>1. job \in SessionJobs /\ job' = Onward(job)
      BY <1>11, CellHere DEF StoreIncident, At
    <2>2. QED
      BY <1>2, <1>4, <2>1, OnwardIs
  <1>12. CASE StoreRow
    <2>1. job \in SessionJobs /\ Battery \in Batteries /\ At("rows")
      BY <1>12, CellHere DEF StoreRow, At
    <2>2. PICK k \in Nat :
              /\ k \in Items(Battery) /\ RunOfCell(runs'[job.run], job) /\ RowsOf(runs'[job.run], job.out, k)
              /\ job' = IF k = NItems[Battery] THEN Onward(job) ELSE job
      BY <1>12, NextRow
    <2>3. CASE job' = Onward(job)
      BY <1>2, <1>4, <2>1, <2>3, OnwardIs
    <2>4. CASE job' = job /\ k # NItems[Battery]
      <3>1. k < NItems[Battery]
        BY <2>1, <2>2, <2>4, EvidenceAssumption DEF Items
      <3>2. Len(runs') = Len(runs)
        BY <1>0, <1>12 DEF StoreRow
      <3>3. /\ job.out.status = "scored" /\ Told(Battery, job.out) /\ job.run = Len(runs)
        BY <2>1 DEF CellInv
      <3>4. /\ Told(Battery, job.out)' /\ RunOfCell(runs'[job.run], job) /\ RowsOf(runs'[job.run], job.out, k)
            /\ Battery' = Battery
        BY <2>2, <2>4, <3>3 DEF Told, RunOfCell, RowsOf, Model, Battery
      <3>5. QED
        BY <2>1, <2>4, <3>1, <3>2, <3>3, <3>4 DEF CellInv, At, Session
    <2>5. QED
      BY <2>2, <2>3, <2>4
  <1>13. CASE Judge
    BY <1>4, <1>13 DEF Judge
  <1>14. CASE BeginRound \/ (\E r \in Stage0Results : Ask(r)) \/ EndRound \/ Separate
    <2>1. job' = Idle \/ job'.cmd = "stage0"
      BY <1>14, Stage0Stays
    <2>2. QED
      BY <1>1, <2>1 DEF Session, Idle
  <1>15. CASE CalibrationStep \/ Calibrate
    BY <1>4, <1>15, CalibrationStepType, CalibrateType
  <1>16. CASE Bench \/ Preflight
    <2>1. job' \in {Idle, Process(todo[1])}
      BY <1>16 DEF Bench, Preflight, Typed, AtRest
    <2>2. QED
      BY <1>2, <1>4, <2>1 DEF Process
  <1>17. CASE Stage0
    BY <1>1, <1>17 DEF Stage0, Typed, AtRest, Session, Idle
  <1>18. CASE Outside \/ UNCHANGED vars
    BY <1>3, <1>4, <1>18 DEF Outside, Tick, Kill, tables, vars
  <1>19. QED
    BY <1>6, <1>7, <1>8, <1>9, <1>10, <1>11, <1>12, <1>13, <1>14, <1>15, <1>16, <1>17, <1>18
       DEF Next, Step, MeasuringStep, Command

\* A scored run of the engine with the tokens it was scored on.
Honest(run) ==
    run.status = "scored" /\ run.battery \in Live =>
        /\ Kind[run.battery] \in {"text", "image", "tools"} => run.mute = {}
        /\ Kind[run.battery] \in {"parts", "code"} => run.mute # Items(run.battery)

\* A run that has just begun is honest, and a row leaves it so: the cell told it.
LEMMA HonestStep ==
    ASSUME TypeInv, RoundInv, CellInv, NoFakeZeros, [Next]_vars
    PROVE  NoFakeZeros'
  <1>1. runs \in Seq(Runs) /\ runs' \in Seq(Runs)
    BY StepType DEF TypeInv
  <1>2. \A i \in DOMAIN runs : Honest(runs[i])
    BY DEF NoFakeZeros, Honest
  <1>3. SUFFICES ASSUME NEW i \in DOMAIN runs'
                 PROVE  Honest(runs'[i])
    BY <1>3 DEF NoFakeZeros, Honest
  <1>4. CASE UNCHANGED runs
    BY <1>2, <1>4
  <1>5. ASSUME NEW run, Added(run), run.mute = {}, run.battery \in Batteries
        PROVE  Honest(runs'[i])
    <2>1. runs'[i] = run \/ (i \in DOMAIN runs /\ runs'[i] = runs[i])
      BY <1>1, <1>5, AppendProperties DEF Added
    <2>2. Items(run.battery) # {}
      BY <1>5, EvidenceAssumption DEF Items
    <2>3. Honest(run)
      BY <1>5, <2>2 DEF Honest
    <2>4. QED
      BY <1>2, <2>1, <2>3
  <1>6. ASSUME NEW run, Changed(run), Honest(run)
        PROVE  Honest(runs'[i])
    BY <1>1, <1>2, <1>6 DEF Changed
  <1>7. CASE StoreRun /\ registered /\ Added(NewStored)
    <2>1. Battery \in Batteries
      BY <1>7, CellHere DEF StoreRun, At
    <2>2. PICK run : run = NewStored
      OBVIOUS
    <2>3. QED
      BY <1>5, <1>7, <2>1, <2>2 DEF NewStored, NewRun
  <1>8. CASE BeginRound /\ job.database /\ Added(NewRun(job.sweep, Model, Battery, "scored"))
    <2>1. Battery \in Batteries
      BY <1>8, Stage0Here DEF BeginRound
    <2>2. PICK run : run = NewRun(job.sweep, Model, Battery, "scored")
      OBVIOUS
    <2>3. QED
      BY <1>5, <1>8, <2>1, <2>2 DEF NewRun
  <1>9. CASE StoreRow /\ Changed(WithRow(runs[job.run], NextItem, job.out.scores[NextItem]))
    <2>1. PICK run : run = WithRow(runs[job.run], NextItem, job.out.scores[NextItem])
      OBVIOUS
    <2>2. Changed(run) /\ runs'[job.run] = run
      BY <1>1, <1>9, <2>1 DEF Changed
    <2>3. PICK k \in Items(Battery) : RunOfCell(run, job) /\ RowsOf(run, job.out, k)
      BY <1>9, <2>2, NextRow
    <2>4. Told(Battery, job.out) /\ Battery \in Batteries
      BY <1>9, CellHere DEF CellInv, StoreRow, At
    <2>5. run.battery = Battery
      BY <2>3 DEF RunOfCell, Battery
    <2>6. \A n \in run.mute : n \in Items(Battery) /\ job.out.scores[n] = "empty"
      BY <2>3, <2>4, EvidenceAssumption DEF RowsOf, Items
    <2>7. Honest(run)
      BY <2>4, <2>5, <2>6 DEF Honest, Told
    <2>8. QED
      BY <1>6, <2>2, <2>7
  <1>10. ASSUME NEW r, Ask(r), job.database, Changed(WithRow(runs[job.run], job.item, r))
         PROVE  Honest(runs'[i])
    <2>1. runs[job.run].battery \in Pool
      BY <1>10 DEF Ask, RoundInv
    <2>2. PICK run : run = WithRow(runs[job.run], job.item, r)
      OBVIOUS
    <2>3. Honest(run)
      BY <1>10, <2>1, <2>2, EvidenceAssumption DEF Changed, Honest
    <2>4. QED
      BY <1>6, <1>10, <2>2, <2>3
  <1>11. CASE EndRound /\ job.database /\ Changed([runs[job.run] EXCEPT !.status = Status0])
    <2>1. runs[job.run].battery \in Pool
      BY <1>11 DEF EndRound, RoundInv
    <2>2. PICK run : run = [runs[job.run] EXCEPT !.status = Status0]
      OBVIOUS
    <2>3. Honest(run)
      BY <1>11, <2>1, <2>2, EvidenceAssumption DEF Changed, Honest
    <2>4. QED
      BY <1>6, <1>11, <2>2, <2>3
  <1>12. QED
    BY <1>4, <1>7, <1>8, <1>9, <1>10, <1>11, RunsStep

\* No run of a battery that promises otherwise is scored on tokens without text.
THEOREM NoZeroIsFake == Spec => []NoFakeZeros
  <1> DEFINE Inv == RoundInv /\ CellInv /\ NoFakeZeros
  <1>1. Init => Inv
    BY DEF Init, EvidenceInit, RoundInv, CellInv, NoFakeZeros, Sweeping, Session, At, Idle
  <1>2. TypeInv /\ Inv /\ [Next]_vars => Inv'
    BY RoundStep, CellStep, HonestStep
  <1>3. QED
    BY <1>1, <1>2, TypesKept, PTL DEF Spec

-----------------------------------------------------------------------------
(* Markers                                                                 *)

\* A sweep in the table that no marker marks.
Unmarked(s) == s \in 1..Len(sweeps) /\ \A k \in Markers : sweeps[k].of # s

\* Every run has its sweep in the table, a marker marks an earlier sweep, and the process
\* writes to one that is not marked.
MarkInv ==
    /\ \A i \in DOMAIN runs : runs[i].sweep \in 1..Len(sweeps)
    /\ \A k \in Markers : sweeps[k].of <= Len(sweeps)
    /\ Session => (job.sweep # 0 => Unmarked(job.sweep))
    /\ job.cmd = "stage0" => (job.database => Unmarked(job.sweep))

\* The runs that a session stored: the last k, in the order of its cells.
SeenAs(run, j, n) ==
    LET out == j.seen[n].out
    IN  /\ run.sweep = j.sweep /\ <<run.model, run.battery>> = j.plan[n]
        /\ run.battery = j.seen[n].battery /\ run.status = out.status
        /\ run.status = "scored" =>
               /\ DOMAIN run.scores = Items(run.battery) /\ DOMAIN out.scores = Items(run.battery)
               /\ \A i \in Items(run.battery) : run.scores[i] = Grade(out.scores[i])

ListedIn(j, rs, k) ==
    /\ Len(j.plan) = Len(j.seen) + Len(j.left)
    /\ \A i \in DOMAIN j.left : j.left[i] = j.plan[Len(j.seen) + i]
    /\ k <= Len(rs)
    /\ j.sweep = 0 => k = 0
    /\ j.sweep # 0 => \A i \in DOMAIN rs : rs[i].sweep = j.sweep <=> i > Len(rs) - k
    /\ \A n \in DOMAIN j.seen : SeenAs(rs[Len(rs) - k + n], j, n)

Stored(j) == Len(j.seen) + IF j.phase \in {"incident", "rows"} THEN 1 ELSE 0

ListInv ==
    /\ Session /\ job.phase = "judge" => job.cmd = "preflight"
    /\ job.cmd = "preflight" => ListedIn(job, runs, Stored(job))

\* A new sweep marks nothing, unless it is a marker, and leaves the others as they were.
LEMMA NewSweepIs ==
    ASSUME TypeInv, NEW sweep \in Sweeps, sweeps' = Append(sweeps, sweep)
    PROVE  /\ Len(sweeps') = Len(sweeps) + 1 /\ Len(sweeps) \in Nat
           /\ \A k \in Markers : k \in Markers' /\ sweeps'[k] = sweeps[k]
           /\ \A k \in Markers' : \/ k \in Markers /\ sweeps'[k] = sweeps[k]
                                  \/ k = Len(sweeps) + 1 /\ sweeps'[k] = sweep /\ sweep.purpose = Marker
  <1>1. sweeps \in Seq(Sweeps) /\ Len(sweeps) \in Nat
    BY DEF TypeInv
  <1>2. /\ sweeps' \in Seq(Sweeps) /\ Len(sweeps') = Len(sweeps) + 1
        /\ DOMAIN sweeps' = 1..(Len(sweeps) + 1) /\ DOMAIN sweeps = 1..Len(sweeps)
        /\ \A k \in 1..Len(sweeps) : sweeps'[k] = sweeps[k]
        /\ sweeps'[Len(sweeps) + 1] = sweep
    BY <1>1, AppendProperties
  <1>3. QED
    BY <1>1, <1>2 DEF Markers

\* The sweep a Stage 0 command starts is no marker.
LEMMA Stage0SweepIs ==
    ASSUME TypeInv, Stage0
    PROVE  \E sweep \in Sweeps :
               /\ sweep = [NewSweep("stage0", RoundsOf(todo[1])) EXCEPT !.forced = todo[1].forced]
               /\ sweep.purpose # Marker
  <1>1. todo[1].cmd = "stage0" /\ todo # <<>>
    BY DEF Stage0, Typed
  <1>2. PICK sweep : sweep = [NewSweep("stage0", RoundsOf(todo[1])) EXCEPT !.forced = todo[1].forced]
    OBVIOUS
  <1>3. RoundsOf(todo[1]) \in Seq(PoolCells)
    BY <1>1, TypedType, CellsType DEF RoundsOf, PoolCells
  <1>4. NewSweep("stage0", RoundsOf(todo[1])) \in Sweeps
    BY <1>3, NewRowTypes, CellSorts DEF TypeInv
  <1>5. todo[1].forced \in BOOLEAN
    BY <1>1, TypedType
  <1>6. sweep \in Sweeps /\ sweep.purpose # Marker
    BY <1>2, <1>4, <1>5 DEF Sweeps, NewSweep, Marker
  <1>7. QED
    BY <1>2, <1>6

\* While no sweep is added, a process keeps its own.
LEMMA SweepKept ==
    ASSUME TypeInv, [Next]_vars, UNCHANGED sweeps
    PROVE  /\ Session' => job'.sweep = 0 \/ (Session /\ job'.sweep = job.sweep)
           /\ job'.cmd = "stage0" /\ job'.database =>
                  job.cmd = "stage0" /\ job.database /\ job'.sweep = job.sweep
  <1> DEFINE Goal == /\ Session' => job'.sweep = 0 \/ (Session /\ job'.sweep = job.sweep)
                     /\ job'.cmd = "stage0" /\ job'.database =>
                            job.cmd = "stage0" /\ job.database /\ job'.sweep = job.sweep
  <1>1. CASE UNCHANGED job
    BY <1>1 DEF Session
  <1>2. CASE job' = Idle \/ CalibrateOK'
    BY <1>2 DEF Session, Idle, CalibrateOK
  <1>3. ASSUME Session, job'.cmd = job.cmd, job'.sweep = job.sweep
        PROVE  Goal
    BY <1>3 DEF Session
  <1>4. ASSUME NEW stored \in SessionJobs, Session, stored.cmd = job.cmd, stored.sweep = job.sweep,
               job' = stored \/ job' = Onward(stored)
        PROVE  Goal
    <2>1. CASE job' = stored
      BY <1>3, <1>4, <2>1
    <2>2. CASE job' = Onward(stored)
      BY <1>2, <1>3, <1>4, <2>2, OnwardIs
    <2>3. QED
      BY <1>4, <2>1, <2>2
  <1>5. CASE SetupFails \/ Gate \/ Contract
    <2>1. Session /\ SameCell(job')
      BY <1>5, CellSteps DEF SetupFails, Gate, Contract, At, InCell
    <2>2. QED
      BY <1>3, <2>1 DEF SameCell
  <1>6. CASE \E r \in Replies : Call(r)
    <2>1. Session /\ SameCell(job')
      BY <1>6, RepliedInCell DEF Call, At, InCell
    <2>2. QED
      BY <1>3, <2>1 DEF SameCell
  <1>7. CASE StoreRun
    <2>1. CASE ~registered
      BY <1>2, <1>7, <2>1 DEF StoreRun
    <2>2. CASE registered
      <3>1. PICK stored \in SessionJobs :
                /\ stored.cmd = job.cmd
                /\ stored.sweep = IF job.sweep = 0 THEN Len(sweeps) + 1 ELSE job.sweep
                /\ CASE job.out.status = "inconclusive" -> job' = stored /\ stored.phase = "incident"
                     [] job.out.status = "scored"       -> job' = stored /\ stored.phase = "rows"
                     [] OTHER                           -> job' = Onward(stored)
        BY <1>7, <2>2, StoreRunJob
      <3>2. job.sweep # 0
        <4>1. SUFFICES ASSUME job.sweep = 0 PROVE FALSE
          OBVIOUS
        <4>2. PICK sweep : sweep = NewSweep("livebench", job.plan)
          OBVIOUS
        <4>3. sweeps' = Append(sweeps, sweep)
          BY <1>7, <2>2, <4>1, <4>2 DEF StoreRun
        <4>4. sweep \in Sweeps
          <5>1. job.plan \in Seq(LiveCells)
            BY <1>7, CellHere DEF StoreRun, At, SessionJobs
          <5>2. QED
            BY <4>2, <5>1, NewRowTypes, CellSorts DEF TypeInv
        <4>5. QED
          BY <4>3, <4>4, NewSweepIs
      <3>3. stored.sweep = job.sweep /\ (job' = stored \/ job' = Onward(stored))
        BY <3>1, <3>2
      <3>4. Session
        BY <1>7 DEF StoreRun, At
      <3>5. QED
        BY <1>4, <3>1, <3>3, <3>4
    <2>3. QED
      BY <2>1, <2>2
  <1>8. CASE StoreIncident \/ StoreRow
    <2>1. Session /\ job \in SessionJobs /\ (job' = job \/ job' = Onward(job))
      BY <1>8, CellHere DEF StoreIncident, StoreRow, At
    <2>2. QED
      BY <1>4, <2>1
  <1>9. CASE Judge
    BY <1>2, <1>9 DEF Judge
  <1>10. CASE BeginRound \/ (\E r \in Stage0Results : Ask(r)) \/ EndRound \/ Separate
    <2>1. job' = Idle \/ (/\ job.cmd = "stage0" /\ job'.cmd = "stage0"
                          /\ job'.database = job.database /\ job'.sweep = job.sweep)
      <3>1. CASE \E r \in Stage0Results : Ask(r)
        BY <3>1, AskJob DEF Stage0OK
      <3>2. CASE BeginRound \/ EndRound \/ Separate
        <4>1. Stage0OK
          BY <3>2, Stage0Here DEF TypeInv, BeginRound, EndRound, Separate, Sweeping, Idle, SessionOK,
                                  SessionJobs, CalibrateOK
        <4>2. CASE BeginRound
          <5>1. \/ job' = [job EXCEPT !.phase = "ask", !.run = Len(runs) + 1]
                \/ job' = [job EXCEPT !.phase = "ask"]
            BY <4>2 DEF BeginRound
          <5>2. QED
            BY <4>1, <5>1 DEF Stage0OK
        <4>3. CASE EndRound
          <5>1. PICK left, phase, pairs :
                    job' = [job EXCEPT !.left = left, !.spoilt = FALSE, !.phase = phase, !.pairs = pairs]
            BY <4>3 DEF EndRound
          <5>2. QED
            BY <4>1, <5>1 DEF Stage0OK
        <4>4. CASE Separate
          BY <4>1, <4>4 DEF Separate, Stage0OK
        <4>5. QED
          BY <3>2, <4>2, <4>3, <4>4
      <3>3. QED
        BY <1>10, <3>1, <3>2
    <2>2. QED
      BY <1>2, <2>1 DEF Session
  <1>11. CASE CalibrationStep \/ Calibrate
    BY <1>2, <1>11, CalibrationStepType, CalibrateType
  <1>12. CASE Bench \/ Preflight
    <2>1. job' = Idle \/ (job' = Process(todo[1]) /\ todo[1].cmd # "stage0")
      BY <1>12 DEF Bench, Preflight, Typed, AtRest
    <2>2. QED
      BY <1>2, <2>1 DEF Process
  <1>13. CASE Stage0
    <2>1. CASE ~Admitted(todo[1])
      BY <1>1, <1>13, <2>1 DEF Stage0
    <2>2. CASE Admitted(todo[1])
      <3>1. job'.cmd = "stage0" /\ job'.database = todo[1].database
        BY <1>13, <2>2 DEF Stage0
      <3>2. ~todo[1].database
        <4>1. SUFFICES ASSUME todo[1].database PROVE FALSE
          OBVIOUS
        <4>2. PICK sweep \in Sweeps :
                  sweep = [NewSweep("stage0", RoundsOf(todo[1])) EXCEPT !.forced = todo[1].forced]
          BY <1>13, Stage0SweepIs
        <4>3. sweeps' = Append(sweeps, sweep)
          BY <1>13, <2>2, <4>1, <4>2 DEF Stage0
        <4>4. QED
          BY <4>3, NewSweepIs
      <3>3. QED
        BY <3>1, <3>2 DEF Session
    <2>3. QED
      BY <2>1, <2>2
  <1>14. CASE Outside \/ UNCHANGED vars
    BY <1>1, <1>2, <1>14 DEF Outside, Tick, Kill, tables, vars
  <1>15. QED
    BY <1>5, <1>6, <1>7, <1>8, <1>9, <1>10, <1>11, <1>12, <1>13, <1>14
       DEF Next, Step, MeasuringStep, Command

\* Runs and marked sweeps stay what they are to each other.
LEMMA MarkStep ==
    ASSUME TypeInv, RoundInv, CellInv, MarkInv, [Next]_vars
    PROVE  MarkInv'
  <1>0. /\ runs \in Seq(Runs) /\ runs' \in Seq(Runs) /\ sweeps \in Seq(Sweeps) /\ sweeps' \in Seq(Sweeps)
        /\ Len(sweeps) \in Nat /\ Len(runs) \in Nat
    BY StepType DEF TypeInv
  <1>1. ASSUME NEW sweep \in Sweeps, sweeps' = Append(sweeps, sweep), sweep.purpose # Marker
        PROVE  /\ \A k \in Markers' : sweeps'[k].of <= Len(sweeps)
               /\ Len(sweeps') = Len(sweeps) + 1
               /\ \A s : s = Len(sweeps) + 1 => Unmarked(s)'
    <2>1. \A k \in Markers' : k \in Markers /\ sweeps'[k] = sweeps[k]
      BY <1>1, NewSweepIs
    <2>2. \A k \in Markers' : sweeps'[k].of <= Len(sweeps)
      BY <2>1 DEF MarkInv
    <2>3. Len(sweeps') = Len(sweeps) + 1
      BY <1>1, NewSweepIs
    <2>4. \A k \in Markers' : sweeps'[k].of \in Nat
      <3>1. \A k \in Markers' : sweeps'[k] \in Sweeps
        BY <1>0 DEF Markers
      <3>2. QED
        BY <3>1 DEF Sweeps
    <2>5. QED
      BY <1>0, <2>2, <2>3, <2>4 DEF Unmarked
  <1>2. ASSUME NEW sweep \in Sweeps, sweeps' = Append(sweeps, sweep), UNCHANGED runs
        PROVE  \A i \in DOMAIN runs' : runs'[i].sweep \in 1..Len(sweeps')
    <2>1. Len(sweeps') = Len(sweeps) + 1
      BY <1>2, NewSweepIs
    <2>2. QED
      BY <1>0, <1>2, <2>1 DEF MarkInv
  <1>3. CASE StoreRun /\ job.sweep = 0 /\ sweeps' = Append(sweeps, NewSweep("livebench", job.plan))
    <2>1. /\ NewSweep("livebench", job.plan) \in Sweeps
          /\ NewSweep("livebench", job.plan).purpose # Marker
      <3>1. job.plan \in Seq(LiveCells)
        BY <1>3, CellHere DEF StoreRun, At, SessionJobs
      <3>2. QED
        BY <3>1, NewRowTypes, CellSorts DEF TypeInv, NewSweep, Marker
    <2>2. registered
      BY <1>0, <1>3, AppendProperties, <2>1 DEF StoreRun
    <2>3. /\ \A k \in Markers' : sweeps'[k].of <= Len(sweeps)
          /\ Len(sweeps') = Len(sweeps) + 1
          /\ \A s : s = Len(sweeps) + 1 => Unmarked(s)'
      BY <1>1, <1>3, <2>1
    <2>4. PICK run : run = NewStored
      OBVIOUS
    <2>5. runs' = Append(runs, run) /\ run.sweep = Len(sweeps) + 1
      BY <1>3, <2>2, <2>4 DEF StoreRun, NewStored, NewRun
    <2>6. run \in Runs
      BY <1>3, <2>2, <2>4, RunsStep DEF Added, BeginRound, StoreRow, Ask, EndRound, Sweeping, StoreRun, At, Session
    <2>7. \A i \in DOMAIN runs' : runs'[i].sweep \in 1..Len(sweeps')
      <3>1. \A i \in DOMAIN runs' : runs'[i] = run \/ (i \in DOMAIN runs /\ runs'[i] = runs[i])
        BY <1>0, <2>5, <2>6, AppendProperties
      <3>2. QED
        BY <1>0, <2>3, <2>5, <3>1 DEF MarkInv
    <2>8. PICK stored \in SessionJobs :
              /\ stored.cmd = job.cmd /\ stored.sweep = Len(sweeps) + 1
              /\ CASE job.out.status = "inconclusive" -> job' = stored /\ stored.phase = "incident"
                   [] job.out.status = "scored"       -> job' = stored /\ stored.phase = "rows"
                   [] OTHER                           -> job' = Onward(stored)
      BY <1>3, <2>2, StoreRunJob
    <2>9. job' = stored \/ job' = Onward(stored)
      BY <2>8
    <2>10. job' = Idle \/ (job'.sweep = Len(sweeps) + 1 /\ job'.cmd = job.cmd)
      BY <2>8, <2>9, OnwardIs
    <2>11. job'.cmd # "stage0"
      BY <1>3, <2>10 DEF StoreRun, At, Session, Idle
    <2>12. \A s : Session' /\ s = job'.sweep => Unmarked(s)'
      BY <2>3, <2>10 DEF Session, Idle
    <2>13. \A k \in Markers' : sweeps'[k].of <= Len(sweeps')
      <3>1. \A k \in Markers' : sweeps'[k].of \in Nat
        <4>1. \A k \in Markers' : sweeps'[k] \in Sweeps
          BY <1>0 DEF Markers
        <4>2. QED
          BY <4>1 DEF Sweeps
      <3>2. QED
        BY <1>0, <2>3, <3>1
    <2>14. QED
      BY <1>0, <2>3, <2>7, <2>11, <2>12, <2>13 DEF MarkInv, Unmarked
  <1>4. CASE Judge /\ sweeps' = Append(sweeps, [NewSweep(Marker, job.plan) EXCEPT !.of = job.sweep])
    <2>1. job.plan \in Seq(LiveCells) /\ job.sweep \in Nat /\ Session
      BY <1>4, SessionHere DEF Judge, At, SessionOK, SessionJobs
    <2>2. NewSweep(Marker, job.plan) \in Sweeps
      BY <2>1, NewRowTypes, CellSorts DEF TypeInv
    <2>3. PICK sweep : sweep = [NewSweep(Marker, job.plan) EXCEPT !.of = job.sweep]
      OBVIOUS
    <2>4. sweep \in Sweeps /\ sweep.of = job.sweep
      BY <2>1, <2>2, <2>3 DEF Sweeps, NewSweep, Marker
    <2>5. sweep.of <= Len(sweeps)
      BY <1>0, <2>1, <2>4 DEF MarkInv, Unmarked
    <2>6. UNCHANGED runs /\ job' = Idle
      BY <1>4 DEF Judge
    <2>7. \A i \in DOMAIN runs' : runs'[i].sweep \in 1..Len(sweeps')
      BY <1>2, <1>4, <2>3, <2>4, <2>6
    <2>8. \A k \in Markers' : sweeps'[k].of <= Len(sweeps')
      <3>1. /\ \A k \in Markers' : (k \in Markers /\ sweeps'[k] = sweeps[k]) \/ sweeps'[k] = sweep
            /\ Len(sweeps') = Len(sweeps) + 1
        BY <1>4, <2>3, <2>4, NewSweepIs
      <3>2. \A k \in Markers : sweeps[k].of <= Len(sweeps) /\ sweeps[k].of \in Nat
        <4>1. \A k \in Markers : sweeps[k] \in Sweeps
          BY <1>0 DEF Markers
        <4>2. QED
          BY <4>1 DEF MarkInv, Sweeps
      <3>3. QED
        BY <1>0, <2>1, <2>4, <2>5, <3>1, <3>2
    <2>9. QED
      BY <2>6, <2>7, <2>8 DEF MarkInv, Session, Idle
  <1>5. CASE /\ Stage0 /\ Admitted(todo[1]) /\ todo[1].database
             /\ sweeps' = Append(sweeps, [NewSweep("stage0", RoundsOf(todo[1]))
                                             EXCEPT !.forced = todo[1].forced])
    <2>1. todo[1].cmd = "stage0" /\ todo # <<>> /\ UNCHANGED runs
      BY <1>5 DEF Stage0, Typed
    <2>2. PICK sweep : sweep = [NewSweep("stage0", RoundsOf(todo[1])) EXCEPT !.forced = todo[1].forced]
      OBVIOUS
    <2>3. sweep \in Sweeps /\ sweep.purpose # Marker
      BY <1>5, <2>2, Stage0SweepIs
    <2>4. job'.sweep = Len(sweeps) + 1 /\ job'.cmd = "stage0"
      BY <1>5 DEF Stage0
    <2>5. /\ \A k \in Markers' : sweeps'[k].of <= Len(sweeps)
          /\ Len(sweeps') = Len(sweeps) + 1
          /\ \A s : s = Len(sweeps) + 1 => Unmarked(s)'
      BY <1>1, <1>5, <2>2, <2>3
    <2>6. \A i \in DOMAIN runs' : runs'[i].sweep \in 1..Len(sweeps')
      BY <1>2, <1>5, <2>1, <2>2, <2>3
    <2>7. \A k \in Markers' : sweeps'[k].of <= Len(sweeps')
      <3>1. \A k \in Markers' : sweeps'[k].of \in Nat
        <4>1. \A k \in Markers' : sweeps'[k] \in Sweeps
          BY <1>0 DEF Markers
        <4>2. QED
          BY <4>1 DEF Sweeps
      <3>2. QED
        BY <1>0, <2>5, <3>1
    <2>8. QED
      BY <2>4, <2>5, <2>6, <2>7 DEF MarkInv, Session, Unmarked
  <1>6. CASE UNCHANGED sweeps
    <2>1. \A i \in DOMAIN runs' : runs'[i].sweep \in 1..Len(sweeps')
      <3>1. CASE UNCHANGED runs
        BY <1>6, <3>1 DEF MarkInv
      <3>2. ASSUME NEW run, Added(run), run.sweep \in 1..Len(sweeps)
            PROVE  \A i \in DOMAIN runs' : runs'[i].sweep \in 1..Len(sweeps')
        <4>1. \A i \in DOMAIN runs' : runs'[i] = run \/ (i \in DOMAIN runs /\ runs'[i] = runs[i])
          BY <1>0, <3>2, AppendProperties DEF Added
        <4>2. QED
          BY <1>6, <3>2, <4>1 DEF MarkInv
      <3>3. ASSUME NEW run, Changed(run)
            PROVE  \A i \in DOMAIN runs' : runs'[i].sweep \in 1..Len(sweeps')
        <4>1. \A i \in DOMAIN runs' : i \in DOMAIN runs /\ runs'[i].sweep = runs[i].sweep
          BY <1>0, <3>3 DEF Changed
        <4>2. QED
          BY <1>6, <4>1 DEF MarkInv
      <3>4. CASE StoreRun /\ registered /\ Added(NewStored)
        <4>1. job.sweep # 0
          <5>1. ASSUME job.sweep = 0 PROVE FALSE
            <6>1. sweeps' = Append(sweeps, NewSweep("livebench", job.plan))
              BY <3>4, <5>1 DEF StoreRun
            <6>2. PICK sweep : sweep = NewSweep("livebench", job.plan)
              OBVIOUS
            <6>3. sweep \in Sweeps
              <7>1. job.plan \in Seq(LiveCells)
                BY <3>4, CellHere DEF StoreRun, At, SessionJobs
              <7>2. QED
                BY <6>2, <7>1, NewRowTypes, CellSorts DEF TypeInv
            <6>4. Len(sweeps') = Len(sweeps) + 1
              BY <6>1, <6>2, <6>3, NewSweepIs
            <6>5. QED
              BY <1>0, <1>6, <6>4
          <5>2. QED
            BY <5>1
        <4>2. PICK run : run = NewStored
          OBVIOUS
        <4>3. run.sweep = job.sweep
          BY <4>1, <4>2 DEF NewStored, NewRun
        <4>4. Unmarked(job.sweep)
          BY <3>4, <4>1 DEF StoreRun, At, MarkInv
        <4>5. QED
          BY <3>2, <3>4, <4>2, <4>3, <4>4 DEF Unmarked
      <3>5. CASE BeginRound /\ job.database /\ Added(NewRun(job.sweep, Model, Battery, "scored"))
        <4>1. PICK run : run = NewRun(job.sweep, Model, Battery, "scored")
          OBVIOUS
        <4>2. run.sweep = job.sweep /\ Unmarked(job.sweep)
          BY <3>5, <4>1 DEF NewRun, MarkInv, BeginRound, Sweeping
        <4>3. QED
          BY <3>2, <3>5, <4>1, <4>2 DEF Unmarked
      <3>6. QED
        BY <3>1, <3>3, <3>4, <3>5, RunsStep
    <2>2. \A s : Unmarked(s) => Unmarked(s)'
      BY <1>6 DEF Unmarked, Markers
    <2>3. PICK s : s = job'.sweep
      OBVIOUS
    <2>4. Session' => (s # 0 => Unmarked(s)')
      BY <1>6, <2>2, <2>3, SweepKept DEF MarkInv
    <2>5. job'.cmd = "stage0" => (job'.database => Unmarked(s)')
      BY <1>6, <2>2, <2>3, SweepKept DEF MarkInv
    <2>6. QED
      BY <1>6, <2>1, <2>3, <2>4, <2>5 DEF MarkInv, Markers, Unmarked
  <1>7. QED
    BY <1>3, <1>4, <1>5, <1>6, SweepsGrow

\* The list a session keeps, when the run of the cell in front is added: it is the last.
LEMMA ListedAfterRun ==
    ASSUME TypeInv, MarkInv, job \in SessionJobs, ListedIn(job, runs, Len(job.seen)),
           NEW run \in Runs, runs' = Append(runs, run),
           NEW stored, stored.plan = job.plan, stored.left = job.left, stored.seen = job.seen,
           stored.sweep = IF job.sweep = 0 THEN Len(sweeps) + 1 ELSE job.sweep,
           run.sweep = stored.sweep
    PROVE  ListedIn(stored, runs', Len(stored.seen) + 1)
  <1>1. PICK rs : rs = runs'
    OBVIOUS
  <1>2. PICK k \in Nat : k = Len(job.seen) /\ DOMAIN job.seen = 1..k
    BY DEF SessionJobs
  <1>3. PICK n \in Nat : n = Len(runs) /\ DOMAIN runs = 1..n /\ k <= n
    BY <1>2 DEF TypeInv, ListedIn
  <1>4. /\ Len(rs) = n + 1 /\ DOMAIN rs = 1..(n + 1) /\ rs[n + 1] = run
        /\ \A i \in 1..n : rs[i] = runs[i]
    BY <1>1, <1>3, AppendProperties DEF TypeInv
  <1>5. Len(sweeps) \in Nat /\ job.sweep \in Nat
    BY DEF TypeInv, SessionJobs
  <1>6. stored.sweep # 0
    BY <1>5
  <1>7. ASSUME NEW i \in 1..(n + 1)
        PROVE  rs[i].sweep = stored.sweep <=> i > n + 1 - (k + 1)
    <2>1. CASE i = n + 1
      BY <1>2, <1>3, <1>4, <2>1
    <2>2. CASE i \in 1..n /\ job.sweep = 0
      <3>1. k = 0 /\ runs[i].sweep \in 1..Len(sweeps)
        BY <1>2, <1>3, <2>2 DEF ListedIn, MarkInv
      <3>2. QED
        BY <1>3, <1>4, <1>5, <2>2, <3>1
    <2>3. CASE i \in 1..n /\ job.sweep # 0
      <3>1. runs[i].sweep = job.sweep <=> i > n - k
        BY <1>2, <1>3, <2>3 DEF ListedIn
      <3>2. QED
        BY <1>2, <1>3, <1>4, <2>3, <3>1
    <2>4. QED
      BY <1>3, <2>1, <2>2, <2>3
  <1>8. ASSUME NEW x \in DOMAIN job.seen
        PROVE  SeenAs(rs[n + 1 - (k + 1) + x], stored, x)
    <2>1. job.sweep # 0
      BY <1>2, <1>8 DEF ListedIn
    <2>2. n + 1 - (k + 1) + x = n - k + x /\ n - k + x \in 1..n
      BY <1>2, <1>3, <1>8
    <2>3. SeenAs(runs[n - k + x], job, x)
      BY <1>2, <1>3, <1>8 DEF ListedIn
    <2>4. rs[n - k + x] = runs[n - k + x]
      BY <1>4, <2>2
    <2>5. QED
      BY <2>1, <2>2, <2>3, <2>4 DEF SeenAs
  <1>9. k + 1 <= Len(rs)
    BY <1>2, <1>3, <1>4
  <1>10. ListedIn(stored, rs, k + 1)
    <2>1. /\ Len(stored.plan) = Len(stored.seen) + Len(stored.left)
          /\ \A i \in DOMAIN stored.left : stored.left[i] = stored.plan[Len(stored.seen) + i]
      BY DEF ListedIn
    <2>2. \A i \in DOMAIN rs : rs[i].sweep = stored.sweep <=> i > Len(rs) - (k + 1)
      BY <1>4, <1>7
    <2>3. \A x \in DOMAIN stored.seen : SeenAs(rs[Len(rs) - (k + 1) + x], stored, x)
      BY <1>4, <1>8
    <2>4. QED
      BY <1>6, <1>9, <2>1, <2>2, <2>3 DEF ListedIn
  <1>11. QED
    BY <1>1, <1>2, <1>10

\* The list stands when a row is added to the last run.
LEMMA ListedAfterRow ==
    ASSUME TypeInv, job \in SessionJobs, ListedIn(job, runs, Len(job.seen) + 1),
           NEW run, run.sweep = runs[Len(runs)].sweep, runs' = [runs EXCEPT ![Len(runs)] = run]
    PROVE  ListedIn(job, runs', Len(job.seen) + 1)
  <1>1. PICK rs : rs = runs'
    OBVIOUS
  <1>2. PICK k \in Nat : k = Len(job.seen) /\ DOMAIN job.seen = 1..k
    BY DEF SessionJobs
  <1>3. PICK n \in Nat : n = Len(runs) /\ DOMAIN runs = 1..n /\ k + 1 <= n
    BY <1>2 DEF TypeInv, ListedIn
  <1>4. /\ DOMAIN rs = 1..n /\ Len(rs) = n
        /\ \A i \in 1..n : rs[i].sweep = runs[i].sweep /\ (i < n => rs[i] = runs[i])
    <2>1. runs \in Seq(Runs) /\ rs = [runs EXCEPT ![n] = run] /\ run.sweep = runs[n].sweep
      BY <1>1, <1>3 DEF TypeInv
    <2>2. DOMAIN rs = 1..n /\ \A i \in 1..n : rs[i] = IF i = n THEN run ELSE runs[i]
      BY <1>3, <2>1
    <2>3. Len(rs) = Len(runs)
      BY <2>1
    <2>4. QED
      BY <1>3, <2>1, <2>2, <2>3
  <1>5. ASSUME NEW x \in DOMAIN job.seen
        PROVE  SeenAs(rs[n - (k + 1) + x], job, x)
    <2>1. SeenAs(runs[n - (k + 1) + x], job, x)
      BY <1>2, <1>3, <1>5 DEF ListedIn
    <2>2. n - (k + 1) + x \in 1..n /\ n - (k + 1) + x < n
      BY <1>2, <1>3, <1>5
    <2>3. QED
      BY <1>4, <2>1, <2>2
  <1>6. job.sweep # 0 => \A i \in DOMAIN rs : rs[i].sweep = job.sweep <=> i > n - (k + 1)
    BY <1>2, <1>3, <1>4 DEF ListedIn
  <1>7. job.sweep = 0 => k + 1 = 0
    BY <1>2 DEF ListedIn
  <1>8. ListedIn(job, rs, k + 1)
    BY <1>2, <1>3, <1>4, <1>5, <1>6, <1>7 DEF ListedIn
  <1>9. QED
    BY <1>1, <1>2, <1>8

\* What the run of the cell in front must be to be seen as that cell's.
WholeRun(run, j) ==
    /\ RunOfCell(run, j)
    /\ j.out.status = "scored" =>
           /\ DOMAIN run.scores = Items(run.battery) /\ DOMAIN j.out.scores = Items(run.battery)
           /\ \A i \in Items(run.battery) : run.scores[i] = Grade(j.out.scores[i])

\* The session goes on to the next cell: its last run is seen.
LEMMA SeenNext ==
    ASSUME NEW j \in SessionJobs, j.cmd = "preflight", j.left # <<>>, NEW rs \in Seq(Runs),
           ListedIn(j, rs, Len(j.seen) + 1), WholeRun(rs[Len(rs)], j), Battery = j.left[1][2]
    PROVE  ListedIn(Onward(j), rs, Stored(Onward(j))) /\ Onward(j).cmd = "preflight"
  <1>1. PICK next : next = Onward(j)
    OBVIOUS
  <1>2. PICK entry : entry = [battery |-> Battery, out |-> j.out]
    OBVIOUS
  <1>3. /\ j.seen \in Seq(Seen) /\ j.left \in Seq(LiveCells) /\ j.plan \in Seq(LiveCells)
        /\ j.out \in Outcomes
    BY DEF SessionJobs
  <1>4. j.left[1] \in LiveCells
    BY <1>3
  <1>5. entry \in Seen
    BY <1>2, <1>3, <1>4 DEF Seen, LiveCells
  <1>6. next # Idle
    <2>1. Onward(j).phase \in {"cell", "judge"} \/ Onward(j) # Idle
      BY DEF Onward
    <2>2. QED
      BY <1>1 DEF Onward, Idle
  <1>7. /\ next.phase \in {"cell", "judge"} /\ next.cmd = "preflight" /\ next.sweep = j.sweep
        /\ next.plan = j.plan /\ next.left = Tail(j.left) /\ next.seen = Append(j.seen, entry)
    BY <1>1, <1>2, <1>6, OnwardIs
  <1>8. PICK k \in Nat : k = Len(j.seen) /\ DOMAIN j.seen = 1..k
    BY <1>3
  <1>9. PICK n \in Nat : n = Len(rs) /\ DOMAIN rs = 1..n /\ k + 1 <= n
    BY <1>8 DEF ListedIn
  <1>10. /\ Len(next.seen) = k + 1 /\ DOMAIN next.seen = 1..(k + 1)
         /\ next.seen[k + 1] = entry /\ \A x \in 1..k : next.seen[x] = j.seen[x]
    BY <1>3, <1>5, <1>7, <1>8, AppendProperties
  <1>11. PICK l \in Nat : l + 1 = Len(j.left) /\ Len(next.left) = l
                          /\ \A i \in 1..l : next.left[i] = j.left[i + 1]
    <2>1. Len(j.left) \in Nat \ {0}
      BY <1>3
    <2>2. PICK l \in Nat : l + 1 = Len(j.left)
      BY <2>1
    <2>3. Len(next.left) = l /\ \A i \in 1..l : next.left[i] = j.left[i + 1]
      BY <1>3, <1>7, <2>2, HeadTailProperties
    <2>4. QED
      BY <2>2, <2>3
  <1>12. DOMAIN next.left = 1..l /\ DOMAIN j.left = 1..(l + 1)
    BY <1>3, <1>7, <1>11, HeadTailProperties
  <1>13. Len(next.plan) = k + 1 + l
    <2>1. Len(j.plan) = Len(j.seen) + Len(j.left)
      BY DEF ListedIn
    <2>2. k + (l + 1) = k + 1 + l
      OBVIOUS
    <2>3. QED
      BY <1>7, <1>8, <1>11, <2>1, <2>2
  <1>14. \A i \in 1..l : next.left[i] = next.plan[k + 1 + i]
    <2>1. SUFFICES ASSUME NEW i \in 1..l PROVE next.left[i] = next.plan[k + 1 + i]
      OBVIOUS
    <2>2. i + 1 \in 1..(l + 1) /\ k + (i + 1) = k + 1 + i
      OBVIOUS
    <2>3. j.left[i + 1] = j.plan[k + (i + 1)]
      BY <1>8, <1>12, <2>2 DEF ListedIn
    <2>4. QED
      BY <1>7, <1>11, <2>2, <2>3
  <1>15. ASSUME NEW x \in 1..(k + 1)
         PROVE  SeenAs(rs[n - (k + 1) + x], next, x)
    <2>1. CASE x \in 1..k
      <3>1. SeenAs(rs[n - (k + 1) + x], j, x)
        BY <1>8, <1>9, <2>1 DEF ListedIn
      <3>2. QED
        BY <1>7, <1>10, <2>1, <3>1 DEF SeenAs
    <2>2. CASE x = k + 1
      <3>1. n - (k + 1) + x = n
        <4>1. \A a, b \in Nat : a - b + b = a
          OBVIOUS
        <4>2. k + 1 \in Nat
          OBVIOUS
        <4>3. QED
          BY <2>2, <4>1, <4>2
      <3>2. PICK run : run = rs[n] /\ WholeRun(run, j)
        BY <1>9
      <3>3. j.left[1] = j.plan[k + 1]
        BY <1>8, <1>12 DEF ListedIn
      <3>4. next.seen[x].out = j.out /\ next.seen[x].battery = Battery
        BY <1>2, <1>10, <2>2
      <3>5. /\ run.sweep = next.sweep /\ run.status = j.out.status
            /\ run.battery = Battery /\ <<run.model, run.battery>> = next.plan[x]
        <4>1. j.left[1] = <<j.left[1][1], j.left[1][2]>>
          BY <1>4 DEF LiveCells
        <4>2. QED
          BY <1>7, <2>2, <3>2, <3>3, <4>1 DEF WholeRun, RunOfCell
      <3>6. SeenAs(run, next, x)
        BY <3>2, <3>4, <3>5 DEF SeenAs, WholeRun
      <3>7. QED
        BY <3>1, <3>2, <3>6
    <2>3. x \in 1..k \/ x = k + 1
      BY <1>8
    <2>4. QED
      BY <2>1, <2>2, <2>3, Zenon
  <1>16. ListedIn(next, rs, k + 1)
    <2>1. next.sweep # 0 => \A i \in DOMAIN rs : rs[i].sweep = next.sweep <=> i > n - (k + 1)
      BY <1>7, <1>8, <1>9 DEF ListedIn
    <2>2. next.sweep = 0 => k + 1 = 0
      BY <1>7, <1>8 DEF ListedIn
    <2>3. QED
      BY <1>9, <1>10, <1>11, <1>12, <1>13, <1>14, <1>15, <2>1, <2>2 DEF ListedIn
  <1>17. Stored(next) = k + 1
    <2>1. k + 1 + 0 = k + 1 /\ Len(next.seen) = k + 1 /\ next.phase \in {"cell", "judge"}
      BY <1>7, <1>10
    <2>2. QED
      BY <2>1 DEF Stored
  <1>18. QED
    BY <1>1, <1>7, <1>16, <1>17

\* A job with the same cell and the same rows stored keeps the list.
LEMMA ListedSame ==
    ASSUME NEW j, SameCell(j), NEW k, ListedIn(job, runs, k)
    PROVE  ListedIn(j, runs, k) /\ Len(j.seen) = Len(job.seen)
  BY DEF SameCell, ListedIn, SeenAs

\* The list of a session stands: each run it stores is that of its next cell.
LEMMA ListStep ==
    ASSUME TypeInv, CellInv, MarkInv, ListInv, [Next]_vars
    PROVE  ListInv'
  <1>0. runs \in Seq(Runs) /\ runs' \in Seq(Runs) /\ Len(runs) \in Nat
    BY StepType DEF TypeInv
  <1>1. ASSUME NEW j, job' = j, ~(j.cmd = "preflight"), ~(j.cmd = "bench" /\ j.phase = "judge")
        PROVE  ListInv'
    BY <1>1 DEF ListInv, Session
  <1>2. ASSUME NEW j, job' = j, j.cmd = "preflight", ListedIn(j, runs', Stored(j))
        PROVE  ListInv'
    BY <1>2 DEF ListInv, Session
  <1>3. CASE UNCHANGED <<job, runs>>
    BY <1>3, ZenonT(30) DEF ListInv, Session, ListedIn, SeenAs, Stored
  <1>4. CASE job' = Idle \/ CalibrateOK'
    BY <1>4 DEF ListInv, Session, Idle, CalibrateOK
  <1>5. ASSUME Session, job.phase \in {"cell", "call"}, SameCell(job'),
               job'.phase \in {"cell", "call", "store"}, UNCHANGED runs
        PROVE  ListInv'
    <2>1. PICK j : j = job'
      OBVIOUS
    <2>2. SameCell(j) /\ j.phase \in {"cell", "call", "store"}
      BY <1>5, <2>1
    <2>3. CASE job.cmd # "preflight"
      BY <1>1, <2>1, <2>2, <2>3 DEF SameCell
    <2>4. CASE job.cmd = "preflight"
      <3>1. ListedIn(job, runs, Stored(job)) /\ Stored(job) = Len(job.seen) + 0
        BY <1>5, <2>4 DEF ListInv, Stored
      <3>2. ListedIn(j, runs, Stored(job)) /\ Stored(j) = Len(job.seen) + 0
        BY <2>2, <3>1, ListedSame DEF Stored
      <3>3. QED
        BY <1>2, <1>5, <2>1, <2>2, <2>4, <3>1, <3>2 DEF SameCell
    <2>5. QED
      BY <2>3, <2>4
  <1>6. CASE SetupFails
    BY <1>5, <1>6, CellSteps DEF SetupFails, At, InCell, tables
  <1>7. CASE Gate
    BY <1>5, <1>7, CellSteps DEF Gate, At, InCell, tables
  <1>8. CASE Contract
    BY <1>5, <1>8, CellSteps DEF Contract, At, tables
  <1>9. CASE \E r \in Replies : Call(r)
    BY <1>5, <1>9, RepliedInCell DEF Call, At, InCell, tables
  <1>10. ASSUME NEW stored \in SessionJobs, stored.cmd = job.cmd, Session, stored.left # <<>>,
                Battery = stored.left[1][2], job' = Onward(stored),
                job.cmd = "preflight" => /\ ListedIn(stored, runs', Len(stored.seen) + 1)
                                         /\ WholeRun(runs'[Len(runs')], stored)
         PROVE  ListInv'
    <2>1. CASE job.cmd = "preflight"
      <3>1. PICK rs \in Seq(Runs) : rs = runs'
        BY <1>0
      <3>2. ListedIn(Onward(stored), rs, Stored(Onward(stored))) /\ Onward(stored).cmd = "preflight"
        BY <1>10, <2>1, <3>1, SeenNext
      <3>3. PICK j : j = Onward(stored)
        OBVIOUS
      <3>4. QED
        BY <1>2, <1>10, <3>1, <3>2, <3>3
    <2>2. CASE job.cmd # "preflight"
      <3>1. stored.cmd = "bench"
        BY <1>10, <2>2 DEF Session
      <3>2. PICK j : j = Onward(stored)
        OBVIOUS
      <3>3. j = Idle \/ (j.cmd = "bench" /\ j.phase # "judge")
        BY <3>1, <3>2, OnwardIs
      <3>4. QED
        BY <1>1, <1>4, <1>10, <3>2, <3>3
    <2>3. QED
      BY <2>1, <2>2
  <1>11. CASE StoreRun
    <2>1. CASE ~registered
      BY <1>4, <1>11, <2>1 DEF StoreRun
    <2>2. CASE registered
      <3>1. PICK stored \in SessionJobs :
                /\ stored.cmd = job.cmd /\ stored.plan = job.plan /\ stored.left = job.left
                /\ stored.seen = job.seen /\ stored.out = job.out
                /\ stored.sweep = IF job.sweep = 0 THEN Len(sweeps) + 1 ELSE job.sweep
                /\ CASE job.out.status = "inconclusive" -> job' = stored /\ stored.phase = "incident"
                     [] job.out.status = "scored"       -> job' = stored /\ stored.phase = "rows"
                     [] OTHER                           -> job' = Onward(stored)
        BY <1>11, <2>2, StoreRunJob
      <3>2. PICK run : run = NewStored
        OBVIOUS
      <3>3. run \in Runs /\ runs' = Append(runs, run)
        BY <1>11, <2>2, <3>2, RunsStep DEF Added, BeginRound, StoreRow, Ask, EndRound, Sweeping, StoreRun,
                                          At, Session
      <3>4. runs'[Len(runs')] = run
        BY <1>0, <3>3, AppendProperties
      <3>5. /\ run.sweep = stored.sweep /\ run.model = Model /\ run.battery = Battery
            /\ run.status = job.out.status
        BY <3>1, <3>2 DEF NewStored, NewRun
      <3>6. job \in SessionJobs /\ Session /\ job.phase = "store" /\ job.left # <<>>
        BY <1>11, CellHere DEF StoreRun, At
      <3>7. job.cmd = "preflight" => ListedIn(stored, runs', Len(stored.seen) + 1)
        <4>1. SUFFICES ASSUME job.cmd = "preflight" PROVE ListedIn(stored, runs', Len(stored.seen) + 1)
          OBVIOUS
        <4>2. Len(job.seen) + 0 = Len(job.seen)
          BY <3>6 DEF SessionJobs
        <4>3. ListedIn(job, runs, Len(job.seen))
          BY <3>6, <4>1, <4>2 DEF ListInv, Stored
        <4>4. QED
          BY <3>1, <3>3, <3>5, <3>6, <4>3, ListedAfterRun
      <3>8. RunOfCell(run, stored)
        BY <3>1, <3>5 DEF RunOfCell, Model, Battery
      <3>9. CASE job.out.status \in {"inconclusive", "scored"}
        <4>1. job' = stored /\ stored.phase \in {"incident", "rows"}
          BY <3>1, <3>9
        <4>2. Stored(stored) = Len(stored.seen) + 1
          BY <4>1 DEF Stored
        <4>3. QED
          BY <1>1, <1>2, <3>1, <3>7, <4>1, <4>2
      <3>10. CASE job.out.status \notin {"inconclusive", "scored"}
        <4>1. job' = Onward(stored)
          BY <3>1, <3>10
        <4>2. WholeRun(run, stored)
          BY <3>1, <3>8, <3>10 DEF WholeRun
        <4>3. Battery = stored.left[1][2]
          BY <3>1 DEF Battery
        <4>4. QED
          BY <1>10, <3>1, <3>4, <3>6, <3>7, <4>1, <4>2, <4>3
      <3>11. QED
        BY <3>9, <3>10
    <2>3. QED
      BY <2>1, <2>2
  <1>12. CASE StoreIncident
    <2>1. /\ job \in SessionJobs /\ Session /\ job.phase = "incident" /\ job.left # <<>>
          /\ job' = Onward(job) /\ UNCHANGED runs /\ At("incident")
      BY <1>12, CellHere DEF StoreIncident, At
    <2>2. job.out.status = "inconclusive" /\ job.run = Len(runs) /\ RunOfCell(runs[job.run], job)
      BY <2>1 DEF CellInv
    <2>3. WholeRun(runs'[Len(runs')], job)
      BY <2>1, <2>2 DEF WholeRun
    <2>4. job.cmd = "preflight" => ListedIn(job, runs', Len(job.seen) + 1)
      <3>1. job.cmd = "preflight" => ListedIn(job, runs, Len(job.seen) + 1)
        BY <2>1 DEF ListInv, Stored
      <3>2. QED
        BY <2>1, <3>1
    <2>5. Battery = job.left[1][2]
      BY DEF Battery
    <2>6. QED
      BY <1>10, <2>1, <2>3, <2>4, <2>5
  <1>13. CASE StoreRow
    <2>1. /\ job \in SessionJobs /\ Session /\ job.phase = "rows" /\ job.left # <<>> /\ At("rows")
      BY <1>13, CellHere DEF StoreRow, At
    <2>2. /\ job.out.status = "scored" /\ job.run = Len(runs) /\ Told(Battery, job.out)
          /\ job.run \in DOMAIN runs
      BY <2>1, SessionHere DEF CellInv, SessionOK
    <2>3. PICK k \in Nat :
              /\ k \in Items(Battery) /\ RunOfCell(runs'[job.run], job) /\ RowsOf(runs'[job.run], job.out, k)
              /\ job' = IF k = NItems[Battery] THEN Onward(job) ELSE job
      BY <1>13, NextRow
    <2>4. PICK run : run = WithRow(runs[job.run], NextItem, job.out.scores[NextItem])
      OBVIOUS
    <2>5. Changed(run)
      <3>1. runs[job.run] \in Runs
        BY <1>0, <2>2
      <3>2. NextItem \in Nat
        <4>1. Cardinality(DOMAIN runs[job.run].scores) \in Nat
          BY <3>1, FS_CardinalityType DEF Runs, Rows
        <4>2. QED
          BY <4>1 DEF NextItem
      <3>3. runs' = [runs EXCEPT ![job.run] = WithRow(runs[job.run], NextItem, job.out.scores[NextItem])]
        BY <1>13 DEF StoreRow, NextItem
      <3>4. QED
        BY <2>2, <2>4, <3>2, <3>3, RowChanged
    <2>6. job.cmd = "preflight" => ListedIn(job, runs', Len(job.seen) + 1)
      <3>1. job.cmd = "preflight" => ListedIn(job, runs, Len(job.seen) + 1)
        BY <2>1 DEF ListInv, Stored
      <3>2. run.sweep = runs[Len(runs)].sweep /\ runs' = [runs EXCEPT ![Len(runs)] = run]
        BY <2>2, <2>5 DEF Changed
      <3>3. QED
        BY <2>1, <3>1, <3>2, ListedAfterRow
    <2>7. Len(runs') = Len(runs)
      BY <1>0, <2>5 DEF Changed
    <2>8. Battery = job.left[1][2]
      BY DEF Battery
    <2>9. CASE k = NItems[Battery]
      <3>1. WholeRun(runs'[Len(runs')], job)
        <4>1. PICK last : last = runs'[Len(runs')]
          OBVIOUS
        <4>2. RunOfCell(last, job) /\ RowsOf(last, job.out, k)
          BY <2>2, <2>3, <2>7, <4>1
        <4>3. last.battery = Battery /\ Items(Battery) = 1..k
          BY <2>8, <2>9, <4>2 DEF RunOfCell, Items
        <4>4. QED
          BY <2>2, <4>1, <4>2, <4>3 DEF WholeRun, RowsOf, Told
      <3>2. QED
        BY <1>10, <2>1, <2>3, <2>6, <2>8, <2>9, <3>1
    <2>10. CASE k # NItems[Battery]
      <3>1. PICK j : j = job /\ job' = j
        BY <2>3, <2>10
      <3>2. Stored(job) = Len(job.seen) + 1
        BY <2>1 DEF Stored
      <3>3. QED
        BY <1>1, <1>2, <2>1, <2>6, <3>1, <3>2
    <2>11. QED
      BY <2>9, <2>10
  <1>14. CASE Judge
    BY <1>4, <1>14 DEF Judge
  <1>15. CASE BeginRound \/ (\E r \in Stage0Results : Ask(r)) \/ EndRound \/ Separate
    <2>1. job' = Idle \/ job'.cmd = "stage0"
      BY <1>15, Stage0Stays
    <2>2. QED
      BY <1>1, <1>4, <2>1
  <1>16. CASE CalibrationStep \/ Calibrate
    BY <1>4, <1>16, CalibrationStepType, CalibrateType
  <1>17. CASE Bench \/ Preflight
    <2>1. job' = Idle \/ job' = Process(todo[1])
      BY <1>17 DEF Bench, Preflight, Typed, AtRest
    <2>2. CASE job' = Process(todo[1])
      <3>1. todo # <<>> /\ todo[1].cmd \in {"bench", "preflight"}
        BY <1>17 DEF Bench, Preflight, Typed
      <3>2. PICK j : j = Process(todo[1])
        OBVIOUS
      <3>3. j \in SessionJobs
        BY <3>1, <3>2, ProcessType
      <3>4. /\ j.phase = "cell" /\ j.seen = <<>> /\ j.plan = j.left /\ j.sweep = 0 /\ j.cmd = todo[1].cmd
        BY <3>2 DEF Process
      <3>5. j.plan \in Seq(LiveCells)
        BY <3>3 DEF SessionJobs
      <3>6. ListedIn(j, runs', Stored(j))
        <4>1. PICK rs \in Seq(Runs) : rs = runs'
          BY <1>0
        <4>2. Len(rs) \in Nat /\ Len(j.plan) \in Nat /\ DOMAIN j.plan = 1..Len(j.plan)
          BY <3>5
        <4>3. Len(j.seen) = 0 /\ DOMAIN j.seen = {} /\ Stored(j) = 0
          BY <3>4 DEF Stored
        <4>4. ListedIn(j, rs, 0)
          BY <3>4, <4>2, <4>3 DEF ListedIn
        <4>5. QED
          BY <4>1, <4>3, <4>4
      <3>7. QED
        BY <1>1, <1>2, <2>2, <3>1, <3>2, <3>4, <3>6
    <2>3. QED
      BY <1>4, <2>1, <2>2
  <1>18. CASE Stage0
    <2>1. job' = Idle \/ job'.cmd = "stage0"
      BY <1>18 DEF Stage0, Typed, AtRest
    <2>2. QED
      BY <1>1, <1>4, <2>1
  <1>19. CASE Outside \/ UNCHANGED vars
    BY <1>3, <1>4, <1>19 DEF Outside, Tick, Kill, tables, vars
  <1>20. QED
    BY <1>6, <1>7, <1>8, <1>9, <1>11, <1>12, <1>13, <1>14, <1>15, <1>16, <1>17, <1>18, <1>19
       DEF Next, Step, MeasuringStep, Command

\* What a marker of sweep s was given for: MarkerEarned, of one marker.
Holding(rs, s, status) == {i \in DOMAIN rs : rs[i].sweep = s /\ rs[i].status = status}

Earned(rs, s, plan) ==
    LET scored == Holding(rs, s, "scored")
        infra  == Holding(rs, s, "inconclusive")
    IN  /\ \A c \in Range(plan) :
               \E i \in DOMAIN rs : rs[i].sweep = s /\ <<rs[i].model, rs[i].battery>> = c
        /\ scored \cup infra # {}
        /\ 100 * Cardinality(infra) <= AbortRate * Cardinality(scored \cup infra)
        /\ \A i \in scored :
               LET b == rs[i].battery
               IN  /\ DOMAIN rs[i].scores = Items(b)
                   /\ Percent(rs[i].scores) \in Band[b][1]..Band[b][2]

\* The two say the same.
LEMMA EarnedIs == MarkerEarned <=> \A k \in Markers : Earned(runs, sweeps[k].of, sweeps[k].plan)
  BY DEF MarkerEarned, Earned, Holding, RowsIn

\* The runs of a sweep that is marked stay as they are, and no run joins them.
LEMMA MarkedRunsStay ==
    ASSUME TypeInv, RoundInv, CellInv, MarkInv, [Next]_vars, NEW k \in Markers
    PROVE  LET s == sweeps[k].of
           IN  /\ \A i \in DOMAIN runs :
                      /\ i \in DOMAIN runs' /\ runs'[i].sweep = runs[i].sweep
                      /\ runs[i].sweep = s => runs'[i] = runs[i]
               /\ \A i \in DOMAIN runs' : runs'[i].sweep = s => i \in DOMAIN runs
  <1>1. runs \in Seq(Runs) /\ Len(sweeps) \in Nat
    BY DEF TypeInv
  <1>2. PICK s : s = sweeps[k].of
    OBVIOUS
  <1> DEFINE Goal == /\ \A i \in DOMAIN runs :
                            /\ i \in DOMAIN runs' /\ runs'[i].sweep = runs[i].sweep
                            /\ runs[i].sweep = s => runs'[i] = runs[i]
                     /\ \A i \in DOMAIN runs' : runs'[i].sweep = s => i \in DOMAIN runs
  <1>3. CASE UNCHANGED runs
    BY <1>2, <1>3
  <1>4. ASSUME NEW run, Added(run), run.sweep # s
        PROVE  Goal
    BY <1>1, <1>4, AppendProperties DEF Added
  <1>5. ASSUME NEW run, Changed(run), runs[job.run].sweep # s
        PROVE  Goal
    BY <1>1, <1>5 DEF Changed
  <1>6. s \in Nat /\ s <= Len(sweeps)
    <2>1. sweeps[k] \in Sweeps
      BY DEF TypeInv, Markers
    <2>2. QED
      BY <1>2, <2>1 DEF MarkInv, Sweeps
  <1>7. \A t : Unmarked(t) => t # s
    BY <1>2 DEF Unmarked
  <1>8. CASE StoreRun /\ registered /\ Added(NewStored)
    <2>1. PICK run : run = NewStored
      OBVIOUS
    <2>2. run.sweep = IF job.sweep = 0 THEN Len(sweeps) + 1 ELSE job.sweep
      BY <2>1 DEF NewStored, NewRun
    <2>3. job.sweep # 0 => Unmarked(job.sweep)
      BY <1>8 DEF StoreRun, At, MarkInv
    <2>4. run.sweep # s
      BY <1>1, <1>6, <1>7, <2>2, <2>3
    <2>5. QED
      BY <1>2, <1>4, <1>8, <2>1, <2>4
  <1>9. CASE BeginRound /\ job.database /\ Added(NewRun(job.sweep, Model, Battery, "scored"))
    <2>1. PICK run : run = NewRun(job.sweep, Model, Battery, "scored")
      OBVIOUS
    <2>2. run.sweep = job.sweep /\ Unmarked(job.sweep)
      BY <1>9, <2>1 DEF NewRun, MarkInv, BeginRound, Sweeping
    <2>3. QED
      BY <1>2, <1>4, <1>7, <1>9, <2>1, <2>2
  <1>10. CASE StoreRow /\ Changed(WithRow(runs[job.run], NextItem, job.out.scores[NextItem]))
    <2>1. At("rows") /\ Session /\ job.run \in DOMAIN runs
      BY <1>10 DEF StoreRow, At, Changed
    <2>2. runs[job.run].sweep = job.sweep /\ runs[job.run].sweep \in 1..Len(sweeps)
      BY <2>1 DEF CellInv, RunOfCell, MarkInv
    <2>3. Unmarked(job.sweep)
      BY <1>1, <2>1, <2>2 DEF MarkInv
    <2>4. PICK run : run = WithRow(runs[job.run], NextItem, job.out.scores[NextItem])
      OBVIOUS
    <2>5. QED
      BY <1>2, <1>5, <1>7, <1>10, <2>2, <2>3, <2>4
  <1>11. ASSUME NEW r \in Stage0Results, Ask(r), job.database, Changed(WithRow(runs[job.run], job.item, r))
         PROVE  Goal
    <2>1. runs[job.run].sweep = job.sweep /\ Unmarked(job.sweep)
      BY <1>11 DEF RoundInv, MarkInv, Ask, Sweeping
    <2>2. PICK run : run = WithRow(runs[job.run], job.item, r)
      OBVIOUS
    <2>3. QED
      BY <1>5, <1>7, <1>11, <2>1, <2>2
  <1>12. CASE EndRound /\ job.database /\ Changed([runs[job.run] EXCEPT !.status = Status0])
    <2>1. runs[job.run].sweep = job.sweep /\ Unmarked(job.sweep)
      BY <1>12 DEF RoundInv, MarkInv, EndRound, Sweeping
    <2>2. PICK run : run = [runs[job.run] EXCEPT !.status = Status0]
      OBVIOUS
    <2>3. QED
      BY <1>2, <1>5, <1>7, <1>12, <2>1, <2>2
  <1>13. Goal
    BY <1>2, <1>3, <1>8, <1>9, <1>10, <1>11, <1>12, RunsStep
  <1>14. QED
    BY <1>2, <1>13

\* So what it was given for stands.
LEMMA EarnedStays ==
    ASSUME NEW rs, NEW after, NEW s, NEW plan, Earned(rs, s, plan),
           \A i \in DOMAIN rs : /\ i \in DOMAIN after /\ after[i].sweep = rs[i].sweep
                                /\ rs[i].sweep = s => after[i] = rs[i],
           \A i \in DOMAIN after : after[i].sweep = s => i \in DOMAIN rs
    PROVE  Earned(after, s, plan)
  <1>1. ASSUME NEW status
        PROVE  Holding(after, s, status) = Holding(rs, s, status)
    BY DEF Holding
  <1>2. \A i \in Holding(rs, s, "scored") : after[i] = rs[i]
    BY DEF Holding
  <1>3. \A c \in Range(plan) :
            \E i \in DOMAIN after : after[i].sweep = s /\ <<after[i].model, after[i].battery>> = c
    BY DEF Earned
  <1>4. /\ Holding(after, s, "scored") = Holding(rs, s, "scored")
        /\ Holding(after, s, "inconclusive") = Holding(rs, s, "inconclusive")
    BY <1>1
  <1>5. QED
    BY <1>2, <1>3, <1>4 DEF Earned

\* As many of the last k numbers as of the first.
LEMMA ShiftedSize ==
    ASSUME NEW m \in Nat, NEW k \in Nat, NEW S \in SUBSET (1..k), NEW T,
           \A i : i \in T <=> \E n \in S : i = m + n
    PROVE  Cardinality(T) = Cardinality(S)
  <1> DEFINE f == [n \in S |-> m + n]
  <1>1. IsFiniteSet(S)
    <2>1. IsFiniteSet(1..k)
      BY FS_Interval
    <2>2. QED
      BY <2>1, FS_Subset
  <1>2. f \in [S -> T]
    OBVIOUS
  <1>3. \A x, y \in S : f[x] = f[y] => x = y
    OBVIOUS
  <1>4. \A t \in T : \E x \in S : f[x] = t
    OBVIOUS
  <1> HIDE DEF f
  <1>5. QED
    BY <1>1, <1>2, <1>3, <1>4, SameSize

\* The share of hits is a number.
LEMMA PercentInt ==
    ASSUME NEW n \in Nat \ {0}, NEW scores, DOMAIN scores = 1..n
    PROVE  Percent(scores) \in Int
  <1>1. Cardinality(1..n) = n /\ IsFiniteSet(1..n)
    BY FS_Interval
  <1>2. PICK hits : hits = {i \in DOMAIN scores : scores[i] = 1}
    OBVIOUS
  <1>3. hits \in SUBSET (1..n)
    BY <1>2
  <1>4. Cardinality(hits) \in Nat
    BY <1>1, <1>3, FS_Subset, FS_CardinalityType
  <1>5. PICK h \in Nat : h = Cardinality(hits)
    BY <1>4
  <1>6. Percent(scores) = (100 * h) \div n
    BY <1>1, <1>2, <1>5 DEF Percent, Hits
  <1>7. QED
    BY <1>6

\* A session that passes and is read back has the runs its marker is given for.
LEMMA JudgeEarns ==
    ASSUME TypeInv, ListInv, Judge, Passed, ReadBack
    PROVE  Earned(runs, job.sweep, job.plan)
  <1>1. At("judge") /\ Session /\ job \in SessionJobs /\ job.cmd = "preflight" /\ job.phase = "judge"
    BY SessionHere DEF Judge, At, SessionOK, ListInv
  <1>2. /\ job.seen \in Seq(Seen) /\ job.left = <<>> /\ job.seen # <<>> /\ job.plan \in Seq(LiveCells)
        /\ runs \in Seq(Runs)
    BY <1>1 DEF SessionJobs, TypeInv, Passed, ReadBack
  <1>3. PICK k \in Nat \ {0} : k = Len(job.seen) /\ DOMAIN job.seen = 1..k
    BY <1>2
  <1>4. ListedIn(job, runs, k)
    <2>1. k + 0 = k
      OBVIOUS
    <2>2. Stored(job) = k
      BY <1>1, <1>3, <2>1 DEF Stored
    <2>3. QED
      BY <1>1, <2>2 DEF ListInv
  <1>5. Len(job.plan) = k /\ DOMAIN job.plan = 1..k
    <2>1. Len(job.left) = 0
      BY <1>2
    <2>2. QED
      BY <1>2, <1>3, <1>4, <2>1 DEF ListedIn
  <1>6. PICK n \in Nat : n = Len(runs) /\ DOMAIN runs = 1..n /\ k <= n
    BY <1>2, <1>4 DEF ListedIn
  <1>7. PICK m \in Nat : m + k = n
    <2>1. n - k \in Nat /\ (n - k) + k = n
      BY <1>3, <1>6
    <2>2. QED
      BY <2>1
  <1>8. n - k = m
    BY <1>3, <1>6, <1>7
  <1>9. PICK s : s = job.sweep
    OBVIOUS
  <1>10. \A i \in 1..n : runs[i].sweep = s <=> i > m
    BY <1>3, <1>4, <1>6, <1>8, <1>9 DEF ListedIn
  <1>11. \A x \in 1..k : m + x \in 1..n /\ SeenAs(runs[m + x], job, x)
    <2>1. SUFFICES ASSUME NEW x \in 1..k PROVE m + x \in 1..n /\ SeenAs(runs[m + x], job, x)
      OBVIOUS
    <2>2. m + x \in 1..n
      BY <1>7
    <2>3. SeenAs(runs[n - k + x], job, x)
      BY <1>3, <1>4, <1>6 DEF ListedIn
    <2>4. QED
      BY <1>8, <2>2, <2>3
  <1>12. \A i \in 1..n : i > m <=> \E x \in 1..k : i = m + x
    <2>1. ASSUME NEW i \in 1..n, i > m
          PROVE  i - m \in 1..k /\ i = m + (i - m)
      BY <1>3, <1>7, <2>1
    <2>2. QED
      BY <2>1
  <1>13. ASSUME NEW status
         PROVE  \A i : i \in Holding(runs, s, status) <=> \E x \in With(status) : i = m + x
    <2>1. \A x \in 1..k : runs[m + x].status = job.seen[x].out.status
      BY <1>11 DEF SeenAs
    <2>2. With(status) = {x \in 1..k : job.seen[x].out.status = status}
      BY <1>3 DEF With
    <2>3. Holding(runs, s, status) = {i \in 1..n : i > m /\ runs[i].status = status}
      BY <1>6, <1>10 DEF Holding
    <2>4. QED
      BY <1>11, <1>12, <2>1, <2>2, <2>3
  <1>14. With("scored") \in SUBSET (1..k) /\ With("inconclusive") \in SUBSET (1..k)
    BY <1>3 DEF With
  <1>15. \A c \in Range(job.plan) :
             \E i \in DOMAIN runs : runs[i].sweep = s /\ <<runs[i].model, runs[i].battery>> = c
    <2>1. ASSUME NEW c \in Range(job.plan)
          PROVE  \E i \in DOMAIN runs : runs[i].sweep = s /\ <<runs[i].model, runs[i].battery>> = c
      <3>1. PICK x \in 1..k : c = job.plan[x]
        BY <1>5, <2>1 DEF Range
      <3>2. m + x \in DOMAIN runs /\ SeenAs(runs[m + x], job, x)
        BY <1>6, <1>11
      <3>3. QED
        BY <1>9, <3>1, <3>2 DEF SeenAs
    <2>2. QED
      BY <2>1
  <1>16. Cardinality(Holding(runs, s, "inconclusive")) = Cardinality(With("inconclusive"))
    BY <1>3, <1>13, <1>14, ShiftedSize
  <1>17. Cardinality(Holding(runs, s, "scored") \cup Holding(runs, s, "inconclusive"))
             = Cardinality(With("scored") \cup With("inconclusive"))
    <2>1. PICK S \in SUBSET (1..k) : S = With("scored") \cup With("inconclusive")
      BY <1>14
    <2>2. PICK T : T = Holding(runs, s, "scored") \cup Holding(runs, s, "inconclusive")
      OBVIOUS
    <2>3. \A i : i \in T <=> \E x \in S : i = m + x
      <3>1. /\ \A i : i \in Holding(runs, s, "scored") <=> \E x \in With("scored") : i = m + x
            /\ \A i : i \in Holding(runs, s, "inconclusive") <=> \E x \in With("inconclusive") : i = m + x
        BY <1>13
      <3>2. QED
        BY <2>1, <2>2, <3>1
    <2>4. Cardinality(T) = Cardinality(S)
      BY <1>3, <2>3, ShiftedSize
    <2>5. QED
      BY <2>1, <2>2, <2>4
  <1>18. Holding(runs, s, "scored") \cup Holding(runs, s, "inconclusive") # {}
    <2>1. PICK x \in With("scored") \cup With("inconclusive") : TRUE
      BY DEF Passed
    <2>2. /\ \A i : i \in Holding(runs, s, "scored") <=> \E y \in With("scored") : i = m + y
          /\ \A i : i \in Holding(runs, s, "inconclusive") <=> \E y \in With("inconclusive") : i = m + y
      BY <1>13
    <2>3. QED
      BY <2>1, <2>2
  <1>19. 100 * Cardinality(Holding(runs, s, "inconclusive"))
             <= AbortRate * Cardinality(Holding(runs, s, "scored") \cup Holding(runs, s, "inconclusive"))
    BY <1>16, <1>17 DEF Passed
  <1>20. ASSUME NEW i \in Holding(runs, s, "scored")
         PROVE  LET b == runs[i].battery
                IN  /\ DOMAIN runs[i].scores = Items(b)
                    /\ Percent(runs[i].scores) \in Band[b][1]..Band[b][2]
    <2>1. PICK x \in With("scored") : i = m + x
      BY <1>13, <1>20
    <2>2. x \in 1..k /\ SeenAs(runs[i], job, x) /\ i \in 1..n
      BY <1>11, <1>14, <2>1
    <2>3. PICK run \in Runs : run = runs[i]
      BY <1>2, <1>6, <2>2
    <2>4. PICK b, out : b = job.seen[x].battery /\ out = job.seen[x].out
      OBVIOUS
    <2>5. b \in Live /\ out.status = "scored"
      <3>1. job.seen[x] \in Seen
        BY <1>2, <1>3, <2>2
      <3>2. QED
        BY <2>1, <2>4, <3>1 DEF Seen, With
    <2>6. /\ run.battery = b /\ DOMAIN run.scores = Items(b) /\ DOMAIN out.scores = Items(b)
          /\ \A y \in Items(b) : run.scores[y] = Grade(out.scores[y])
      BY <2>2, <2>3, <2>4, <2>5 DEF SeenAs
    <2>7. run.scores = [y \in DOMAIN out.scores |-> Grade(out.scores[y])]
      <3>1. run.scores = [y \in DOMAIN run.scores |-> run.scores[y]]
        <4>1. run.scores \in Partial(Nat, {0, 1})
          BY DEF Runs, Rows
        <4>2. run.scores \in [DOMAIN run.scores -> {0, 1}]
          BY <4>1, PartialIs
        <4>3. QED
          BY <4>2
      <3>2. QED
        BY <2>6, <3>1
    <2>8. Percent(run.scores) = Score(out)
      BY <2>7 DEF Score
    <2>9. Band[b][1] <= Score(out) /\ Score(out) <= Band[b][2]
      BY <2>1, <2>4 DEF Passed, InBand
    <2>10. Percent(run.scores) \in Int
      <3>1. NItems[b] \in Nat \ {0} /\ DOMAIN run.scores = 1..NItems[b]
        BY <2>5, <2>6, EvidenceAssumption DEF Items, Batteries
      <3>2. QED
        BY <3>1, PercentInt
    <2>11. Band[b][1] \in Nat /\ Band[b][2] \in Nat
      BY <2>5, BenchAssumption
    <2>12. Percent(run.scores) \in Band[b][1]..Band[b][2]
      <3>1. PICK share \in Int : share = Percent(run.scores)
        BY <2>10
      <3>2. PICK lo \in Nat, hi \in Nat : lo = Band[b][1] /\ hi = Band[b][2]
        BY <2>11
      <3>3. lo <= share /\ share <= hi
        BY <2>8, <2>9, <3>1, <3>2
      <3>4. QED
        BY <3>1, <3>2, <3>3
    <2>13. QED
      BY <2>3, <2>6, <2>12
  <1>21. QED
    BY <1>9, <1>15, <1>18, <1>19, <1>20 DEF Earned

\* A new marker is earned, and the older ones stay so.
LEMMA EarnedStep ==
    ASSUME TypeInv, RoundInv, CellInv, MarkInv, ListInv, MarkerEarned, [Next]_vars
    PROVE  MarkerEarned'
  <1>1. ASSUME NEW k \in Markers
        PROVE  \A s, plan : s = sweeps[k].of /\ plan = sweeps[k].plan => Earned(runs', s, plan)
    <2>1. SUFFICES ASSUME NEW s, NEW plan, s = sweeps[k].of, plan = sweeps[k].plan
                   PROVE  Earned(runs', s, plan)
      OBVIOUS
    <2>2. Earned(runs, s, plan)
      BY <2>1, EarnedIs
    <2>3. /\ \A i \in DOMAIN runs : /\ i \in DOMAIN runs' /\ runs'[i].sweep = runs[i].sweep
                                    /\ runs[i].sweep = s => runs'[i] = runs[i]
          /\ \A i \in DOMAIN runs' : runs'[i].sweep = s => i \in DOMAIN runs
      BY <2>1, MarkedRunsStay
    <2>4. PICK after : after = runs'
      OBVIOUS
    <2>5. Earned(after, s, plan)
      BY <2>2, <2>3, <2>4, EarnedStays
    <2>6. QED
      BY <2>4, <2>5
  <1>2. SUFFICES ASSUME NEW k \in Markers'
                 PROVE  \A s, plan : s = sweeps'[k].of /\ plan = sweeps'[k].plan => Earned(runs', s, plan)
    <2>1. \A k \in Markers' : Earned(runs', sweeps'[k].of, sweeps'[k].plan)
      BY <1>2
    <2>2. (\A k \in Markers : Earned(runs, sweeps[k].of, sweeps[k].plan))'
      BY <2>1, Zenon
    <2>3. QED
      BY <2>2, Zenon DEF MarkerEarned, Earned, Holding, RowsIn
  <1>3. CASE k \in Markers /\ sweeps'[k] = sweeps[k]
    BY <1>1, <1>3
  <1>4. ASSUME NEW sweep \in Sweeps, sweeps' = Append(sweeps, sweep), sweep.purpose # Marker
        PROVE  k \in Markers /\ sweeps'[k] = sweeps[k]
    BY <1>4, NewSweepIs
  <1>5. CASE UNCHANGED sweeps
    BY <1>3, <1>5 DEF Markers
  <1>6. CASE StoreRun /\ job.sweep = 0 /\ sweeps' = Append(sweeps, NewSweep("livebench", job.plan))
    <2>1. job.plan \in Seq(LiveCells)
      BY <1>6, CellHere DEF StoreRun, At, SessionJobs
    <2>2. PICK sweep : sweep = NewSweep("livebench", job.plan)
      OBVIOUS
    <2>3. sweep \in Sweeps /\ sweep.purpose # Marker
      BY <2>1, <2>2, NewRowTypes, CellSorts DEF TypeInv, NewSweep, Marker
    <2>4. QED
      BY <1>3, <1>4, <1>6, <2>2, <2>3
  <1>7. CASE /\ Stage0 /\ Admitted(todo[1]) /\ todo[1].database
             /\ sweeps' = Append(sweeps, [NewSweep("stage0", RoundsOf(todo[1]))
                                             EXCEPT !.forced = todo[1].forced])
    BY <1>3, <1>4, <1>7, Stage0SweepIs
  <1>8. CASE /\ Judge /\ Passed /\ ReadBack
             /\ sweeps' = Append(sweeps, [NewSweep(Marker, job.plan) EXCEPT !.of = job.sweep])
    <2>1. job.plan \in Seq(LiveCells) /\ job.sweep \in Nat /\ UNCHANGED runs
      BY <1>8, SessionHere DEF Judge, At, SessionOK, SessionJobs
    <2>2. PICK sweep : sweep = [NewSweep(Marker, job.plan) EXCEPT !.of = job.sweep]
      OBVIOUS
    <2>3. NewSweep(Marker, job.plan) \in Sweeps /\ NewSweep(Marker, job.plan).plan = job.plan
      BY <2>1, NewRowTypes, CellSorts DEF TypeInv, NewSweep
    <2>4. sweep \in Sweeps /\ sweep.of = job.sweep /\ sweep.plan = job.plan
      BY <2>1, <2>2, <2>3 DEF Sweeps
    <2>5. Earned(runs, job.sweep, job.plan)
      BY <1>8, JudgeEarns
    <2>6. (k \in Markers /\ sweeps'[k] = sweeps[k]) \/ sweeps'[k] = sweep
      BY <1>8, <2>2, <2>4, NewSweepIs
    <2>7. CASE sweeps'[k] = sweep
      BY <2>1, <2>4, <2>5, <2>7
    <2>8. QED
      BY <1>3, <2>6, <2>7
  <1>9. QED
    BY <1>5, <1>6, <1>7, <1>8, SweepsGrow

\* A preflight marker is earned by the runs of its own session, and stays so.
THEOREM MarkersAreEarned == Spec => []MarkerEarned
  <1> DEFINE Inv == RoundInv /\ CellInv /\ MarkInv /\ ListInv /\ MarkerEarned
  <1>1. Init => Inv
    BY DEF Init, EvidenceInit, RoundInv, CellInv, MarkInv, ListInv, MarkerEarned, Markers, Sweeping,
           Session, At, Idle
  <1>2. TypeInv /\ Inv /\ [Next]_vars => Inv'
    BY RoundStep, CellStep, MarkStep, ListStep, EarnedStep
  <1>3. QED
    BY <1>1, <1>2, TypesKept, PTL DEF Spec

-----------------------------------------------------------------------------
(* Verdicts                                                                *)

\* The battery that counts is one of those it is taken from.
LEMMA LastOfIn ==
    ASSUME NEW B \in SUBSET Batteries, B # {}
    PROVE  LastOf(B) \in B
  <1> DEFINE S == {i \in DOMAIN RowOrder : RowOrder[i] \in B}
  <1>1. S \in SUBSET (1..Len(RowOrder)) /\ Len(RowOrder) \in Nat
    BY VerdictAssumption
  <1>2. S # {}
    BY VerdictAssumption DEF Range
  <1>3. Max(S) \in S
    BY <1>1, <1>2, GreatestIn
  <1>4. QED
    BY <1>3 DEF LastOf

\* A battery that a model has a scored run of is dated by one.
LEMMA MeasuredAtIs ==
    ASSUME TypeInv, NEW m, NEW b \in Started(m)
    PROVE  MeasuredAt(m, b) \in Nat
  <1> DEFINE S == {i \in DOMAIN runs : /\ runs[i].model = m /\ runs[i].battery = b
                                       /\ runs[i].status = "scored"}
  <1>1. S \in SUBSET (1..Len(runs)) /\ Len(runs) \in Nat /\ runs \in Seq(Runs)
    BY DEF TypeInv
  <1>2. S # {}
    BY DEF Started
  <1>3. Max(S) \in S
    BY <1>1, <1>2, GreatestIn
  <1>4. Latest(m, b) = Max(S)
    BY <1>2 DEF Latest, Newest
  <1>5. runs[Max(S)] \in Runs
    BY <1>1, <1>3
  <1>6. QED
    BY <1>4, <1>5 DEF MeasuredAt, Runs

\* The age of the evidence on a task is that of the oldest run that scores it.
LEMMA FreshVerdict == TypeInv => EligibleIsFresh
  <1>1. SUFFICES ASSUME TypeInv, NEW m \in Known, Covers(m), DatedByItsScore(m),
                        NEW c \in Task, now - MeasuredAt(m, Source(m, c)) > MaxAge
                 PROVE  Status(m) # "eligible"
    BY DEF EligibleIsFresh
  <1> DEFINE at(k) == MeasuredAt(m, LastOf(Named(k, Started(m))))
             S == {at(k) : k \in Task}
  <1>2. ASSUME NEW k \in Task
        PROVE  at(k) \in Nat
    <2>1. Started(m) \subseteq Batteries
      <3>1. \A i \in DOMAIN runs : runs[i] \in Runs
        BY <1>1 DEF TypeInv
      <3>2. \A i \in DOMAIN runs : runs[i].battery \in Batteries
        BY <3>1 DEF Runs
      <3>3. QED
        BY <3>2 DEF Started
    <2>2. Named(k, Started(m)) # {} /\ Named(k, Started(m)) \in SUBSET Started(m)
      BY <1>1 DEF Covers, Named, Measured
    <2>3. LastOf(Named(k, Started(m))) \in Started(m)
      BY <2>1, <2>2, LastOfIn
    <2>4. QED
      BY <1>1, <2>3, MeasuredAtIs
  <1>3. S \in SUBSET Nat /\ at(c) \in S
    BY <1>2
  <1>4. PICK x \in S : \A y \in S : x <= y
    BY <1>3, LeastNat
  <1>5. Min(S) \in S /\ \A y \in S : Min(S) <= y
    BY <1>4 DEF Min
  <1>6. at(c) = MeasuredAt(m, Source(m, c))
    BY <1>1 DEF DatedByItsScore
  <1>7. Age(m) = now - Min(S)
    BY DEF Age
  <1>8. now \in Nat /\ MaxAge \in Nat
    BY <1>1, VerdictAssumption DEF TypeInv
  <1> HIDE DEF S, at
  <1>9. Age(m) > MaxAge
    <2>1. PICK a \in Nat : a = at(c)
      BY <1>3
    <2>2. PICK oldest \in Nat : oldest = Min(S)
      BY <1>3, <1>5
    <2>3. now - a > MaxAge /\ oldest <= a /\ Age(m) = now - oldest
      BY <1>1, <1>3, <1>5, <1>6, <1>7, <2>1, <2>2
    <2>4. QED
      BY <1>8, <2>1, <2>2, <2>3
  <1>10. QED
    <2>1. ~(Age(m) <= MaxAge)
      <3>1. PICK age \in Int : age = Age(m)
        <4>1. PICK oldest \in Nat : oldest = Min(S)
          BY <1>3, <1>5
        <4>2. QED
          BY <1>7, <1>8, <4>1
      <3>2. QED
        BY <1>8, <1>9, <3>1
    <2>2. Freshness(m) = "fail"
      BY <2>1 DEF Freshness, Verdict
    <2>3. "fail" \in Policy(m)
      BY <2>2 DEF Policy
    <2>4. QED
      BY <1>1, <2>3 DEF Status

\* A model is never eligible for a task on a score that is older than MaxAge.
THEOREM NoStaleVerdict == Spec => []EligibleIsFresh
  BY TypesKept, FreshVerdict, PTL

\* A separation is between two models, in the table and in the process that writes it.
TwoModels(pairs) == \A p \in pairs : p.winner # p.loser

SeparationInv ==
    /\ TwoModels(seps)
    /\ job.cmd = "stage0" => TwoModels(job.pairs)

\* The pairs a sweep compares are pairs of different models.
LEMMA PairsAreTwo ==
    ASSUME NEW heard
    PROVE  TwoModels(PairsOf(heard))
  <1>1. SUFFICES ASSUME NEW p \in PairsOf(heard) PROVE p.winner # p.loser
    BY DEF TwoModels
  <1>2. PICK ij \in {x \in (DOMAIN Ranked) \X (DOMAIN Ranked) : x[1] < x[2]}, battery \in Pool :
            p \in PairOf(Ranked[ij[1]], Ranked[ij[2]], battery, heard)
    BY DEF PairsOf
  <1>3. Ranked[ij[1]] # Ranked[ij[2]]
    <2>1. ij[1] \in 1..Len(Ranked) /\ ij[2] \in 1..Len(Ranked) /\ ij[1] < ij[2] /\ Len(Ranked) \in Nat
      BY <1>2, Stage0Assumption
    <2>2. ij[1] # ij[2] /\ ij[1] \in DOMAIN Ranked /\ ij[2] \in DOMAIN Ranked
      BY <1>2, <2>1
    <2>3. QED
      BY <2>2, Stage0Assumption
  <1>4. ASSUME NEW a, NEW b, a # b, p \in PairOf(a, b, battery, heard)
        PROVE  p.winner # p.loser
    <2>1. PICK c : \/ p = [battery |-> battery, winner |-> a, loser |-> b, p |-> c]
                   \/ p = [battery |-> battery, winner |-> b, loser |-> a, p |-> c]
      BY <1>4 DEF PairOf
    <2>2. QED
      BY <1>4, <2>1
  <1>5. QED
    BY <1>2, <1>3, <1>4

\* Every step keeps separations between two models.
LEMMA SeparationStep ==
    ASSUME TypeInv, SeparationInv, [Next]_vars
    PROVE  SeparationInv'
  <1>1. CASE UNCHANGED vars
    BY <1>1 DEF SeparationInv, TwoModels, vars, tables
  <1>2. CASE Separate
    <2>1. Stage0OK /\ job.cmd = "stage0"
      BY <1>2, SMTT(30) DEF TypeInv, Separate, Sweeping, Idle, SessionOK, SessionJobs, CalibrateOK
    <2>2. CASE job' = Idle /\ UNCHANGED seps
      BY <2>2 DEF SeparationInv, TwoModels, Idle
    <2>3. ASSUME NEW p \in job.pairs,
                 seps' = seps \cup {[sweep |-> job.sweep, battery |-> p.battery, winner |-> p.winner,
                                     loser |-> p.loser, p |-> p.p]},
                 job' = [job EXCEPT !.pairs = @ \ {p}]
          PROVE  SeparationInv'
      <3>1. TwoModels(seps')
        BY <2>1, <2>3 DEF SeparationInv, TwoModels
      <3>2. job'.pairs \subseteq job.pairs
        BY <2>1, <2>3 DEF Stage0OK
      <3>3. QED
        BY <2>1, <3>1, <3>2 DEF SeparationInv, TwoModels
    <2>4. QED
      BY <1>2, <2>2, <2>3 DEF Separate
  <1>3. CASE EndRound
    <2>1. Stage0OK /\ UNCHANGED seps /\ job.cmd = "stage0"
      BY <1>3, Stage0Here DEF EndRound, Sweeping, Stage0OK
    <2>2. PICK left, phase : job' = [job EXCEPT !.left = left, !.spoilt = FALSE, !.phase = phase,
                                               !.pairs = IF left = <<>> THEN PairsOf(job.heard) ELSE {}]
      BY <1>3 DEF EndRound
    <2>3. job'.pairs = PairsOf(job.heard) \/ job'.pairs = {}
      BY <2>1, <2>2 DEF Stage0OK
    <2>4. QED
      BY <2>1, <2>3, PairsAreTwo DEF SeparationInv, TwoModels
  <1>4. CASE BeginRound \/ (\E r \in Stage0Results : Ask(r))
    <2>1. UNCHANGED seps /\ job.cmd = "stage0"
      BY <1>4 DEF BeginRound, Ask, Sweeping
    <2>2. CASE BeginRound
      <3>1. Stage0OK
        BY <2>2, Stage0Here DEF BeginRound
      <3>2. job' = [job EXCEPT !.phase = "ask", !.run = Len(runs) + 1] \/ job' = [job EXCEPT !.phase = "ask"]
        BY <2>2 DEF BeginRound
      <3>3. job'.pairs = job.pairs
        BY <3>1, <3>2 DEF Stage0OK
      <3>4. QED
        BY <2>1, <3>3 DEF SeparationInv, TwoModels
    <2>3. ASSUME NEW r \in Stage0Results, Ask(r)
          PROVE  SeparationInv'
      BY <2>1, <2>3, AskJob DEF SeparationInv, TwoModels
    <2>4. QED
      BY <1>4, <2>2, <2>3
  <1>5. CASE Stage0
    BY <1>5 DEF Stage0, SeparationInv, TwoModels, Typed, AtRest
  <1>6. CASE CalibrationStep \/ Calibrate
    <2>1. UNCHANGED seps /\ (job' = Idle \/ CalibrateOK')
      BY <1>6, CalibrationStepType, CalibrateType DEF tables
    <2>2. job'.cmd # "stage0"
      BY <2>1 DEF Idle, CalibrateOK
    <2>3. QED
      BY <2>1, <2>2 DEF SeparationInv, TwoModels
  <1>7. CASE Outside
    BY <1>7 DEF Outside, Tick, Kill, SeparationInv, TwoModels, tables, Idle
  <1>8. CASE SetupFails \/ Contract \/ Gate \/ (\E r \in Replies : Call(r)) \/ StoreRun
             \/ StoreIncident \/ StoreRow \/ Judge \/ Bench \/ Preflight
    <2>1. UNCHANGED seps
      BY <1>8 DEF SetupFails, Contract, Gate, Call, StoreRun, StoreIncident, StoreRow, Judge,
                  Bench, Preflight, tables
    <2>2. job'.cmd # "stage0"
      <3>1. CASE Bench \/ Preflight
        <4>1. todo # <<>> /\ todo[1].cmd \in {"bench", "preflight"} /\ job = Idle
          BY <3>1 DEF Bench, Preflight, Typed, AtRest
        <4>2. job' \in {Idle, Process(todo[1])}
          BY <3>1, <4>1 DEF Bench, Preflight
        <4>3. QED
          BY <4>1, <4>2, ProcessType DEF SessionJobs, Idle
      <3>2. CASE SetupFails \/ Contract \/ Gate \/ (\E r \in Replies : Call(r)) \/ StoreRun
                 \/ StoreIncident \/ StoreRow \/ Judge
        <4>1. Session
          BY <3>2 DEF SetupFails, Contract, Gate, Call, StoreRun, StoreIncident, StoreRow, Judge, At
        <4>2. QED
          BY <3>2, <4>1, SessionStays, SMTT(30) DEF SessionOK, SessionJobs, Idle
      <3>3. QED
        BY <1>8, <3>1, <3>2
    <2>3. QED
      BY <2>1, <2>2 DEF SeparationInv, TwoModels
  <1>9. QED
    BY <1>1, <1>2, <1>3, <1>4, <1>5, <1>6, <1>7, <1>8 DEF Next, Step, MeasuringStep, Command

\* The separated one of the two that lead gets the seat, in either order of the ranking.
LEMMA WinnerDecided ==
    ASSUME NEW winner, NEW loser, Directed(winner, loser) # {}, Directed(loser, winner) = {},
           Separated(Weighted(Directed(winner, loser)))
    PROVE  Decided(winner, loser) = winner /\ Decided(loser, winner) = winner
  <1>1. /\ OnPair(winner, loser) = Evidence(Directed(winner, loser), winner)
        /\ OnPair(loser, winner) = Evidence(Directed(winner, loser), winner)
    BY DEF OnPair
  <1>2. /\ Evidence(Directed(winner, loser), winner).p = Weighted(Directed(winner, loser))
        /\ Evidence(Directed(winner, loser), winner).supported = winner
    BY DEF Evidence
  <1>3. QED
    BY <1>1, <1>2 DEF Decided

\* With separations between two models, the separated one loses the seat.
LEMMA SeparatedVerdict == SeparationInv => SeparatedLoserNotPrimary
  <1>1. SUFFICES ASSUME SeparationInv, NEW p \in Separations(Anchor),
                        p.battery \in DOMAIN SeatWeights,
                        Separated(Weighted(Directed(p.winner, p.loser))),
                        Directed(p.loser, p.winner) = {},
                        Range(TopTwo) = {p.winner, p.loser}
                 PROVE  Primary # p.loser
    BY DEF SeparatedLoserNotPrimary
  <1>2. PICK winner, loser : winner = p.winner /\ loser = p.loser
    OBVIOUS
  <1>3. winner # loser
    BY <1>1, <1>2 DEF SeparationInv, TwoModels, Separations
  <1>4. Directed(winner, loser) # {}
    BY <1>1, <1>2 DEF Directed
  <1>5. TopTwo = <<>> \/ (\E a : TopTwo = <<a>>) \/ (\E a, b : TopTwo = <<a, b>>)
    BY DEF TopTwo
  <1>6. PICK a, b : TopTwo = <<a, b>>
    <2>1. TopTwo # <<>>
      <3>1. Range(<<>>) = {}
        BY DEF Range
      <3>2. QED
        BY <1>1, <3>1
    <2>2. \A a : TopTwo # <<a>>
      <3>1. ASSUME NEW a PROVE Range(<<a>>) = {a}
        BY DEF Range
      <3>2. QED
        BY <1>1, <1>2, <1>3, <3>1
    <2>3. QED
      BY <1>5, <2>1, <2>2
  <1>7. {a, b} = {winner, loser}
    <2>1. Range(<<a, b>>) = {a, b}
      BY DEF Range
    <2>2. QED
      BY <1>1, <1>2, <1>6, <2>1
  <1>8. Primary = Decided(a, b)
    <2>1. Len(TopTwo) = 2 /\ TopTwo[1] = a /\ TopTwo[2] = b
      BY <1>6
    <2>2. QED
      BY <2>1 DEF Primary
  <1>9. Decided(a, b) = winner
    <2>1. Decided(winner, loser) = winner /\ Decided(loser, winner) = winner
      BY <1>1, <1>2, <1>4, WinnerDecided
    <2>2. a # b
      <3>1. CASE a = b
        <4>1. winner = a /\ loser = a
          BY <1>7, <3>1
        <4>2. QED
          BY <1>3, <4>1
      <3>2. QED
        BY <3>1
    <2>3. a \in {winner, loser} /\ b \in {winner, loser}
      BY <1>7
    <2>4. (a = winner /\ b = loser) \/ (a = loser /\ b = winner)
      BY <2>2, <2>3
    <2>5. QED
      BY <2>1, <2>4
  <1>10. QED
    BY <1>2, <1>3, <1>8, <1>9

\* Of the two models that lead a seat, the one that is separated does not get it.
THEOREM SeatIsSeparated == Spec => []SeparatedLoserNotPrimary
  <1>1. Init => SeparationInv
    BY DEF Init, EvidenceInit, SeparationInv, TwoModels, Idle
  <1>2. TypeInv /\ SeparationInv /\ [Next]_vars => SeparationInv'
    BY SeparationStep
  <1>3. QED
    BY <1>1, <1>2, TypesKept, SeparatedVerdict, PTL DEF Spec

-----------------------------------------------------------------------------
(* Calibration                                                             *)

\* A part of n that lies between two multiples of n has its quotient between them.
LEMMA QuotientWithin ==
    ASSUME NEW a \in Nat, NEW n \in Nat \ {0}, NEW lo \in Nat, NEW hi \in Nat,
           a \in (lo * n)..(hi * n)
    PROVE  a \div n \in lo..hi
  <1>1. PICK q \in Int : q = a \div n
    OBVIOUS
  <1>2. PICK r \in Int : r = a % n
    OBVIOUS
  <1>3. a = n * q + r /\ r \in 0..(n - 1)
    BY <1>1, <1>2
  <1>4. q <= hi
    <2>1. SUFFICES ASSUME q > hi PROVE FALSE
      OBVIOUS
    <2>2. PICK d \in Nat : q = hi + 1 + d
      BY <2>1
    <2>3. n * q = n * hi + n + n * d
      BY <2>2
    <2>4. n * d >= 0 /\ n * hi = hi * n
      OBVIOUS
    <2>5. PICK x \in Int, y \in Int, z \in Int : x = n * q /\ y = n * hi /\ z = n * d
      OBVIOUS
    <2>6. a <= y
      BY <2>4, <2>5
    <2>7. QED
      BY <1>3, <2>3, <2>4, <2>5, <2>6
  <1>5. q >= lo
    <2>1. SUFFICES ASSUME q < lo PROVE FALSE
      OBVIOUS
    <2>2. PICK d \in Nat : lo = q + 1 + d
      BY <2>1
    <2>3. n * lo = n * q + n + n * d
      BY <2>2
    <2>4. n * d >= 0 /\ n * lo = lo * n
      OBVIOUS
    <2>5. PICK x \in Int, y \in Int, z \in Int : x = n * q /\ y = n * lo /\ z = n * d
      OBVIOUS
    <2>6. a >= y
      BY <2>4, <2>5
    <2>7. QED
      BY <1>3, <2>3, <2>4, <2>5, <2>6
  <1>6. QED
    BY <1>1, <1>4, <1>5

\* What a tier with the verdict "pass" has been heard on, and how it went.
LEMMA TierPass ==
    ASSUME NEW b \in DOMAIN Tier, NEW anchor, NEW got, NEW i \in DOMAIN Tier[b],
           Tier[b][i] \in DOMAIN AcceptanceBands, TierStatus(b, anchor, Tier[b][i], got) = "pass"
    PROVE  LET tier == OfTier(b, Tier[b][i])
               passed == {j \in tier : got[<<anchor, b, j>>].passed}
               band == AcceptanceBands[Tier[b][i]]
           IN  /\ \A j \in tier : <<anchor, b, j>> \in DOMAIN got /\ ~got[<<anchor, b, j>>].infra
               /\ (100 * Cardinality(passed)) \div Cardinality(tier) \in band[1]..band[2]
  <1> DEFINE t == Tier[b][i]
             tier == OfTier(b, t)
             passed == {j \in tier : got[<<anchor, b, j>>].passed}
             heard == MeasuredOf(b, anchor, t, got)
  <1>1. /\ heard = tier /\ (\A j \in heard : ~got[<<anchor, b, j>>].infra)
        /\ WithinBand(b, anchor, t, got)
    BY DEF TierStatus
  <1>2. \A j \in tier : <<anchor, b, j>> \in DOMAIN got
    BY <1>1 DEF MeasuredOf
  <1>3. i \in tier /\ tier \in SUBSET (1..Len(Tier[b])) /\ Len(Tier[b]) \in Nat
    <2>1. Tier[b] \in Seq(Nat)
      BY CalibrationAssumption
    <2>2. QED
      BY <2>1 DEF OfTier
  <1>4. IsFiniteSet(tier) /\ IsFiniteSet(passed)
    <2>1. IsFiniteSet(1..Len(Tier[b]))
      BY <1>3, FS_Interval
    <2>2. IsFiniteSet(tier)
      BY <1>3, <2>1, FS_Subset
    <2>3. passed \in SUBSET tier
      OBVIOUS
    <2> HIDE DEF passed, tier
    <2>4. QED
      BY <2>2, <2>3, FS_Subset
  <1>5. Cardinality(tier) \in Nat \ {0} /\ Cardinality(passed) \in Nat
    <2>1. tier # {}
      BY <1>3
    <2> HIDE DEF passed, tier
    <2>2. Cardinality(tier) \in Nat /\ Cardinality(passed) \in Nat
      BY <1>4, FS_CardinalityType
    <2>3. Cardinality(tier) # 0
      BY <1>4, <2>1, FS_EmptySet
    <2>4. QED
      BY <2>2, <2>3
  <1>6. PICK lo \in Nat, hi \in Nat : lo = AcceptanceBands[t][1] /\ hi = AcceptanceBands[t][2]
    <2>1. AcceptanceBands[t] \in Nat \X Nat
      BY CalibrationAssumption
    <2>2. QED
      BY <2>1
  <1>7. 100 * Cardinality(passed) \in (lo * Cardinality(tier))..(hi * Cardinality(tier))
    <2>1. {j \in heard : got[<<anchor, b, j>>].passed} = passed
      BY <1>1
    <2>2. QED
      BY <1>1, <1>6, <2>1 DEF WithinBand
  <1> HIDE DEF passed, tier, t
  <1>8. PICK n \in Nat \ {0}, a \in Nat : n = Cardinality(tier) /\ a = 100 * Cardinality(passed)
    BY <1>5
  <1>9. a \div n \in lo..hi
    BY <1>7, <1>8, QuotientWithin
  <1>10. QED
    BY <1>1, <1>2, <1>6, <1>8, <1>9 DEF t, tier, passed

\* A battery passes only if all its tiers do, and has one.
LEMMA BatteryPass ==
    ASSUME NEW b, NEW anchor, NEW got, BatteryStatus(b, anchor, got) = "pass"
    PROVE  LET judged == {i \in DOMAIN Tier[b] : Tier[b][i] \in DOMAIN AcceptanceBands}
           IN  judged # {} /\ \A i \in judged : TierStatus(b, anchor, Tier[b][i], got) = "pass"
  <1> DEFINE statuses == {TierStatus(b, anchor, tier, got) :
                             tier \in Range(Tier[b]) \cap DOMAIN AcceptanceBands}
             judged == {i \in DOMAIN Tier[b] : Tier[b][i] \in DOMAIN AcceptanceBands}
  <1>1. statuses # {} /\ "inconclusive" \notin statuses /\ "fail" \notin statuses
    BY DEF BatteryStatus
  <1>2. ASSUME NEW i \in judged
        PROVE  TierStatus(b, anchor, Tier[b][i], got) = "pass"
    <2>1. TierStatus(b, anchor, Tier[b][i], got) \in statuses
      BY DEF Range
    <2>2. TierStatus(b, anchor, Tier[b][i], got) \in {"pass", "fail", "inconclusive"}
      BY DEF TierStatus
    <2> HIDE DEF statuses
    <2>3. QED
      BY <1>1, <2>1, <2>2
  <1>3. judged # {}
    BY <1>1 DEF Range
  <1>4. QED
    BY <1>2, <1>3

\* The report of a process that could write its rows is one of rows that are all there.
LEMMA PersistComplete ==
    ASSUME TypeInv, PassIsComplete, Persist
    PROVE  PassIsComplete'
  <1>1. CASE UNCHANGED calibration
    BY <1>1 DEF PassIsComplete, calibration
  <1>2. CASE /\ events' = Over([k \in {job.pool} \X DOMAIN job.got |-> job.got[k[2]]], events)
             /\ report' = [pool |-> job.pool, verdicts |-> Verdicts]
    <2>1. CalibrateOK
      <3>1. job.cmd = "calibrate"
        BY DEF Persist, Calibrating
      <3>2. QED
        BY <3>1 DEF TypeInv, Idle, SessionOK, SessionJobs, Stage0OK
    <2>2. PICK pool, got : pool = job.pool /\ got = job.got
      OBVIOUS
    <2>3. \A q \in DOMAIN got : <<pool, q>> \in DOMAIN events' /\ events'[<<pool, q>>] = got[q]
      BY <1>2, <2>2 DEF Over
    <2>4. report'.pool = pool /\ report'.verdicts = Verdicts
      BY <1>2, <2>2
    <2>5. SUFFICES ASSUME NEW v \in Verdicts, v.status = "pass"
          PROVE  LET judged == {i \in DOMAIN Tier[v.battery] : Tier[v.battery][i] \in DOMAIN AcceptanceBands}
                     key(i) == <<pool, <<v.anchor, v.battery, i>>>>
                     tier(i) == {j \in judged : Tier[v.battery][j] = Tier[v.battery][i]}
                     passed(i) == {j \in tier(i) : events'[key(j)].passed}
                 IN  /\ judged # {}
                     /\ \A i \in judged : key(i) \in DOMAIN events' /\ ~events'[key(i)].infra
                     /\ \A i \in judged :
                            LET band == AcceptanceBands[Tier[v.battery][i]]
                                share == (100 * Cardinality(passed(i))) \div Cardinality(tier(i))
                            IN  share \in band[1]..band[2]
      BY <2>4 DEF PassIsComplete
    <2>6. PICK b \in job.pool, anchor \in job.anchors :
              v = [battery |-> b, anchor |-> anchor, status |-> BatteryStatus(b, anchor, job.got)]
      BY DEF Verdicts
    <2>7. v.battery = b /\ v.anchor = anchor /\ BatteryStatus(b, anchor, got) = "pass" /\ b \in DOMAIN Tier
      BY <2>1, <2>2, <2>5, <2>6 DEF CalibrateOK
    <2> DEFINE judged == {i \in DOMAIN Tier[b] : Tier[b][i] \in DOMAIN AcceptanceBands}
               key(i) == <<pool, <<anchor, b, i>>>>
               tier(i) == {j \in judged : Tier[b][j] = Tier[b][i]}
               passed(i) == {j \in tier(i) : events'[key(j)].passed}
    <2>8. judged # {} /\ \A i \in judged : TierStatus(b, anchor, Tier[b][i], got) = "pass"
      BY <2>7, BatteryPass
    <2>9. ASSUME NEW i \in judged
          PROVE  /\ key(i) \in DOMAIN events' /\ ~events'[key(i)].infra
                 /\ (100 * Cardinality(passed(i))) \div Cardinality(tier(i))
                        \in AcceptanceBands[Tier[b][i]][1]..AcceptanceBands[Tier[b][i]][2]
      <3>1. tier(i) = OfTier(b, Tier[b][i]) /\ i \in OfTier(b, Tier[b][i])
        BY DEF OfTier
      <3>a. /\ b \in DOMAIN Tier /\ i \in DOMAIN Tier[b] /\ Tier[b][i] \in DOMAIN AcceptanceBands
            /\ TierStatus(b, anchor, Tier[b][i], got) = "pass"
        BY <2>7, <2>8
      <3>2. LET ofTier == OfTier(b, Tier[b][i])
                well == {j \in ofTier : got[<<anchor, b, j>>].passed}
                band == AcceptanceBands[Tier[b][i]]
            IN  /\ \A j \in ofTier : <<anchor, b, j>> \in DOMAIN got /\ ~got[<<anchor, b, j>>].infra
                /\ (100 * Cardinality(well)) \div Cardinality(ofTier) \in band[1]..band[2]
        BY <3>a, TierPass
      <3>3. \A j \in OfTier(b, Tier[b][i]) :
                key(j) \in DOMAIN events' /\ events'[key(j)] = got[<<anchor, b, j>>]
        BY <2>3, <3>2
      <3>4. passed(i) = {j \in OfTier(b, Tier[b][i]) : got[<<anchor, b, j>>].passed}
        BY <3>1, <3>3
      <3>5. QED
        BY <3>1, <3>2, <3>3, <3>4
    <2>10. QED
      BY <2>7, <2>8, <2>9
  <1>3. QED
    BY <1>1, <1>2 DEF Persist

\* A battery the last report calls calibrated was measured in full.
THEOREM CalibratedInFull == Spec => []PassIsComplete
  <1>1. Init => PassIsComplete
    BY DEF Init, PassIsComplete
  <1>2. TypeInv /\ PassIsComplete /\ [Next]_vars => PassIsComplete'
    <2>1. SUFFICES ASSUME TypeInv, PassIsComplete, [Next]_vars PROVE PassIsComplete'
      OBVIOUS
    <2>2. CASE Persist
      BY <2>1, <2>2, PersistComplete
    <2>3. CASE ~Persist
      <3>1. UNCHANGED calibration
        BY <2>1, <2>3 DEF Next, Step, Command, Outside, CalibrationStep, LoadRecorded, ProbeRaises,
                          AskAnchor, Calibrate, vars
      <3>2. QED
        BY <2>1, <3>1 DEF PassIsComplete, calibration
    <2>4. QED
      BY <2>2, <2>3
  <1>3. QED
    BY <1>1, <1>2, TypesKept, PTL DEF Spec

-----------------------------------------------------------------------------
(* Separations and rows                                                    *)

\* The k-th number of a set is one of it.
LEMMA NthIn ==
    ASSUME NEW n \in Nat, NEW S \in SUBSET (1..n), NEW k \in Nat, 1 <= k, k <= Cardinality(S)
    PROVE  Nth(S, k) \in S
  <1> DEFINE A == {i \in S : Cardinality({j \in S : j <= i}) = k}
  <1>1. A # {}
    <2>1. \E i \in S : Cardinality({j \in S : j <= i}) = k
      BY HasRank
    <2>2. QED
      BY <2>1
  <1>2. A \in SUBSET Nat /\ A \in SUBSET S
    <2>1. \A i \in S : i \in Nat
      OBVIOUS
    <2>2. A \subseteq S
      OBVIOUS
    <2> HIDE DEF A
    <2>3. QED
      BY <2>1, <2>2
  <1>3. Min(A) \in A
    <2> HIDE DEF A
    <2>1. \E x \in A : \A y \in A : x <= y
      BY <1>1, <1>2, LeastNat
    <2>2. QED
      BY <2>1 DEF Min
  <1>4. QED
    BY <1>2, <1>3 DEF Nth

\* A set of numbers that gets a greater one keeps the places of the others.
LEMMA NthNext ==
    ASSUME NEW n \in Nat, NEW S \in SUBSET (1..n), NEW T, T = S \cup {n + 1}
    PROVE  /\ Cardinality(S) \in Nat /\ Cardinality(T) = Cardinality(S) + 1
           /\ \A k \in 1..Cardinality(S) : Nth(T, k) = Nth(S, k)
           /\ Nth(T, Cardinality(S) + 1) = n + 1
  <1> DEFINE upto(X, i) == {j \in X : j <= i}
             rank(X, i) == Cardinality(upto(X, i))
  <1>1. IsFiniteSet(1..n) /\ \A j \in S : j \in 1..n
    BY FS_Interval
  <1>2. IsFiniteSet(S) /\ Cardinality(S) \in Nat
    BY <1>1, FS_Subset, FS_CardinalityType, ZenonT(30)
  <1>3. n + 1 \notin S /\ n + 1 <= n + 1 /\ \A j \in S : j <= n + 1 /\ ~(n + 1 <= j)
    BY <1>1
  <1>4. Cardinality(T) = Cardinality(S) + 1
    BY <1>2, <1>3, FS_AddElement
  <1>5. \A i \in S : upto(T, i) = upto(S, i) /\ upto(S, i) \in SUBSET S
    BY <1>3
  <1>6. upto(T, n + 1) = T
    BY <1>3
  <1> HIDE DEF upto
  <1>7. \A i \in S : rank(T, i) = rank(S, i) /\ rank(S, i) \in Nat /\ rank(S, i) <= Cardinality(S)
    BY <1>2, <1>5, FS_Subset, FS_CardinalityType
  <1>8. rank(T, n + 1) = Cardinality(S) + 1
    BY <1>4, <1>6
  <1> HIDE DEF rank
  <1>9. ASSUME NEW k \in 1..Cardinality(S)
        PROVE  Nth(T, k) = Nth(S, k)
    <2>1. rank(T, n + 1) # k
      BY <1>2, <1>8
    <2>2. {i \in T : rank(T, i) = k} = {i \in S : rank(S, i) = k}
      BY <1>7, <2>1
    <2>3. QED
      BY <2>2 DEF Nth, rank, upto
  <1>10. Nth(T, Cardinality(S) + 1) = n + 1
    <2>1. Min({n + 1}) = n + 1
      BY <1>3 DEF Min
    <2>2. ASSUME NEW i \in S
          PROVE  rank(T, i) # Cardinality(S) + 1
      <3>1. PICK size \in Nat : size = Cardinality(S)
        BY <1>2
      <3>2. PICK place \in Nat : place = rank(T, i) /\ place <= size
        <4>1. rank(T, i) \in Nat /\ rank(T, i) <= Cardinality(S)
          BY <1>7
        <4>2. QED
          BY <3>1, <4>1
      <3>3. QED
        BY <3>1, <3>2
    <2>3. {i \in T : rank(T, i) = Cardinality(S) + 1} = {n + 1}
      <3>1. n + 1 \in T /\ \A i \in T : i \in S \/ i = n + 1
        OBVIOUS
      <3>2. QED
        BY <1>8, <2>2, <3>1
    <2>4. QED
      BY <2>1, <2>3 DEF Nth, rank, upto
  <1>11. QED
    BY <1>2, <1>4, <1>9, <1>10

\* A function of no number gives no value, and one more number one more value at the end.
LEMMA InOrderNext ==
    ASSUME NEW n \in Nat, NEW f, NEW g, DOMAIN f \in SUBSET (1..n), DOMAIN g = DOMAIN f \cup {n + 1},
           \A i \in DOMAIN f : g[i] = f[i]
    PROVE  InOrder(g) = Append(InOrder(f), g[n + 1])
  <1> DEFINE S == DOMAIN f
             T == DOMAIN g
             size == Cardinality(S)
  <1>1. /\ size \in Nat /\ Cardinality(T) = size + 1 /\ Nth(T, size + 1) = n + 1
        /\ \A k \in 1..size : Nth(T, k) = Nth(S, k)
    BY NthNext
  <1>2. \A k \in 1..size : Nth(S, k) \in S
    BY NthIn
  <1>3. \A k \in 1..size : g[Nth(T, k)] = f[Nth(S, k)]
    BY <1>1, <1>2
  <1> HIDE DEF S, T, size
  <1>4. PICK last : last = g[n + 1]
    OBVIOUS
  <1>5. InOrder(g) = [k \in 1..(size + 1) |-> IF k = size + 1 THEN last ELSE f[Nth(S, k)]]
    <2>1. InOrder(g) = [k \in 1..(size + 1) |-> g[Nth(T, k)]]
      BY <1>1 DEF InOrder, T
    <2>2. \A k \in 1..(size + 1) : g[Nth(T, k)] = IF k = size + 1 THEN last ELSE f[Nth(S, k)]
      BY <1>1, <1>3, <1>4
    <2>3. QED
      BY <2>1, <2>2
  <1>6. InOrder(f) = [k \in 1..size |-> f[Nth(S, k)]]
    BY DEF InOrder, S, size
  <1>7. InOrder(f) \in Seq({f[i] : i \in S}) /\ Len(InOrder(f)) = size
    BY <1>1, <1>2, <1>6
  <1>8. Append(InOrder(f), last) = [k \in 1..(size + 1) |-> IF k = size + 1 THEN last ELSE f[Nth(S, k)]]
    <2>1. /\ DOMAIN Append(InOrder(f), last) = 1..(size + 1)
          /\ \A k \in 1..size : Append(InOrder(f), last)[k] = InOrder(f)[k]
          /\ Append(InOrder(f), last)[size + 1] = last
      BY <1>1, <1>6
    <2>2. QED
      BY <1>1, <1>6, <2>1
  <1>9. QED
    BY <1>4, <1>5, <1>8

\* The scores of an item are those of its rows, and what is heard is what the rows of
\* the sweep say, item by item.
AsRows(heard, rs, s, cell, item) ==
    /\ <<cell, item>> \in DOMAIN heard <=> DOMAIN ItemRows(rs, s, cell, item) # {}
    /\ <<cell, item>> \in DOMAIN heard => heard[<<cell, item>>] = InOrder(ItemRows(rs, s, cell, item))

HeardIs(rs, heard, s) == \A cell, item : AsRows(heard, rs, s, cell, item)

\* The rows of a sweep give this separation.
FromRows(rs, s, p) ==
    LET a == IF Position(p.winner) < Position(p.loser) THEN p.winner ELSE p.loser
        b == IF a = p.winner THEN p.loser ELSE p.winner
        rows == Over(RowScores(rs, s, a, p.battery), RowScores(rs, s, b, p.battery))
    IN  PairOf(a, b, p.battery, rows)
          = {[battery |-> p.battery, winner |-> p.winner, loser |-> p.loser, p |-> p.p]}

\* A pair is compared by the scores of its items alone.
LEMMA PairOfSame ==
    ASSUME NEW a, NEW b, NEW battery, NEW f, NEW g,
           \A m \in {a, b}, item \in Items(battery) :
               /\ <<<<m, battery>>, item>> \in DOMAIN f <=> <<<<m, battery>>, item>> \in DOMAIN g
               /\ <<<<m, battery>>, item>> \in DOMAIN f
                      => f[<<<<m, battery>>, item>>] = g[<<<<m, battery>>, item>>]
    PROVE  PairOf(a, b, battery, f) = PairOf(a, b, battery, g)
  <1> DEFINE x == <<a, battery>>
             y == <<b, battery>>
             scores(h, m) == [t \in Shared(x, y, f) |-> h[<<<<m, battery>>, t[1]>>][t[2]]]
  <1>1. Items(x[2]) = Items(battery)
    OBVIOUS
  <1>2. Shared(x, y, g) = Shared(x, y, f)
    <2>1. ASSUME NEW t \in Items(battery) \X (1..Rounds)
          PROVE  /\ {<<x, t[1]>>, <<y, t[1]>>} \subseteq DOMAIN f
                    /\ t[2] <= Shorter(f[<<x, t[1]>>], f[<<y, t[1]>>])
                 <=> /\ {<<x, t[1]>>, <<y, t[1]>>} \subseteq DOMAIN g
                     /\ t[2] <= Shorter(g[<<x, t[1]>>], g[<<y, t[1]>>])
      <3>1. t[1] \in Items(battery)
        OBVIOUS
      <3>2. PICK item \in Items(battery) : item = t[1]
        BY <3>1
      <3>3. CASE {<<x, item>>, <<y, item>>} \subseteq DOMAIN f
        <4>1. f[<<x, item>>] = g[<<x, item>>] /\ f[<<y, item>>] = g[<<y, item>>]
          BY <3>3
        <4>2. {<<x, item>>, <<y, item>>} \subseteq DOMAIN g
          BY <3>3
        <4>3. QED
          BY <3>2, <3>3, <4>1, <4>2
      <3>4. CASE ~({<<x, item>>, <<y, item>>} \subseteq DOMAIN f)
        <4>1. ~({<<x, item>>, <<y, item>>} \subseteq DOMAIN g)
          BY <3>4
        <4>2. QED
          BY <3>2, <3>4, <4>1
      <3>5. QED
        BY <3>3, <3>4
    <2> HIDE DEF x, y
    <2>2. QED
      BY <1>1, <2>1 DEF Shared
  <1>3. ASSUME NEW m \in {a, b}
        PROVE  scores(g, m) = scores(f, m)
    <2>1. ASSUME NEW t \in Shared(x, y, f)
          PROVE  g[<<<<m, battery>>, t[1]>>] = f[<<<<m, battery>>, t[1]>>]
      <3>1. t[1] \in Items(battery) /\ {<<x, t[1]>>, <<y, t[1]>>} \subseteq DOMAIN f
        BY <1>1 DEF Shared
      <3>2. <<<<m, battery>>, t[1]>> \in DOMAIN f
        BY <3>1
      <3>3. QED
        BY <3>1, <3>2
    <2>2. QED
      BY <2>1
  <1>4. /\ PairOf(a, b, battery, f) =
               IF Shared(x, y, f) = {} THEN {}
               ELSE IF Ahead(scores(f, a), scores(f, b)) >= Ahead(scores(f, b), scores(f, a))
               THEN {[battery |-> battery, winner |-> a, loser |-> b,
                      p |-> Confidence(Ahead(scores(f, a), scores(f, b)))]}
               ELSE {[battery |-> battery, winner |-> b, loser |-> a,
                      p |-> Confidence(Ahead(scores(f, b), scores(f, a)))]}
        /\ PairOf(a, b, battery, g) =
               IF Shared(x, y, f) = {} THEN {}
               ELSE IF Ahead(scores(g, a), scores(g, b)) >= Ahead(scores(g, b), scores(g, a))
               THEN {[battery |-> battery, winner |-> a, loser |-> b,
                      p |-> Confidence(Ahead(scores(g, a), scores(g, b)))]}
               ELSE {[battery |-> battery, winner |-> b, loser |-> a,
                      p |-> Confidence(Ahead(scores(g, b), scores(g, a)))]}
    BY <1>2 DEF PairOf
  <1> HIDE DEF x, y, scores
  <1>5. scores(g, a) = scores(f, a) /\ scores(g, b) = scores(f, b)
    BY <1>3
  <1>6. QED
    BY <1>4, <1>5

\* The scores of two models from the rows, item by item.
LEMMA RowScoresAre ==
    ASSUME NEW rs, NEW s, NEW a, NEW b, a # b, NEW battery, NEW rows,
           rows = Over(RowScores(rs, s, a, battery), RowScores(rs, s, b, battery))
    PROVE  \A m \in {a, b}, item \in Items(battery) : AsRows(rows, rs, s, <<m, battery>>, item)
  <1> SUFFICES ASSUME NEW m \in {a, b}, NEW item \in Items(battery)
               PROVE  AsRows(rows, rs, s, <<m, battery>>, item)
    OBVIOUS
  <1> DEFINE x == <<<<m, battery>>, item>>
  <1>1. ASSUME NEW c \in {a, b}
        PROVE  /\ x \in DOMAIN RowScores(rs, s, c, battery)
                      <=> c = m /\ DOMAIN ItemRows(rs, s, <<m, battery>>, item) # {}
               /\ x \in DOMAIN RowScores(rs, s, c, battery)
                      => RowScores(rs, s, c, battery)[x] = InOrder(ItemRows(rs, s, <<m, battery>>, item))
    <2> DEFINE items == {i \in Items(battery) : DOMAIN ItemRows(rs, s, <<c, battery>>, i) # {}}
    <2>1. RowScores(rs, s, c, battery) =
              [y \in {<<c, battery>>} \X items |-> InOrder(ItemRows(rs, s, y[1], y[2]))]
      BY DEF RowScores
    <2>2. item \in items <=> DOMAIN ItemRows(rs, s, <<c, battery>>, item) # {}
      OBVIOUS
    <2>3. x[1] = <<m, battery>> /\ x[2] = item
      OBVIOUS
    <2>4. x \in {<<c, battery>>} \X items <=> c = m /\ item \in items
      <3> HIDE DEF items
      <3>1. QED
        OBVIOUS
    <2>5. DOMAIN RowScores(rs, s, c, battery) = {<<c, battery>>} \X items
      BY <2>1
    <2>6. x \in {<<c, battery>>} \X items => RowScores(rs, s, c, battery)[x] = InOrder(ItemRows(rs, s, x[1], x[2]))
      <3> HIDE DEF items, x
      <3>1. QED
        BY <2>1
    <2> HIDE DEF items, x
    <2>7. QED
      BY <2>2, <2>3, <2>4, <2>5, <2>6
  <1> HIDE DEF x
  <1>2. /\ x \in DOMAIN rows <=> x \in DOMAIN RowScores(rs, s, a, battery) \/ x \in DOMAIN RowScores(rs, s, b, battery)
        /\ x \in DOMAIN rows => rows[x] = IF x \in DOMAIN RowScores(rs, s, a, battery)
                                         THEN RowScores(rs, s, a, battery)[x] ELSE RowScores(rs, s, b, battery)[x]
    BY DEF Over
  <1>3. QED
    BY <1>1, <1>2 DEF x, AsRows

\* A model is at one place of the fleet.
LEMMA PositionIs ==
    ASSUME NEW i \in DOMAIN Ranked
    PROVE  Position(Ranked[i]) = i
  <1>1. \A j \in DOMAIN Ranked : Ranked[j] = Ranked[i] => j = i
    BY Stage0Assumption
  <1>2. QED
    BY <1>1 DEF Position

\* Where what is heard is in the rows, they give the pairs that are made of it.
LEMMA PairsFromRows ==
    ASSUME NEW rs, NEW s, NEW heard, HeardIs(rs, heard, s), NEW p \in PairsOf(heard)
    PROVE  p.battery \in Pool /\ FromRows(rs, s, p)
  <1>1. PICK ij \in {x \in (DOMAIN Ranked) \X (DOMAIN Ranked) : x[1] < x[2]}, battery \in Pool :
            p \in PairOf(Ranked[ij[1]], Ranked[ij[2]], battery, heard)
    BY DEF PairsOf
  <1>2. PICK i \in DOMAIN Ranked, j \in DOMAIN Ranked : i = ij[1] /\ j = ij[2] /\ i < j
    BY <1>1
  <1>3. PICK a, b : a = Ranked[i] /\ b = Ranked[j]
    OBVIOUS
  <1>4. Position(a) = i /\ Position(b) = j /\ i \in Nat /\ j \in Nat
    BY <1>3, PositionIs, Stage0Assumption
  <1>5. a # b /\ Position(a) < Position(b) /\ ~(Position(b) < Position(a))
    BY <1>2, <1>4
  <1>6. p \in PairOf(a, b, battery, heard)
    BY <1>1, <1>2, <1>3
  <1>7. PICK rows : rows = Over(RowScores(rs, s, a, battery), RowScores(rs, s, b, battery))
    OBVIOUS
  <1>8. PairOf(a, b, battery, rows) = PairOf(a, b, battery, heard)
    <2>1. \A m \in {a, b}, item \in Items(battery) : AsRows(rows, rs, s, <<m, battery>>, item)
      <3>1. a # b
        BY <1>5
      <3>2. QED
        BY <1>7, <3>1, RowScoresAre
    <2>2. ASSUME NEW m \in {a, b}, NEW item \in Items(battery)
          PROVE  /\ <<<<m, battery>>, item>> \in DOMAIN rows <=> <<<<m, battery>>, item>> \in DOMAIN heard
                 /\ <<<<m, battery>>, item>> \in DOMAIN rows
                        => rows[<<<<m, battery>>, item>>] = heard[<<<<m, battery>>, item>>]
      BY <2>1 DEF HeardIs, AsRows
    <2>3. QED
      BY <2>2, PairOfSame
  <1>9. PICK c : \/ /\ p = [battery |-> battery, winner |-> a, loser |-> b, p |-> c]
                    /\ PairOf(a, b, battery, heard) = {p}
                 \/ /\ p = [battery |-> battery, winner |-> b, loser |-> a, p |-> c]
                    /\ PairOf(a, b, battery, heard) = {p}
    BY <1>6 DEF PairOf
  <1>10. /\ p.battery = battery
         /\ p = [battery |-> p.battery, winner |-> p.winner, loser |-> p.loser, p |-> p.p]
         /\ \/ p.winner = a /\ p.loser = b
            \/ p.winner = b /\ p.loser = a
    BY <1>9
  <1>11. PairOf(a, b, p.battery, Over(RowScores(rs, s, a, p.battery), RowScores(rs, s, b, p.battery)))
           = {[battery |-> p.battery, winner |-> p.winner, loser |-> p.loser, p |-> p.p]}
    BY <1>7, <1>8, <1>9, <1>10
  <1>12. CASE p.winner = a /\ p.loser = b
    BY <1>5, <1>10, <1>11, <1>12 DEF FromRows
  <1>13. CASE p.winner = b /\ p.loser = a
    BY <1>5, <1>10, <1>11, <1>13 DEF FromRows
  <1>14. QED
    BY <1>10, <1>12, <1>13

\* A run that is added without rows adds no row to any item.
LEMMA AddedRows ==
    ASSUME TypeInv, NEW run, Added(run), DOMAIN run.scores = {}
    PROVE  \A s, cell, item : ItemRows(runs', s, cell, item) = ItemRows(runs, s, cell, item)
  <1>1. SUFFICES ASSUME NEW s, NEW cell, NEW item
                 PROVE  ItemRows(runs', s, cell, item) = ItemRows(runs, s, cell, item)
    OBVIOUS
  <1>2. /\ Len(runs) \in Nat /\ DOMAIN runs = 1..Len(runs) /\ DOMAIN runs' = 1..(Len(runs) + 1)
        /\ runs'[Len(runs) + 1] = run /\ \A i \in DOMAIN runs : runs'[i] = runs[i]
    BY AppendProperties DEF TypeInv, Added
  <1>3. DOMAIN ItemRows(runs', s, cell, item) = DOMAIN ItemRows(runs, s, cell, item)
    BY <1>2 DEF ItemRows
  <1>4. \A i \in DOMAIN ItemRows(runs, s, cell, item) : runs'[i] = runs[i]
    BY <1>2 DEF ItemRows
  <1>5. QED
    BY <1>3, <1>4 DEF ItemRows

\* A run that changes changes the rows of its own sweep and cell, and of the items that
\* it has scored otherwise.
LEMMA ChangedRows ==
    ASSUME TypeInv, NEW run, Changed(run), NEW s, NEW cell, NEW item,
           \/ run.sweep # s
           \/ <<run.model, run.battery>> # cell
           \/ /\ item \in DOMAIN run.scores <=> item \in DOMAIN runs[job.run].scores
              /\ item \in DOMAIN run.scores => run.scores[item] = runs[job.run].scores[item]
    PROVE  ItemRows(runs', s, cell, item) = ItemRows(runs, s, cell, item)
  <1>1. /\ runs \in Seq(Runs) /\ DOMAIN runs' = DOMAIN runs /\ job.run \in DOMAIN runs
        /\ runs'[job.run] = run /\ \A i \in DOMAIN runs : i # job.run => runs'[i] = runs[i]
    BY DEF TypeInv, Changed
  <1>2. /\ run.sweep = runs[job.run].sweep /\ run.model = runs[job.run].model
        /\ run.battery = runs[job.run].battery
    BY DEF Changed
  <1> DEFINE has(rs, i) == /\ rs[i].sweep = s /\ <<rs[i].model, rs[i].battery>> = cell
                           /\ item \in DOMAIN rs[i].scores
  <1>3. \A i \in DOMAIN runs : has(runs', i) <=> has(runs, i)
    BY <1>1, <1>2
  <1>4. \A i \in DOMAIN runs : has(runs, i) => runs'[i].scores[item] = runs[i].scores[item]
    BY <1>1, <1>2
  <1>5. /\ ItemRows(runs, s, cell, item) = [i \in {k \in DOMAIN runs : has(runs, k)} |-> runs[i].scores[item]]
        /\ ItemRows(runs', s, cell, item) = [i \in {k \in DOMAIN runs' : has(runs', k)} |-> runs'[i].scores[item]]
    BY DEF ItemRows
  <1> HIDE DEF has
  <1>6. {k \in DOMAIN runs' : has(runs', k)} = {k \in DOMAIN runs : has(runs, k)}
    BY <1>1, <1>3
  <1>7. QED
    BY <1>4, <1>5, <1>6

\* What a sweep in the database has heard is what the rows of its runs say; the run of
\* the round is the last one, and has rows only of items that were asked.
HeardInv ==
    job.cmd = "stage0" => (job.database =>
        /\ HeardIs(runs, job.heard, job.sweep)
        /\ job.phase \in {"ask", "close"} =>
               job.run = Len(runs) /\ <<runs[job.run].model, runs[job.run].battery>> = job.left[1]
        /\ job.phase = "ask" => \A item \in DOMAIN runs[job.run].scores : item < job.item)

\* The values of no number are none.
LEMMA InOrderEmpty ==
    ASSUME NEW f, DOMAIN f = {}
    PROVE  InOrder(f) = <<>>
  <1>1. Cardinality(DOMAIN f) = 0
    BY FS_EmptySet
  <1>2. InOrder(f) = [k \in 1..0 |-> f[Nth(DOMAIN f, k)]]
    BY <1>1 DEF InOrder
  <1>3. QED
    BY <1>2

\* A graded call adds to what is heard of the item asked what its new row says.
LEMMA AskHeard ==
    ASSUME TypeInv, RoundInv, HeardInv, NEW r, Ask(r), job.database,
           Changed(WithRow(runs[job.run], job.item, r)), NEW s, s = job.sweep,
           NEW heard, heard = WithHeard(r), NEW cell, NEW item
    PROVE  AsRows(heard, runs', s, cell, item)
  <1>1. /\ Stage0OK /\ job.phase = "ask" /\ job.item \in Nat /\ job.cmd = "stage0"
    BY AskJob DEF Stage0OK
  <1>2. /\ runs \in Seq(Runs) /\ Len(runs) \in Nat /\ DOMAIN runs = 1..Len(runs)
        /\ job.run = Len(runs) /\ job.run \in DOMAIN runs
    BY <1>1 DEF TypeInv, HeardInv, Stage0OK
  <1>3. PICK n, k, i, c : /\ n = Len(runs) - 1 /\ k = Len(runs) /\ i = job.item /\ c = job.left[1]
                          /\ n \in Nat /\ k \in Nat /\ i \in Nat /\ k = n + 1 /\ k = job.run
    BY <1>1, <1>2
  <1>4. PICK old \in Runs : old = runs[k]
    BY <1>2, <1>3
  <1>5. PICK row : row = WithRow(old, i, r)
    OBVIOUS
  <1>6. /\ row.sweep = old.sweep /\ row.model = old.model /\ row.battery = old.battery
        /\ row.scores = Entered(old.scores, i, Grade(r))
    <2>1. old \in Runs /\ i \in Nat
      BY <1>3, <1>4
    <2>2. row.sweep = old.sweep
      BY <1>5, <2>1, WithRowType, ZenonT(30)
    <2>3. row.model = old.model
      BY <1>5, <2>1, WithRowType, ZenonT(30)
    <2>4. row.battery = old.battery
      BY <1>5, <2>1, WithRowType, ZenonT(30)
    <2>5. row.scores = Entered(old.scores, i, Grade(r))
      <3>1. WithRow(old, i, r).scores = Entered(old.scores, i, Grade(r))
        BY <2>1, WithRowType, ZenonT(30)
      <3>2. QED
        BY <1>5, <3>1
    <2>6. QED
      BY <2>2, <2>3, <2>4, <2>5
  <1>7. Changed(row) /\ DOMAIN runs' = DOMAIN runs /\ runs'[k] = row
        /\ \A l \in DOMAIN runs : l # k => runs'[l] = runs[l]
    BY <1>2, <1>3, <1>4, <1>5 DEF Changed
  <1>8. old.sweep = s /\ <<old.model, old.battery>> = c /\ \A x \in DOMAIN old.scores : x < i
    BY <1>1, <1>3, <1>4 DEF HeardInv, RoundInv, Sweeping
  <1>9. PICK f, g : f = ItemRows(runs, s, cell, item) /\ g = ItemRows(runs', s, cell, item)
    OBVIOUS
  <1>10. /\ <<cell, item>> \in DOMAIN job.heard <=> DOMAIN f # {}
         /\ <<cell, item>> \in DOMAIN job.heard => job.heard[<<cell, item>>] = InOrder(f)
    BY <1>1, <1>9 DEF HeardInv, HeardIs, AsRows
  <1>11. heard = Entered(job.heard, <<c, i>>, Append(ScoresOf(c, i), Grade(r)))
    BY <1>3 DEF WithHeard
  <1>12. CASE cell # c \/ item # i
    <2>1. <<cell, item>> # <<c, i>>
      BY <1>12
    <2>2. /\ <<cell, item>> \in DOMAIN heard <=> <<cell, item>> \in DOMAIN job.heard
          /\ <<cell, item>> \in DOMAIN heard => heard[<<cell, item>>] = job.heard[<<cell, item>>]
      BY <1>11, <2>1 DEF Entered
    <2>3. \/ <<row.model, row.battery>> # cell
          \/ /\ item \in DOMAIN row.scores <=> item \in DOMAIN old.scores
             /\ item \in DOMAIN row.scores => row.scores[item] = old.scores[item]
      BY <1>6, <1>8, <1>12 DEF Entered
    <2>4. g = f
      BY <1>3, <1>4, <1>7, <1>9, <2>3, ChangedRows
    <2>5. QED
      BY <1>9, <1>10, <2>2, <2>4 DEF AsRows
  <1>13. CASE cell = c /\ item = i
    <2>1. DOMAIN f = {l \in DOMAIN runs : /\ runs[l].sweep = s /\ <<runs[l].model, runs[l].battery>> = cell
                                          /\ item \in DOMAIN runs[l].scores}
          /\ \A l \in DOMAIN f : f[l] = runs[l].scores[item]
      BY <1>9 DEF ItemRows
    <2>2. DOMAIN g = {l \in DOMAIN runs' : /\ runs'[l].sweep = s /\ <<runs'[l].model, runs'[l].battery>> = cell
                                           /\ item \in DOMAIN runs'[l].scores}
          /\ \A l \in DOMAIN g : g[l] = runs'[l].scores[item]
      BY <1>9 DEF ItemRows
    <2>3. item \notin DOMAIN old.scores /\ item \in DOMAIN row.scores /\ row.scores[item] = Grade(r)
      BY <1>3, <1>6, <1>8, <1>13 DEF Entered
    <2>4. k \notin DOMAIN f /\ DOMAIN f \in SUBSET (1..n)
      BY <1>2, <1>3, <1>4, <2>1, <2>3
    <2>5. k \in DOMAIN g
      BY <1>2, <1>3, <1>6, <1>7, <1>8, <1>13, <2>2, <2>3
    <2>6. \A l \in DOMAIN runs : l # k => (l \in DOMAIN g <=> l \in DOMAIN f)
      BY <1>7, <2>1, <2>2
    <2>7. DOMAIN g = DOMAIN f \cup {n + 1}
      <3>1. DOMAIN f \subseteq DOMAIN runs /\ DOMAIN g \subseteq DOMAIN runs
        BY <1>7, <2>1, <2>2
      <3>2. QED
        BY <1>3, <2>5, <2>6, <3>1
    <2>8. \A l \in DOMAIN f : g[l] = f[l]
      <3>1. \A l \in DOMAIN f : l \in DOMAIN runs /\ l \in DOMAIN g /\ l # k
        BY <2>1, <2>4, <2>7
      <3>2. QED
        BY <1>7, <2>1, <2>2, <3>1
    <2>9. g[n + 1] = Grade(r)
      BY <1>3, <1>7, <2>2, <2>3, <2>5
    <2>10. InOrder(g) = Append(InOrder(f), Grade(r))
      <3>1. n \in Nat /\ DOMAIN f \in SUBSET (1..n)
        BY <1>3, <2>4
      <3>2. InOrder(g) = Append(InOrder(f), g[n + 1])
        BY <2>7, <2>8, <3>1, InOrderNext
      <3>3. QED
        BY <2>9, <3>2
    <2>11. ScoresOf(c, i) = InOrder(f)
      <3>1. CASE DOMAIN f # {}
        BY <1>10, <1>13, <3>1 DEF ScoresOf
      <3>2. CASE DOMAIN f = {}
        BY <1>10, <1>13, <3>2, InOrderEmpty DEF ScoresOf
      <3>3. QED
        BY <3>1, <3>2
    <2>12. <<cell, item>> \in DOMAIN heard /\ heard[<<cell, item>>] = Append(ScoresOf(c, i), Grade(r))
      BY <1>11, <1>13 DEF Entered
    <2>13. QED
      BY <1>9, <2>5, <2>10, <2>11, <2>12 DEF AsRows
  <1>14. QED
    BY <1>12, <1>13

\* What a call leaves in the memory of the process.
LEMMA AskNext ==
    ASSUME TypeInv, NEW r, Ask(r)
    PROVE  /\ job'.heard = IF r \in Answers \cup Silences THEN WithHeard(r) ELSE job.heard
           /\ job'.phase = "ask" => job'.item = job.item + 1
  <1>1. Stage0OK
    BY AskJob
  <1>2. job.item \in Nat
    BY <1>1 DEF Stage0OK
  <1> DEFINE scored == r \in Answers \cup Silences
  <1>3. PICK tokens, heard, spoilt, one, more :
            /\ heard = IF scored THEN WithHeard(r) ELSE job.heard
            /\ one = 1 /\ more = job.item + 1
            /\ tokens = job.tokens + IF r = "hard" THEN 0 ELSE 1
            /\ spoilt = (job.spoilt \/ ~scored)
    OBVIOUS
  <1> DEFINE after == [job EXCEPT !.tokens = tokens, !.spoilt = spoilt, !.heard = heard]
  <1>4. \/ job' = [after EXCEPT !.phase = "close", !.item = 1]
        \/ job' = [after EXCEPT !.item = @ + 1]
    BY <1>3 DEF Ask
  <1>5. after.item = job.item
    BY <1>1 DEF Stage0OK
  <1>6. \/ job' = [after EXCEPT !.phase = "close", !.item = one]
        \/ job' = [after EXCEPT !.item = more]
    BY <1>3, <1>4, <1>5
  <1> HIDE DEF scored
  <1>7. job'.heard = heard /\ (job'.phase = "ask" => job'.item = more)
    BY <1>1, <1>6 DEF Stage0OK
  <1>8. QED
    BY <1>3, <1>7 DEF scored

\* The rows of the pool stay, but for those of the sweep that asks.
LEMMA RowsStay ==
    ASSUME TypeInv, RoundInv, CellInv, [Next]_vars, NEW s, NEW b \in Pool, NEW m, NEW item,
           Sweeping("ask") /\ job.database => job.sweep # s
    PROVE  ItemRows(runs', s, <<m, b>>, item) = ItemRows(runs, s, <<m, b>>, item)
  <1>1. CASE UNCHANGED runs
    BY <1>1 DEF ItemRows
  <1>2. ASSUME NEW run, Added(run), run.scores = <<>>
        PROVE  ItemRows(runs', s, <<m, b>>, item) = ItemRows(runs, s, <<m, b>>, item)
    BY <1>2, AddedRows
  <1>3. CASE StoreRun /\ Added(NewStored)
    BY <1>2, <1>3 DEF NewStored, NewRun
  <1>4. CASE Added(NewRun(job.sweep, Model, Battery, "scored"))
    BY <1>2, <1>4 DEF NewRun
  <1>5. CASE StoreRow /\ Changed(WithRow(runs[job.run], NextItem, job.out.scores[NextItem]))
    <2>1. PICK run : run = WithRow(runs[job.run], NextItem, job.out.scores[NextItem])
      OBVIOUS
    <2>2. Changed(run) /\ run.battery = runs[job.run].battery
      BY <1>5, <2>1 DEF Changed
    <2>3. runs[job.run].battery \in Live
      <3>1. At("rows")
        BY <1>5 DEF StoreRow
      <3>2. Battery \in Live
        BY <3>1, CellHere DEF At
      <3>3. QED
        BY <3>1, <3>2 DEF CellInv, RunOfCell, Battery
    <2>4. <<run.model, run.battery>> # <<m, b>>
      BY <2>2, <2>3, EvidenceAssumption
    <2>5. QED
      BY <2>2, <2>4, ChangedRows
  <1>6. ASSUME NEW r, Ask(r), job.database, Changed(WithRow(runs[job.run], job.item, r))
        PROVE  ItemRows(runs', s, <<m, b>>, item) = ItemRows(runs, s, <<m, b>>, item)
    <2>1. PICK run : run = WithRow(runs[job.run], job.item, r)
      OBVIOUS
    <2>2. Changed(run) /\ run.sweep = runs[job.run].sweep
      BY <1>6, <2>1 DEF Changed
    <2>3. runs[job.run].sweep = job.sweep /\ job.sweep # s
      BY <1>6 DEF RoundInv, Ask
    <2>4. QED
      BY <2>2, <2>3, ChangedRows
  <1>7. CASE Changed([runs[job.run] EXCEPT !.status = Status0])
    <2>1. PICK run : run = [runs[job.run] EXCEPT !.status = Status0]
      OBVIOUS
    <2>2. Changed(run) /\ runs[job.run] \in Runs
      BY <1>7, <2>1 DEF Changed, TypeInv
    <2>3. run.scores = runs[job.run].scores
      BY <2>1, <2>2 DEF Runs
    <2>4. QED
      BY <2>2, <2>3, ChangedRows
  <1>8. QED
    BY <1>1, <1>3, <1>4, <1>5, <1>6, <1>7, RunsStep

\* What the rows of a sweep give stays what they give, when they stay.
LEMMA FromRowsStays ==
    ASSUME TypeInv, RoundInv, CellInv, [Next]_vars, NEW s, NEW p, p.battery \in Pool, FromRows(runs, s, p),
           Sweeping("ask") /\ job.database => job.sweep # s
    PROVE  FromRows(runs', s, p)
  <1>1. PICK b \in Pool : b = p.battery
    OBVIOUS
  <1>2. \A m, item : ItemRows(runs', s, <<m, b>>, item) = ItemRows(runs, s, <<m, b>>, item)
    BY RowsStay
  <1>3. \A m : RowScores(runs', s, m, b) = RowScores(runs, s, m, b)
    <2>1. SUFFICES ASSUME NEW m PROVE RowScores(runs', s, m, b) = RowScores(runs, s, m, b)
      OBVIOUS
    <2>2. PICK items : items = {item \in Items(b) : DOMAIN ItemRows(runs, s, <<m, b>>, item) # {}}
      OBVIOUS
    <2>3. items = {item \in Items(b) : DOMAIN (ItemRows(runs', s, <<m, b>>, item)) # {}}
      BY <1>2, <2>2
    <2>4. /\ RowScores(runs, s, m, b) = [x \in {<<m, b>>} \X items |-> InOrder(ItemRows(runs, s, x[1], x[2]))]
          /\ RowScores(runs', s, m, b) = [x \in {<<m, b>>} \X items |-> InOrder(ItemRows(runs', s, x[1], x[2]))]
      BY <2>2, <2>3 DEF RowScores
    <2>5. \A x \in {<<m, b>>} \X items : ItemRows(runs', s, x[1], x[2]) = ItemRows(runs, s, x[1], x[2])
      <3>1. SUFFICES ASSUME NEW x \in {<<m, b>>} \X items
                     PROVE  ItemRows(runs', s, x[1], x[2]) = ItemRows(runs, s, x[1], x[2])
        OBVIOUS
      <3>2. PICK item : item = x[2] /\ x[1] = <<m, b>>
        OBVIOUS
      <3>3. QED
        BY <1>2, <3>2
    <2>6. QED
      BY <2>4, <2>5
  <1>4. QED
    BY <1>1, <1>3 DEF FromRows

\* What is heard stays what the rows say, through every step of a sweep.
LEMMA HeardStep ==
    ASSUME TypeInv, RoundInv, MarkInv, HeardInv, [Next]_vars
    PROVE  HeardInv'
  <1>0. /\ runs \in Seq(Runs) /\ Len(runs) \in Nat /\ DOMAIN runs = 1..Len(runs)
        /\ runs' \in Seq(Runs) /\ Len(runs') \in Nat /\ DOMAIN runs' = 1..Len(runs')
    BY StepType DEF TypeInv
  <1>1. CASE UNCHANGED <<job, runs>>
    BY <1>1 DEF HeardInv
  <1>2. ASSUME job'.cmd # "stage0"
        PROVE  HeardInv'
    BY <1>2 DEF HeardInv
  <1>3. ASSUME NEW heard, NEW s, HeardIs(runs, heard, s), UNCHANGED runs \/ \A cell, item :
                   ItemRows(runs', s, cell, item) = ItemRows(runs, s, cell, item)
        PROVE  HeardIs(runs', heard, s)
    BY <1>3 DEF HeardIs, AsRows
  <1>4. CASE BeginRound
    <2>1. Stage0OK /\ job.phase = "round" /\ job.left[1] = <<Model, Battery>> /\ job.cmd = "stage0"
      BY <1>4, Stage0Here DEF BeginRound, Sweeping
    <2>2. CASE ~job.database
      <3>1. job' = [job EXCEPT !.phase = "ask"]
        BY <1>4, <2>2 DEF BeginRound
      <3>2. ~job'.database
        BY <2>1, <2>2, <3>1 DEF Stage0OK
      <3>3. QED
        BY <3>2 DEF HeardInv
    <2>3. CASE job.database
      <3>1. PICK k, run : k \in Nat /\ k = Len(runs) + 1 /\ run = NewRun(job.sweep, Model, Battery, "scored")
        BY <1>0
      <3>2. Added(run) /\ job' = [job EXCEPT !.phase = "ask", !.run = k]
        BY <1>4, <2>1, <2>3, <3>1, RunsStep DEF BeginRound, StoreRun, StoreRow, Ask, EndRound, At, Session,
                                                Sweeping
      <3>3. /\ job'.run = k /\ job'.left = job.left /\ job'.phase = "ask"
            /\ UNCHANGED <<job.heard, job.sweep, job.database>>
        BY <2>1, <3>2 DEF Stage0OK
      <3>4. run.scores = <<>> /\ run.model = Model /\ run.battery = Battery
        BY <3>1 DEF NewRun
      <3>5. Len(runs') = k /\ runs'[k] = run
        BY <1>0, <3>1, <3>2, AppendProperties DEF Added
      <3>6. PICK heard, s : heard = job.heard /\ s = job.sweep
        OBVIOUS
      <3>7. HeardIs(runs', heard, s)
        <4>1. HeardIs(runs, heard, s)
          BY <2>1, <2>3, <3>6 DEF HeardInv
        <4>2. \A cell, item : ItemRows(runs', s, cell, item) = ItemRows(runs, s, cell, item)
          BY <3>2, <3>4, AddedRows
        <4>3. QED
          BY <1>3, <4>1, <4>2
      <3>8. HeardIs(runs', job'.heard, job'.sweep)
        BY <3>3, <3>6, <3>7
      <3>9. QED
        BY <2>1, <3>3, <3>4, <3>5, <3>8 DEF HeardInv
    <2>4. QED
      BY <2>2, <2>3
  <1>5. ASSUME NEW r \in Stage0Results, Ask(r)
        PROVE  HeardInv'
    <2>1. /\ Stage0OK /\ job.phase = "ask" /\ job.item \in Nat /\ job.cmd = "stage0"
          /\ UNCHANGED <<job.database, job.sweep, job.run, job.left>>
      BY <1>5, AskJob DEF Stage0OK
    <2>2. CASE ~job.database
      BY <2>1, <2>2 DEF HeardInv
    <2>3. CASE job.database
      <3>1. /\ HeardIs(runs, job.heard, job.sweep) /\ job.run = Len(runs) /\ job.run \in DOMAIN runs
            /\ <<runs[job.run].model, runs[job.run].battery>> = job.left[1]
            /\ \A item \in DOMAIN runs[job.run].scores : item < job.item
        BY <2>1, <2>3 DEF HeardInv, Stage0OK
      <3>2. CASE r \notin Answers \cup Silences
        <4>1. UNCHANGED runs /\ job'.heard = job.heard
          BY <1>5, <3>2, AskNext DEF Ask
        <4>2. HeardIs(runs', job'.heard, job'.sweep)
          BY <2>1, <3>1, <4>1
        <4>3. job'.phase = "ask" => \A item \in DOMAIN runs'[job'.run].scores : item < job'.item
          <5>1. ASSUME NEW item \in DOMAIN runs[job.run].scores, job'.phase = "ask"
                PROVE  item < job'.item
            <6>1. runs[job.run] \in Runs
              BY <1>0, <3>1
            <6>2. DOMAIN runs[job.run].scores \in SUBSET Nat
              BY <6>1, PartialIs DEF Runs, Rows
            <6>3. item \in Nat /\ item < job.item /\ job'.item = job.item + 1
              BY <1>5, <3>1, <5>1, <6>2, AskNext
            <6>4. QED
              BY <2>1, <6>3
          <5>2. QED
            BY <2>1, <4>1, <5>1
        <4>4. QED
          BY <2>1, <3>1, <4>1, <4>2, <4>3 DEF HeardInv
      <3>3. CASE r \in Answers \cup Silences
        <4>1. PICK row : row = WithRow(runs[job.run], job.item, r)
          OBVIOUS
        <4>2. runs' = [runs EXCEPT ![job.run] = WithRow(runs[job.run], job.item, r)]
          BY <1>5, <2>3, <3>3 DEF Ask
        <4>3. Changed(row) /\ runs'[job.run] = row
          BY <2>1, <3>1, <4>1, <4>2, RowChanged
        <4>4. /\ row.model = runs[job.run].model /\ row.battery = runs[job.run].battery
              /\ row.scores = Entered(runs[job.run].scores, job.item, Grade(r))
              /\ DOMAIN runs[job.run].scores \in SUBSET Nat
          <5>1. runs[job.run] \in Runs
            BY <1>0, <3>1
          <5>2. DOMAIN runs[job.run].scores \in SUBSET Nat
            BY <5>1, PartialIs DEF Runs, Rows
          <5>3. QED
            <6>1. PICK i \in Nat, run \in Runs : i = job.item /\ run = runs[job.run]
              BY <2>1, <5>1
            <6>2. row = WithRow(run, i, r)
              BY <4>1, <6>1
            <6>3. row.model = run.model
              BY <6>2, WithRowType, ZenonT(30)
            <6>4. row.battery = run.battery
              BY <6>2, WithRowType, ZenonT(30)
            <6>5. row.scores = Entered(run.scores, i, Grade(r))
              BY <6>2, WithRowType, ZenonT(30)
            <6>6. QED
              BY <5>2, <6>1, <6>3, <6>4, <6>5
        <4>5. PICK heard, s : heard = WithHeard(r) /\ s = job.sweep
          OBVIOUS
        <4>6. job'.heard = heard
          BY <1>5, <3>3, <4>5, AskNext
        <4>7. HeardIs(runs', job'.heard, job'.sweep)
          <5>1. \A cell, item : AsRows(heard, runs', s, cell, item)
            <6>1. /\ Changed(WithRow(runs[job.run], job.item, r))
                  /\ s = job.sweep /\ heard = WithHeard(r)
              BY <4>1, <4>3, <4>5
            <6>2. ASSUME NEW cell, NEW item
                  PROVE  AsRows(heard, runs', s, cell, item)
              BY <1>5, <2>3, <6>1, AskHeard
            <6>3. QED
              BY <6>2
          <5>2. job'.sweep = s
            BY <2>1, <4>5
          <5>3. QED
            BY <4>6, <5>1, <5>2 DEF HeardIs
        <4>8. Len(runs') = Len(runs)
          BY <1>0, <4>2
        <4>9. job'.phase = "ask" => \A item \in DOMAIN row.scores : item < job'.item
          <5>1. ASSUME NEW item \in DOMAIN row.scores, job'.phase = "ask"
                PROVE  item < job'.item
            <6>1. item \in DOMAIN runs[job.run].scores \/ item = job.item
              BY <4>4 DEF Entered
            <6>2. job'.item = job.item + 1
              BY <1>5, <5>1, AskNext
            <6>3. item \in Nat /\ item <= job.item
              BY <2>1, <3>1, <4>4, <6>1
            <6>4. QED
              BY <2>1, <6>2, <6>3
          <5>2. QED
            BY <5>1
        <4>10. QED
          BY <2>1, <3>1, <4>3, <4>4, <4>7, <4>8, <4>9 DEF HeardInv
      <3>4. QED
        BY <3>2, <3>3
    <2>4. QED
      BY <2>2, <2>3
  <1>6. CASE EndRound
    <2>1. Stage0OK /\ job.phase = "close" /\ job.cmd = "stage0"
      BY <1>6, Stage0Here DEF EndRound, Sweeping
    <2>2. PICK left, phase, pairs :
              /\ phase = IF left = <<>> THEN "separate" ELSE "round"
              /\ job' = [job EXCEPT !.left = left, !.spoilt = FALSE, !.phase = phase, !.pairs = pairs]
      BY <1>6 DEF EndRound
    <2>3. /\ UNCHANGED <<job.heard, job.sweep, job.database>> /\ job'.phase \notin {"ask", "close"}
      BY <2>1, <2>2 DEF Stage0OK
    <2>4. CASE ~job.database
      BY <2>3, <2>4 DEF HeardInv
    <2>5. CASE job.database
      <3>1. PICK run : run = [runs[job.run] EXCEPT !.status = Status0]
        OBVIOUS
      <3>2. job.run \in DOMAIN runs /\ runs[job.run] \in Runs
        BY <1>0, <2>1, <2>5 DEF Stage0OK
      <3>3. runs' = [runs EXCEPT ![job.run].status = Status0]
        BY <1>6, <2>5 DEF EndRound, Status0
      <3>4. UNCHANGED runs \/ Changed(run)
        BY <1>6, <2>1, <3>1, RunsStep DEF BeginRound, StoreRun, StoreRow, Ask, EndRound, At, Session, Sweeping
      <3>5. run.scores = runs[job.run].scores
        BY <3>1, <3>2 DEF Runs
      <3>6. PICK heard, s : heard = job.heard /\ s = job.sweep
        OBVIOUS
      <3>7. HeardIs(runs', heard, s)
        <4>1. HeardIs(runs, heard, s)
          BY <2>1, <2>5, <3>6 DEF HeardInv
        <4>2. Changed(run) => \A cell, item : ItemRows(runs', s, cell, item) = ItemRows(runs, s, cell, item)
          BY <3>5, ChangedRows
        <4>3. QED
          BY <1>3, <3>4, <4>1, <4>2
      <3>8. HeardIs(runs', job'.heard, job'.sweep)
        BY <2>3, <3>6, <3>7
      <3>9. QED
        BY <2>3, <3>8 DEF HeardInv
    <2>6. QED
      BY <2>4, <2>5
  <1>7. CASE Separate
    <2>1. Stage0OK /\ job.cmd = "stage0" /\ job.phase = "separate" /\ UNCHANGED runs
      BY <1>7, SMTT(30) DEF TypeInv, Separate, Sweeping, Idle, SessionOK, SessionJobs, CalibrateOK
    <2>2. CASE job' = Idle
      BY <1>2, <2>2 DEF Idle
    <2>3. ASSUME NEW pairs, job' = [job EXCEPT !.pairs = pairs]
          PROVE  HeardInv'
      <3>1. UNCHANGED <<job.heard, job.sweep, job.database, job.phase>>
        BY <2>1, <2>3 DEF Stage0OK
      <3>2. QED
        BY <2>1, <3>1 DEF HeardInv
    <2>4. QED
      BY <1>7, <2>2, <2>3 DEF Separate
  <1>8. CASE Stage0
    <2>1. UNCHANGED runs /\ job = Idle
      BY <1>8 DEF Stage0, Typed, AtRest
    <2>2. CASE UNCHANGED job
      BY <1>1, <2>1, <2>2
    <2>3. CASE Admitted(todo[1])
      <3>1. PICK s \in Nat : s = Len(sweeps) + 1
        BY DEF TypeInv
      <3>2. job'.sweep = s /\ job'.heard = <<>> /\ job'.phase = "round"
        BY <1>8, <2>3, <3>1 DEF Stage0
      <3>3. \A i \in DOMAIN runs : runs[i].sweep # s
        <4>1. Len(sweeps) \in Nat
          BY DEF TypeInv
        <4>2. QED
          BY <3>1, <4>1 DEF MarkInv
      <3>4. \A cell, item : DOMAIN (ItemRows(runs', s, cell, item)) = {}
        BY <2>1, <3>3 DEF ItemRows
      <3>5. HeardIs(runs', job'.heard, job'.sweep)
        BY <3>2, <3>4 DEF HeardIs, AsRows
      <3>6. QED
        BY <3>2, <3>5 DEF HeardInv
    <2>4. QED
      BY <1>8, <2>2, <2>3 DEF Stage0
  <1>9. CASE CalibrationStep \/ Calibrate
    BY <1>2, <1>9, CalibrationStepType, CalibrateType DEF Idle, CalibrateOK
  <1>10. CASE Outside \/ UNCHANGED vars
    BY <1>1, <1>2, <1>10 DEF Outside, Tick, Kill, tables, vars, Idle
  <1>11. CASE Bench \/ Preflight
    <2>1. todo # <<>> /\ todo[1].cmd \in {"bench", "preflight"} /\ job = Idle
      BY <1>11 DEF Bench, Preflight, Typed, AtRest
    <2>2. job' \in {Idle, Process(todo[1])}
      BY <1>11, <2>1 DEF Bench, Preflight
    <2>3. QED
      BY <1>2, <2>1, <2>2, ProcessType DEF SessionJobs, Idle
  <1>12. CASE SetupFails \/ Contract \/ Gate \/ (\E r \in Replies : Call(r)) \/ StoreRun
              \/ StoreIncident \/ StoreRow \/ Judge
    <2>1. job' = Idle \/ SessionOK'
      BY <1>12, SessionStays
    <2>2. QED
      BY <1>2, <2>1 DEF SessionOK, SessionJobs, Idle
  <1>13. QED
    BY <1>4, <1>5, <1>6, <1>7, <1>8, <1>9, <1>10, <1>11, <1>12 DEF Next, Step, MeasuringStep, Command

\* Every stored separation is of a sweep in the table and is what its rows give; a sweep
\* has none while it asks, and the ones it is about to store are what its rows give.
StoredInv ==
    /\ \A p \in seps : p.sweep \in 1..Len(sweeps) /\ p.battery \in Pool /\ FromRows(runs, p.sweep, p)
    /\ job.cmd = "stage0" => (job.database =>
           /\ job.phase # "separate" => \A p \in seps : p.sweep # job.sweep
           /\ job.phase = "separate" => \A p \in job.pairs : p.battery \in Pool /\ FromRows(runs, job.sweep, p))

\* Separations are stored once the rows of their sweep are complete, and stay what they give.
LEMMA StoredStep ==
    ASSUME TypeInv, RoundInv, CellInv, MarkInv, HeardInv, StoredInv, [Next]_vars
    PROVE  StoredInv'
  <1>1. Len(sweeps) \in Nat /\ Len(sweeps') \in Nat /\ Len(sweeps) <= Len(sweeps')
    <2>1. sweeps \in Seq(Sweeps) /\ sweeps' \in Seq(Sweeps)
      BY StepType DEF TypeInv
    <2>2. UNCHANGED sweeps \/ \E sweep : sweeps' = Append(sweeps, sweep)
      BY SweepsGrow
    <2>3. QED
      BY <2>1, <2>2
  <1>2. \A p \in seps : /\ p.sweep \in 1..Len(sweeps') /\ p.battery \in Pool /\ FromRows(runs', p.sweep, p)
    <2>1. SUFFICES ASSUME NEW p \in seps
                   PROVE  p.sweep \in 1..Len(sweeps') /\ p.battery \in Pool /\ FromRows(runs', p.sweep, p)
      OBVIOUS
    <2>2. PICK q, s : q = p /\ s = p.sweep
      OBVIOUS
    <2>3. s \in 1..Len(sweeps) /\ q.battery \in Pool /\ FromRows(runs, s, q)
      BY <2>2 DEF StoredInv
    <2>4. Sweeping("ask") /\ job.database => job.sweep # s
      BY <2>2 DEF StoredInv, Sweeping
    <2>5. FromRows(runs', s, q)
      BY <2>3, <2>4, FromRowsStays
    <2>6. s \in 1..Len(sweeps')
      BY <1>1, <2>3
    <2>7. QED
      BY <2>2, <2>3, <2>5, <2>6
  <1>3. ASSUME UNCHANGED seps
        PROVE  \A p \in seps' : p.sweep \in 1..Len(sweeps') /\ p.battery \in Pool /\ FromRows(runs', p.sweep, p)
    BY <1>2, <1>3
  <1>4. ASSUME UNCHANGED seps, job'.cmd # "stage0"
        PROVE  StoredInv'
    BY <1>3, <1>4 DEF StoredInv
  <1>5. ASSUME UNCHANGED <<seps, job.sweep, job.database>>, job.cmd = "stage0", job.phase # "separate",
               job'.phase # "separate"
        PROVE  StoredInv'
    BY <1>3, <1>5 DEF StoredInv
  <1>6. CASE UNCHANGED vars
    <2>1. UNCHANGED <<seps, job, runs, sweeps>>
      BY <1>6 DEF vars, tables
    <2>2. QED
      BY <2>1 DEF StoredInv
  <1>7. CASE BeginRound
    <2>1. Stage0OK /\ job.phase = "round" /\ job.cmd = "stage0" /\ UNCHANGED seps
      BY <1>7, Stage0Here DEF BeginRound, Sweeping
    <2>2. job' = [job EXCEPT !.phase = "ask", !.run = Len(runs) + 1] \/ job' = [job EXCEPT !.phase = "ask"]
      BY <1>7 DEF BeginRound
    <2>3. UNCHANGED <<job.sweep, job.database>> /\ job'.phase = "ask"
      BY <2>1, <2>2 DEF Stage0OK
    <2>4. QED
      BY <1>5, <2>1, <2>3
  <1>8. ASSUME NEW r \in Stage0Results, Ask(r)
        PROVE  StoredInv'
    <2>1. UNCHANGED <<seps, job.sweep, job.database>> /\ job.cmd = "stage0" /\ job.phase = "ask"
      BY <1>8, AskJob DEF Ask, Sweeping
    <2>2. job'.phase # "separate"
      BY <1>8, AskJob
    <2>3. QED
      BY <1>5, <2>1, <2>2
  <1>9. CASE EndRound
    <2>1. Stage0OK /\ job.phase = "close" /\ job.cmd = "stage0" /\ UNCHANGED seps
      BY <1>9, Stage0Here DEF EndRound, Sweeping
    <2>2. PICK left, phase, pairs :
              /\ phase = IF left = <<>> THEN "separate" ELSE "round"
              /\ pairs = IF left = <<>> THEN PairsOf(job.heard) ELSE {}
              /\ job' = [job EXCEPT !.left = left, !.spoilt = FALSE, !.phase = phase, !.pairs = pairs]
      BY <1>9 DEF EndRound
    <2>3. UNCHANGED <<job.sweep, job.database>> /\ job'.phase = phase /\ job'.pairs = pairs
      BY <2>1, <2>2 DEF Stage0OK
    <2>4. CASE phase # "separate"
      BY <1>5, <2>1, <2>3, <2>4
    <2>5. CASE phase = "separate"
      <3>1. pairs = PairsOf(job.heard)
        BY <2>2, <2>5
      <3>2. ASSUME job.database, NEW p \in pairs
            PROVE  p.battery \in Pool /\ FromRows(runs', job.sweep, p)
        <4>1. PICK s, heard : s = job.sweep /\ heard = job.heard
          OBVIOUS
        <4>2. HeardIs(runs, heard, s)
          BY <2>1, <3>2, <4>1 DEF HeardInv
        <4>3. p.battery \in Pool /\ FromRows(runs, s, p)
          BY <3>1, <3>2, <4>1, <4>2, PairsFromRows
        <4>4. ~Sweeping("ask")
          BY <2>1 DEF Sweeping
        <4>5. FromRows(runs', s, p)
          BY <4>3, <4>4, FromRowsStays
        <4>6. QED
          BY <2>3, <4>1, <4>3, <4>5
      <3>3. QED
        BY <1>3, <2>1, <2>3, <2>5, <3>2 DEF StoredInv
    <2>6. QED
      BY <2>4, <2>5
  <1>10. CASE Separate
    <2>1. Stage0OK /\ job.cmd = "stage0" /\ job.phase = "separate" /\ UNCHANGED <<runs, sweeps>>
      BY <1>10, SMTT(30) DEF TypeInv, Separate, Sweeping, Idle, SessionOK, SessionJobs, CalibrateOK
    <2>2. CASE job' = Idle /\ UNCHANGED seps
      BY <1>4, <2>2 DEF Idle
    <2>3. ASSUME NEW p \in job.pairs, job.pairs # {}, job.database,
                 seps' = seps \cup {[sweep |-> job.sweep, battery |-> p.battery, winner |-> p.winner,
                                     loser |-> p.loser, p |-> p.p]},
                 job' = [job EXCEPT !.pairs = @ \ {p}]
          PROVE  StoredInv'
      <3>1. UNCHANGED <<job.sweep, job.database, job.phase>> /\ job'.pairs \subseteq job.pairs
        BY <2>1, <2>3 DEF Stage0OK
      <3>2. PICK s, new : s = job.sweep
                          /\ new = [sweep |-> s, battery |-> p.battery, winner |-> p.winner,
                                    loser |-> p.loser, p |-> p.p]
        OBVIOUS
      <3>3. ASSUME NEW q \in job.pairs
            PROVE  q.battery \in Pool /\ FromRows(runs', s, q)
        <4>1. PICK x : x = q
          OBVIOUS
        <4>2. x.battery \in Pool /\ FromRows(runs, s, x)
          BY <2>1, <2>3, <3>2, <3>3, <4>1 DEF StoredInv
        <4>3. ~Sweeping("ask")
          BY <2>1 DEF Sweeping
        <4>4. FromRows(runs', s, x)
          BY <4>2, <4>3, FromRowsStays
        <4>5. QED
          BY <4>1, <4>2, <4>4
      <3>4. new.sweep = s /\ new.battery \in Pool /\ FromRows(runs', new.sweep, new)
        <4>1. /\ new.sweep = s /\ new.battery = p.battery /\ new.winner = p.winner /\ new.loser = p.loser
              /\ new.p = p.p
          BY <3>2
        <4>2. FromRows(runs', s, p) => FromRows(runs', s, new)
          BY <4>1 DEF FromRows
        <4>3. QED
          BY <2>3, <3>3, <4>1, <4>2
      <3>5. s \in 1..Len(sweeps')
        BY <2>1, <2>3, <3>2 DEF MarkInv, Unmarked
      <3>6. seps' = seps \cup {new}
        BY <2>3, <3>2
      <3>7. \A q \in seps' : q.sweep \in 1..Len(sweeps') /\ q.battery \in Pool /\ FromRows(runs', q.sweep, q)
        BY <1>2, <3>4, <3>5, <3>6
      <3>8. \A q \in job'.pairs : q.battery \in Pool /\ FromRows(runs', job.sweep, q)
        BY <3>1, <3>2, <3>3
      <3>9. QED
        BY <2>1, <3>1, <3>7, <3>8 DEF StoredInv
    <2>4. QED
      BY <1>10, <2>2, <2>3 DEF Separate
  <1>11. CASE Stage0
    <2>1. UNCHANGED seps /\ job = Idle
      BY <1>11 DEF Stage0, Typed, AtRest
    <2>2. CASE UNCHANGED job
      BY <1>4, <2>1, <2>2 DEF Idle
    <2>3. CASE Admitted(todo[1])
      <3>1. job'.sweep = Len(sweeps) + 1 /\ job'.phase = "round"
        BY <1>11, <2>3 DEF Stage0
      <3>2. \A p \in seps : p.sweep # Len(sweeps) + 1
        BY <1>1 DEF StoredInv
      <3>3. QED
        BY <1>3, <2>1, <3>1, <3>2 DEF StoredInv
    <2>4. QED
      BY <1>11, <2>2, <2>3 DEF Stage0
  <1>12. CASE CalibrationStep \/ Calibrate
    <2>1. UNCHANGED seps /\ (job' = Idle \/ CalibrateOK')
      BY <1>12, CalibrationStepType, CalibrateType DEF tables
    <2>2. QED
      BY <1>4, <2>1 DEF Idle, CalibrateOK
  <1>13. CASE Tick \/ Kill
    <2>1. UNCHANGED seps /\ (job' = Idle)
      BY <1>13 DEF Tick, Kill, tables, AtRest
    <2>2. QED
      BY <1>4, <2>1 DEF Idle
  <1>14. CASE Bench \/ Preflight
    <2>1. todo # <<>> /\ todo[1].cmd \in {"bench", "preflight"} /\ job = Idle /\ UNCHANGED seps
      BY <1>14 DEF Bench, Preflight, Typed, AtRest, tables
    <2>2. job' \in {Idle, Process(todo[1])}
      BY <1>14, <2>1 DEF Bench, Preflight
    <2>3. QED
      BY <1>4, <2>1, <2>2, ProcessType DEF SessionJobs, Idle
  <1>15. CASE SetupFails \/ Contract \/ Gate \/ (\E r \in Replies : Call(r)) \/ StoreRun
              \/ StoreIncident \/ StoreRow \/ Judge
    <2>1. job' = Idle \/ SessionOK'
      BY <1>15, SessionStays
    <2>2. UNCHANGED seps
      BY <1>15 DEF SetupFails, Contract, Gate, Call, StoreRun, StoreIncident, StoreRow, Judge, tables
    <2>3. QED
      BY <1>4, <2>1, <2>2 DEF SessionOK, SessionJobs, Idle
  <1>16. QED
    BY <1>6, <1>7, <1>8, <1>9, <1>10, <1>11, <1>12, <1>13, <1>14, <1>15
       DEF Next, Step, MeasuringStep, Command, Outside

\* At rest, a stored separation is the one the rows of its sweep give.
THEOREM SeparationsAreOfRows == Spec => []SeparationFromRows
  <1>1. Init => RoundInv /\ CellInv /\ MarkInv /\ HeardInv /\ StoredInv
    BY DEF Init, EvidenceInit, RoundInv, Sweeping, CellInv, At, Session, MarkInv, Markers, HeardInv,
           StoredInv, Idle
  <1>2. StoredInv => SeparationFromRows
    BY DEF StoredInv, FromRows, SeparationFromRows
  <1>3. TypeInv /\ RoundInv /\ CellInv /\ MarkInv /\ HeardInv /\ StoredInv /\ [Next]_vars
            => (RoundInv /\ CellInv /\ MarkInv /\ HeardInv /\ StoredInv)'
    BY RoundStep, CellStep, MarkStep, HeardStep, StoredStep
  <1>4. QED
    BY <1>1, <1>2, <1>3, TypesKept, PTL DEF Spec
===============================================================================
