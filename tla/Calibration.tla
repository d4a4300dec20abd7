------------------------------ MODULE Calibration ------------------------------
(***************************************************************************)
(* hr calibrate (hr/calibration_cli.py, calibration_runner.py,             *)
(* calibration_items.py, calibration_persistence.py): a few anchor models  *)
(* answer every item of the repository, to see whether the tiers are as    *)
(* hard as they are meant to be.  Nothing is written before the last call; *)
(* a report over what was recorded before and what was heard now ends the  *)
(* command.  Stage 0 asks a choice of the same items.                      *)
(*                                                                         *)
(* A question is an anchor key, a battery and an item.  A call costs one   *)
(* token, answered or not; the row of a failed one has none.               *)
(***************************************************************************)
EXTENDS Stage0Sweep

CONSTANTS
    Anchors,         \* seats.yaml calibration_anchors: anchor key -> model
    Tier,            \* battery -> tier of each of its items in the repository
    AcceptanceBands, \* tier -> <<lo, hi>>, in percent
    Banked           \* batteries a Stage 1 sweep has put in the item pool before

ASSUME CalibrationAssumption ==
    /\ \A b \in DOMAIN Tier : b \in Pool /\ Tier[b] \in Seq(Nat) /\ NItems[b] <= Len(Tier[b])
    /\ \A t \in DOMAIN AcceptanceBands : AcceptanceBands[t] \in Nat \X Nat

VARIABLES
    events,    \* hr.calibration_event: <<pool, question>> -> [passed, infra]
    report     \* the last report printed: its pool and its verdicts

calibration == <<events, report>>

Calibrating(phase) == job.cmd = "calibrate" /\ job.phase = phase

Question == job.left[1]
Asked(q) == Anchors[q[1]]

-----------------------------------------------------------------------------
(* _cli *)

\* One adapter serves every anchor: that of the cheap one.
AdapterWire == IF "cheap" \in DOMAIN Anchors THEN Wire(Provider(Anchors["cheap"])) ELSE None

\* load_item_repo, and the order in which run goes through it.
Questions(c) ==
    FlattenSeq([b \in DOMAIN c.batteries |-> FlattenSeq([a \in DOMAIN c.anchors |->
        [i \in DOMAIN Tier[c.batteries[b]] |-> <<c.anchors[a], c.batteries[b], i>>]])])

\* _compute_pool_hash: of the items of the batteries asked for. A known anchor and a
\* pool that is not empty, or the command ends.
PoolHash(c) == Range(c.batteries)

Calibrate ==
    /\ Typed("calibrate")
    /\ todo' = Tail(todo)
    /\ LET c == todo[1]
       IN  job' = IF Range(c.anchors) \subseteq DOMAIN Anchors /\ AdapterWire # None /\ Questions(c) # <<>>
                  THEN [cmd |-> "calibrate", phase |-> "load", pool |-> PoolHash(c), anchors |-> Range(c.anchors),
                        resume |-> c.resume, cap |-> c.cap, left |-> Questions(c), tokens |-> 0, got |-> <<>>]
                  ELSE Idle
    /\ UNCHANGED <<tables, calibration, now, dialect, trouble>>

-----------------------------------------------------------------------------
(* run *)

\* What the table has of a pool.
Recorded(pool) == [q \in {k[2] : k \in {x \in DOMAIN events : x[1] = pool}} |-> events[<<pool, q>>]]

\* The loop ends at the cap, or when nothing is left.
Asking(process) ==
    IF process.tokens >= process.cap \/ process.left = <<>>
    THEN [process EXCEPT !.phase = "persist"] ELSE [process EXCEPT !.phase = "ask"]

\* A database that cannot be reached when it is needed ends the command.
Reached(database) ==
    LET cost == IF database THEN 0 ELSE 1 IN cost <= trouble /\ trouble' = trouble - cost

\* _load_recorded_pairs: of a resume. What is recorded is not asked again, and its tokens
\* count.
LoadRecorded ==
    /\ Calibrating("load")
    /\ IF ~job.resume THEN job' = Asking(job) /\ UNCHANGED trouble
       ELSE \E database \in BOOLEAN :
                LET recorded == Recorded(job.pool)
                IN  /\ Reached(database)
                    /\ job' = IF ~database THEN Idle
                              ELSE Asking([job EXCEPT
                                  !.got = recorded,
                                  !.tokens = Cardinality({q \in DOMAIN recorded : ~recorded[q].infra}),
                                  !.left = SelectSeq(@, LAMBDA q : q \notin DOMAIN recorded)])
    /\ UNCHANGED <<tables, calibration, control, dialect>>

\* probe_capabilities of the one adapter, for the anchor it is asked about.
Reaches(m) == IF AdapterWire = "openai" THEN OpenAISetUp(Provider(m)) ELSE AnthropicSetUp(Provider(m))

\* It raises outside the try of _call: the command ends there.
ProbeRaises ==
    /\ Calibrating("ask") /\ ~Reaches(Asked(Question))
    /\ job' = Idle
    /\ UNCHANGED <<tables, calibration, control, dialect, trouble>>

\* _call and _grade: an exception of the call is an infra failure, one of the grader a
\* wrong answer. A service does not understand the other wire.
AskAnchor(r) ==
    LET m == Asked(Question)
        spoken == Wire(Provider(m)) = AdapterWire
        row == [passed |-> r = "right", infra |-> r = "hard"]
    IN  /\ Calibrating("ask") /\ Reaches(m)
        /\ spoken \/ r = "hard"
        /\ LET cost == IF spoken THEN Cost(m, Question[2], r) ELSE 0
           IN  cost <= trouble /\ trouble' = trouble - cost
        /\ job' = Asking([job EXCEPT !.got = Entered(@, Question, row), !.tokens = @ + 1, !.left = Tail(@)])
        /\ UNCHANGED <<tables, calibration, control, dialect>>

-----------------------------------------------------------------------------
(* _evaluate *)

OfTier(b, tier) == {i \in DOMAIN Tier[b] : Tier[b][i] = tier}

MeasuredOf(b, anchor, tier, got) == {i \in OfTier(b, tier) : <<anchor, b, i>> \in DOMAIN got}

\* pass_rate within the band of its tier; what was not measured counts as not passed.
WithinBand(b, anchor, tier, got) ==
    LET all    == Cardinality(OfTier(b, tier))
        passed == Cardinality({i \in MeasuredOf(b, anchor, tier, got) : got[<<anchor, b, i>>].passed})
    IN  100 * passed \in AcceptanceBands[tier][1] * all..AcceptanceBands[tier][2] * all

\* Mutant of TierStatus: the pass rate alone.
TierStatusOfRate(b, anchor, tier, got) ==
    IF WithinBand(b, anchor, tier, got) THEN "pass" ELSE "fail"

TierStatus(b, anchor, tier, got) ==
    LET heard == MeasuredOf(b, anchor, tier, got)
    IN  IF heard # OfTier(b, tier) \/ \E i \in heard : got[<<anchor, b, i>>].infra THEN "inconclusive"
        ELSE IF WithinBand(b, anchor, tier, got) THEN "pass" ELSE "fail"

\* Tiers without a band are not judged.
BatteryStatus(b, anchor, got) ==
    LET statuses == {TierStatus(b, anchor, tier, got) : tier \in Range(Tier[b]) \cap DOMAIN AcceptanceBands}
    IN  IF statuses = {} THEN "invalid"
        ELSE IF "inconclusive" \in statuses THEN "inconclusive"
        ELSE IF "fail" \in statuses THEN "fail" ELSE "pass"

Verdicts ==
    {[battery |-> b, anchor |-> anchor, status |-> BatteryStatus(b, anchor, job.got)] :
        b \in job.pool, anchor \in job.anchors}

-----------------------------------------------------------------------------
(* _persist *)

\* A row refers to its item in hr.item_pool, where a Stage 1 sweep puts the items of its
\* banks, and Stage 0 those it has chosen.
InItemPool(q) ==
    \/ q[2] \in Banked
    \/ /\ q[3] \in Items(q[2])
       /\ \E s \in DOMAIN sweeps : \E cell \in Range(sweeps[s].plan) :
              sweeps[s].purpose = "stage0" /\ cell[2] = q[2]

\* Every measurement of the report in one transaction, then the report; nothing of either
\* when an item is not in the item pool.
Persist ==
    /\ Calibrating("persist")
    /\ job' = Idle
    /\ \E database \in BOOLEAN :
           /\ Reached(database)
           /\ IF database /\ \A q \in DOMAIN job.got : InItemPool(q)
              THEN /\ events' = Over([k \in {job.pool} \X DOMAIN job.got |-> job.got[k[2]]], events)
                   /\ report' = [pool |-> job.pool, verdicts |-> Verdicts]
              ELSE UNCHANGED calibration
    /\ UNCHANGED <<tables, control, dialect>>

CalibrationStep == LoadRecorded \/ ProbeRaises \/ (\E r \in Stage0Results : AskAnchor(r)) \/ Persist
=============================================================================
