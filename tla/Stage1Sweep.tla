---------------------------- MODULE Stage1Sweep ----------------------------
(***************************************************************************)
(* The Stage 1 finals sweep: hr/stage1.py run_finals and the sequential-n  *)
(* loop of hr/stage1_loop.py, with the resume path of hr/stage1_resume.py  *)
(* and hr/stage1_state.py, over the tables hr.sweep, hr.run and            *)
(* hr.measurement.                                                         *)
(*                                                                         *)
(* One process at a time runs the sweep.  It may stop at any step (Ctrl-C, *)
(* a lost connection, a crash) and `--sweep-id` starts it again: what it   *)
(* finds then is exactly the committed rows.  Every commit of the code is  *)
(* an action of its own, so a crash can fall between any two of them.      *)
(*                                                                         *)
(* Models, batteries and items are positions in the lists the code loops   *)
(* over; (item_key, rep) of the code is the position of the item.  Scores  *)
(* are not kept: which measurements a pair sequence was fed determines its *)
(* decision.  Every answered call costs one token, a call that raised      *)
(* costs none (stage0_call.py).                                            *)
(***************************************************************************)
EXTENDS Integers, Sequences, FiniteSets

CONSTANTS
    NModels,        \* number of finalists
    NBatteries,     \* number of deciding batteries
    MaxBank,        \* bound on the size of a bank
    BankSize,       \* BankSize[b]: number of items of battery b
    NInitial,       \* n_initial: pilot rounds of the single-finalist rule
    NMax,           \* n_max: the budget cap in rounds, also max_rounds
    TokenCap,       \* token_cap
    Outcomes,       \* what call_and_grade may return in this environment
    NeedRange,      \* candidates for the evidence that settles a comparison
    PriorSweeps,    \* run rows an older decision regime may have left behind
    MaxStarts       \* bound: process starts per behaviour

Models == 1..NModels
Batteries == 1..NBatteries
Rounds == 1..NMax
Items == 1..MaxBank
Bank(b) == 1..BankSize[b]
Pairs == {p \in Models \X Models : p[1] < p[2]}

RunRow == [regime : {"legacy", "current"}, model : Models, battery : Batteries,
           round : Rounds, status : {"scored", "inconclusive"},
           items : SUBSET Items]

ASSUME SizesAssumption ==
    /\ NModels \in Nat \ {0} /\ NBatteries \in Nat \ {0}
    /\ NInitial \in Nat /\ NMax \in Nat \ {0}
    /\ TokenCap \in Nat /\ MaxStarts \in Nat
    /\ MaxBank \in Nat /\ BankSize \in [1..NBatteries -> 0..MaxBank]
    /\ Outcomes \subseteq {"scored", "unscored", "infra"}
    /\ NeedRange \subseteq Nat

ASSUME PriorAssumption ==
    /\ PriorSweeps \subseteq Seq(RunRow)
    /\ \A prior \in PriorSweeps : \A j \in 1..Len(prior) : prior[j].regime = "legacy"

VARIABLES
    (* the database *)
    runs,           \* hr.run in insertion order, each with its hr.measurement items
    stamp,          \* the sweep row: "absent", "unmarked" or "current" (state_version 2)
    (* the process *)
    phase,          \* where the process is; "down" when there is none
    recorded,       \* already_recorded: measurement keys found at start
    next,           \* next_round[b]
    pair,           \* pair_stoppers: evidence of each pair's sequence
    modelRounds,    \* model_stoppers[m,b].n_rounds
    doneRounds,     \* n_rounds_done[b]
    mem,            \* measurements_by_model_battery: scores held per item
    total,          \* total_tokens
    capped,         \* stopped_at_cap
    active,         \* any_battery_still_active
    cb, cm, ci,     \* loop positions: battery, finalist, item
    got,            \* result of the call in flight
    clean,          \* round_infra_ok and not round_unscored
    scored,         \* complete_score_keys_by_model of the round under way
    (* environment *)
    need,           \* need[b][p]: paired observations after which p is decided
    precise,        \* precise[b]: rounds after which a single finalist is precise
    (* observation *)
    starts,         \* process starts so far
    opened          \* total_tokens when the process entered the loop

durable  == <<runs, stamp>>
evidence == <<pair, modelRounds, doneRounds, mem>>
cursor   == <<cb, cm, ci, got, clean, scored>>
oracle   == <<need, precise>>
history  == <<starts, opened>>
vars == <<durable, phase, recorded, next, evidence, total, capped, active,
          cursor, oracle, history>>

(***************************************************************************)
(* Reading the database                                                    *)
(***************************************************************************)

\* Measurement rows: an item of a run row.
Rows == {w \in (1..Len(runs)) \X Items : w[2] \in runs[w[1]].items}

KeyOf(w) == <<runs[w[1]].model, runs[w[1]].battery, runs[w[1]].round, w[2]>>
Keys == Models \X Batteries \X Rounds \X Items

\* Mutant of Visible: the version test inverted.
VisibleInverted == IF stamp = "current" THEN {} ELSE Rows

\* _resume_requires_restart: rows of a sweep whose marker is not the current
\* version are dropped from memory, never from the database.
Visible == IF stamp = "current" THEN Rows ELSE {}

RowsIn(seen, m, b, r) ==
    {w \in seen : runs[w[1]].model = m /\ runs[w[1]].battery = b /\ runs[w[1]].round = r}

ItemsIn(seen, m, b, r) == {w[2] : w \in RowsIn(seen, m, b, r)}

\* Rounds of battery b up to the last one with a run row.
PriorRounds(b) ==
    {r \in Rounds : \E j \in 1..Len(runs) : runs[j].battery = b /\ r <= runs[j].round}

\* Mutants of FirstMissing: off by one, restarting from the first round, and
\* going on after the last round whether or not it is complete.
FirstMissingOffByOne(seen, b) ==
    Cardinality({r \in PriorRounds(b) :
        \A q \in 1..r : \A m \in Models : ItemsIn(seen, m, b, q) = Bank(b)})
FirstMissingFromOne(seen, b) == 1

\* The first round with a key missing from already_recorded, or the one after
\* the last.
FirstMissing(seen, b) ==
    1 + Cardinality({r \in PriorRounds(b) :
            \A q \in 1..r : \A m \in Models : ItemsIn(seen, m, b, q) = Bank(b)})

(***************************************************************************)
(* Rebuilding the decision state                                           *)
(***************************************************************************)
NoEvidence == [n_rounds |-> 0, n_diffs |-> 0, seen |-> [r \in Rounds |-> {}]]

\* Rounds the rebuild replays: it stops at the first that holds fewer rows
\* than finalists * items.
Replayed(seen, b) ==
    {r \in Rounds :
        \A q \in 1..r :
            /\ \E w \in seen : runs[w[1]].battery = b /\ q <= runs[w[1]].round
            /\ Cardinality({w \in seen : runs[w[1]].battery = b /\ runs[w[1]].round = q})
                 >= BankSize[b] * NModels}

Shared(seen, p, b, r) == ItemsIn(seen, p[1], b, r) \cap ItemsIn(seen, p[2], b, r)

ReplayPair(seen, p, b) ==
    LET fits(r) == /\ Cardinality(RowsIn(seen, p[1], b, r)) = BankSize[b]
                   /\ Cardinality(RowsIn(seen, p[2], b, r)) = BankSize[b]
                   /\ Shared(seen, p, b, r) # {}
        fed == {r \in Replayed(seen, b) : fits(r)}
    IN [n_rounds |-> Cardinality(fed),
        n_diffs  |-> Cardinality({x \in fed \X Items : x[2] \in Shared(seen, p, b, x[1])}),
        seen     |-> [r \in Rounds |-> IF r \in fed THEN Shared(seen, p, b, r) ELSE {}]]

\* Mutant of HeldScores: only the replayed rounds are held.
HeldReplayed(seen, b, m, i) ==
    Cardinality({w \in seen : /\ runs[w[1]].model = m /\ runs[w[1]].battery = b
                              /\ runs[w[1]].round \in Replayed(seen, b) /\ w[2] = i})

\* Scores rebuilt per (model, battery, item): of every row, replayed or not.
HeldScores(seen, b, m, i) ==
    Cardinality({w \in seen : /\ runs[w[1]].model = m /\ runs[w[1]].battery = b
                              /\ w[2] = i})

\* Mutant of SpentBefore: the budget starts anew with every process.
SpentNothing(seen) == 0

\* total_tokens restored from the measurement rows; tokens of unscored calls
\* left no row and are forgotten.
SpentBefore(seen) == Cardinality(seen)

Feed(seq, r, shared) ==
    [n_rounds |-> seq.n_rounds + 1,
     n_diffs  |-> seq.n_diffs + Cardinality(shared),
     seen     |-> [seq.seen EXCEPT ![r] = @ \cup shared]]

\* EmpiricalBernsteinSequence.is_resolved: decided, or out of rounds.
Decided(b, p) == pair[b][p].n_diffs >= need[b][p]
Resolved(b, p) == /\ pair[b][p].n_diffs > 0
                  /\ Decided(b, p) \/ pair[b][p].n_rounds >= NMax

\* SequentialStopper.should_stop
ShouldStop(b, m) ==
    /\ modelRounds[b][m] >= NInitial
    /\ modelRounds[b][m] >= precise[b] \/ modelRounds[b][m] >= NMax

\* The stop conditions of a battery, in the order of the loop.
Settled(b) ==
    \/ next[b] > NMax
    \/ Pairs # {} /\ \A p \in Pairs : Resolved(b, p)
    \/ Pairs = {} /\ next[b] > NInitial /\ \A m \in Models : ShouldStop(b, m)

(***************************************************************************)
(* Initial states                                                          *)
(***************************************************************************)
IdleVolatile ==
    /\ recorded = {}
    /\ next = [b \in Batteries |-> 1]
    /\ pair = [b \in Batteries |-> [p \in Pairs |-> NoEvidence]]
    /\ modelRounds = [b \in Batteries |-> [m \in Models |-> 0]]
    /\ doneRounds = [b \in Batteries |-> 0]
    /\ mem = [b \in Batteries |-> [m \in Models |-> [i \in Items |-> 0]]]
    /\ total = 0 /\ capped = FALSE /\ active = FALSE
    /\ cb = 1 /\ cm = 1 /\ ci = 1
    /\ got = "none" /\ clean = TRUE
    /\ scored = [m \in Models |-> {}]

Init ==
    /\ runs \in PriorSweeps
    /\ stamp = IF runs = <<>> THEN "absent" ELSE "unmarked"
    /\ phase = "down"
    /\ IdleVolatile
    /\ need \in [Batteries -> [Pairs -> NeedRange]]
    /\ precise \in [Batteries -> NeedRange]
    /\ starts = 0 /\ opened = 0

(***************************************************************************)
(* Starting and resuming                                                   *)
(***************************************************************************)

\* run_finals up to _insert_sweep: the sweep row is inserted if absent and
\* keeps its marker otherwise.
Begin ==
    /\ phase \in {"down", "done"}
    /\ starts < MaxStarts
    /\ starts' = starts + 1
    /\ stamp' = IF stamp = "absent" THEN "unmarked" ELSE stamp
    /\ phase' = "open"
    /\ UNCHANGED <<runs, recorded, next, evidence, total, capped, active,
                   cursor, oracle, opened>>

\* The snapshot of the recorded keys, the version check, the stamp and the
\* rebuild: the only write is the stamp.
Open ==
    /\ phase = "open"
    /\ stamp' = "current"
    /\ recorded' = {KeyOf(w) : w \in Visible}
    /\ next' = [b \in Batteries |-> FirstMissing(Visible, b)]
    /\ pair' = [b \in Batteries |-> [p \in Pairs |-> ReplayPair(Visible, p, b)]]
    /\ modelRounds' = [b \in Batteries |-> [m \in Models |->
           Cardinality({r \in Replayed(Visible, b) : RowsIn(Visible, m, b, r) # {}})]]
    /\ doneRounds' = [b \in Batteries |-> Cardinality(Replayed(Visible, b))]
    /\ mem' = [b \in Batteries |-> [m \in Models |-> [i \in Items |->
           HeldScores(Visible, b, m, i)]]]
    /\ total' = SpentBefore(Visible)
    /\ opened' = total'
    /\ capped' = FALSE /\ active' = FALSE
    /\ cb' = 1 /\ phase' = "scan"
    /\ UNCHANGED <<runs, cm, ci, got, clean, scored, oracle, starts>>

(***************************************************************************)
(* The loop over batteries                                                 *)
(***************************************************************************)

\* `continue`: the battery has nothing left to run.
SkipSettled ==
    /\ phase = "scan" /\ cb <= NBatteries
    /\ Settled(cb)
    /\ cb' = cb + 1
    /\ UNCHANGED <<durable, phase, recorded, next, evidence, total, capped,
                   active, cm, ci, got, clean, scored, oracle, history>>

\* Mutant of SkipEmptyBank: `continue` without counting the round.
SkipEmptyBankStuck ==
    /\ phase = "scan" /\ cb <= NBatteries
    /\ ~Settled(cb) /\ Bank(cb) = {}
    /\ active' = TRUE
    /\ cb' = cb + 1
    /\ UNCHANGED <<durable, phase, recorded, next, evidence, total, capped,
                   cm, ci, got, clean, scored, oracle, history>>

\* Mutant of SkipEmptyBank: the battery is not reported active.
SkipEmptyBankQuietly ==
    /\ phase = "scan" /\ cb <= NBatteries
    /\ ~Settled(cb) /\ Bank(cb) = {}
    /\ next' = [next EXCEPT ![cb] = @ + 1]
    /\ cb' = cb + 1
    /\ UNCHANGED <<durable, phase, recorded, evidence, total, capped,
                   active, cm, ci, got, clean, scored, oracle, history>>

\* A battery without items only counts its rounds.
SkipEmptyBank ==
    /\ phase = "scan" /\ cb <= NBatteries
    /\ ~Settled(cb) /\ Bank(cb) = {}
    /\ active' = TRUE
    /\ next' = [next EXCEPT ![cb] = @ + 1]
    /\ cb' = cb + 1
    /\ UNCHANGED <<durable, phase, recorded, evidence, total, capped,
                   cm, ci, got, clean, scored, oracle, history>>

BeginRound ==
    /\ phase = "scan" /\ cb <= NBatteries
    /\ ~Settled(cb) /\ Bank(cb) # {}
    /\ active' = TRUE
    /\ cm' = 1
    /\ scored' = [m \in Models |-> {}]
    /\ phase' = "insert"
    /\ UNCHANGED <<durable, recorded, next, evidence, total, capped,
                   cb, ci, got, clean, oracle, history>>

\* End of the `for battery`: another pass while some battery was active.
NextPass ==
    /\ phase = "scan" /\ cb > NBatteries
    /\ active
    /\ active' = FALSE /\ cb' = 1
    /\ UNCHANGED <<durable, phase, recorded, next, evidence, total, capped,
                   cm, ci, got, clean, scored, oracle, history>>

Finish ==
    /\ phase = "scan" /\ cb > NBatteries
    /\ ~active
    /\ phase' = "done"
    /\ UNCHANGED <<durable, recorded, next, evidence, total, capped, active,
                   cursor, oracle, history>>

(***************************************************************************)
(* One round of one finalist                                               *)
(***************************************************************************)

\* _insert_run: committed before the first call, with the column default
\* status 'scored'.
InsertRun ==
    /\ phase = "insert"
    /\ runs' = Append(runs, [regime |-> "current", model |-> cm, battery |-> cb,
                             round |-> next[cb], status |-> "scored", items |-> {}])
    /\ ci' = 1 /\ clean' = TRUE
    /\ phase' = "item"
    /\ UNCHANGED <<stamp, recorded, next, evidence, total, capped, active,
                   cb, cm, got, scored, oracle, history>>

\* Mutant of CurrentKey: the repetition is not taken from the round.
CurrentKeyFirstRound == <<cm, cb, 1, ci>>

CurrentKey == <<cm, cb, next[cb], ci>>

\* A recorded score is reused: no call, no new row, nothing appended.
ReuseScore ==
    /\ phase = "item" /\ ci \in Bank(cb)
    /\ CurrentKey \in recorded
    /\ scored' = [scored EXCEPT ![cm] = @ \cup {ci}]
    /\ ci' = ci + 1
    /\ UNCHANGED <<durable, phase, recorded, next, evidence, total, capped,
                   active, cb, cm, got, clean, oracle, history>>

\* call_and_grade, then the token counters.
CallModel(outcome) ==
    /\ phase = "item" /\ ci \in Bank(cb)
    /\ CurrentKey \notin recorded
    /\ got' = outcome
    /\ total' = total + (IF outcome = "infra" THEN 0 ELSE 1)
    /\ phase' = "graded"
    /\ UNCHANGED <<durable, recorded, next, evidence, capped, active,
                   cb, cm, ci, clean, scored, oracle, history>>

\* Mutant of CapReached: one call too many.
CapPassed == total > TokenCap

CapReached == total >= TokenCap

\* The measurement row of a scored call, then the token cap check.
RecordResult ==
    /\ phase = "graded"
    /\ IF got = "scored"
       THEN /\ runs' = [runs EXCEPT ![Len(runs)].items = @ \cup {ci}]
            /\ mem' = [mem EXCEPT ![cb][cm][ci] = @ + 1]
            /\ scored' = [scored EXCEPT ![cm] = @ \cup {ci}]
            /\ clean' = clean
       ELSE /\ clean' = FALSE
            /\ UNCHANGED <<runs, mem, scored>>
    /\ capped' = CapReached
    /\ ci' = ci + 1
    /\ phase' = IF capped' THEN "close" ELSE "item"
    /\ got' = "none"
    /\ UNCHANGED <<stamp, recorded, next, pair, modelRounds, doneRounds, total,
                   active, cb, cm, oracle, history>>

\* The item loop ends with the bank, or with the break at the cap.
EndOfBank ==
    /\ phase = "item" /\ ci \notin Bank(cb)
    /\ phase' = "close"
    /\ UNCHANGED <<durable, recorded, next, evidence, total, capped, active,
                   cursor, oracle, history>>

\* The UPDATE of the run row and the model stopper.
CloseRun ==
    /\ phase = "close"
    /\ runs' = [runs EXCEPT ![Len(runs)].status =
                   IF clean THEN "scored" ELSE "inconclusive"]
    /\ modelRounds' = IF scored[cm] = {} THEN modelRounds
                      ELSE [modelRounds EXCEPT ![cb][cm] = @ + 1]
    /\ IF capped \/ cm = NModels
       THEN phase' = "feed" /\ cm' = cm
       ELSE phase' = "insert" /\ cm' = cm + 1
    /\ UNCHANGED <<stamp, recorded, next, pair, doneRounds, mem, total, capped,
                   active, cb, ci, got, clean, scored, oracle, history>>

SharedNow(p) == scored[p[1]] \cap scored[p[2]]

\* After the finalists: the battery's diagnostic stopper, the pair sequences
\* (not when the cap stopped the round), the next round.
FeedPairs ==
    /\ phase = "feed"
    /\ doneRounds' = IF \A m \in Models : scored[m] = {} THEN doneRounds
                     ELSE [doneRounds EXCEPT ![cb] = @ + 1]
    /\ pair' = IF capped THEN pair
               ELSE [pair EXCEPT ![cb] = [p \in Pairs |->
                        IF SharedNow(p) = {} THEN pair[cb][p]
                        ELSE Feed(pair[cb][p], next[cb], SharedNow(p))]]
    /\ next' = [next EXCEPT ![cb] = @ + 1]
    /\ IF capped THEN phase' = "done" /\ cb' = cb
                 ELSE phase' = "scan" /\ cb' = cb + 1
    /\ UNCHANGED <<durable, recorded, modelRounds, mem, total, capped, active,
                   cm, ci, got, clean, scored, oracle, history>>

\* The process ends at any point of the loop; only committed rows survive.
Crash ==
    /\ phase \notin {"down", "done"}
    /\ starts < MaxStarts
    /\ phase' = "down"
    /\ recorded' = {}
    /\ next' = [b \in Batteries |-> 1]
    /\ pair' = [b \in Batteries |-> [p \in Pairs |-> NoEvidence]]
    /\ modelRounds' = [b \in Batteries |-> [m \in Models |-> 0]]
    /\ doneRounds' = [b \in Batteries |-> 0]
    /\ mem' = [b \in Batteries |-> [m \in Models |-> [i \in Items |-> 0]]]
    /\ total' = 0 /\ capped' = FALSE /\ active' = FALSE
    /\ cb' = 1 /\ cm' = 1 /\ ci' = 1 /\ got' = "none" /\ clean' = TRUE
    /\ scored' = [m \in Models |-> {}]
    /\ UNCHANGED <<durable, oracle, history>>

\* A finished sweep may be left alone for ever.
Idle == phase = "done" /\ UNCHANGED vars

Step == \/ Open \/ SkipSettled \/ SkipEmptyBank \/ BeginRound \/ NextPass
        \/ Finish \/ InsertRun \/ ReuseScore \/ RecordResult \/ EndOfBank
        \/ CloseRun \/ FeedPairs
        \/ \E outcome \in Outcomes : CallModel(outcome)

Next == Begin \/ Step \/ Crash \/ Idle

Spec == Init /\ [][Next]_vars

(***************************************************************************)
(* The loop is sequential code that never waits, and the operator starts   *)
(* an interrupted sweep again: only the number of interruptions (MaxStarts)*)
(* is bounded.                                                             *)
(***************************************************************************)
Fairness == WF_vars(Step) /\ WF_vars(Begin /\ phase = "down")
FairSpec == Spec /\ Fairness

(***************************************************************************)
(* Properties                                                              *)
(***************************************************************************)
Running == phase \notin {"down", "open"}

TypeOK ==
    /\ runs \in Seq(RunRow)
    /\ stamp \in {"absent", "unmarked", "current"}
    /\ phase \in {"down", "open", "scan", "insert", "item", "graded", "close",
                  "feed", "done"}
    /\ recorded \subseteq Keys
    /\ next \in [Batteries -> Nat \ {0}]
    /\ pair \in [Batteries -> [Pairs -> [n_rounds : Nat, n_diffs : Nat,
                                         seen : [Rounds -> SUBSET Items]]]]
    /\ modelRounds \in [Batteries -> [Models -> Nat]]
    /\ doneRounds \in [Batteries -> Nat]
    /\ mem \in [Batteries -> [Models -> [Items -> Nat]]]
    /\ total \in Nat /\ opened \in Nat /\ starts \in 0..MaxStarts
    /\ capped \in BOOLEAN /\ active \in BOOLEAN /\ clean \in BOOLEAN
    /\ cb \in 1..NBatteries + 1 /\ cm \in Models /\ ci \in Nat \ {0}
    /\ got \in Outcomes \cup {"none"}
    /\ scored \in [Models -> SUBSET Items]
    /\ need \in [Batteries -> [Pairs -> NeedRange]]
    /\ precise \in [Batteries -> NeedRange]

\* Each (model, battery, round, item) is measured at most once by the current
\* regime, across every crash and resume: no two run rows hold the same key.
\* hr.run and hr.measurement have no unique key that would stop a second row,
\* so only the resume logic does.
MeasuredOnce ==
    \A j, k \in 1..Len(runs) :
        /\ j # k
        /\ runs[j].regime = "current" /\ runs[k].regime = "current"
        /\ runs[j].model = runs[k].model
        /\ runs[j].battery = runs[k].battery
        /\ runs[j].round = runs[k].round
        => runs[j].items \cap runs[k].items = {}

(***************************************************************************)
(* Why MeasuredOnce holds: the loop knows the run row it is filling, a     *)
(* sweep that is not stamped has legacy rows only, and every row of the    *)
(* current regime is either among the recorded keys or lies behind the     *)
(* loop.                                                                   *)
(***************************************************************************)
InRound == phase \in {"insert", "item", "graded", "close", "feed"}
InLane == phase \in {"item", "graded", "close"}
Looping == phase = "scan" \/ InRound

LaneRow(row) ==
    /\ row.regime = "current" /\ row.model = cm
    /\ row.battery = cb /\ row.round = next[cb]

CursorInv ==
    /\ InRound => cb \in Batteries /\ next[cb] \in Rounds
    /\ InLane => /\ Len(runs) > 0
                 /\ LaneRow(runs[Len(runs)])
                 /\ \A i \in runs[Len(runs)].items : i < ci
    /\ phase = "graded" => ci \in Bank(cb) /\ CurrentKey \notin recorded

StampInv ==
    /\ Looping => stamp = "current"
    /\ stamp # "current" => \A j \in 1..Len(runs) : runs[j].regime = "legacy"

\* The round, and within the round under way the finalist, is done.
Past(row) ==
    \/ row.round < next[row.battery]
    \/ /\ InRound /\ row.battery = cb /\ row.round = next[cb]
       /\ row.model < cm \/ phase = "feed"

Accounted(j) ==
    \/ \A i \in runs[j].items :
           <<runs[j].model, runs[j].battery, runs[j].round, i>> \in recorded
    \/ Past(runs[j])
    \/ InLane /\ j = Len(runs)

BehindInv ==
    Looping =>
        \A j \in 1..Len(runs) : runs[j].regime = "current" => Accounted(j)

\* The inductive invariant of Stage1SweepProofs: the key of the call in flight
\* has no row yet, because a current row is recorded, past or the lane's own.
LedgerInv == CursorInv /\ StampInv /\ BehindInv /\ MeasuredOnce

\* A round counts once in a pair's sequence, whether it was replayed by the
\* resume, run by the loop or both: n_rounds is the number of distinct rounds
\* fed, and n_diffs the number of distinct paired observations.
CountedOnce(seq) ==
    /\ seq.n_rounds = Cardinality({r \in Rounds : seq.seen[r] # {}})
    /\ seq.n_diffs = Cardinality({x \in Rounds \X Items : x[2] \in seq.seen[x[1]]})

\* Fresh or resumed, the evidence of a running sweep is what the ledger says:
\* for every round already behind it, each pair was fed exactly the items
\* both finalists have a measurement of; and no round was ever fed twice.
EvidenceIsLedger ==
    \A b \in Batteries, p \in Pairs :
        /\ CountedOnce(pair[b][p])
        /\ Running /\ ~capped =>
               \A r \in Rounds :
                   pair[b][p].seen[r] = IF r < next[b] THEN Shared(Rows, p, b, r) ELSE {}

\* The scores held in memory for the separation report are the persisted
\* ones, each once: a reused score is not appended a second time and a
\* rebuilt one is not lost.
MemoryMatchesLedger ==
    Running =>
        \A b \in Batteries, m \in Models, i \in Items :
            mem[b][m][i] = Cardinality({j \in 1..Len(runs) : /\ runs[j].model = m
                                                             /\ runs[j].battery = b
                                                             /\ i \in runs[j].items})

Allowance(n) == IF n >= TokenCap THEN n + 1 ELSE TokenCap

\* The rows the current regime wrote; an older regime was not capped.
CurrentRows == {w \in Rows : runs[w[1]].regime = "current"}

\* Each process overruns the cap by at most one call, and a process that
\* starts over the cap adds at most one: the persisted spend exceeds the cap
\* by at most one token per start.
CapHolds ==
    /\ total <= Allowance(opened)
    /\ Cardinality(CurrentRows) <= TokenCap + starts

\* A sweep that ends below the cap has no battery left that could still run:
\* each is out of rounds or has every comparison settled.
EndsSettled ==
    phase = "done" /\ ~capped => \A b \in Batteries : Settled(b)

\* While interruptions are finitely many, every sweep ends.
Terminates == <>[](phase = "done")

\* The sweep implements the ledger: a key is measured at most once, within the
\* allowance of the process that measures it.
RowCount(key) == Cardinality({w \in Rows : KeyOf(w) = key})
Ledger == INSTANCE MeasurementLedger
              WITH Cap <- TokenCap,
                   count <- [key \in Keys |-> RowCount(key)],
                   allowance <- Allowance(opened)
ImplementsLedger == Ledger!Spec

(***************************************************************************)
(* What the code's own comments promise and the code does not do           *)
(***************************************************************************)

\* "legacy rounds are never silently reinterpreted": a resume never reuses a
\* measurement of an older decision regime.
LegacyNeverReinterpreted ==
    Running =>
        \A w \in Rows : runs[w[1]].regime = "legacy" => KeyOf(w) \notin recorded

\* decision.py reads a model's capability from its latest run with status
\* 'scored'.
ScoredRuns(m, b) ==
    {j \in 1..Len(runs) : runs[j].model = m /\ runs[j].battery = b /\ runs[j].status = "scored"}
LatestScored(m, b) == CHOOSE j \in ScoredRuns(m, b) : \A k \in ScoredRuns(m, b) : k <= j

\* "a later partial lane must UPDATE only the batteries it re-measured": when
\* a sweep has ended, a model with scored measurements of a battery still has
\* some in the capability profile.
ProfileKeepsEvidence ==
    phase = "done" =>
        \A m \in Models, b \in Batteries :
            (\E j \in ScoredRuns(m, b) : runs[j].items # {})
                => runs[LatestScored(m, b)].items # {}
=============================================================================
