----------------------------- MODULE EvidenceBase -----------------------------
(***************************************************************************)
(* What hr knows about its models: the sweep, run, measurement, separation *)
(* and infra_incident tables (hr/stage0_storage.py), written by the        *)
(* benchmark engine, the preflight and Stage 0, and the queries that read  *)
(* them (hr/decision.py, hr/health.py).  One command runs at a time; job   *)
(* is its process.                                                         *)
(*                                                                         *)
(* A run carries its measurement rows here: scores maps an item to its     *)
(* score.  What the tables do not hold is kept beside it for the           *)
(* properties: what a sweep set out to do.  A row has its text and tokens  *)
(* in the database; unanswered, mute and cut are what they tell: no text,  *)
(* no text though tokens were spent, stopped at the output cap.            *)
(***************************************************************************)
EXTENDS Integers, Sequences, FiniteSets, FiniteSetsExt, TLC

CONSTANTS
    Live,         \* batteries of the benchmark engine
    Pool,         \* batteries of the item pool (Stage 0)
    NItems,       \* battery -> number of items
    Habit,        \* <<model, battery>> -> what its calls usually return, if not "right"
    Scripts,      \* what a user types: [commands, trouble]
    Priced,       \* models with a price (hr/parity.py, check_pricing_parity)
    MaxNow,       \* bound: the clock
    None

Batteries == Live \cup Pool
ASSUME EvidenceAssumption == Live \cap Pool = {} /\ NItems \in [Batteries -> Nat \ {0}]

VARIABLES
    now,
    registered,  \* the engine's seat, batteries and items are in the database
    sweeps,      \* hr.sweep, by created_at
    runs,        \* hr.run with its hr.measurement rows, by started_at
    incidents,   \* hr.infra_incident: runs that have one
    seps,        \* hr.separation
    todo,        \* the commands not typed yet
    job,         \* the process of the command that runs, or Idle
    trouble      \* bad answers, lost requests and kills still to come

tables == <<registered, sweeps, runs, incidents, seps>>
control == <<now, todo>>

\* A function over another one, and one with a new value.
Over(f, g) == [x \in DOMAIN f \cup DOMAIN g |-> IF x \in DOMAIN f THEN f[x] ELSE g[x]]
Entered(f, x, v) == [y \in DOMAIN f \cup {x} |-> IF y = x THEN v ELSE f[y]]

Idle == [cmd |-> "idle"]
AtRest == job = Idle

-----------------------------------------------------------------------------
(* One model call, as hr sees it *)

Answers == {"right", "wrong", "cut"}      \* text; cut: stopped at the output cap
Silences == {"empty", "blank"}            \* no text, after tokens and without any
Errors == {"transient", "hard"}           \* AdapterError, by its status code

Expected(m, b) == IF <<m, b>> \in DOMAIN Habit THEN Habit[<<m, b>>] ELSE "right"
Cost(m, b, r) == IF r = Expected(m, b) THEN 0 ELSE 1
Grade(r) == IF r = "right" THEN 1 ELSE 0
Items(b) == 1..NItems[b]

\* The cells of a session, model by model.
Cells(models, batteries) ==
    [i \in 1..Len(models) * Len(batteries) |->
        <<models[(i - 1) \div Len(batteries) + 1], batteries[((i - 1) % Len(batteries)) + 1]>>]

-----------------------------------------------------------------------------
(* Writers *)

Marker == "preflight-pass"

\* _insert_sweep. Not stored: the cells it set out to measure, the session a marker
\* marks, and whether its start was forced past the preflight gate.
NewSweep(purpose, plan) ==
    [purpose |-> purpose, at |-> now, plan |-> plan, of |-> 0, forced |-> FALSE]

\* _insert_run
NewRun(s, m, b, status) ==
    [sweep |-> s, model |-> m, battery |-> b, status |-> status, at |-> now,
     scores |-> <<>>, unanswered |-> {}, mute |-> {}, cut |-> {}]

\* _insert_measurement: the row of item i, graded from the call result r.
WithRow(run, i, r) ==
    [run EXCEPT !.scores = Entered(@, i, Grade(r)),
                !.unanswered = IF r \in Silences THEN @ \cup {i} ELSE @,
                !.mute = IF r = "empty" THEN @ \cup {i} ELSE @,
                !.cut = IF r = "cut" THEN @ \cup {i} ELSE @]

-----------------------------------------------------------------------------
(* Readers *)

Newest(ids) == IF ids = {} THEN 0 ELSE Max(ids)

\* _PROFILE_CTE: the latest scored run of a model on a battery, 0 if none.
Latest(m, b) == Newest({i \in DOMAIN runs : /\ runs[i].model = m /\ runs[i].battery = b
                                            /\ runs[i].status = "scored"})

Hits(scores) == Cardinality({i \in DOMAIN scores : scores[i] = 1})
Percent(scores) == (100 * Hits(scores)) \div Cardinality(DOMAIN scores)

\* capability_means_profile: the batteries with rows in their latest scored run. The
\* engine scores from 0 to 100, the graders of the pool from 0 to 1; here in hundredths.
Started(m) == {runs[i].battery : i \in {k \in DOMAIN runs : /\ runs[k].model = m
                                                           /\ runs[k].status = "scored"}}
Measured(m) == {b \in Started(m) : runs[Latest(m, b)].scores # <<>>}
Scale(b) == IF b \in Live THEN 100 ELSE 1
Mean(m, b) == Scale(b) * Percent(runs[Latest(m, b)].scores)

\* capability_profile_freshness
MeasuredAt(m, b) == runs[Latest(m, b)].at

\* latest_sweep_id: the newest sweep that is not a marker, 0 if none.
Anchor == Newest({s \in DOMAIN sweeps : sweeps[s].purpose # Marker})

\* marker_age_hours; None without a marker.
Markers == {s \in DOMAIN sweeps : sweeps[s].purpose = Marker}
MarkerAge == IF Markers = {} THEN None ELSE now - sweeps[Max(Markers)].at

\* separation_probabilities of a sweep: battery, winner, loser, percent.
Separations(s) == {p \in seps : p.sweep = s}

-----------------------------------------------------------------------------
EvidenceInit ==
    /\ now = 0 /\ registered = FALSE
    /\ sweeps = <<>> /\ runs = <<>> /\ incidents = {} /\ seps = {}
    /\ \E s \in Scripts : todo = s.commands /\ trouble = s.trouble
    /\ job = Idle

Tick == /\ AtRest /\ todo # <<>> /\ now < MaxNow
        /\ now' = now + 1
        /\ UNCHANGED <<tables, todo, job, trouble>>

\* A command dies between any two of its steps; what it has committed stays.
Kill == /\ ~AtRest /\ trouble > 0
        /\ job' = Idle /\ trouble' = trouble - 1
        /\ UNCHANGED <<tables, control>>
=============================================================================
