----------------------------- MODULE Stage0Sweep ------------------------------
(***************************************************************************)
(* hr stage0 (hr/stage0_cli.py, stage0.py, stage0_loop.py, stage0_call.py, *)
(* stage0_stats.py): the screening sweep.  Every model answers every item  *)
(* of every battery of the pool, Rounds times; a round is a run.  What the *)
(* process heard is compared pair by pair at the end (stats/bootstrap.py). *)
(* A call costs one token.                                                 *)
(***************************************************************************)
EXTENDS BenchSession

CONSTANTS
    Ranked,     \* the fleet in the order of its names
    Rounds,     \* n_initial
    TokenCap,   \* token_cap, in answered calls
    FreshFor    \* preflight.yaml freshness_hours, in ticks of the clock

ASSUME Stage0Assumption ==
    /\ Rounds \in Nat \ {0}
    /\ Ranked \in Seq(Range(Ranked))
    /\ \A i, j \in DOMAIN Ranked : Ranked[i] = Ranked[j] => i = j

\* A call of Stage 0: the grader may fail on what came back.
Stage0Results == Answers \cup Silences \cup {"hard", "ungraded"}

Sweeping(phase) == job.cmd = "stage0" /\ job.phase = phase

-----------------------------------------------------------------------------
(* _cli_main: the gates, in order *)

\* Mutant of FreshPass: a marker is enough.
FreshPassOnce == MarkerAge # None

FreshPass == MarkerAge # None /\ MarkerAge <= FreshFor

\* A forced start skips the preflight gate, a run without a database has none; the
\* pricing gate holds for both.
Admitted(c) ==
    /\ Range(c.models) \subseteq Fleet
    /\ PricingGate(c.models)
    /\ c.database => c.forced \/ FreshPass

\* A cell for every round.
RoundsOf(c) == Cells(c.models, c.batteries)
InRounds(cells) == [i \in 1..Len(cells) * Rounds |-> cells[((i - 1) \div Rounds) + 1]]

\* run_sweep: the reference rows and the sweep.
Stage0 ==
    /\ Typed("stage0")
    /\ todo' = Tail(todo)
    /\ IF ~Admitted(todo[1]) THEN UNCHANGED <<job, sweeps>>
       ELSE LET c == todo[1]
            IN  /\ sweeps' = IF ~c.database THEN sweeps
                             ELSE Append(sweeps, [NewSweep("stage0", RoundsOf(c)) EXCEPT !.forced = c.forced])
                /\ job' = [cmd |-> "stage0", phase |-> "round", database |-> c.database,
                           sweep |-> Len(sweeps) + 1, run |-> 0,
                           left |-> InRounds(RoundsOf(c)), item |-> 1,
                           heard |-> <<>>, spoilt |-> FALSE, tokens |-> 0, pairs |-> {}]
    /\ UNCHANGED <<registered, runs, incidents, seps, now, dialect, trouble>>

-----------------------------------------------------------------------------
(* _run_sweep_loop *)

\* The run of a round is inserted as scored.
BeginRound ==
    /\ Sweeping("round")
    /\ IF job.database
       THEN /\ runs' = Append(runs, NewRun(job.sweep, Model, Battery, "scored"))
            /\ job' = [job EXCEPT !.phase = "ask", !.run = Len(runs) + 1]
       ELSE job' = [job EXCEPT !.phase = "ask"] /\ UNCHANGED runs
    /\ UNCHANGED <<registered, sweeps, incidents, seps, control, dialect, trouble>>

\* measurements_by_model_battery: the scores of an item, in the order they came.
ScoresOf(cell, item) ==
    IF <<cell, item>> \in DOMAIN job.heard THEN job.heard[<<cell, item>>] ELSE <<>>

\* Mutant of WithHeard: a later round replaces what the earlier ones heard.
WithHeardLast(r) == Entered(job.heard, <<job.left[1], job.item>>, <<Grade(r)>>)

WithHeard(r) ==
    Entered(job.heard, <<job.left[1], job.item>>, Append(ScoresOf(job.left[1], job.item), Grade(r)))

Capped(tokens) == tokens >= TokenCap

\* call_and_grade, and what becomes of its result. An exception is an infra failure;
\* silence is graded like any text.
Ask(r) ==
    LET scored == r \in Answers \cup Silences
        tokens == job.tokens + IF r = "hard" THEN 0 ELSE 1
        after  == [job EXCEPT !.tokens = tokens, !.spoilt = @ \/ ~scored,
                              !.heard = IF scored THEN WithHeard(r) ELSE @]
    IN  /\ Sweeping("ask")
        /\ SetUp(Model) \/ r = "hard"
        /\ LET cost == IF SetUp(Model) THEN Cost(Model, Battery, r) ELSE 0
           IN  cost <= trouble /\ trouble' = trouble - cost
        /\ job' = IF Capped(tokens) \/ job.item = NItems[Battery]
                  THEN [after EXCEPT !.phase = "close", !.item = 1]
                  ELSE [after EXCEPT !.item = @ + 1]
        /\ runs' = IF job.database /\ scored
                   THEN [runs EXCEPT ![job.run] = WithRow(@, job.item, r)] ELSE runs
        /\ incidents' = IF job.database /\ r = "hard" THEN incidents \cup {job.run} ELSE incidents
        /\ UNCHANGED <<registered, sweeps, seps, control, dialect>>

-----------------------------------------------------------------------------
(* stage0_stats.py *)

\* Scores of two models on the items both have, the first that both have of each.
Shorter(a, b) == IF Len(a) <= Len(b) THEN Len(a) ELSE Len(b)

Shared(a, b, heard) ==
    {x \in Items(a[2]) \X (1..Rounds) :
        /\ {<<a, x[1]>>, <<b, x[1]>>} \subseteq DOMAIN heard
        /\ x[2] <= Shorter(heard[<<a, x[1]>>], heard[<<b, x[1]>>])}

\* paired_bootstrap_separation: the share of the resamples in which the first is ahead,
\* over all of them instead of 2000 random ones, in percent. Items score 0 or 1, so it
\* depends on how many pairs there are, and how many of them each model wins.
MaxPairs == Rounds * Max({NItems[b] : b \in Pool})
Resampled(n, won, lost) ==
    LET gain(k) == IF k <= won THEN 1 ELSE IF k <= won + lost THEN -1 ELSE 0
        samples == [1..n -> 1..n]
        ahead   == {s \in samples : MapThenSumSet(LAMBDA x : gain(s[x]), 1..n) > 0}
    IN  (100 * Cardinality(ahead)) \div Cardinality(samples)
AheadOf ==
    [x \in {t \in (1..MaxPairs) \X (0..MaxPairs) \X (0..MaxPairs) : t[2] + t[3] <= t[1]} |->
        Resampled(x[1], x[2], x[3])]

\* P(mean(a) > mean(b)), of two functions of scores over the same pairs.
Ahead(a, b) ==
    LET pairs == DOMAIN a
    IN  AheadOf[<<Cardinality(pairs), Cardinality({x \in pairs : a[x] > b[x]}),
                  Cardinality({x \in pairs : a[x] < b[x]})>>]

\* classify: percent of the winner, 0 for a tie.
Confidence(p) == IF p >= 80 THEN p ELSE 0

\* _bootstrap_separation_from_state for one pair of models on a battery.
PairOf(a, b, battery, heard) ==
    LET shared == Shared(<<a, battery>>, <<b, battery>>, heard)
        scores(m) == [x \in shared |-> heard[<<<<m, battery>>, x[1]>>][x[2]]]
        p_a == Ahead(scores(a), scores(b))
        p_b == Ahead(scores(b), scores(a))
    IN  IF shared = {} THEN {}
        ELSE IF p_a >= p_b
        THEN {[battery |-> battery, winner |-> a, loser |-> b, p |-> Confidence(p_a)]}
        ELSE {[battery |-> battery, winner |-> b, loser |-> a, p |-> Confidence(p_b)]}

PairsOf(heard) ==
    UNION {PairOf(Ranked[ij[1]], Ranked[ij[2]], battery, heard) :
           ij \in {x \in (DOMAIN Ranked) \X (DOMAIN Ranked) : x[1] < x[2]}, battery \in Pool}

-----------------------------------------------------------------------------
\* The end of a round: its run gets its status. At the cap, or after the last round,
\* the pairs are compared.
EndRound ==
    LET left == IF Capped(job.tokens) THEN <<>> ELSE Tail(job.left)
    IN  /\ Sweeping("close")
        /\ runs' = IF ~job.database THEN runs
                   ELSE [runs EXCEPT ![job.run].status = IF job.spoilt THEN "inconclusive" ELSE "scored"]
        /\ job' = [job EXCEPT !.left = left, !.spoilt = FALSE,
                              !.phase = IF left = <<>> THEN "separate" ELSE "round",
                              !.pairs = IF left = <<>> THEN PairsOf(job.heard) ELSE {}]
        /\ UNCHANGED <<registered, sweeps, incidents, seps, control, dialect, trouble>>

\* _insert_separation, one after another
Separate ==
    /\ Sweeping("separate")
    /\ IF job.pairs = {} \/ ~job.database
       THEN job' = Idle /\ UNCHANGED seps
       ELSE \E p \in job.pairs :
                /\ seps' = seps \cup {[sweep |-> job.sweep, battery |-> p.battery, winner |-> p.winner,
                                     loser |-> p.loser, p |-> p.p]}
                /\ job' = [job EXCEPT !.pairs = @ \ {p}]
    /\ UNCHANGED <<registered, sweeps, runs, incidents, control, dialect, trouble>>
=============================================================================
