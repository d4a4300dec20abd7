----------------------------- MODULE SeatVerdict ------------------------------
(***************************************************************************)
(* What is made of the evidence when nothing runs: the behavioural health  *)
(* of a model (hr/health.py, health_metrics.py, seats/health_gates.py),    *)
(* the model of a seat (hr/decision.py, assign/ranker.py), and the three   *)
(* verdicts of hr recommend on a task (hr/recommend.py,                    *)
(* recommendation_constraints.py).  Queries only: no state, no steps.      *)
(*                                                                         *)
(* Health and separations come from the anchor sweep alone, capability     *)
(* from the profile over all sweeps.  Scores are hundredths of a point,    *)
(* shares are percent.  Of a price only whether there is one counts, and   *)
(* of a latency only how many rows it rests on: every amount is within its *)
(* limit.  Repetition in a text is left out.                               *)
(***************************************************************************)
EXTENDS Stage0Sweep

CONSTANTS
    Deployable,     \* models of opencode.jsonc with what the seat requires (_apply_hard_gate)
    SeatWeights,    \* battery -> weight for a seat (DEFAULT_BATTERY_BY_SEAT over _KNOB_TO_BATTERY)
    SeatPenalty,    \* ROLE_HEALTH_WEIGHTS of the seat: truncation, completion, in hundredths
    TruncationMax,  \* the moderate gate of GATES, in percent
    CompletionMin,
    Canon,          \* canonical_battery: battery -> name
    RowOrder,       \* the order the profile's groups come in; the query asks for none
    Task,           \* canonical batteries a task calls for (_match_batteries)
    MaxAge          \* FreshnessConstraint.max_age_days, in ticks of the clock

ASSUME VerdictAssumption ==
    /\ MaxAge \in Nat
    /\ RowOrder \in Seq(Batteries) /\ Batteries \subseteq Range(RowOrder)

-----------------------------------------------------------------------------
(* sweep_health: a report for every model with a run in the sweep          *)

RunsOf(m) == {i \in DOMAIN runs : runs[i].sweep = Anchor /\ runs[i].model = m}

\* A rate is None where there is nothing to count.
Rate(part, whole) ==
    IF whole = {} THEN None ELSE (100 * Cardinality(part)) \div Cardinality(whole)

\* compute_health: _truncation_rate_rows over the rows, _answer_completion_rate over those
\* with a text; a text that was not cut is taken to hold its final answer.
Report(m) ==
    LET ids    == RunsOf(m)
        cells  == UNION {{i} \X DOMAIN runs[i].scores : i \in ids}
        texts  == {x \in cells : x[2] \notin runs[x[1]].unanswered}
        cut    == {x \in cells : x[2] \in runs[x[1]].cut}
    IN  [known |-> ids # {}, rows |-> Cardinality(cells),
         truncation |-> Rate(cut, cells), completion |-> Rate(texts \ cut, texts)]

\* evaluate_gate: what was not measured never fails a model.
PassesGate(report) ==
    /\ report.truncation \in {None} \cup 0..TruncationMax
    /\ report.completion \in {None} \cup CompletionMin..100

\* health_rank_score: a completion of nought counts as full, "0.0 or 1.0".
Share(rate, missing) == IF rate \in {None, 0} THEN missing ELSE rate
RankScore(report, weights) ==
    (weights.truncation * Share(report.truncation, 0)
       + weights.completion * (100 - Share(report.completion, 100))) \div 100

-----------------------------------------------------------------------------
(* seat_assignments and rank                                               *)

\* _weighted_score, less the health of the model.
Fitness(m) ==
    LET weighed == Measured(m) \cap DOMAIN SeatWeights
    IN  (IF weighed = {} THEN 0
         ELSE MapThenSumSet(LAMBDA b : SeatWeights[b] * Mean(m, b), weighed)
                \div MapThenSumSet(LAMBDA b : SeatWeights[b], weighed))
        - RankScore(Report(m), SeatPenalty)

\* Deployable models with rows, less those a known report eliminates.
Survivors == {m \in Deployable : Measured(m) # {} /\ PassesGate(Report(m))}

\* The order of a ranking: by score, then by name.
Position(m) == CHOOSE i \in DOMAIN Ranked : Ranked[i] = m
Best(rated) ==
    CHOOSE a \in rated : \A b \in rated \ {a} :
        \/ a.score > b.score
        \/ a.score = b.score /\ Position(a.model) < Position(b.model)

\* separation_probabilities, and _weighted_separations over the seat's batteries.
Probability(p) == IF p.p = 0 THEN 50 ELSE p.p
Directed(winner, loser) ==
    {p \in Separations(Anchor) : /\ p.winner = winner /\ p.loser = loser
                                 /\ p.battery \in DOMAIN SeatWeights}
Weighted(pairs) ==
    MapThenSumSet(LAMBDA p : SeatWeights[p.battery] * Probability(p), pairs)
      \div MapThenSumSet(LAMBDA p : SeatWeights[p.battery], pairs)

Separated(p) == p >= 95
Tied(p) == p < 80

\* Of a tied pair the one with a report, then the healthier, then the one ahead.
TieBreak(a, b) ==
    LET ra == Report(a)
        rb == Report(b)
        healthier == RankScore(rb, SeatPenalty) < RankScore(ra, SeatPenalty)
    IN  IF rb.known /\ (~ra.known \/ healthier) THEN b ELSE a

\* The evidence on a pair, in the order of the ranking or against it.
Evidence(pairs, supported) == [p |-> Weighted(pairs), supported |-> supported]

\* Mutant of OnPair: a pair is looked up in the order of the ranking only.
OnPairForward(first, second) ==
    LET ahead == Directed(first, second)
    IN  IF ahead # {} THEN Evidence(ahead, first) ELSE [p |-> 50, supported |-> first]

OnPair(first, second) ==
    LET ahead  == Directed(first, second)
        behind == Directed(second, first)
    IN  IF ahead # {} THEN Evidence(ahead, first)
        ELSE IF behind # {} THEN Evidence(behind, second)
        ELSE [p |-> 50, supported |-> first]

\* The pair that leads.
Decided(first, second) ==
    LET pair == OnPair(first, second)
    IN  IF Separated(pair.p) THEN pair.supported
        ELSE IF Tied(pair.p) THEN TieBreak(first, second) ELSE first

\* The two that lead, in order, or fewer.
TopTwo ==
    LET rated == {[model |-> m, score |-> Fitness(m)] : m \in Survivors}
        first == Best(rated)
    IN  IF rated = {} THEN <<>>
        ELSE IF rated = {first} THEN <<first.model>>
        ELSE <<first.model, Best(rated \ {first}).model>>

Primary ==
    LET top == TopTwo
    IN  CASE Len(top) = 0 -> None
          [] Len(top) = 1 -> top[1]
          [] OTHER        -> Decided(top[1], top[2])

-----------------------------------------------------------------------------
(* recommend: eligible, excluded or indeterminate for a task               *)

\* _canon_battery_map: of the batteries with one canonical name the last one counts.
Named(c, batteries) == {b \in batteries : Canon[b] = c}
LastOf(batteries) == RowOrder[Max({i \in DOMAIN RowOrder : RowOrder[i] \in batteries})]

Covers(m) == \A c \in Task : Named(c, Measured(m)) # {}
Source(m, c) == LastOf(Named(c, Measured(m)))

Known == {runs[i].model : i \in DOMAIN runs}
Covered == {m \in Known : Covers(m)}

\* Capability in equal parts, less the unweighted health.
TaskScore(m) ==
    MapThenSumSet(LAMBDA c : Mean(m, Source(m, c)), Task) \div Cardinality(Task)
    - RankScore(Report(m), [truncation |-> 100, completion |-> 0])

\* rival_of: the first has the second for a rival, everybody else the first.
Rival(m) ==
    LET rated == {[model |-> a, score |-> TaskScore(a)] : a \in Covered}
        first == Best(rated)
    IN  IF Covered = {m} THEN None
        ELSE IF m = first.model THEN Best(rated \ {first}).model ELSE first.model

\* Mutant of Age: the anchor sweep dates all evidence.
AgeOfAnchor(m) == now - sweeps[Anchor].at

\* The age of the oldest profile run the task leans on; a run without rows dates too.
Age(m) == now - Min({MeasuredAt(m, LastOf(Named(c, Started(m)))) : c \in Task})

\* _separation_vs_rival: the mean over the task's batteries, whoever won.
Between(m, rival) ==
    {p \in Separations(Anchor) : {p.winner, p.loser} = {m, rival} /\ Canon[p.battery] \in Task}
Distinct(m) ==
    LET rival == Rival(m)
        pairs == Between(m, rival)
    IN  IF rival = None \/ pairs = {} THEN None
        ELSE MapThenSumSet(Probability, pairs) \div Cardinality(pairs)

\* _get_success_rates, in percent; None without a run in the sweep.
SuccessRate(m) == Rate({i \in RunsOf(m) : runs[i].status = "scored"}, RunsOf(m))

\* The evidence on one constraint is against the model, absent, or for it.
Verdict(present, holds) ==
    IF ~present THEN "missing" ELSE IF holds THEN "pass" ELSE "fail"

\* An estimate takes a price; a percentile takes a row of the sweep.
Estimated(m) == m \in Priced
Timed(m) == Report(m).rows # 0

Freshness(m)   == Verdict(TRUE, Age(m) <= MaxAge)
Budget(m)      == Verdict(Estimated(m), TRUE)
Latency(m)     == Verdict(Timed(m), TRUE)
Reliability(m) == Verdict(SuccessRate(m) # None, SuccessRate(m) \in 95..100)
Health(m)      == Verdict(Report(m).known, PassesGate(Report(m)))

\* A separation of less than 80 percent is against nobody: recommend turns it into a
\* missing one.
Uncertainty(m) == Verdict(Distinct(m) \in 80..100, TRUE)

\* RecommendationConstraints.evaluate, and the health gate.
Policy(m) == {Freshness(m), Budget(m), Latency(m), Reliability(m), Uncertainty(m), Health(m)}

Status(m) == IF ~Covers(m) THEN "indeterminate"
             ELSE IF "fail" \in Policy(m) THEN "excluded"
             ELSE IF "missing" \in Policy(m) THEN "indeterminate" ELSE "eligible"
=============================================================================
