------------------------------ MODULE Evaluation ------------------------------
(***************************************************************************)
(* The evaluation side of hr: a user types benchmark, preflight, Stage 0   *)
(* and calibrate commands, days pass between them, a command may be killed *)
(* between two steps, and whoever asks for a recommendation is answered    *)
(* from what the database holds.                                           *)
(***************************************************************************)
EXTENDS SeatVerdict, Calibration

\* What a user types: batteries of the engine for the engine, of the pool for the rest,
\* and never an empty list.
Commands == UNION {Range(s.commands) : s \in Scripts}
List(typed, choices) == typed \in Seq(choices) \ {<<>>}

ASSUME ScriptsAssumption ==
    /\ \A s \in Scripts : s.trouble \in Nat /\ s.commands \in Seq(Commands)
    /\ \A c \in Commands :
           CASE c.cmd \in {"bench", "preflight"} ->
                    List(c.models, Range(c.models)) /\ List(c.batteries, Live)
             [] c.cmd = "stage0" ->
                    /\ List(c.models, Range(c.models)) /\ List(c.batteries, Pool)
                    /\ {c.forced, c.database} \subseteq BOOLEAN
             [] c.cmd = "calibrate" -> List(c.batteries, DOMAIN Tier)

vars == <<tables, control, job, trouble, dialect, calibration>>

Init ==
    /\ EvidenceInit
    /\ contracts = <<>> /\ shown = <<>>
    /\ events = <<>> /\ report = [pool |-> {}, verdicts |-> {}]

\* A step of the command that measures.
MeasuringStep ==
    \/ SetupFails \/ Contract \/ Gate \/ (\E r \in Replies : Call(r))
    \/ StoreRun \/ StoreIncident \/ StoreRow \/ Judge
    \/ BeginRound \/ (\E r \in Stage0Results : Ask(r)) \/ EndRound \/ Separate

Step == (MeasuringStep /\ UNCHANGED calibration) \/ CalibrationStep

Command == ((Bench \/ Preflight \/ Stage0) /\ UNCHANGED calibration) \/ Calibrate

Outside == (Tick \/ Kill) /\ UNCHANGED <<dialect, calibration>>

Next == Step \/ Command \/ Outside

Spec == Init /\ [][Next]_vars

\* A process goes on as long as it is not killed; nobody has to type a command.
FairSpec == Spec /\ WF_vars(Step)

-----------------------------------------------------------------------------
(* Preflight                                                               *)

RowsIn(s, status) == {i \in DOMAIN runs : runs[i].sweep = s /\ runs[i].status = status}

\* A preflight marker is earned by the rows of its own session: every cell the session
\* set out to measure has its run, the runs that failed are no more than the abort rate,
\* and every scored run is whole and within its band (hr/preflight.py, judge and
\* run_preflight; hr/cli_preflight.py, write_marker).
MarkerEarned ==
    \A k \in Markers :
        LET s == sweeps[k].of
            scored == RowsIn(s, "scored")
            infra  == RowsIn(s, "inconclusive")
        IN  /\ \A c \in Range(sweeps[k].plan) :
                   \E i \in DOMAIN runs : /\ runs[i].sweep = s
                                          /\ <<runs[i].model, runs[i].battery>> = c
            /\ scored \cup infra # {}
            /\ 100 * Cardinality(infra) <= AbortRate * Cardinality(scored \cup infra)
            /\ \A i \in scored :
                   LET b == runs[i].battery
                   IN  /\ DOMAIN runs[i].scores = Items(b)
                       /\ Percent(runs[i].scores) \in Band[b][1]..Band[b][2]

\* A Stage 0 sweep in the database that nobody forced was started on a marker no older
\* than the preflight stays fresh (hr/stage0_cli.py, the preflight gate).
SweepAfterFreshPass ==
    \A s \in DOMAIN sweeps :
        sweeps[s].purpose = "stage0" /\ ~sweeps[s].forced =>
            \E k \in Markers : k < s /\ sweeps[s].at - sweeps[k].at <= FreshFor

-----------------------------------------------------------------------------
(* Rows                                                                    *)

\* A scored run of a battery that leans on an ability of the endpoint rests on that
\* ability having been shown less than ValidFor before, by a probe of any process
\* (hr/dialect_contract.py, ensure_facts and unmet_requirements).
ProvenBeforeScored ==
    \A i \in DOMAIN runs :
        LET m == runs[i].model
            needs == Needs[runs[i].battery] \ (IF m \in Thinks THEN {} ELSE {"thinking"})
        IN  runs[i].status = "scored" /\ runs[i].battery \in Live /\ Probed(m) =>
                \A need \in needs :
                    LET ability == <<Endpoint[m], Proof[need]>>
                    IN  ability \in DOMAIN shown /\ runs[i].at - shown[ability] < ValidFor

\* No run is scored on tokens that gave no text: not one row of a battery asked in one
\* exchange, not all rows of one asked item by item (hr/bench/engine.py:158-164, "keeps
\* fake zeros out", and the tool loop of hr/bench/engine_interactive.py). Speed, cards,
\* conversations and Stage 0 make no such promise.
NoFakeZeros ==
    \A i \in DOMAIN runs :
        runs[i].status = "scored" /\ runs[i].battery \in Live =>
            /\ Kind[runs[i].battery] \in {"text", "image", "tools"} => runs[i].mute = {}
            /\ Kind[runs[i].battery] \in {"parts", "code"} => runs[i].mute # Items(runs[i].battery)

\* The values of a function of numbers, in the order of the numbers.
Nth(S, k) == Min({i \in S : Cardinality({j \in S : j <= i}) = k})
InOrder(f) == [k \in 1..Cardinality(DOMAIN f) |-> f[Nth(DOMAIN f, k)]]

\* The rows of an item in the rounds of a sweep, and what they give for a model.
ItemRows(rs, s, cell, item) ==
    [i \in {k \in DOMAIN rs : /\ rs[k].sweep = s /\ <<rs[k].model, rs[k].battery>> = cell
                              /\ item \in DOMAIN rs[k].scores} |-> rs[i].scores[item]]
RowScores(rs, s, m, b) ==
    LET items == {item \in Items(b) : DOMAIN ItemRows(rs, s, <<m, b>>, item) # {}}
    IN  [x \in {<<m, b>>} \X items |-> InOrder(ItemRows(rs, s, x[1], x[2]))]

\* A stored separation is the one the stored rows of its sweep give: what the process
\* kept in memory is what it committed (hr/stage0_loop.py, hr/stage0_stats.py).
SeparationFromRows ==
    AtRest => \A p \in seps :
        LET a == IF Position(p.winner) < Position(p.loser) THEN p.winner ELSE p.loser
            b == IF a = p.winner THEN p.loser ELSE p.winner
            rows == Over(RowScores(runs, p.sweep, a, p.battery), RowScores(runs, p.sweep, b, p.battery))
        IN  PairOf(a, b, p.battery, rows)
              = {[battery |-> p.battery, winner |-> p.winner, loser |-> p.loser, p |-> p.p]}

-----------------------------------------------------------------------------
(* Verdicts                                                                *)

\* The run that dates a battery of the task is the run that scores it. A later run without
\* rows of another battery with the same canonical name dates the task and scores nothing.
DatedByItsScore(m) == \A c \in Task : LastOf(Named(c, Started(m))) = Source(m, c)

\* A model is never eligible for a task on a score that was measured more than MaxAge
\* ago, whatever was measured since (hr/recommend.py, "oldest required capability";
\* hr/decision.py: a recent sweep must not certify what it never re-measured).
EligibleIsFresh ==
    AtRest => \A m \in Known :
        /\ Covers(m) /\ DatedByItsScore(m)
        /\ \E c \in Task : now - MeasuredAt(m, Source(m, c)) > MaxAge
        => Status(m) # "eligible"

\* Of the two models that lead a seat, the one a separation of the anchor sweep puts
\* behind the other, on batteries that all say so, does not get it, however the ranking
\* has them (hr/assign/ranker.py, which reads the pair in the order of the ranking first).
SeparatedLoserNotPrimary ==
    AtRest => \A p \in Separations(Anchor) :
        /\ p.battery \in DOMAIN SeatWeights /\ Separated(Weighted(Directed(p.winner, p.loser)))
        /\ Directed(p.loser, p.winner) = {}
        /\ Range(TopTwo) = {p.winner, p.loser}
        => Primary # p.loser

-----------------------------------------------------------------------------
(* Calibration                                                             *)

\* A battery the last report calls calibrated was measured in full: the database has a
\* row of an answered call for each of its items that has a band, of this pool and this
\* anchor, whichever processes asked them, and the rows are within the bands
\* (hr/calibration_runner.py, _evaluate; README.zh-CN.md:33, "only a tier measured in
\* full can pass", here in English).
PassIsComplete ==
    \A v \in report.verdicts :
        LET judged == {i \in DOMAIN Tier[v.battery] : Tier[v.battery][i] \in DOMAIN AcceptanceBands}
            key(i) == <<report.pool, <<v.anchor, v.battery, i>>>>
            tier(i) == {j \in judged : Tier[v.battery][j] = Tier[v.battery][i]}
            passed(i) == {j \in tier(i) : events[key(j)].passed}
        IN  v.status = "pass" =>
                /\ judged # {}
                /\ \A i \in judged : key(i) \in DOMAIN events /\ ~events[key(i)].infra
                /\ \A i \in judged :
                       LET band == AcceptanceBands[Tier[v.battery][i]]
                           share == (100 * Cardinality(passed(i))) \div Cardinality(tier(i))
                       IN  share \in band[1]..band[2]

-----------------------------------------------------------------------------
\* Every command comes to an end, with endpoints that refuse every call, tools that are
\* called for ever and a database that is not set up (hr/bench/engine.py, MAX_ATTEMPTS;
\* hr/bench/engine_interactive.py, the turns of the tool loop).
CommandEnds == ~AtRest ~> AtRest
=============================================================================
