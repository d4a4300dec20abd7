----------------------------- MODULE BenchSession -----------------------------
(***************************************************************************)
(* The benchmark engine (hr/bench/engine.py, engine_runners.py,            *)
(* engine_interactive.py, engine_storage.py) under the two commands that   *)
(* drive it: hr bench (hr/cli_inventory.py), which measures a fleet, and   *)
(* hr preflight (hr/preflight.py, hr/cli_preflight.py), the budgeted       *)
(* session whose pass lets a Stage 0 sweep start.                          *)
(*                                                                         *)
(* A cell is a model and a battery.  Its battery asks one question a call; *)
(* what the calls returned is got.  The runners differ in how they end and *)
(* in what they make of a call without text, and that is their Kind:       *)
(*   text   one call, all items graded from it                             *)
(*   image  the same, for models that see                                  *)
(*   speed  one call, graded whatever it returned                          *)
(*   parts  a call per item, inconclusive if all are empty                 *)
(*   code   the same, where code can be run                                *)
(*   cards  a call per item, graded whatever they returned                 *)
(*   dialog a conversation; every turn but the first is graded             *)
(*   tools  a loop of tool calls up to an answer                           *)
(***************************************************************************)
EXTENDS ModelCalls

CONSTANTS
    Kind,         \* battery -> kind
    MaxTurns,     \* turns of the tool loop (6 in the code)
    Attempts,     \* attempts at a transient failure (3 in the code)
    Sandbox,      \* code can be run (sandbox_available)
    MaxRequests,  \* preflight.yaml budget.max_requests
    AbortRate,    \* preflight.yaml abort.error_rate, in percent
    Band          \* preflight.yaml bands: battery -> <<lo, hi>>

ASSUME BenchAssumption == Band \in [Live -> Nat \X Nat]

\* What a call came to, in the tool loop: a tool call; the gateway declines the tools.
ToolSteps == {"use", "reject"}

Session == job.cmd \in {"bench", "preflight"}
Model == job.left[1][1]
Battery == job.left[1][2]
At(phase) == Session /\ job.phase = phase

NoOutcome == [status |-> "none", scores |-> <<>>, silent |-> FALSE]

-----------------------------------------------------------------------------
(* What a runner makes of its calls *)

PerItem(b) == Kind[b] \in {"parts", "code", "cards"}

Calls(b) == IF PerItem(b) THEN NItems[b]
            ELSE IF Kind[b] = "dialog" THEN NItems[b] + 1 ELSE 1

Finished(b, got) ==
    IF Kind[b] = "tools" THEN got[Len(got)] \notin ToolSteps \/ Len(got) = MaxTurns
    ELSE Len(got) = Calls(b)

Said(got) == {i \in DOMAIN got : got[i] \in Answers}
Generated(got) == \E i \in DOMAIN got : got[i] \in {"use", "empty"}

\* The call that grades an item.
Graded(b, got, item) ==
    CASE PerItem(b)                           -> got[item]
      [] Kind[b] = "dialog"                   -> got[item + 1]
      [] Kind[b] = "tools"                    -> IF Said(got) # {} THEN got[Max(Said(got))]
                                                 ELSE IF Generated(got) THEN "empty" ELSE "blank"
      [] OTHER                                -> got[1]

\* Mutant of Unspoken: the guard of _single_call, and nothing like it in the tool loop.
UnspokenSingle(b, got) ==
    CASE Kind[b] \in {"text", "image"} -> got[1] = "empty"
      [] Kind[b] \in {"parts", "code"}  -> \A i \in DOMAIN got : got[i] = "empty"
      [] OTHER                         -> FALSE

\* Tokens were generated and no answer came: the machine's fault, not the model's.
Unspoken(b, got) ==
    CASE Kind[b] \in {"text", "image"} -> got[1] = "empty"
      [] Kind[b] \in {"parts", "code"}  -> \A i \in DOMAIN got : got[i] = "empty"
      [] Kind[b] = "tools"             -> Said(got) = {} /\ Generated(got)
      [] OTHER                         -> FALSE

\* cell_view: no text in the aggregate nor in an item. The log of the cards is never
\* empty; a conversation keeps its last turn only.
Silent(b, got) ==
    CASE Kind[b] = "cards"  -> FALSE
      [] Kind[b] = "dialog" -> got[Len(got)] \in Silences
      [] OTHER              -> Said(got) = {}

\* _RunResult and _to_outcome
Outcome(b, got) ==
    IF Unspoken(b, got) THEN [NoOutcome EXCEPT !.status = "inconclusive"]
    ELSE [status |-> "scored", scores |-> [i \in Items(b) |-> Graded(b, got, i)],
          silent |-> Silent(b, got)]

-----------------------------------------------------------------------------
(* run_battery *)

Settle(outcome) == [job EXCEPT !.phase = "store", !.out = outcome]
SettleAs(status) == Settle([NoOutcome EXCEPT !.status = status])

\* adapter_factory or probe_capabilities raises: the model is not set up, or a file that
\* says how could not be read.
SetupFails ==
    /\ At("cell")
    /\ LET cost == IF SetUp(Model) THEN 1 ELSE 0 IN cost <= trouble /\ trouble' = trouble - cost
    /\ job' = SettleAs("inconclusive")
    /\ UNCHANGED <<tables, control, dialect>>

Contract ==
    /\ At("cell") /\ SetUp(Model) /\ Probed(Model) /\ ~Cached(Model)
    /\ EnsureFacts(Model)
    /\ UNCHANGED <<tables, control>>

\* The probe grants a capability the configuration does not declare.
CanSee(m) == m \in Sees \/ "vision" \in Facts(m)

\* The contract does not carry the battery; the model cannot see; code cannot be run.
Inapplicable(m, b) ==
    \/ Probed(m) /\ Unmet(m, b, Facts(m))
    \/ Kind[b] = "image" /\ ~CanSee(m)
    \/ Kind[b] = "code" /\ ~Sandbox

Gate ==
    /\ At("cell") /\ SetUp(Model) /\ (Probed(Model) => Cached(Model))
    /\ job' = IF Inapplicable(Model, Battery) THEN SettleAs("not_applicable")
              ELSE [job EXCEPT !.phase = "call"]
    /\ UNCHANGED <<tables, control, dialect, trouble>>

\* A call that returned: the next one, or the battery is graded.
Returned(r) ==
    LET got == Append(job.got, r)
    IN  IF Finished(Battery, got) THEN Settle(Outcome(Battery, got))
        ELSE [job EXCEPT !.got = got, !.tries = 0]

\* Mutant of Raised: run_battery does not count its attempts.
RaisedAgain(r) ==
    IF r # "transient" THEN SettleAs("inconclusive")
    ELSE [job EXCEPT !.tries = 0, !.got = <<>>]

\* A call that raised: _chat_with_retry repeats the turn of a conversation, run_battery
\* the battery; whatever is not transient ends it.
Raised(r) ==
    IF r # "transient" THEN SettleAs("inconclusive")
    ELSE IF Kind[Battery] = "dialog" /\ job.tries + 1 < Attempts
    THEN [job EXCEPT !.tries = @ + 1]
    ELSE IF job.attempt + 1 < Attempts
    THEN [job EXCEPT !.attempt = @ + 1, !.tries = 0, !.got = <<>>]
    ELSE SettleAs("inconclusive")

\* The tools field is sent until the gateway has declined it, an effort until this call
\* has dropped it.
Possible(m, b, r) ==
    CASE r \in {"use", "tools"} -> Kind[b] = "tools" /\ "reject" \notin Range(job.got)
      [] r = "effort"            -> EffortSent(m, b) /\ ~job.http.lean
      [] OTHER                   -> TRUE

\* A call that is over. In the first turn of the tool loop an error about the tools is
\* not an error.
Ended(r, result) ==
    IF r = "tools" /\ job.got = <<>> THEN Returned("reject")
    ELSE IF result \in Errors THEN Raised(result) ELSE Returned(result)

\* A reply to a request of the adapter, which asks again or is done with the call.
Call(r) ==
    /\ At("call") /\ Possible(Model, Battery, r)
    /\ LET cost == IF r = "use" THEN 0 ELSE Cost(Model, Battery, r)
       IN  cost <= trouble /\ trouble' = trouble - cost
    /\ LET wire == Wire(Provider(Model))
       IN  job' = IF GoesOn(wire, r) THEN [job EXCEPT !.http = Again(wire, r)]
                  ELSE [Ended(r, Result(wire, r)) EXCEPT !.http = NewCall]
    /\ UNCHANGED <<tables, control, dialect>>

-----------------------------------------------------------------------------
(* store (engine_storage.py): a commit a row *)

\* Budget.spent, before each cell; Budget.consume counts a request a cell.
Spent(seen) == Len(seen) >= MaxRequests

\* The cell is stored: the next one, or the end of the session.
Onward(stored) ==
    LET left == Tail(stored.left)
        seen == IF stored.cmd = "bench" THEN <<>>
                ELSE Append(stored.seen, [battery |-> Battery, out |-> stored.out])
        next == [stored EXCEPT !.phase = "cell", !.left = left, !.seen = seen, !.out = NoOutcome,
                               !.got = <<>>, !.tries = 0, !.attempt = 0]
    IN  IF stored.cmd = "bench" THEN IF left = <<>> THEN Idle ELSE next
        ELSE IF left = <<>> \/ Spent(seen) THEN [next EXCEPT !.phase = "judge"] ELSE next

\* The first row of a session brings its sweep. On a database the engine is not
\* registered with, the seat is missing and the session ends there.
StoreRun ==
    /\ At("store")
    /\ IF ~registered
       THEN job' = Idle /\ UNCHANGED <<sweeps, runs>>
       ELSE LET s == IF job.sweep = 0 THEN Len(sweeps) + 1 ELSE job.sweep
                stored == [job EXCEPT !.sweep = s, !.run = Len(runs) + 1]
            IN  /\ sweeps' = IF job.sweep = 0
                             THEN Append(sweeps, NewSweep("livebench", job.plan)) ELSE sweeps
                /\ runs' = Append(runs, NewRun(s, Model, Battery, job.out.status))
                /\ job' = IF job.out.status = "inconclusive" THEN [stored EXCEPT !.phase = "incident"]
                          ELSE IF job.out.status = "scored" THEN [stored EXCEPT !.phase = "rows"]
                          ELSE Onward(stored)
    /\ UNCHANGED <<registered, incidents, seps, control, dialect, trouble>>

StoreIncident ==
    /\ At("incident")
    /\ incidents' = incidents \cup {job.run}
    /\ job' = Onward(job)
    /\ UNCHANGED <<registered, sweeps, runs, seps, control, dialect, trouble>>

StoreRow ==
    /\ At("rows")
    /\ LET item == Cardinality(DOMAIN runs[job.run].scores) + 1
       IN  /\ runs' = [runs EXCEPT ![job.run] = WithRow(@, item, job.out.scores[item])]
           /\ job' = IF item = NItems[Battery] THEN Onward(job) ELSE job
    /\ UNCHANGED <<registered, sweeps, incidents, seps, control, dialect, trouble>>

-----------------------------------------------------------------------------
(* hr bench *)

Process(command) ==
    [cmd |-> command.cmd, phase |-> "cell", sweep |-> 0, run |-> 0,
     plan |-> Cells(command.models, command.batteries),
     left |-> Cells(command.models, command.batteries),
     cache |-> <<>>, attempt |-> 0, tries |-> 0, http |-> NewCall, got |-> <<>>, out |-> NoOutcome, seen |-> <<>>]

Typed(name) == AtRest /\ todo # <<>> /\ todo[1].cmd = name

\* check_pricing_parity: every model has a price.
PricingGate(models) == Range(models) \subseteq Priced

Bench ==
    /\ Typed("bench")
    /\ todo' = Tail(todo)
    /\ IF PricingGate(todo[1].models)
       THEN job' = Process(todo[1]) /\ registered' = TRUE      \* ensure_registered
       ELSE UNCHANGED <<job, registered>>
    /\ UNCHANGED <<sweeps, runs, incidents, seps, now, dialect, trouble>>

-----------------------------------------------------------------------------
(* hr preflight *)

Preflight ==
    /\ Typed("preflight")
    /\ todo' = Tail(todo)
    /\ job' = IF PricingGate(todo[1].models) THEN Process(todo[1]) ELSE Idle
    /\ UNCHANGED <<tables, now, dialect, trouble>>

With(status) == {i \in DOMAIN job.seen : job.seen[i].out.status = status}
Score(out) == Percent([i \in DOMAIN out.scores |-> Grade(out.scores[i])])
InBand(i) == LET b == job.seen[i].battery
             IN  Band[b][1] <= Score(job.seen[i].out) /\ Score(job.seen[i].out) <= Band[b][2]

\* Mutant of Passed: the judgment of the cells that were run.
PassedPartly ==
    LET scored == With("scored")
        infra  == With("inconclusive")
    IN  /\ scored \cup infra # {}
        /\ 100 * Cardinality(infra) <= AbortRate * Cardinality(scored \cup infra)
        /\ \A i \in scored : ~job.seen[i].out.silent /\ InBand(i)

\* judge, and the budget over it: a session with cells left answers nothing.
Passed ==
    LET scored == With("scored")
        infra  == With("inconclusive")
    IN  /\ scored \cup infra # {}
        /\ 100 * Cardinality(infra) <= AbortRate * Cardinality(scored \cup infra)
        /\ \A i \in scored : ~job.seen[i].out.silent /\ InBand(i)
        /\ job.left = <<>>

\* G3: the runs can be read back.
ReadBack == LET stored == {i \in DOMAIN runs : runs[i].sweep = job.sweep}
            IN  job.seen # <<>> /\ Cardinality(stored) >= Len(job.seen)

\* write_marker
Judge ==
    /\ At("judge")
    /\ sweeps' = IF Passed /\ ReadBack
                 THEN Append(sweeps, [NewSweep(Marker, job.plan) EXCEPT !.of = job.sweep])
                 ELSE sweeps
    /\ job' = Idle
    /\ UNCHANGED <<registered, runs, incidents, seps, control, dialect, trouble>>

=============================================================================
