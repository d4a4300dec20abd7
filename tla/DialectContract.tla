--------------------------- MODULE DialectContract ---------------------------
(***************************************************************************)
(* Dialect contracts (hr/dialect_contract.py): what an endpoint has shown  *)
(* it can do, probed before a battery is scored on it, and kept for        *)
(* ValidFor days.  The facts are "efforts" (it accepts a reasoning effort), *)
(* "tools" (it answers with tool calls), "vision", and "starves" (its      *)
(* thinking leaves too few characters for the answer).  The facts that     *)
(* only tune the reading of a stream (thinking key, usage) are left out.   *)
(***************************************************************************)
EXTENDS ModelEndpoints

CONSTANTS
    Able,       \* endpoint -> the abilities it has
    Needs,      \* battery -> what its requests lean on: "thinking", "tool_calls"
    ValidFor    \* VALID_DAYS, in ticks of the clock

ASSUME DialectAssumption == ValidFor \in Nat \ {0}

VARIABLES
    contracts,  \* hr.model_contract, by probed_at
    shown       \* <<endpoint, ability>> -> when it was last demonstrated; not stored

dialect == <<contracts, shown>>

Abilities == {"efforts", "starves", "tools", "vision"}

-----------------------------------------------------------------------------
(* probe_dialect *)

Requests == {"efforts", "starves", "tools", "vision"}

\* An effort counts as heard when it is declined too and a stream whatever its status, a
\* tool or image call only when it is served.
Heard(e, lost) == (Requests \ lost) \cap ({"efforts", "starves"} \cup Able[e])

\* A gateway that answers every request with an error: the streams have no characters.
Busy == Requests \ {"starves"}

\* ProbeUnreachableError: None, and nothing is kept.
Probe(e, lost) == IF Heard(e, lost) = {} THEN None
                  ELSE IF lost = Busy THEN {"starves"} ELSE Able[e] \ lost

\* Requests a probe may lose: one kind of them, or all, or all but the streams.
Losses == {{}, Requests, Busy} \cup {{r} : r \in Requests}

-----------------------------------------------------------------------------
(* Persistence *)

\* upsert_contract: contract_id is made of URL, slug and facts; a second model id with
\* the same URL and slug only moves probed_at, the row stays the first one's.
Same(c, e, facts) == c.endpoint = e /\ c.facts = facts
Upserted(m, e, facts) ==
    LET same == {i \in DOMAIN contracts : Same(contracts[i], e, facts)}
    IN  IF same = {}
        THEN Append(contracts, [model |-> m, endpoint |-> e, facts |-> facts, at |-> now])
        ELSE Append(RemoveAt(contracts, Max(same)), [contracts[Max(same)] EXCEPT !.at = now])

\* Mutant of Valid: a contract never expires.
ValidForEver(c, m) == c.model = m /\ c.endpoint = Endpoint[m]

Valid(c, m) == /\ c.model = m /\ c.endpoint = Endpoint[m]
               /\ now - c.at < ValidFor

\* load_valid_facts
LoadValidFacts(m) ==
    LET valid == {i \in DOMAIN contracts : Valid(contracts[i], m)}
    IN  IF valid = {} THEN None ELSE contracts[Max(valid)].facts

-----------------------------------------------------------------------------
(* The gate *)

\* HARD_REQUIREMENTS
Proof == [thinking |-> "efforts", tool_calls |-> "tools"]

\* unmet_requirements: without facts every battery is unmet.
Unmet(m, b, facts) ==
    \/ facts = None
    \/ \E need \in Needs[b] : /\ ~(need = "thinking" /\ m \notin Thinks)
                              /\ Proof[need] \notin facts

-----------------------------------------------------------------------------
(* ensure_facts: the cache of the process, then the database, then the     *)
(* probe.  The cache keeps a failed probe as well.                         *)

Probed(m) == Endpoint[m] # None
Cached(m) == m \in DOMAIN job.cache
Facts(m) == IF Probed(m) THEN job.cache[m] ELSE {}
Cache(m, facts) == Entered(job.cache, m, facts)

FromDatabase(m) ==
    /\ LoadValidFacts(m) # None
    /\ job' = [job EXCEPT !.cache = Cache(m, LoadValidFacts(m))]
    /\ UNCHANGED <<contracts, shown, trouble>>

\* Without a database nothing is loaded and nothing kept.
FromProbe(m, lost, database) ==
    LET facts == Probe(Endpoint[m], lost)
        cost  == (IF lost = {} THEN 0 ELSE 1) + (IF database THEN 0 ELSE 1)
    IN  /\ database => LoadValidFacts(m) = None
        /\ cost <= trouble
        /\ trouble' = trouble - cost
        /\ job' = [job EXCEPT !.cache = Cache(m, facts)]
        /\ contracts' = IF database /\ facts # None
                        THEN Upserted(m, Endpoint[m], facts) ELSE contracts
        /\ shown' = IF facts = None THEN shown
                    ELSE Over([fact \in {Endpoint[m]} \X facts |-> now], shown)

EnsureFacts(m) ==
    \/ FromDatabase(m)
    \/ \E lost \in Losses, database \in BOOLEAN : FromProbe(m, lost, database)
=============================================================================
