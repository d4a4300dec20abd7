------------------------------ MODULE ModelCalls ------------------------------
(***************************************************************************)
(* One call of a model through its adapter (hr/adapters/openai_compat.py,  *)
(* hr/adapters/anthropic_compat.py): a request, its reply, and whether the *)
(* adapter asks again by itself (hr/scheduler/taxonomy.py).  A reply is a  *)
(* stream, an HTTP status, or nothing at all.  What is in a stream is kept *)
(* as far as its readers (openai_protocol.py, anthropic_stream.py) tell it *)
(* apart; the rest of a request, messages, images and lengths, is left     *)
(* out.                                                                    *)
(***************************************************************************)
EXTENDS DialectContract

CONSTANTS
    Tries,      \* wire -> requests of a call (6 openai, 3 anthropic in the code)
    Budgeted,   \* batteries asked with a thinking budget
    Survival    \* SURVIVAL_DOWNGRADE_BATTERIES

-----------------------------------------------------------------------------
(* Replies *)

\* Streams, by what is in them. "cut" stops at the output cap ("length" on the one wire,
\* "max_tokens" on the other), "use" asks for the tool.
Parts == [right |-> {"text", "usage"}, wrong |-> {"text", "usage"}, cut |-> {"text", "usage"},
          use |-> {"call", "usage"}, empty |-> {"thinking", "usage"}, blank |-> {"thinking"},
          nothing |-> {}]

\* HTTP errors: of a busy server, of a request that does not please, of one that does
\* not please for its reasoning effort or for its tools, of a model that is not there.
StatusCode == [busy |-> 503, refused |-> 400, effort |-> 400, tools |-> 400, gone |-> 404]

\* No answer in time, no connection, a connection that ends within a stream.
Broken == {"timeout", "down", "torn"}

Streams == DOMAIN Parts
Statuses == DOMAIN StatusCode
Replies == Streams \cup Statuses \cup Broken

\* What the caller gets of a stream.
Read(r) == IF Parts[r] \cap {"text", "call"} # {} THEN r
           ELSE IF "usage" \in Parts[r] THEN "empty" ELSE "blank"

\* The anthropic reader takes a stream with nothing in it for a failure, the openai
\* adapter returns it.
Answered(wire, r) == r \in Streams /\ (wire = "openai" \/ Parts[r] # {})

-----------------------------------------------------------------------------
(* The failure taxonomy *)

ByStatus(n) == CASE n = 429                   -> "RATE_LIMIT"
                 [] n \in (400..499) \ {429} -> "GATEWAY_4XX"
                 [] n \in 500..599           -> "SERVER_5XX"
                 [] OTHER                    -> "UNKNOWN"

\* classify_failure. A lost connection has no status of its own: it is not retried.
FailureCode(r) == CASE r = "timeout"   -> "TIMEOUT"
                    [] r \in Statuses  -> ByStatus(StatusCode[r])
                    [] r \in Streams   -> "EMPTY_RESPONSE"
                    [] OTHER           -> "UNKNOWN"

\* retryable
Retryable == {"RATE_LIMIT", "SERVER_5XX", "TIMEOUT", "GATEWAY_4XX"}

-----------------------------------------------------------------------------
(* The request *)

\* survival_downgrade
FuseFired(m, b) == b \in Survival /\ "starves" \in Facts(m)

\* pick_effort: with a contract, None unless it has an effort that was accepted.
Accepted(m) == "efforts" \in Facts(m)

\* chat: an effort is sent for a thinking budget or for the fuse.
EffortSent(m, b) ==
    /\ Accepted(m)
    /\ FuseFired(m, b) \/ (m \in Thinks /\ b \in Budgeted)

\* The request in flight: how many there have been, and whether the effort was dropped.
NewCall == [try |-> 1, lean |-> FALSE]

-----------------------------------------------------------------------------
(* The retry loops *)

\* The openai adapter leaves its loop on every 4xx but 429; one about the effort it
\* answers with a request that has none.
Declined(wire, r) == wire = "openai" /\ r = "effort"
AtOnce(wire, r) == wire = "openai" /\ r \in Statuses /\ FailureCode(r) = "GATEWAY_4XX"

Retried(wire, r) ==
    \/ Declined(wire, r)
    \/ ~Answered(wire, r) /\ FailureCode(r) \in Retryable /\ ~AtOnce(wire, r)

GoesOn(wire, r) == Retried(wire, r) /\ job.http.try < Tries[wire]
Again(wire, r) == [try |-> job.http.try + 1, lean |-> job.http.lean \/ Declined(wire, r)]

\* _TRANSIENT_STATUS
Transient == {429, 400, 408, 500, 502, 503, 504}

\* What the call comes to in the end: what was read, or an error, by its status. An
\* effort declined by the last reply leaves the loop without a status.
Result(wire, r) ==
    CASE Answered(wire, r) -> Read(r)
      [] r \in Statuses /\ StatusCode[r] \in Transient /\ ~Declined(wire, r) -> "transient"
      [] OTHER -> "hard"
=============================================================================
