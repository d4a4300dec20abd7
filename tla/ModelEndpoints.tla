---------------------------- MODULE ModelEndpoints ----------------------------
(***************************************************************************)
(* From a model id to the service that answers it: which wire its provider *)
(* speaks (hr/fleet_policy.py, hr/adapters/fleet.py), which models the     *)
(* sweeps know (hr/fleet.py), and the URL and key each of the two adapters *)
(* looks up (hr/adapters/openai_endpoint.py, hr/adapters/                  *)
(* anthropic_compat.py, hr/config.py, hr/opencode_auth.py).                *)
(*                                                                         *)
(* The files hr reads are one constant, Setup.  They do not change while   *)
(* the commands of a run are typed; that one cannot be read for a moment   *)
(* is the business of the session that meets it.                           *)
(***************************************************************************)
EXTENDS EvidenceBase, SequencesExt

CONSTANTS
    Setup,      \* [files, wires, gateways, cache, v2, legacy, extras, overlay], see below
    Ids,        \* model id -> [provider, slug]
    NpmWire     \* package -> "openai" or "anthropic"

\* Setup.files     opencode.jsonc: global, project, .opencode; each provider -> block
\* Setup.wires     fleet.yaml, wire_overrides: provider -> wire
\* Setup.gateways  fleet.yaml, gateway_urls: provider -> URL
\* Setup.cache     opencode's models cache: provider -> URL
\* Setup.v2        auth-v2.json: provider -> "key" or "token"
\* Setup.legacy    auth.json, the same
\* Setup.extras    deployable.yaml, extra_deployable: model ids
\* Setup.overlay   models.yaml, capabilities: model id or slug -> "thinking", "vision"

\* The value of f at x, None outside its domain.
Lookup(f, x) == IF x \in DOMAIN f THEN f[x] ELSE None

\* The first of several sources that has something to say.
FirstOf(sources) ==
    LET said == SelectSeq(sources, LAMBDA s : s # None)
    IN  IF said = <<>> THEN None ELSE said[1]

-----------------------------------------------------------------------------
(* opencode's configuration *)

\* read_providers: a block of a later file replaces the whole block of an earlier one.
Blocks == FoldLeft(LAMBDA merged, file : file @@ merged, <<>>, Setup.files)

Field(p, field) == IF p \in DOMAIN Blocks THEN Blocks[p][field] ELSE None

\* resolve_wire and provider_type: the override, else the package of a declared provider.
\* A provider without either is an error, for a caller that needs the wire.
Wire(p) == FirstOf(<<Lookup(Setup.wires, p), Lookup(NpmWire, Field(p, "npm"))>>)

-----------------------------------------------------------------------------
(* The fleet *)

Provider(m) == Ids[m].provider

\* discovered_models: the models of a provider whose wire is unknown are skipped.
Discovered ==
    {m \in DOMAIN Ids : /\ Provider(m) \in DOMAIN Blocks /\ Wire(Provider(m)) # None
                        /\ Ids[m].slug \in Blocks[Provider(m)].models}

\* extra_models and merge_with_extras: every extra has a wire, and none is a model that
\* is discovered anyway.
Mergeable ==
    /\ \A m \in Setup.extras : Wire(Provider(m)) # None
    /\ Setup.extras \cap Discovered = {}

\* fleet_inventory; empty where it raises.
Fleet == IF Mergeable THEN Discovered \cup Setup.extras ELSE {}

-----------------------------------------------------------------------------
(* The endpoint *)

\* provider_api_key: an oauth token is no key, nor does it hide one.
StoredKey(p) ==
    FirstOf(<<IF Lookup(Setup.v2, p) = "key" THEN "v2" ELSE None,
              IF Lookup(Setup.legacy, p) = "key" THEN "legacy" ELSE None>>)

\* resolve_endpoint: the cache, the block, the gateway; the auth files, then the key in
\* the block.
OpenAIUrl(p) == FirstOf(<<Lookup(Setup.cache, p), Field(p, "url"), Lookup(Setup.gateways, p)>>)
OpenAIKey(p) == FirstOf(<<StoredKey(p), Field(p, "key")>>)

\* get_provider_config: the block before the rest, for both.
AnthropicUrl(p) == FirstOf(<<Field(p, "url"), Lookup(Setup.gateways, p)>>)
AnthropicKey(p) == FirstOf(<<Field(p, "key"), StoredKey(p)>>)

\* endpoint_for; only the openai adapter has one.
OpenAIEndpoint(m) == [url |-> OpenAIUrl(Provider(m)), slug |-> Ids[m].slug]

Endpoint == [m \in DOMAIN Ids |-> IF Wire(Provider(m)) = "openai" THEN OpenAIEndpoint(m) ELSE None]

\* probe_capabilities of the two adapters raises where the URL or the key is missing.
OpenAISetUp(p) == OpenAIUrl(p) # None /\ OpenAIKey(p) # None
AnthropicSetUp(p) == AnthropicUrl(p) # None /\ AnthropicKey(p) # None

\* adapter_for, and what its adapter says when it is asked for the capabilities.
SetUp(m) ==
    LET p == Provider(m)
    IN  \/ Wire(p) = "openai" /\ OpenAISetUp(p)
        \/ Wire(p) = "anthropic" /\ AnthropicSetUp(p)

\* resolve_capabilities: an entry of the id before one of the bare slug, else nothing.
Capabilities(m) ==
    LET said == FirstOf(<<Lookup(Setup.overlay, m), Lookup(Setup.overlay, Ids[m].slug)>>)
    IN  IF said = None THEN {} ELSE said

Thinks == {m \in DOMAIN Ids : "thinking" \in Capabilities(m)}
Sees == {m \in DOMAIN Ids : "vision" \in Capabilities(m)}
=============================================================================
