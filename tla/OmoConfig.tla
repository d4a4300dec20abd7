----------------------------- MODULE OmoConfig -----------------------------
(***************************************************************************)
(* fastdraw/omo.ts: the configuration file of oh-my-openagent (OMO), where *)
(* its agents and task categories are bound, in top-level sections and, on *)
(* top of them, in those of the "[opencode]" block.                        *)
(*                                                                         *)
(* The file is Absent, Torn (JSON.parse refuses it), or the entries of the *)
(* two places.  An agent is bound by its scalar; a category by its chain   *)
(* of models, or by the older scalar with fallbacks.  The options an entry *)
(* or the head of a chain may carry besides are kept by every write and    *)
(* left out, and so are project files that shadow the user's (reported     *)
(* only) and a name that is both agent and category.                       *)
(***************************************************************************)
EXTENDS Sequences

CONSTANTS Roles, Models, None, Absent, Torn,
          Builtins,     \* roles OMO defines itself
          Categories    \* roles that are task categories

\* An entry holds nothing of what it does not mention.
Bare == [model |-> None, models |-> None, fallbacks |-> <<>>]
Scalar(m) == [Bare EXCEPT !.model = m]
Legacy(m, fallbacks) == [Bare EXCEPT !.model = m, !.fallbacks = fallbacks]
Chain(models) == [Bare EXCEPT !.models = models]

Entries == [model : {None} \cup Models, models : {None} \cup Seq(Models), fallbacks : Seq(Models)]
Sections == [Roles -> {None} \cup Entries]
Parsed == [top : Sections, block : Sections]
OmoFiles == {Absent, Torn} \cup Parsed

NoEntries == [r \in Roles |-> None]
NewFile == [top |-> NoEntries, block |-> NoEntries]

Kind(role) == IF role \in Categories THEN "category" ELSE "agent"

(***************************************************************************)
(* Reading                                                                 *)
(***************************************************************************)

\* readOmoConfig, parseable.
Parseable(omo) == omo # Torn

\* foldSection: the block's entry wins over the top-level one.
EntryOf(omo, role) ==
    IF omo \in {Absent, Torn} THEN None
    ELSE IF omo.block[role] # None THEN omo.block[role] ELSE omo.top[role]

\* isOmoName: no file makes the built-in roles unknown, an unreadable one does.
IsOmoName(omo, role) ==
    Parseable(omo) /\ (role \in Builtins \/ EntryOf(omo, role) # None)

Targets == [model : {None} \cup Models, models : {None} \cup Seq(Models)]

\* The target of a role: its effective primary model, and its chain as written.
Target(omo, role) ==
    LET entry == EntryOf(omo, role)
        head == IF entry # None /\ entry.models \notin {None, <<>>} THEN entry.models[1] ELSE None
    IN IF entry = None THEN [model |-> None, models |-> None]
       ELSE [model |-> IF Kind(role) = "category"
                       THEN IF head # None THEN head ELSE entry.model
                       ELSE IF entry.model # None THEN entry.model ELSE head,
             models |-> entry.models]

\* omoTargetKind
TargetKind(omo, role) == IF IsOmoName(omo, role) THEN Kind(role) ELSE None

(***************************************************************************)
(* Records: FastDraw's binding, and what the file held before              *)
(***************************************************************************)
Records == [model : Models, original : {None} \cup Models, chain : {None} \cup Seq(Models)]
Specs == [model : Models, models : {None} \cup Seq(Models)]

Spec(m) == [model |-> m, models |-> None]

\* Mutant of Record: what is in the file now is the original.
RecordAfresh(prev, m, target) ==
    [model |-> m, original |-> target.model, chain |-> target.models]

\* The record omoAssign, load_preset and migrateAll make: what an earlier
\* record does not hold is taken from the file.
Record(prev, m, target) ==
    LET held(field, now) == IF prev # None /\ prev[field] # None THEN prev[field] ELSE now
    IN [model |-> m, original |-> held("original", target.model),
        chain |-> held("chain", target.models)]

\* omoRevertSpec: None when there is nothing to write.
RevertSpec(kind, rec) ==
    IF rec.original = None THEN None
    ELSE IF kind = "category" /\ rec.chain # None
         THEN [model |-> rec.original, models |-> rec.chain]
         ELSE Spec(rec.original)

(***************************************************************************)
(* Writing                                                                 *)
(***************************************************************************)

\* categoryChainOf
ChainOf(entry) ==
    IF entry = None THEN <<>>
    ELSE IF entry.models # None THEN entry.models
    ELSE IF entry.model # None THEN <<entry.model>> \o entry.fallbacks ELSE entry.fallbacks

\* canonicalCategoryChain, withChainPrimary: the tail is kept.
CanonicalChain(entry, spec) ==
    IF spec.models # None THEN spec.models
    ELSE IF ChainOf(entry) = <<>> THEN <<spec.model>>
    ELSE <<spec.model>> \o Tail(ChainOf(entry))

\* setNestedModelsJsonc on one entry of the block: of a category the chain and
\* nothing else, of an agent the scalar and nothing else.
WrittenEntry(role, entry, spec) ==
    IF Kind(role) = "category" THEN Chain(CanonicalChain(entry, spec))
    ELSE IF entry = None THEN Scalar(spec.model)
    ELSE [entry EXCEPT !.model = spec.model]

\* writeOmoModels: the entries of the block are rewritten, in a new file if
\* there is none.  None: the file is not touched.
Written(omo, specs) ==
    IF ~Parseable(omo) THEN None
    ELSE LET old == IF omo = Absent THEN NewFile ELSE omo
         IN [old EXCEPT !.block =
                [r \in Roles |-> IF specs[r] = None THEN old.block[r]
                                 ELSE WrittenEntry(r, old.block[r], specs[r])]]
=============================================================================
