-------------------------- MODULE FastDrawSession ---------------------------
(***************************************************************************)
(* FastDraw, the opencode plugin (fastdraw/server.ts, fastdraw/tui.ts),    *)
(* beside hr processes and the user: over the presets and the state file   *)
(* it shares with FastDrawBridge, the OMO file, and opencode's             *)
(* configuration files.                                                    *)
(*                                                                         *)
(* The server reads presets and state once, when opencode starts it, and   *)
(* its tools work on the copies in memory and on the live configuration;   *)
(* the TUI's dialogs read the files anew, but act on what they have shown. *)
(* A tool or dialog writes one file after another, and may be killed in    *)
(* between.  safeWriteFile replaces a file in one step; the hard-linked    *)
(* file it rewrites in place, the exports, and what is only displayed are  *)
(* left out.  One tool runs at a time.                                     *)
(***************************************************************************)
EXTENDS FastDrawBridge

CONSTANTS
    Roles, Models,
    Builtins, Categories,   \* OMO's own roles; its task categories
    MdRole,
    Offered,                \* models a user assigns
    Imports,                \* preset files there are to import
    Scenes                  \* initial states, and what may happen from them

Layers == INSTANCE ConfigLayers
Omo == INSTANCE OmoConfig

Actors == {"server", "tui"}

\* What FastDraw keeps in the state file; a preset it saves; the store it holds.
States == [agents : Layers!Bindings, omo : [Roles -> {None} \cup Omo!Records]]
Saved == [bindings : Layers!Preset]
HeldStores == [Names -> {None} \cup Saved]
\* What a store in the file may hold.
Library == [Names -> {None} \cup Seatings \cup Saved]

\* The closure of fastdrawServer.  Until the config hook has run, neither the live
\* models nor their originals are there.
Originals == UNION {[rs -> {None} \cup Models] : rs \in SUBSET Roles}
Servers == [presets : HeldStores, agents : Layers!Bindings, omo : [Roles -> {None} \cup Omo!Records],
            live : {None} \cup Layers!Bindings, originals : {None} \cup Originals]

ASSUME SessionAssumption ==
    /\ Offered \subseteq Models /\ None \notin Models
    /\ None \notin Layers!Bindings \cup Seq(Models) \cup Omo!Entries \cup Omo!Records \cup Omo!Specs
    /\ None \notin Servers
    /\ {Absent, Torn} \cap (Omo!Parsed \cup States) = {}
    /\ Seatings \subseteq {s \in States : s.omo = [r \in Roles |-> None]}
    /\ Imports \subseteq Library
    /\ \A s \in Scenes :
          /\ {s.omo} \cup s.edits \subseteq Omo!OmoFiles
          /\ s.config \in [Layers!LayerFiles -> Layers!LayerContents]
          /\ s.cast \subseteq Actors /\ s.modes \subseteq Layers!Modes

VARIABLES
    scene,      \* the initial state, with its bounds
    omo,        \* the OMO file
    config,     \* opencode's configuration files
    server,     \* memory of the running server; None when opencode is closed
    call,       \* what the server's tool, and what the TUI's dialog, is doing
    turns, trouble,     \* used up of the scene's bounds
    own,        \* (observes) targets of the OMO file as the user last left them
    loaded,     \* (observes) what the last load bound; None once anything else was done
    odd         \* (observes) what has happened that properties except

plugin == <<omo, config, server, call, turns, trouble, own, loaded, odd>>
allVars == <<vars, scene, plugin>>

\* isStandardRole: the built-in agents, a preset's "omo" section.
Standard(r) == r \in Builtins \ Categories

(***************************************************************************)
(* The two shared files as FastDraw reads them                             *)
(***************************************************************************)
NoRecords == [r \in Roles |-> None]
EmptyState == [agents |-> Layers!Unbound, omo |-> NoRecords]

\* loadState: a file that is absent or unreadable is empty.
LoadedState == IF file.state \in {Absent, Torn} THEN EmptyState ELSE file.state

From(models, origin) == [r \in Roles |-> IF models[r] = None THEN None
                                          ELSE [model |-> models[r], origin |-> origin]]

\* normalizePreset: an agents map, as hr writes it, has no origins.
Normalized(preset) ==
    IF preset \in Seatings THEN [bindings |-> From(preset.agents, None)] ELSE preset

\* loadPresets
LoadedPresets ==
    IF file.presets \in {Absent, Torn} THEN EmptyStore
    ELSE [n \in Names |-> Normalized(file.presets[n])]

\* saveState and savePresets, by safeWriteFile
FileWritten(f, content) ==
    /\ file' = [file EXCEPT ![f] = content]
    /\ job' = [q \in Procs |-> IF InFlight(q) THEN [job[q] EXCEPT !.intact = FALSE] ELSE job[q]]
    /\ UNCHANGED <<verdict, previews, backups, now, commands, faults, crashes, scene>>

HrUntouched == UNCHANGED <<vars, scene>>

Turn == turns < scene.turns /\ turns' = turns + 1 /\ UNCHANGED trouble
Trouble == trouble < scene.trouble /\ trouble' = trouble + 1 /\ UNCHANGED turns
Smooth == UNCHANGED <<turns, trouble>>

(***************************************************************************)
(* Calls.  A call writes the OMO file, then the state, then configuration  *)
(* files; "choose" and "confirm" are dialogs that wait for the user.       *)
(*   next    the state to save, if the OMO file could be written           *)
(*   basis   the state it was made from (observes)                         *)
(*   swap    roles whose live model follows the state                      *)
(*   seen    the OMO file as the tool or the dialog has read it            *)
(***************************************************************************)
NoCall == [tool |-> "none", stage |-> "none", specs |-> NoRecords, next |-> EmptyState,
           basis |-> EmptyState, swap |-> {}, files |-> <<>>, preset |-> Layers!NoPreset, seen |-> Absent]

Busy(a) == call[a].tool # "none"
Open == server # None
\* The plugin is loaded and opencode has called its config hook.
Ready == Open /\ server.live # None
Memory == [agents |-> server.agents, omo |-> server.omo]

ScenesInit == /\ scene \in Scenes
              /\ file \in scene.files /\ omo = scene.omo /\ config = scene.config

SessionInit ==
    /\ Init /\ ScenesInit
    /\ server = None
    /\ call = [a \in Actors |-> NoCall]
    /\ turns = 0 /\ trouble = 0
    /\ own = [r \in Roles |-> Omo!Target(scene.omo, r)]
    /\ loaded = None /\ odd = {}

\* A call with something to write into the OMO file starts there.
Started(c) == [c EXCEPT !.stage = IF c.specs = NoRecords THEN "state" ELSE "omo"]

(***************************************************************************)
(* Start of a session                                                      *)
(***************************************************************************)

\* migrateAll: OMO's roles in the agents map, with a record for each.
Migrating(state) == {r \in Roles : state.agents[r] # None /\ Omo!IsOmoName(omo, r)}
Migrated(state) ==
    [agents |-> [r \in Roles |-> IF r \in Migrating(state) THEN None ELSE state.agents[r]],
     omo |-> [r \in Roles |-> IF r \in Migrating(state)
                              THEN Omo!Record(state.omo[r], state.agents[r], Omo!Target(omo, r))
                              ELSE state.omo[r]]]

\* fastdrawServer
Boot ==
    /\ ~Open
    /\ server' = [presets |-> LoadedPresets, agents |-> LoadedState.agents, omo |-> LoadedState.omo,
                  live |-> None, originals |-> None]
    /\ LET state == LoadedState
           moved == Migrating(state)
       IN call' = [call EXCEPT !["server"] =
              IF moved = {} THEN NoCall
              ELSE [NoCall EXCEPT !.tool = "migrate", !.stage = "omo", !.basis = state,
                       !.seen = omo, !.next = Migrated(state),
                       !.specs = [r \in Roles |-> IF r \in moved THEN Omo!Spec(state.agents[r])
                                                  ELSE None]]]
    /\ odd' = odd \ {"adrift"}
    /\ Smooth /\ HrUntouched /\ UNCHANGED <<omo, config, own, loaded>>

\* Mutant of Overridden: the state only fills in what is not configured.
OverriddenWeakly(live, agents) == Layers!Overlay(agents, live)

\* applyAssignments
Overridden(live, agents) == Layers!Overlay(live, agents)

\* The config hook: opencode hands over what it made of its files.
Configure ==
    /\ Open /\ ~Ready /\ ~Busy("server")
    /\ LET resolved == Layers!Resolved(config)
       IN server' = [server EXCEPT
              !.originals = [r \in Layers!Bound(server.agents) |-> resolved[r]],
              !.live = Overridden(resolved, server.agents)]
    /\ Smooth /\ HrUntouched /\ UNCHANGED <<omo, config, call, own, loaded, odd>>

\* opencode ends, or is killed in the middle of a call.
Close ==
    /\ Open
    /\ server' = None
    /\ call' = [a \in Actors |-> NoCall]
    /\ IF \E a \in Actors : call[a].stage \in {"omo", "state", "files"}
       THEN /\ Trouble
            /\ odd' = odd \cup {"killed" : a \in {b \in Actors : call[b].stage = "state"}}
       ELSE Smooth /\ UNCHANGED odd
    /\ HrUntouched /\ UNCHANGED <<omo, config, own, loaded>>

(***************************************************************************)
(* assign and remove                                                       *)
(***************************************************************************)
Only(r, value) == [NoRecords EXCEPT ![r] = value]

\* fastdraw_assign with omoAssign; omoAssignToFile and the rest of assignFlow.
AssignCall(state, seen, r, m) ==
    LET call0 == [NoCall EXCEPT !.tool = "assign", !.basis = state, !.seen = seen]
    IN IF Omo!IsOmoName(seen, r)
       THEN [call0 EXCEPT
                !.specs = Only(r, Omo!Spec(m)),
                !.next = [agents |-> [state.agents EXCEPT ![r] = None],
                          omo |-> [state.omo EXCEPT
                                      ![r] = Omo!Record(@, m, Omo!Target(seen, r))]]]
       ELSE [call0 EXCEPT !.swap = {r}, !.next = [state EXCEPT !.agents[r] = m]]

Assign(r, m) ==
    /\ Ready /\ ~Busy("server") /\ Turn
    /\ call' = [call EXCEPT !["server"] = Started(AssignCall(Memory, omo, r, m))]
    /\ HrUntouched /\ UNCHANGED <<omo, config, server, own, loaded, odd>>

\* fastdraw_remove with omoRevert
Remove(r) ==
    /\ Ready /\ ~Busy("server") /\ Turn
    /\ LET rec == server.omo[r]
           call0 == [NoCall EXCEPT !.tool = "remove", !.basis = Memory, !.seen = omo]
       IN \/ /\ rec # None
             /\ call' = [call EXCEPT !["server"] = Started([call0 EXCEPT
                    !.specs = Only(r, Omo!RevertSpec(Omo!TargetKind(omo, r), rec)),
                    !.next = [Memory EXCEPT !.omo[r] = None]])]
          \/ /\ rec = None /\ server.agents[r] # None
             /\ call' = [call EXCEPT !["server"] = Started([call0 EXCEPT
                    !.swap = {r}, !.next = [Memory EXCEPT !.agents[r] = None]])]
    /\ HrUntouched /\ UNCHANGED <<omo, config, server, own, loaded, odd>>

\* assignFlow: the OMO file is read when the dialog opens, the state with each
\* pick; then the dialog is back.
OpenAssign ==
    /\ Ready /\ ~Busy("tui")
    /\ call' = [call EXCEPT !["tui"] = [NoCall EXCEPT !.tool = "assign", !.stage = "choose",
                                                      !.seen = omo]]
    /\ Smooth /\ HrUntouched /\ UNCHANGED <<omo, config, server, own, loaded, odd>>

Pick(r, m) ==
    /\ call["tui"].stage = "choose" /\ Turn
    /\ call' = [call EXCEPT !["tui"] = Started(AssignCall(LoadedState, @.seen, r, m))]
    /\ HrUntouched /\ UNCHANGED <<omo, config, server, own, loaded, odd>>

Dismiss ==
    /\ call["tui"].stage \in {"choose", "confirm"}
    /\ call' = [call EXCEPT !["tui"] = NoCall]
    /\ Smooth /\ HrUntouched /\ UNCHANGED <<omo, config, server, own, loaded, odd>>

(***************************************************************************)
(* load                                                                    *)
(***************************************************************************)

\* The roles of a preset that this machine has, and those OMO binds.
Applicable(preset, present) == {r \in Layers!Bound(preset) : Standard(r) \/ r \in present}
OmoSide(roles, seen) == {r \in roles : Omo!IsOmoName(seen, r)}
Targets(seen) == {r \in Roles : Omo!IsOmoName(seen, r)}

\* The plan: what goes into configuration files.
Planned(preset, present, seen, mode) ==
    LET roles == Applicable(preset, present) \ OmoSide(Applicable(preset, present), seen)
    IN Layers!PlanRestore([r \in Roles |-> IF r \in roles THEN preset[r] ELSE None], mode, config)

\* fastdraw_load_preset and the confirmed dialog: OMO's roles are bound or
\* reverted in the OMO file, the others replace all there are in the state.
LoadCall(preset, present, seen, state, files) ==
    LET roles == Applicable(preset, present)
        bound == OmoSide(roles, seen)
        spec(r) == IF r \in bound THEN Omo!Spec(preset[r].model)
                   ELSE IF state.omo[r] = None THEN None
                   ELSE Omo!RevertSpec(Omo!TargetKind(seen, r), state.omo[r])
    IN Started([NoCall EXCEPT
           !.tool = "load", !.basis = state, !.seen = seen, !.swap = Roles, !.files = files,
           !.preset = preset,
           !.specs = [r \in Roles |-> spec(r)],
           !.next = [agents |-> [r \in Roles |-> IF r \in roles \ bound THEN preset[r].model
                                                  ELSE None],
                     omo |-> [r \in Roles |-> IF r \in bound
                                 THEN Omo!Record(state.omo[r], preset[r].model,
                                                 Omo!Target(seen, r))
                                 ELSE None]]])

LoadPreset(name, mode) ==
    /\ Ready /\ ~Busy("server") /\ server.presets[name] # None /\ Turn
    /\ LET preset == server.presets[name].bindings
           present == scene.here \cup DOMAIN server.originals \cup Layers!Bound(server.live)
                      \cup Targets(omo)
       IN call' = [call EXCEPT !["server"] =
              LoadCall(preset, present, omo, Memory, Planned(preset, present, omo, mode))]
    /\ HrUntouched /\ UNCHANGED <<omo, config, server, own, loaded, odd>>

\* loadPresetFlow, up to the confirmation.
OpenLoad(name, mode) ==
    /\ Ready /\ ~Busy("tui") /\ LoadedPresets[name] # None /\ Turn
    /\ LET preset == LoadedPresets[name].bindings
       IN call' = [call EXCEPT !["tui"] = [NoCall EXCEPT
              !.tool = "load", !.stage = "confirm", !.preset = preset, !.seen = omo,
              !.files = Planned(preset, scene.here \cup Targets(omo), omo, mode)]]
    /\ HrUntouched /\ UNCHANGED <<omo, config, server, own, loaded, odd>>

Confirm ==
    /\ call["tui"].stage = "confirm"
    /\ LET c == call["tui"]
       IN call' = [call EXCEPT !["tui"] =
              LoadCall(c.preset, scene.here \cup Targets(c.seen), c.seen, LoadedState, c.files)]
    /\ Smooth /\ HrUntouched /\ UNCHANGED <<omo, config, server, own, loaded, odd>>

(***************************************************************************)
(* The writes of a call                                                    *)
(***************************************************************************)

\* The dialog of assign comes back with what it had read.
Ended(a) == IF a = "tui" /\ call[a].tool = "assign"
            THEN [NoCall EXCEPT !.tool = "assign", !.stage = "choose", !.seen = call[a].seen]
            ELSE NoCall

\* (Observe.)  A call goes by a state that is not there any more, or another call is
\* between its writes of the OMO file and of the state.
Blind(a) == \/ call[a].basis # LoadedState
            \/ \E b \in Actors \ {a} : call[b].stage = "state"

\* (Observe.)  Of a role it writes, a call has read what is not so any more: of one it
\* binds anew the target, of another the kind.
OutOfDate(c) ==
    \E r \in Layers!Bound(c.specs) :
        IF c.basis.omo[r] = None THEN Omo!Target(c.seen, r) # Omo!Target(omo, r)
        ELSE Omo!TargetKind(c.seen, r) # Omo!TargetKind(omo, r)

\* writeOmoModels succeeds.
WriteOmo(a) ==
    /\ call[a].stage = "omo"
    /\ Omo!Written(omo, call[a].specs) # None
    /\ omo' = Omo!Written(omo, call[a].specs)
    /\ call' = [call EXCEPT ![a].stage = "state"]
    /\ loaded' = None
    /\ odd' = IF Blind(a) \/ OutOfDate(call[a]) THEN odd \cup {"blind"} ELSE odd
    /\ Smooth /\ HrUntouched /\ UNCHANGED <<config, server, own>>

\* It does not, the file being unreadable or the disk failing: the call ends.
\* A migration takes its records back, and with them any older one.
OmoFails(a) ==
    /\ call[a].stage = "omo"
    /\ IF Omo!Parseable(omo) THEN Trouble ELSE Smooth
    /\ call' = [call EXCEPT ![a] = Ended(a)]
    /\ IF call[a].tool = "migrate"
       THEN LET moved == Layers!Bound(call[a].specs)
            IN /\ server' = [server EXCEPT
                      !.omo = [r \in Roles |-> IF r \in moved THEN None ELSE @[r]]]
               /\ odd' = odd \cup {"dropped" : r \in {q \in moved : server.omo[q] # None}}
       ELSE UNCHANGED <<server, odd>>
    /\ HrUntouched /\ UNCHANGED <<omo, config, own, loaded>>

\* snapshotOriginals: the model before the first override stays.
Snapshot(names) ==
    [r \in DOMAIN server.originals \cup names |->
        IF r \in DOMAIN server.originals THEN server.originals[r] ELSE server.live[r]]
OriginalOf(r) == IF r \in DOMAIN server.originals THEN server.originals[r] ELSE None

\* The roles a call gives a model in the live configuration.
Given(c) == {r \in c.swap : c.next.agents[r] # None}

\* hotSwap, and what assign and remove do to the live configuration.
Swapped(c) ==
    [server EXCEPT
        !.agents = c.next.agents, !.omo = c.next.omo,
        !.originals = IF Given(c) = {} THEN @ ELSE Snapshot(Given(c)),
        !.live = IF c.swap = {} THEN @
                 ELSE [r \in Roles |->
                          IF r \in Given(c) THEN c.next.agents[r]
                          ELSE IF r \in c.swap /\ server.agents[r] # None THEN OriginalOf(r)
                          ELSE @[r]]]

\* What a load binds, in the files that a restart reads.
BoundBy(c) == [r \in Roles |-> IF c.next.agents[r] # None THEN c.next.agents[r]
                               ELSE IF c.next.omo[r] # None THEN c.next.omo[r].model ELSE None]

\* A role whose record goes without an original keeps FastDraw's model.
Forgotten(c) == {r \in Roles : /\ c.basis.omo[r] # None /\ c.basis.omo[r].original = None
                               /\ c.next.omo[r] = None}

SaveState(a) ==
    LET c == call[a]
    IN /\ c.stage = "state"
       /\ FileWritten("state", c.next)
       /\ server' = IF a = "server" THEN Swapped(c) ELSE server
       /\ call' = [call EXCEPT ![a] = IF DOMAIN c.files = {} THEN Ended(a)
                                      ELSE [c EXCEPT !.stage = "files"]]
       /\ own' = [r \in Roles |-> IF r \in Forgotten(c) THEN Omo!Target(omo, r) ELSE own[r]]
       /\ loaded' = CASE c.tool = "load" -> BoundBy(c)
                      [] c.tool = "migrate" -> loaded
                      [] OTHER -> None
       /\ odd' = IF Blind(a) THEN odd \cup {"blind"} ELSE odd
       /\ Smooth /\ UNCHANGED <<omo, config>>

\* The state cannot be written: the call ends, and the server goes on with what
\* it has in memory; if it was starting, without FastDraw.
SaveFails(a) ==
    LET c == call[a]
    IN /\ c.stage = "state" /\ Trouble
       /\ server' = IF a = "tui" THEN server
                    ELSE CASE c.tool = "migrate" -> None
                           [] c.tool = "load" -> Swapped(c)
                           [] OTHER -> [server EXCEPT !.agents = c.next.agents, !.omo = c.next.omo,
                                                      !.originals = Snapshot(Given(c))]
       /\ call' = [b \in Actors |-> IF b = a THEN Ended(a)
                                    ELSE IF server' = None THEN NoCall ELSE call[b]]
       /\ odd' = odd \cup {"unsaved"}
                     \cup {"adrift" : x \in {server'} \ {None, server, Swapped(c)}}
       /\ HrUntouched /\ UNCHANGED <<omo, config, own, loaded>>

\* restoreWrite, one file: it is backed up and edited, or left as it is when
\* it cannot be edited or written; either way the next file follows.
WriteFile(a, f) ==
    LET c == call[a]
        left == [g \in DOMAIN c.files \ {f} |-> c.files[g]]
        edited == IF f = "omo" THEN None ELSE Layers!Edited(config[f], c.files[f])
    IN /\ c.stage = "files" /\ f \in DOMAIN c.files
       /\ \/ /\ edited # None
             /\ config' = [config EXCEPT ![f] = edited]
             /\ Smooth /\ UNCHANGED omo
          \/ /\ f = "omo" /\ omo # Torn
             /\ omo' = IF omo = Absent THEN Omo!NewFile ELSE omo
             /\ Smooth /\ UNCHANGED config
          \/ /\ IF edited = None /\ (f # "omo" \/ omo = Torn) THEN Smooth ELSE Trouble
             /\ UNCHANGED <<omo, config>>
       /\ call' = [call EXCEPT ![a] = IF DOMAIN left = {} THEN Ended(a)
                                      ELSE [c EXCEPT !.files = left]]
       /\ HrUntouched /\ UNCHANGED <<server, own, loaded, odd>>

(***************************************************************************)
(* Presets.  The server's tools write its copy of the store, the TUI's     *)
(* dialogs read it anew.                                                   *)
(***************************************************************************)

\* What save_preset collects: the layers, over them the OMO file, over it the
\* state; on the server, what opencode has configured besides.
Snapped(a, state) ==
    LET usable == omo \notin {Absent, Torn}
        inOmo == [r \in Roles |-> IF usable THEN Omo!Target(omo, r).model ELSE None]
        records == [r \in Roles |-> IF state.omo[r] = None THEN None ELSE state.omo[r].model]
        recordOrigin == IF a = "server" THEN IF usable THEN "omo" ELSE None
                        ELSE IF omo # Absent THEN "omo" ELSE "state"
        live == [r \in Roles |-> IF a = "server" /\ ~Omo!IsOmoName(omo, r) THEN server.live[r]
                                  ELSE None]
    IN Layers!Overlay(From(live, None),
            Layers!Overlay(Layers!Overlay(Layers!Harvest(config), From(inOmo, "omo")),
                Layers!Overlay(From(state.agents, "state"), From(records, recordOrigin))))

Store(a) == IF a = "server" THEN server.presets ELSE LoadedPresets

\* savePresets; an empty preset is not saved.
StoreWritten(a, store) ==
    /\ FileWritten("presets", store)
    /\ UNCHANGED <<omo, config, call, own, loaded>>

\* fastdraw_save_preset, savePresetFlow: the server takes the state on disk for
\* its own, and leaves the live configuration as it is.
SavePreset(a, name) ==
    LET preset == Snapped(a, LoadedState)
        store == [Store(a) EXCEPT ![name] = [bindings |-> preset]]
    IN /\ Ready /\ ~Busy(a) /\ preset # Layers!NoPreset /\ Turn
       /\ StoreWritten(a, store)
       /\ IF a = "server"
          THEN /\ server' = [server EXCEPT !.presets = store,
                                 !.agents = LoadedState.agents, !.omo = LoadedState.omo]
               /\ odd' = odd \cup {"adrift" : x \in {server.agents} \ {LoadedState.agents}}
          ELSE UNCHANGED <<server, odd>>

\* fastdraw_import_preset, applyImportFile: one preset, or those of a store.
ImportPresets(a, imported) ==
    LET store == [n \in Names |-> IF imported[n] = None THEN Store(a)[n]
                                   ELSE Normalized(imported[n])]
    IN /\ Ready /\ ~Busy(a) /\ Turn
       /\ StoreWritten(a, store)
       /\ server' = IF a = "server" THEN [server EXCEPT !.presets = store] ELSE server
       /\ UNCHANGED odd

\* fastdraw_delete_preset, deletePresetFlow
DeletePreset(a, name) ==
    LET store == [Store(a) EXCEPT ![name] = None]
    IN /\ Ready /\ ~Busy(a) /\ Store(a)[name] # None /\ Turn
       /\ StoreWritten(a, store)
       /\ server' = IF a = "server" THEN [server EXCEPT !.presets = store] ELSE server
       /\ UNCHANGED odd

(***************************************************************************)
(* The user's editor, hr, and the whole                                    *)
(***************************************************************************)

\* (Observe.)  The user takes away what FastDraw has bound.
Deserted(content) ==
    {r \in Roles : /\ LoadedState.omo[r] # None
                   /\ content # Torn /\ Omo!EntryOf(content, r) = None}

EditOmo(content) ==
    /\ content # omo /\ Trouble
    /\ omo' = content
    /\ own' = [r \in Roles |->
                   IF content # Torn /\ (LoadedState.omo[r] = None \/ r \in Deserted(content))
                   THEN Omo!Target(content, r) ELSE own[r]]
    /\ loaded' = None
    /\ odd' = odd \cup {"edited" : a \in {b \in Actors : Busy(b)}}
                   \cup {"deserted" : r \in Deserted(content)}
    /\ HrUntouched /\ UNCHANGED <<config, server, call>>

\* hr knows no records: apply --set-state writes an agents map alone.
Hr ==
    /\ Next /\ commands' <= scene.hr
    /\ loaded' = IF file'.state = file.state THEN loaded ELSE None
    /\ odd' = IF file'.state = file.state THEN odd ELSE odd \cup {"blind"}
    /\ Smooth /\ UNCHANGED <<scene, omo, config, server, call, own>>

Work(a) == WriteOmo(a) \/ OmoFails(a) \/ SaveState(a) \/ SaveFails(a)
           \/ \E f \in DOMAIN call[a].files : WriteFile(a, f)

ServerTool ==
    \/ \E r \in Roles : Remove(r) \/ \E m \in Offered : Assign(r, m)
    \/ \E name \in Names, mode \in scene.modes : LoadPreset(name, mode)

Dialog ==
    \/ OpenAssign \/ Dismiss \/ Confirm
    \/ \E r \in Roles, m \in Offered : Pick(r, m)
    \/ \E name \in Names, mode \in scene.modes : OpenLoad(name, mode)

Presets(a) ==
    \/ \E name \in Names : SavePreset(a, name) \/ DeletePreset(a, name)
    \/ \E imported \in Imports : ImportPresets(a, imported)

SessionNext ==
    \/ scene.cast # {} /\ (Boot \/ Configure \/ Close)
    \/ "server" \in scene.cast /\ ServerTool
    \/ "tui" \in scene.cast /\ Dialog
    \/ \E a \in scene.cast : Presets(a)
    \/ \E a \in Actors : Work(a)
    \/ \E content \in scene.edits : EditOmo(content)
    \/ Hr

SessionSpec == SessionInit /\ [][SessionNext]_allVars

(***************************************************************************)
(* Properties                                                              *)
(***************************************************************************)

\* A target FastDraw can put back: a model, and of a category its chain.
Complete(r) ==
    own[r].model # None /\ (r \in Categories => own[r].models \notin {None, <<>>})
\* A model, and of a category its chain, are those the user has left.
AsLeft(r, model, models) ==
    model = own[r].model /\ (r \in Categories => models = own[r].models)

Exceptions == {"blind", "killed", "unsaved", "edited", "dropped"}
Settled == /\ \A a \in Actors : call[a].stage \notin {"omo", "state"}
           /\ odd \cap Exceptions = {} /\ Omo!Parseable(omo)

\* The model and the chain a role had in the OMO file before FastDraw touched
\* it are not lost, whatever is assigned, loaded and removed on top: while
\* FastDraw binds the role its record holds them, afterwards the file does.
OriginalStands ==
    Settled => \A r \in {q \in Roles : Complete(q)} :
        LET rec == LoadedState.omo[r]
            target == Omo!Target(omo, r)
        IN IF rec = None THEN AsLeft(r, target.model, target.models)
           ELSE AsLeft(r, rec.original, rec.chain)

\* What a load has bound is still in force: in the session that loaded, when
\* some of the configuration files could not be written, and in one started
\* after opencode was killed while it was writing them.
LoadSurvives ==
    /\ Ready /\ ~Busy("server") /\ loaded # None /\ Memory = LoadedState
    /\ odd \cap {"blind", "edited", "deserted", "adrift"} = {}
    => \A r \in Layers!Bound(loaded) :
            loaded[r] = IF Omo!IsOmoName(omo, r) THEN Omo!Target(omo, r).model ELSE server.live[r]

(***************************************************************************)
(* One hr process beside no session at all                                 *)
(***************************************************************************)
Solitary == scene.cast = {}

\* The files as an onlooker may take them: while a job is under way, as they
\* were before it.
FilesBefore ==
    IF \E p \in Procs : job[p].base # None
    THEN job[CHOOSE p \in Procs : job[p].base # None].base
    ELSE file
Undoable == INSTANCE UndoableFiles
    WITH files <- IF Solitary THEN FilesBefore ELSE None,
         points <- IF Solitary THEN {b.hash : b \in {c \in backups : Valid(c)}} ELSE {}
\* With no session beside it, one hr process at a time, whose applies may fail
\* at any write, changes the files as UndoableFiles does: in one step, or not at
\* all, and never without a recovery point to go back to.
ImplementsUndoable == Undoable!Spec

(***************************************************************************)
(* What the words of the code promise and the code does not do             *)
(***************************************************************************)

\* "Presets take effect at tool-call time (fastdraw_load_preset), no restart":
\* once no apply is under way, what a running session would load under a name
\* is what the file holds.
PresetsTakeEffect ==
    Open /\ Quiet /\ file.presets \notin {Absent, Torn} => server.presets = LoadedPresets

\* "Model the OMO config held before FastDraw first touched this name; null =
\* the name had no model there (or none was recorded)": a record says so however
\* often the role is assigned anew.
OriginalKept ==
    Settled => \A r \in Roles :
        LoadedState.omo[r] # None => LoadedState.omo[r].original = own[r].model
=============================================================================
