---------------------------- MODULE ConfigLayers ----------------------------
(***************************************************************************)
(* fastdraw/origins.ts: opencode's configuration files, from which presets *)
(* are harvested and into which they are restored.                         *)
(*                                                                         *)
(* A file is Absent, Torn (not a JSON object even with comments and        *)
(* trailing commas taken out), or the models it binds its roles to and     *)
(* whether it is loose: has trailing commas, which opencode and the editor *)
(* of this module take and the harvest does not.  Text, comments and       *)
(* layout are left out; so are the read-only layers ($OPENCODE_CONFIG_     *)
(* CONTENT, /etc/opencode), where nothing is ever written.                 *)
(***************************************************************************)
EXTENDS Integers, FiniteSets

CONSTANTS Roles, Models, None, Absent, Torn,
          MdRole    \* the role the agent file of layer "md" is named after

\* One file of each kind of layer, from low to high precedence: two of the
\* global directory, $OPENCODE_CONFIG, the project's, and an agent file of a
\* .opencode directory.
LayerOrder == <<"json", "jsonc", "env", "project", "md">>
LayerFiles == {LayerOrder[i] : i \in DOMAIN LayerOrder}
Precedence(f) == CHOOSE i \in DOMAIN LayerOrder : LayerOrder[i] = f

Bindings == [Roles -> Models \cup {None}]
Unbound == [r \in Roles |-> None]
LayerContents == {Absent, Torn} \cup [models : Bindings, loose : BOOLEAN]

Bound(bindings) == {r \in DOMAIN bindings : bindings[r] # None}

\* toPortablePath, resolvePortablePath: a file outside every known root has no
\* portable path.
PortableFile(f) == IF f = "env" THEN None ELSE f

(***************************************************************************)
(* Reading                                                                 *)
(***************************************************************************)

\* parseLenient, and the scanner of the editor, as opencode itself.
Lenient(content) == content \notin {Absent, Torn}

\* parseJsonc, which takes comments but no trailing commas; parseFrontmatterModel.
Strict(content) == Lenient(content) /\ ~content.loose

\* readLayerModels: whatever cannot be parsed contributes nothing.
LayerModels(content) == IF Strict(content) THEN content.models ELSE Unbound

\* What opencode makes of the files, which it reads with trailing commas.
Resolved(config) ==
    [r \in Roles |->
        LET binding == {f \in LayerFiles : Lenient(config[f]) /\ config[f].models[r] # None}
        IN IF binding = {} THEN None
           ELSE config[CHOOSE f \in binding :
                           \A g \in binding : Precedence(g) <= Precedence(f)].models[r]]

\* harvest: the binding of the highest layer wins, and where it was found.
Harvest(config) ==
    [r \in Roles |->
        LET binding == {f \in LayerFiles : LayerModels(config[f])[r] # None}
            winner == CHOOSE f \in binding : \A g \in binding : Precedence(g) <= Precedence(f)
        IN IF binding = {} THEN None
           ELSE [model |-> config[winner].models[r], origin |-> PortableFile(winner)]]

(***************************************************************************)
(* Restoring.  An origin is a file of a layer, "state", "omo", or None: not *)
(* recorded, or without a portable path.                                   *)
(***************************************************************************)
Origins == LayerFiles \cup {"state", "omo", None}
Preset == [Roles -> [model : Models, origin : Origins] \cup {None}]
NoPreset == [r \in Roles |-> None]

\* "path" with the file chosen is one mode for each file.
Modes == {"global", "original"} \cup {"project", "md"}

\* pickGlobalTarget
GlobalTarget(config) ==
    IF config["jsonc"] # Absent THEN "jsonc"
    ELSE IF config["json"] # Absent THEN "json"
    ELSE "jsonc"

\* Where planRestore sends one role: to a file, or nowhere for what the state
\* holds.  A role that has no file of its own goes to the global one.
RestoreTarget(role, binding, mode, config) ==
    LET file == IF mode = "global" THEN GlobalTarget(config)
                ELSE IF mode = "original" THEN binding.origin
                ELSE mode
    IN IF file = None \/ (file = "md" /\ role # MdRole) THEN GlobalTarget(config) ELSE file

\* planRestore: for every file of the plan, what is written into it.
PlanRestore(preset, mode, config) ==
    LET target(r) == RestoreTarget(r, preset[r], mode, config)
    IN [f \in {target(r) : r \in Bound(preset)} \ {"state"} |->
            [r \in Roles |-> IF preset[r] # None /\ target(r) = f THEN preset[r].model ELSE None]]

Overlay(models, entries) == [r \in Roles |-> IF entries[r] # None THEN entries[r] ELSE models[r]]

\* restoreWrite for one file, with setNestedModelsJsonc, setFrontmatterModel
\* and newConfigContent: entries are set, all else is kept, and trailing
\* commas are gone.  None: the editor refuses the file.
Edited(content, entries) ==
    IF content = Absent THEN [models |-> entries, loose |-> FALSE]
    ELSE IF Lenient(content) THEN [models |-> Overlay(content.models, entries), loose |-> FALSE]
    ELSE None
=============================================================================
