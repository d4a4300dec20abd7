--------------------------- MODULE TurnkeyInstall ---------------------------
(***************************************************************************)
(* The turnkey bundle over its whole life: scripts/install.sh places the   *)
(* parts in the directory D, hr install-post wires the machine             *)
(* (hr/lifecycle.py: credentials, shim, PATH block of hr/setup_env.py,     *)
(* plugin entries of hr/opencfg_editor.py) and writes the receipt, hr      *)
(* self-uninstall replays the receipt backwards and removes D              *)
(* (hr/lifecycle_uninstall.py). It shares D, the env files and the server  *)
(* with db-up and db-down of TurnkeyDatabase.                              *)
(*                                                                         *)
(* A file of the user is what it holds of AIHR and whether it holds        *)
(* anything of the user; the platform is POSIX.                            *)
(***************************************************************************)
EXTENDS TurnkeyDatabase

CONSTANTS
    Parts,       \* what install.sh places and install-post requires: a sequence
    RcFiles,     \* shell rc candidates, "profile" among them
    Configs,     \* the opencode config files, in the order install-post takes them
    Torn         \* a receipt cut short

PartSet == {Parts[i] : i \in 1..Len(Parts)}
ConfigSet == {Configs[i] : i \in 1..Len(Configs)}

RcFile == [text : BOOLEAN, block : BOOLEAN]
ConfigFile == [array : BOOLEAN, entry : BOOLEAN, plugins : BOOLEAN, keys : BOOLEAN,
               valid : BOOLEAN, made : {"user", "install", "earlier"}]

\* Before the first command every file is the user's, and none of his rc files is empty.
ASSUME FilesAssumption ==
    /\ "profile" \in RcFiles
    /\ Parts \in Seq(PartSet) /\ Configs \in Seq(ConfigSet) /\ Configs # <<>>
    /\ None # Torn /\ None \notin RcFile \cup ConfigFile
    /\ \A files \in SUBSET ConfigSet : files \notin {None, Torn}
    /\ \A m \in Machines :
           /\ m.rcs \in [RcFiles -> RcFile \cup {None}]
           /\ \A f \in RcFiles : m.rcs[f] # None => m.rcs[f].text /\ ~m.rcs[f].block
           /\ m.cfgs \in [ConfigSet -> ConfigFile \cup {None}]
           /\ \A f \in ConfigSet : m.cfgs[f] # None => m.cfgs[f].made = "user"

VARIABLES
    shim,        \* D/bin/hr
    rcs,         \* rc file -> None or [text, block]
    cfgs,        \* config file -> None or [array, entry, plugins, keys, valid, made]
    receipt,     \* None, Torn, or the config files that did not exist before
    fresh,       \* the config files this install-post found missing
    wrote        \* what the user put where: <<file, "text" | "plugins" | "keys" | "settings">>,
                 \* settings being keys in a file install-post created

installVars == <<shim, rcs, cfgs, receipt, fresh, wrote>>
vars == <<dbVars, installVars>>

\* D exists.
Placed == parts # {} \/ envs["bundled"] # None \/ cluster # None \/ shim \/ receipt # None

dbFiles == <<host, envs, cluster, server, volume, container>>
userFiles == <<shim, rcs, cfgs>>

-----------------------------------------------------------------------------
(* scripts/install.sh *)

\* An existing D is refused unless --reinstall; a bundle that fails its checksum or
\* does not unpack changes nothing.
Place(reinstall) ==
    /\ cmd = Idle /\ (reinstall \/ ~Placed)
    /\ cmd' = [Idle EXCEPT !.name = "place", !.pc = "place", !.step = 1]
    /\ result' = NoResult
    /\ UNCHANGED <<dbFiles, parts, outside, installVars>>

\* rm -rf of the old part, mv of the new one; data/ is not among them.
PlacePart ==
    /\ At("place", "place")
    /\ parts' = parts \cup {Parts[cmd.step]}
    /\ \/ cmd.step < Len(Parts) /\ cmd' = [cmd EXCEPT !.step = @ + 1] /\ UNCHANGED result
       \/ cmd.step = Len(Parts) /\ Return(0)
    /\ UNCHANGED <<dbFiles, outside, installVars>>

-----------------------------------------------------------------------------
(* hr install-post *)

InstallPost(p) ==
    /\ cmd = Idle
    /\ \/ /\ PartSet \subseteq parts
          /\ cmd' = [Idle EXCEPT !.name = "install", !.pc = "env", !.lane = "embedded",
                                 !.arg = p]
          /\ fresh' = {}
          /\ result' = NoResult
       \/ /\ ~(PartSet \subseteq parts)
          /\ result' = [name |-> "install", lane |-> "embedded", rc |-> 1]
          /\ UNCHANGED <<cmd, fresh>>
    /\ UNCHANGED <<dbFiles, parts, outside, userFiles, receipt, wrote>>

\* posix_rc_files: those that exist, .profile when none does.
RcTargets ==
    IF \E f \in RcFiles : rcs[f] # None THEN {f \in RcFiles : rcs[f] # None}
    ELSE {"profile"}

PlaceShim ==
    /\ At("install", "shim")
    /\ shim' = TRUE
    /\ cmd' = [Idle EXCEPT !.name = "install", !.lane = "embedded", !.pc = "path",
                        !.todo = RcTargets]
    /\ UNCHANGED <<dbFiles, parts, outside, result, rcs, cfgs, receipt, fresh, wrote>>

\* persist_posix: one file at a time, created when missing, the block appended once.
PersistPath ==
    /\ At("install", "path")
    /\ \E f \in cmd.todo :
           /\ rcs' = [rcs EXCEPT ![f] = IF @ = None THEN [text |-> FALSE, block |-> TRUE]
                                        ELSE [@ EXCEPT !.block = TRUE]]
           /\ IF cmd.todo = {f} THEN cmd' = [cmd EXCEPT !.pc = "config", !.todo = {}, !.step = 1]
              ELSE cmd' = [cmd EXCEPT !.todo = @ \ {f}]
    /\ UNCHANGED <<dbFiles, parts, outside, result, shim, cfgs, receipt, fresh, wrote>>

NewConfig == [array |-> TRUE, entry |-> TRUE, plugins |-> FALSE, keys |-> FALSE,
              valid |-> TRUE, made |-> "install"]

\* ensure_plugin_entry: the file, the array or the entry is added as needed.
WithEntry(c) ==
    IF c = None THEN NewConfig
    ELSE [c EXCEPT !.array = TRUE, !.entry = TRUE,
                   !.made = IF @ = "install" THEN "earlier" ELSE @]

\* _validate: a file that does not parse is not written again.
Refuses(c, edited) == IF c = None THEN FALSE ELSE edited /\ ~c.valid

\* Mutant of EnsurePlugin: the hash is taken after the entry is in.
EnsurePluginHashAfter ==
    /\ At("install", "config")
    /\ LET f == Configs[cmd.step]
       IN  IF Refuses(cfgs[f], cfgs[f] # None => ~cfgs[f].entry)
           THEN Return(1) /\ UNCHANGED cfgs
           ELSE /\ cfgs' = [cfgs EXCEPT ![f] = WithEntry(@)]
                /\ cmd' = [cmd EXCEPT !.pc = "receipt"]
                /\ UNCHANGED result
    /\ UNCHANGED <<dbFiles, parts, outside, shim, rcs, receipt, fresh, wrote>>

\* The hash of the file before the first mutation is recorded as "there was one"; a
\* refused edit ends the command.
EnsurePlugin ==
    /\ At("install", "config")
    /\ LET f == Configs[cmd.step]
           broken == Refuses(cfgs[f], cfgs[f] # None => ~cfgs[f].entry)
       IN  \/ /\ ~broken
              /\ cfgs' = [cfgs EXCEPT ![f] = WithEntry(@)]
              /\ fresh' = IF cfgs[f] = None THEN fresh \cup {f} ELSE fresh
              /\ cmd' = IF cmd.step < Len(Configs) THEN [cmd EXCEPT !.step = @ + 1]
                        ELSE [cmd EXCEPT !.pc = "receipt"]
              /\ UNCHANGED result
           \/ broken /\ Return(1) /\ UNCHANGED <<cfgs, fresh>>
    /\ UNCHANGED <<dbFiles, parts, outside, shim, rcs, receipt, wrote>>

\* save_receipt, after every placement.
SaveReceipt ==
    /\ At("install", "receipt")
    /\ receipt' = fresh /\ fresh' = {}
    /\ Return(0)
    /\ UNCHANGED <<dbFiles, parts, outside, userFiles, wrote>>

-----------------------------------------------------------------------------
(* hr self-uninstall --yes *)

\* load_receipt: without a usable one nothing is touched.
Uninstall ==
    /\ cmd = Idle
    /\ \/ /\ receipt \notin {None, Torn}
          /\ cmd' = [Idle EXCEPT !.name = "uninstall",
                                 !.pc = IF Embedded /\ Installed THEN "stop" ELSE "config",
                                 !.step = Len(Configs)]
          /\ result' = NoResult
       \/ /\ receipt \in {None, Torn}
          /\ result' = [name |-> "uninstall", lane |-> "none", rc |-> 1]
          /\ UNCHANGED cmd
    /\ UNCHANGED <<dbFiles, parts, outside, installVars>>

\* db_embedded.down, whatever it returns.
UninstallStop ==
    /\ At("uninstall", "stop")
    /\ \E stopped \in BOOLEAN : PgStop(stopped)
    /\ Goto("config")
    /\ UNCHANGED <<disk, container, foreign, cut, result, installVars>>

\* Mutant of Reversed: a created file goes whatever plugins are in it.
ReversedWhole(c, created) == IF created THEN None ELSE [c EXCEPT !.entry = FALSE]

\* remove_plugin_entry takes the entry out; a file install-post created goes when its
\* array is left empty (_reverse).
Reversed(c, created) ==
    LET rest == [c EXCEPT !.entry = FALSE]
    IN  IF created /\ rest.array /\ ~rest.plugins THEN None ELSE rest

RemovePlugin ==
    /\ At("uninstall", "config")
    /\ LET f == Configs[cmd.step]
           broken == Refuses(cfgs[f], cfgs[f] # None => cfgs[f].entry)
       IN  \/ /\ ~broken
              /\ cfgs' = [cfgs EXCEPT ![f] = IF @ = None THEN None
                                             ELSE Reversed(@, f \in receipt)]
              /\ cmd' = IF cmd.step > 1 THEN [cmd EXCEPT !.step = @ - 1]
                        ELSE [cmd EXCEPT !.pc = "path"]
              /\ UNCHANGED result
           \/ broken /\ Return(1) /\ UNCHANGED cfgs
    /\ UNCHANGED <<dbFiles, parts, outside, shim, rcs, receipt, fresh, wrote>>

\* remove_posix: the block goes from every candidate; a blank .profile is then ours.
Unblocked(c) == IF c = None THEN None ELSE [c EXCEPT !.block = FALSE]
HasBlock(f) == IF rcs[f] = None THEN FALSE ELSE rcs[f].block

RemovePath ==
    /\ At("uninstall", "path")
    /\ rcs' = [f \in RcFiles |->
                 IF /\ f = "profile" /\ rcs[f] # None
                    /\ ~Unblocked(rcs[f]).text /\ \E g \in RcFiles : HasBlock(g)
                 THEN None ELSE Unblocked(rcs[f])]
    /\ Goto("files")
    /\ UNCHANGED <<dbFiles, parts, outside, result, shim, cfgs, receipt, fresh, wrote>>

\* The shim and its directory, then D/db.env.
RemoveFiles ==
    /\ At("uninstall", "files")
    /\ shim' = FALSE
    /\ envs' = [envs EXCEPT !["bundled"] = None]
    /\ cut' = (cut \/ volume # None)
    /\ Goto("rmtree")
    /\ UNCHANGED <<host, parts, cluster, server, volume, container, foreign, trouble, result,
                   rcs, cfgs, receipt, fresh, wrote>>

RemoveHome ==
    /\ At("uninstall", "rmtree")
    /\ parts' = {} /\ cluster' = None /\ receipt' = None
    /\ Return(0)
    /\ UNCHANGED <<host, envs, server, volume, container, outside, userFiles, fresh, wrote>>

-----------------------------------------------------------------------------
(* The user and the machine *)

\* The user adds shell text, a plugin or another key of his own, or mistypes.
UserEdits ==
    /\ trouble < MaxTrouble
    /\ \/ \E f \in RcFiles :
              /\ rcs' = [rcs EXCEPT ![f] = IF @ = None THEN [text |-> TRUE, block |-> FALSE]
                                           ELSE [@ EXCEPT !.text = TRUE]]
              /\ wrote' = wrote \cup {<<f, "text">>}
              /\ UNCHANGED cfgs
       \/ \E f \in ConfigSet :
              /\ cfgs[f] # None
              /\ \/ /\ cfgs' = [cfgs EXCEPT ![f].array = TRUE, ![f].plugins = TRUE]
                    /\ wrote' = wrote \cup {<<f, "plugins">>}
                 \/ /\ cfgs' = [cfgs EXCEPT ![f].keys = TRUE]
                    /\ wrote' = wrote \cup
                         {<<f, IF cfgs[f].made = "user" THEN "keys" ELSE "settings">>}
                 \/ /\ cfgs' = [cfgs EXCEPT ![f].valid = ~@]
                    /\ UNCHANGED wrote
              /\ UNCHANGED rcs
    /\ trouble' = trouble + 1
    /\ UNCHANGED <<dbFiles, parts, foreign, cut, cmd, result, shim, receipt, fresh>>

\* install.sh, install-post or self-uninstall is killed: a part is moved away and the
\* new one not in place, the receipt is half written, rmtree has removed some of D.
Killed ==
    /\ cmd.name \in {"place", "install", "uninstall"} /\ trouble < MaxTrouble
    /\ trouble' = trouble + 1
    /\ cmd' = Idle /\ fresh' = {}
    /\ result' = [name |-> cmd.name, lane |-> cmd.lane, rc |-> 2]
    /\ parts' \in CASE At("place", "place")      -> {parts, parts \ {Parts[cmd.step]}}
                    [] At("uninstall", "rmtree") -> SUBSET parts
                    [] OTHER                     -> {parts}
    /\ receipt' \in CASE At("install", "receipt")  -> {receipt, Torn}
                      [] At("uninstall", "rmtree") -> {receipt, None}
                      [] OTHER                     -> {receipt}
    /\ cluster' \in IF At("uninstall", "rmtree") /\ cluster # None
                    THEN {None, cluster, [cluster EXCEPT !.usable = FALSE]} ELSE {cluster}
    /\ cut' = (cut \/ Dropping \/ At("uninstall", "rmtree"))
    /\ UNCHANGED <<host, envs, server, volume, container, foreign, userFiles,
                   wrote>>

-----------------------------------------------------------------------------
\* What the user has before the first command is his.
Kinds(f, c) ==
    IF c = None THEN {} ELSE {<<f, k>> : k \in {j \in DOMAIN c \cap {"text", "plugins", "keys"} : c[j]}}

Init ==
    \E m \in Machines :
        /\ DbInit(m)
        /\ shim = FALSE
        /\ rcs = m.rcs
        /\ cfgs = m.cfgs
        /\ receipt = None
        /\ fresh = {}
        /\ wrote = UNION ({Kinds(f, rcs[f]) : f \in RcFiles}
                          \cup {Kinds(f, cfgs[f]) : f \in ConfigSet})

InstallStep ==
    \/ PlacePart
    \/ PlaceShim \/ PersistPath \/ EnsurePlugin \/ SaveReceipt
    \/ UninstallStop \/ RemovePlugin \/ RemovePath \/ RemoveFiles \/ RemoveHome

Next ==
    \/ (DbCommand \/ DbStep \/ Machine) /\ UNCHANGED installVars
    \/ \E reinstall \in BOOLEAN : Place(reinstall)
    \/ \E p \in Ports \cup {None} : InstallPost(p)
    \/ Uninstall
    \/ InstallStep
    \/ UserEdits
    \/ Killed

Spec == Init /\ [][Next]_vars

\* A command once begun goes on, a server that starts comes up, and the user goes on
\* stopping and starting the database.
FairSpec ==
    /\ Spec
    /\ WF_vars((DbStep /\ UNCHANGED installVars) \/ InstallStep)
    /\ WF_vars((ServerBoots \/ OrphanEnds) /\ UNCHANGED installVars)
    /\ SF_vars(Up(None, FALSE) /\ UNCHANGED installVars)
    /\ SF_vars(Down(FALSE) /\ UNCHANGED installVars)

-----------------------------------------------------------------------------
(* Properties *)

Password(f) == IF Dropping /\ cmd.file = f THEN cmd.pw ELSE Values(f).pw

\* Whatever is started, stopped, re-ported, purged, installed or killed, the password a
\* database was created with is in its env file, or held by the command that writes it
\* again: db-up never locks the user out of his data. A kill inside write_db_env_file
\* and a self-uninstall beside a compose volume are the exceptions (cut).
PasswordStands ==
    ~cut =>
        /\ cluster # None /\ ~At("uninstall", "rmtree") => cluster.pw = Password("bundled")
        /\ volume # None => \E f \in Candidates : volume.pw = Password(f)

Succeeded(name, lane) == result = [name |-> name, lane |-> lane, rc |-> 0]

\* A db-up that reports success has left the whole schema in the database of the backend
\* it chose: init_schema dials what db_dsn resolves, which need not be that backend.
UpMeansServed ==
    /\ Succeeded("up", "embedded") => cluster # None /\ Complete(cluster.schema)
    /\ Succeeded("up", "compose") => volume # None /\ Complete(volume.schema)

\* A self-uninstall that reports success leaves nothing of AIHR: no part, database, shim,
\* credentials, PATH block or plugin entry, no rc file without a line of the user, and no
\* config file this installation created unless the user's plugins are in it. What an
\* interrupted install-post placed goes too, once the user ran it again.
UninstallUndoes ==
    Succeeded("uninstall", "none") =>
        /\ parts = {} /\ cluster = None /\ ~shim /\ envs["bundled"] = None
        /\ \A f \in RcFiles : rcs[f] # None => rcs[f].text /\ ~rcs[f].block
        /\ \A f \in ConfigSet : cfgs[f] # None =>
               ~cfgs[f].entry /\ (cfgs[f].made = "install" => cfgs[f].plugins)

\* No command takes away what the user has in his shell and opencode files: text, plugins,
\* keys of a file of his own.
UserContentKept ==
    \A w \in wrote :
        CASE w[2] = "text"    -> rcs[w[1]] # None /\ rcs[w[1]].text
          [] w[2] = "plugins" -> cfgs[w[1]] # None /\ cfgs[w[1]].plugins
          [] w[2] = "keys"    -> cfgs[w[1]] # None /\ cfgs[w[1]].keys
          [] OTHER            -> TRUE

\* Nobody else listens, the binaries are there, the credentials were not lost, the machine
\* has one backend of ours and the database is not beyond db-up's repair.
Healthy ==
    /\ Embedded /\ foreign = None /\ ~cut
    /\ host.docker => cluster = None /\ container.owner = "ours"
    /\ cluster # None => cluster.usable /\ cluster.schema.ns # "both"
    /\ volume # None => volume.schema.ns # "both"

\* No kill, failure or half-done migration wedges the database: on a machine that stays
\* healthy, a user who goes on running db-down and db-up gets it up again and again.
RestartRecovers == <>[]Healthy => []<>(result.name = "up" /\ result.rc = 0)
=============================================================================
