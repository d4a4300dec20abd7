------------------------ MODULE TurnkeyInstallProofs ------------------------
(***************************************************************************)
(* Proofs about TurnkeyInstall, and with it TurnkeyDatabase: for every     *)
(* machine the assumptions allow, every set of parts, files, ports and     *)
(* passwords, and every number of kills and failures.                      *)
(***************************************************************************)
EXTENDS TurnkeyInstall, SequenceTheorems, TLAPS

EnvSteps == {"env", "unlink", "create", "fill"}

Names == {"none", "place", "install", "uninstall", "up", "down", "purge"}
Pcs == EnvSteps \cup {"idle", "place", "shim", "path", "config", "receipt", "stop", "files",
                      "rmtree", "port", "initdb", "start", "ready", "createdb", "compose",
                      "connect", "schema", "purge"}
Lanes == {"none", "embedded", "compose"}
Targets == {"nothing", "cluster", "volume"}

Cmds == [name : Names, pc : Pcs, lane : Lanes, arg : Ports \cup {None}, force : BOOLEAN,
         file : Candidates, port : Ports \cup {None}, pw : Passwords \cup {None}, step : Int,
         target : Targets, todo : SUBSET RcFiles]

\* Where a command can be, and in which backend.
Where ==
    \/ cmd.name = "none" /\ cmd.pc = "idle"
    \/ cmd.name = "place" /\ cmd.pc = "place"
    \/ /\ cmd.name = "install" /\ cmd.lane = "embedded"
       /\ cmd.pc \in EnvSteps \cup {"shim", "path", "config", "receipt"}
    \/ cmd.name = "uninstall" /\ cmd.pc \in {"stop", "config", "path", "files", "rmtree"}
    \/ /\ cmd.name = "up" /\ cmd.lane = "embedded"
       /\ cmd.pc \in EnvSteps \cup {"port", "initdb", "start", "ready", "createdb", "connect", "schema"}
    \/ /\ cmd.name = "up" /\ cmd.lane = "compose"
       /\ cmd.pc \in EnvSteps \cup {"port", "compose", "ready", "connect", "schema"}
    \/ cmd.name \in {"down", "purge"} /\ cmd.pc = "stop" /\ cmd.lane \in {"embedded", "compose"}
    \/ cmd.name = "purge" /\ cmd.pc = "purge" /\ cmd.lane = "embedded"

\* Steps of sequences are taken in range.
Steps ==
    /\ cmd.pc = "schema" => cmd.step \in 1..Len(SchemaSteps) /\ cmd.target \in {"cluster", "volume"}
    /\ cmd.pc = "config" \/ (cmd.pc = "stop" /\ cmd.name = "uninstall") => cmd.step \in 1..Len(Configs)

FilesTyped ==
    /\ rcs \in [RcFiles -> RcFile \cup {None}] /\ cfgs \in [ConfigSet -> ConfigFile \cup {None}]
    /\ fresh \subseteq ConfigSet /\ receipt \in {None, Torn} \cup SUBSET ConfigSet

EnvsTyped == envs \in [Candidates -> EnvFiles \cup {None}]

DataTyped ==
    /\ cluster \in Databases \cup {None} /\ volume \in Databases \cup {None}
    /\ container \in Containers

CmdTyped == cmd \in Cmds /\ Where /\ Steps

TypeInv == FilesTyped /\ EnvsTyped /\ DataTyped /\ CmdTyped

(* The inductive invariants *)

\* A usable receipt.
Received == receipt \notin {None, Torn}

\* What is noted as the user's own lies where a user can put it.
WroteTyped == wrote \subseteq (RcFiles \X {"text"}) \cup (ConfigSet \X {"plugins", "keys", "settings"})

\* A file the user had is in no list of files an installation created.
Spared ==
    \A f \in ConfigSet :
        (IF cfgs[f] = None THEN FALSE ELSE cfgs[f].made = "user")
            => f \notin fresh /\ (Received => f \notin receipt)

TextStays == \A f \in RcFiles : <<f, "text">> \in wrote => rcs[f] # None /\ rcs[f].text

PluginsStay ==
    \A f \in ConfigSet : <<f, "plugins">> \in wrote => cfgs[f] # None /\ cfgs[f].plugins

KeysStay ==
    \A f \in ConfigSet : <<f, "keys">> \in wrote =>
        cfgs[f] # None /\ cfgs[f].keys /\ cfgs[f].made = "user"

\* Where an uninstallation runs there is a usable receipt.
Licensed == cmd.name = "uninstall" => Received

UserInv == WroteTyped /\ Licensed /\ Spared /\ TextStays /\ PluginsStay /\ KeysStay

\* A config file that is missing, or was made by the last installation.
Ours(f) == IF cfgs[f] = None THEN TRUE ELSE cfgs[f].made = "install"
\* Nothing of an installation is in it but what the user has built on.
Cleared(f) ==
    IF cfgs[f] = None THEN TRUE
    ELSE ~cfgs[f].entry /\ (cfgs[f].made = "install" => cfgs[f].plugins)

\* The receipt knows every config file that is missing or was made since.
Accounted == Received => \A f \in ConfigSet : Ours(f) => f \in receipt

\* A file of the installation is one with a plugin array.
ArrayMade ==
    \A f \in ConfigSet :
        IF cfgs[f] = None THEN TRUE ELSE cfgs[f].made = "install" => cfgs[f].array

\* An installation has wired the config files it has come past, and noted those it made.
Wired ==
    \A i \in 1..Len(Configs) :
        \/ cmd.name = "install" /\ cmd.pc = "config" /\ i < cmd.step
        \/ cmd.name = "install" /\ cmd.pc = "receipt"
        => /\ cfgs[Configs[i]] # None
           /\ cfgs[Configs[i]].made = "install" => Configs[i] \in fresh

\* An uninstallation has cleared the config files it has come past.
Unwired ==
    \A i \in 1..Len(Configs) :
        \/ cmd.name = "uninstall" /\ cmd.pc \in {"stop", "config"} /\ i > cmd.step
        \/ cmd.name = "uninstall" /\ cmd.pc \in {"path", "files", "rmtree"}
        \/ Succeeded("uninstall", "none")
        => Cleared(Configs[i])

\* An rc file without a line of the user is a .profile with our block.
RcOurs ==
    \A f \in RcFiles :
        IF rcs[f] = None THEN TRUE ELSE rcs[f].text \/ (f = "profile" /\ rcs[f].block)

\* The block is put into files that exist, or into .profile.
TargetsOk ==
    cmd.name = "install" /\ cmd.pc = "path" =>
        \A f \in cmd.todo : f = "profile" \/ rcs[f] # None

\* What an uninstallation has taken away stays away.
Removed ==
    /\ \/ cmd.name = "uninstall" /\ cmd.pc \in {"files", "rmtree"}
       \/ Succeeded("uninstall", "none")
       => \A f \in RcFiles : IF rcs[f] = None THEN TRUE ELSE rcs[f].text /\ ~rcs[f].block
    /\ (cmd.name = "uninstall" /\ cmd.pc = "rmtree") \/ Succeeded("uninstall", "none")
       => ~shim /\ envs["bundled"] = None
    /\ Succeeded("uninstall", "none") => parts = {} /\ cluster = None /\ cmd = Idle

UndoInv == Accounted /\ ArrayMade /\ Wired /\ Unwired /\ RcOurs /\ TargetsOk /\ Removed

\* The command that writes an env file holds its password.
Held ==
    /\ cmd.pc \in {"unlink", "create", "fill"} =>
           /\ cmd.pw \in Passwords
           /\ cmd.lane = "embedded" => cmd.file = "bundled"
    /\ cmd.pc = "unlink" => Values(cmd.file).pw \in {None, cmd.pw}

\* Once it stands, a database can be made with it.
Filled ==
    cmd.name = "up" /\ cmd.pc \in {"port", "initdb", "compose"} =>
        /\ envs[cmd.file] # None /\ envs[cmd.file].pw \in Passwords
        /\ cmd.lane = "embedded" => cmd.file = "bundled"

\* A running container has its volume; a purge that has stopped its server has a cluster.
Based ==
    /\ container.st = "running" => volume # None
    /\ cmd.name = "purge" /\ cmd.pc = "purge" => cluster # None

\* After the env file of D is gone there is no volume, or the run counts as cut.
Swept == cmd.name = "uninstall" /\ cmd.pc = "rmtree" /\ ~cut => volume = None

HeldInv == Held /\ Filled /\ Based /\ Swept /\ PasswordStands

\* A container comes with docker and the manifest it was made from.
ContainersHaveHosts ==
    \A m \in Machines : m.container.st # "absent" => m.host.docker /\ m.host.manifest

\* Only a machine with docker and the manifest has a container, and only there does a db-up
\* take the compose backend; the embedded one is taken where there is no container.
Placement ==
    /\ server \in [port : Ports \cup {None}, up : BOOLEAN] \cup {None}
    /\ container.st # "absent" => ComposeReady
    /\ cmd.name = "up" /\ cmd.lane = "compose" => ComposeReady
    /\ cmd.name = "up" /\ cmd.lane = "embedded" => container.st = "absent"

\* The compose backend writes the env file that db_dsn finds.
Found(f) ==
    /\ f # "primary" => envs["primary"] = None
    /\ f = "fallback" => envs["bundled"] = None

Discovered ==
    cmd.name = "up" /\ cmd.lane = "compose" =>
        /\ cmd.pc \in {"unlink", "create", "fill", "port", "compose", "ready", "connect"}
               => Found(cmd.file) /\ cmd.port \in Ports
        /\ cmd.pc \in {"port", "compose", "ready", "connect"}
               => /\ envs[cmd.file] # None
                  /\ cmd.port = PortOr(envs[cmd.file].port, DefaultPort)
        /\ cmd.pc \in {"ready", "connect"} => ServerPort # cmd.port

\* The schema steps that are done.
Done(s, step) ==
    /\ s.ns \in {"none", "hr"}
    /\ step > 1 => s.ns = "hr"
    /\ \A i \in 2..5 : i < step => SchemaSteps[i] \in s.cols

Progress ==
    cmd.name = "up" /\ cmd.pc = "schema" =>
        /\ cmd.target = IF cmd.lane = "embedded" THEN "cluster" ELSE "volume"
        /\ Database(cmd.target) # None /\ Done(Database(cmd.target).schema, cmd.step)

Served ==
    /\ UpMeansServed
    /\ \A lane \in {"embedded", "compose"} : Succeeded("up", lane) => cmd = Idle

ServedInv == Placement /\ Discovered /\ Progress /\ Served

-----------------------------------------------------------------------------
(* Types *)

\* No command is a command.
LEMMA IdleTyped == Idle \in Cmds
BY DEF Idle, Cmds, Candidates, Names, Pcs, Lanes, Targets

\* The env file a command reads, its own or none, is an env file.
LEMMA EnvFileTyped ==
    ASSUME NEW lane
    PROVE  EnvFileOf(lane) \in Candidates
BY NoneAssumption DEF EnvFileOf, DbEnvFileForWrite, DbEnvFile, Candidates

\* A command that ends leaves none.
LEMMA EndTyped ==
    ASSUME cmd' = Idle
    PROVE  CmdTyped'
  <1>1. cmd' \in Cmds
    BY IdleTyped
  <1>2. Where' /\ Steps'
    BY DEF Idle, Where, Steps
  <1>3. QED
    BY <1>1, <1>2 DEF CmdTyped

\* The commands begin where they should.
LEMMA BeginTyped ==
    ASSUME TypeInv,
           \/ \E p \in Ports \cup {None}, force \in BOOLEAN : Up(p, force)
           \/ \E purge \in BOOLEAN : Down(purge)
           \/ \E reinstall \in BOOLEAN : Place(reinstall)
           \/ \E p \in Ports \cup {None} : InstallPost(p)
           \/ Uninstall
    PROVE  CmdTyped'
  <1>1. CASE cmd' = cmd
    BY <1>1 DEF TypeInv, CmdTyped, Where, Steps
  <1>2. ASSUME NEW p \in Ports \cup {None}, NEW force \in BOOLEAN, Up(p, force), cmd' # cmd
        PROVE  CmdTyped'
    <2>1. /\ UpLane(p) \in {"embedded", "compose"}
          /\ cmd' = [Idle EXCEPT !.name = "up", !.pc = "env", !.lane = UpLane(p), !.arg = p,
                                 !.force = force /\ UpLane(p) = "compose"]
      BY <1>2 DEF Up, UpLane
    <2>2. /\ cmd'.name = "up" /\ cmd'.pc = "env" /\ cmd'.lane = UpLane(p)
      BY <2>1 DEF Idle
    <2> DEFINE forced == force /\ UpLane(p) = "compose"
    <2>3. cmd' \in Cmds
      <3>1. forced \in BOOLEAN
        OBVIOUS
      <3>2. cmd' = [Idle EXCEPT !.name = "up", !.pc = "env", !.lane = UpLane(p), !.arg = p,
                                !.force = forced]
        BY <2>1
      <3> HIDE DEF forced
      <3>3. QED
        BY <2>1, <3>1, <3>2, IdleTyped DEF Cmds, Names, Pcs, Lanes, EnvSteps
    <2>4. QED
      BY <2>1, <2>2, <2>3 DEF CmdTyped, Where, Steps, EnvSteps
  <1>3. ASSUME NEW purge \in BOOLEAN, Down(purge), cmd' # cmd
        PROVE  CmdTyped'
    <2>1. /\ DownLane \in {"embedded", "compose"}
          /\ cmd' = [Idle EXCEPT !.name = IF purge THEN "purge" ELSE "down", !.pc = "stop",
                                 !.lane = DownLane]
      BY <1>3 DEF Down, DownLane
    <2>2. /\ cmd'.name \in {"down", "purge"} /\ cmd'.pc = "stop" /\ cmd'.lane = DownLane
      BY <2>1 DEF Idle
    <2> DEFINE name == IF purge THEN "purge" ELSE "down"
    <2>3. cmd' \in Cmds
      <3>1. name \in Names
        BY DEF Names
      <3>2. cmd' = [Idle EXCEPT !.name = name, !.pc = "stop", !.lane = DownLane]
        BY <2>1
      <3> HIDE DEF name
      <3>3. QED
        BY <2>1, <3>1, <3>2, IdleTyped DEF Cmds, Pcs, Lanes
    <2>4. QED
      BY <2>1, <2>2, <2>3 DEF CmdTyped, Where, Steps
  <1>4. ASSUME NEW reinstall \in BOOLEAN, Place(reinstall)
        PROVE  CmdTyped'
    <2>1. cmd' = [Idle EXCEPT !.name = "place", !.pc = "place", !.step = 1]
      BY <1>4 DEF Place
    <2>2. cmd'.name = "place" /\ cmd'.pc = "place"
      BY <2>1 DEF Idle
    <2> PICK one \in Int : one = 1
      OBVIOUS
    <2>2a. cmd' \in Cmds
      <3>1. cmd' = [Idle EXCEPT !.name = "place", !.pc = "place", !.step = one]
        BY <2>1
      <3>2. QED
        BY <3>1, IdleTyped DEF Cmds, Names, Pcs
    <2>3. QED
      BY <2>2, <2>2a DEF CmdTyped, Where, Steps
  <1>5. ASSUME NEW p \in Ports \cup {None}, InstallPost(p), cmd' # cmd
        PROVE  CmdTyped'
    <2>1. cmd' = [Idle EXCEPT !.name = "install", !.pc = "env", !.lane = "embedded", !.arg = p]
      BY <1>5 DEF InstallPost
    <2>2. /\ cmd'.name = "install" /\ cmd'.pc = "env" /\ cmd'.lane = "embedded" /\ cmd' \in Cmds
      BY <2>1, IdleTyped DEF Idle, Cmds, Names, Pcs, Lanes, EnvSteps
    <2>3. QED
      BY <2>2 DEF CmdTyped, Where, Steps, EnvSteps
  <1>6. ASSUME Uninstall, cmd' # cmd
        PROVE  CmdTyped'
    <2>1. /\ Len(Configs) \in Int /\ Len(Configs) \in 1..Len(Configs)
      BY FilesAssumption, LenProperties, EmptySeq
    <2>2. cmd' = [Idle EXCEPT !.name = "uninstall",
                              !.pc = IF Embedded /\ Installed THEN "stop" ELSE "config",
                              !.step = Len(Configs)]
      BY <1>6 DEF Uninstall
    <2>3. /\ cmd'.name = "uninstall" /\ cmd'.pc \in {"stop", "config"} /\ cmd'.step = Len(Configs)
          /\ cmd' \in Cmds
      BY <2>1, <2>2, IdleTyped DEF Idle, Cmds, Names, Pcs, Lanes, EnvSteps
    <2>4. QED
      BY <2>1, <2>3 DEF CmdTyped, Where, Steps
  <1>7. QED
    BY <1>1, <1>2, <1>3, <1>4, <1>5, <1>6

\* A command that goes to another step stays the command it is.
LEMMA GotoTyped ==
    ASSUME TypeInv, NEW pc \in Pcs, cmd' = [cmd EXCEPT !.pc = pc]
    PROVE  /\ cmd' \in Cmds /\ cmd'.pc = pc /\ cmd'.name = cmd.name /\ cmd'.lane = cmd.lane
           /\ cmd'.step = cmd.step /\ cmd'.target = cmd.target /\ cmd'.file = cmd.file
           /\ cmd'.pw = cmd.pw /\ cmd'.todo = cmd.todo
BY DEF TypeInv, CmdTyped, Cmds

\* The steps that see to the env file.
LEMMA EnvStepTyped ==
    ASSUME TypeInv, EnsureEnv \/ EnvUnlink \/ EnvCreate \/ EnvFill
    PROVE  /\ CmdTyped' /\ cmd'.name = cmd.name /\ cmd'.lane = cmd.lane
           /\ cmd.pc \in EnvSteps /\ cmd'.pc \in {"unlink", "create", "fill", "port", "shim"}
  <1>1. cmd \in Cmds /\ Where
    BY DEF TypeInv, CmdTyped
  <1>2. cmd.pc \in EnvSteps /\ cmd.name \in {"up", "install"}
    BY <1>1 DEF EnsureEnv, EnvUnlink, EnvCreate, EnvFill, WriteEnv, Where, EnvSteps
  <1>3. AfterEnv \in {"port", "shim"} /\ AfterEnv = IF cmd.name = "up" THEN "port" ELSE "shim"
    BY <1>2 DEF AfterEnv
  <1>4. ASSUME cmd' \in Cmds, cmd'.name = cmd.name, cmd'.lane = cmd.lane,
               cmd'.pc \in {"unlink", "create", "fill", AfterEnv}
        PROVE  CmdTyped' /\ cmd'.pc \in {"unlink", "create", "fill", "port", "shim"}
    <2>1. Where'
      BY <1>1, <1>2, <1>3, <1>4 DEF Where, EnvSteps
    <2>2. Steps'
      BY <1>3, <1>4 DEF Steps
    <2>3. QED
      BY <1>3, <1>4, <2>1, <2>2 DEF CmdTyped
  <1>5. CASE EnsureEnv
    <2> DEFINE f == EnvFileOf(cmd.lane)
               old == Values(f)
               p == PortOr(cmd.arg, PortOr(old.port, DefaultPort))
    <2>1. f \in Candidates
      BY EnvFileTyped
    <2>2. p \in Ports \cup {None} /\ old.pw \in Passwords \cup {None}
      <3>1. old \in EnvFiles
        BY <2>1 DEF TypeInv, EnvsTyped, Values, EmptyFile, EnvFiles
      <3>2. cmd.arg \in Ports \cup {None}
        BY <1>1 DEF Cmds
      <3> HIDE DEF f
      <3>3. QED
        BY <3>1, <3>2, PortsAssumption DEF EnvFiles, PortOr
    <2>3. \/ cmd' = [cmd EXCEPT !.pc = AfterEnv, !.file = f, !.port = p, !.arg = None]
          \/ \E pw \in Passwords \cup {None}, pc \in {"create", "unlink"} :
                 cmd' = [cmd EXCEPT !.pc = pc, !.file = f, !.port = p, !.arg = None, !.pw = pw]
      BY <1>5, <2>2 DEF EnsureEnv
    <2> HIDE DEF f, p, old
    <2>4. CASE cmd' = [cmd EXCEPT !.pc = AfterEnv, !.file = f, !.port = p, !.arg = None]
      BY <1>1, <1>2, <1>3, <1>4, <2>1, <2>2, <2>4 DEF Cmds, Pcs
    <2>5. ASSUME NEW pw \in Passwords \cup {None}, NEW pc \in {"create", "unlink"},
                 cmd' = [cmd EXCEPT !.pc = pc, !.file = f, !.port = p, !.arg = None, !.pw = pw]
          PROVE  /\ cmd' \in Cmds /\ cmd'.name = cmd.name /\ cmd'.lane = cmd.lane
                 /\ cmd'.pc \in {"unlink", "create"}
      BY <1>1, <2>1, <2>2, <2>5 DEF Cmds, Pcs, EnvSteps
    <2>6. QED
      BY <1>2, <1>4, <2>3, <2>4, <2>5
  <1>6. CASE EnvUnlink \/ EnvCreate \/ EnvFill
    <2>1. \E pc \in {"create", "fill", AfterEnv}, pw \in {None, cmd.pw} :
              cmd' = [cmd EXCEPT !.pc = pc, !.pw = pw]
      BY <1>1, <1>6 DEF EnvUnlink, EnvCreate, EnvFill, WriteEnv, Cmds
    <2>2. PICK pc \in {"create", "fill", AfterEnv}, pw \in {None, cmd.pw} :
              cmd' = [cmd EXCEPT !.pc = pc, !.pw = pw]
      BY <2>1
    <2>3. pc \in Pcs /\ pw \in Passwords \cup {None}
      BY <1>1, <1>3 DEF Pcs, EnvSteps, Cmds
    <2>4. cmd' \in Cmds /\ cmd'.name = cmd.name /\ cmd'.lane = cmd.lane /\ cmd'.pc = pc
      BY <1>1, <2>2, <2>3 DEF Cmds
    <2>5. QED
      BY <1>2, <1>4, <2>2, <2>4
  <1>7. QED
    BY <1>2, <1>5, <1>6

\* The steps of db-up and db-down after it.
LEMMA DbStepTyped ==
    ASSUME TypeInv,
           \/ EmbeddedPort \/ Initdb \/ Start \/ Ready \/ EnsureDatabase
           \/ ComposeGuards \/ ComposeUp \/ ComposeReadiness
           \/ Connect \/ SchemaStep
           \/ StopEmbedded \/ PurgeData \/ StopCompose
    PROVE  CmdTyped'
  <1>1. cmd \in Cmds /\ Where /\ Steps
    BY DEF TypeInv, CmdTyped
  <1>2. CASE cmd' = Idle
    BY <1>2, EndTyped
  <1>3. ASSUME NEW pc \in {"connect", "initdb", "start", "ready", "createdb", "compose", "purge"},
               cmd' = [cmd EXCEPT !.pc = pc],
               \/ cmd.name = "up" /\ cmd.lane = "embedded" /\ pc \notin {"compose", "purge"}
               \/ cmd.name = "up" /\ cmd.lane = "compose" /\ pc \in {"compose", "ready", "connect"}
               \/ cmd.name = "purge" /\ cmd.lane = "embedded" /\ pc = "purge"
        PROVE  CmdTyped'
    <2>1. cmd' \in Cmds /\ cmd'.pc = pc /\ cmd'.name = cmd.name /\ cmd'.lane = cmd.lane
      BY <1>3, GotoTyped DEF Pcs
    <2>2. QED
      BY <1>3, <2>1 DEF CmdTyped, Where, Steps
  <1>4. CASE EmbeddedPort \/ Initdb \/ Start \/ Ready \/ EnsureDatabase
    BY <1>2, <1>3, <1>4 DEF EmbeddedPort, Initdb, Start, Ready, EnsureDatabase, InLane, At, Goto,
                            Return
  <1>5. CASE ComposeGuards \/ ComposeUp \/ ComposeReadiness
    BY <1>2, <1>3, <1>5 DEF ComposeGuards, ComposeUp, ComposeReadiness, InLane, At, Goto, Return
  <1>6. CASE StopEmbedded \/ PurgeData \/ StopCompose
    BY <1>2, <1>3, <1>6 DEF StopEmbedded, PurgeData, StopCompose, At, Goto, Return
  <1>7. CASE Connect
    <2>1. CASE Return(1)
      BY <1>2, <2>1 DEF Return
    <2>2. CASE cmd' = [Idle EXCEPT !.name = "up", !.lane = cmd.lane, !.pc = "schema",
                                   !.step = 1, !.target = Dialled] /\ Dialled # "nothing"
      <3> PICK one \in Int : one = 1
        OBVIOUS
      <3>1. Dialled \in {"cluster", "volume"} /\ cmd.lane \in {"embedded", "compose"}
        BY <1>1, <1>7, <2>2 DEF Dialled, Connect, Where
      <3>2. cmd' = [Idle EXCEPT !.name = "up", !.lane = cmd.lane, !.pc = "schema",
                                !.step = one, !.target = Dialled]
        BY <2>2
      <3>3. /\ cmd'.name = "up" /\ cmd'.lane = cmd.lane /\ cmd'.pc = "schema"
            /\ cmd'.step = one /\ cmd'.target = Dialled
        BY <3>2 DEF Idle
      <3>3a. cmd' \in Cmds
        <4>1. PICK lane \in Lanes, t \in Targets : lane = cmd.lane /\ t = Dialled
          BY <3>1 DEF Lanes, Targets
        <4>2. cmd' = [Idle EXCEPT !.name = "up", !.lane = lane, !.pc = "schema",
                                  !.step = one, !.target = t]
          BY <3>2, <4>1
        <4>3. "up" \in Names /\ "schema" \in Pcs
          BY DEF Names, Pcs
        <4>4. QED
          BY <4>2, <4>3, IdleTyped DEF Cmds
      <3>4. one \in 1..Len(SchemaSteps)
        BY DEF SchemaSteps
      <3>5. QED
        BY <3>1, <3>3, <3>3a, <3>4 DEF CmdTyped, Where, Steps
    <2>3. QED
      BY <1>7, <2>1, <2>2 DEF Connect
  <1>8. CASE SchemaStep
    <2>1. CASE \E rc : Return(rc)
      BY <1>2, <2>1 DEF Return
    <2>2. CASE cmd' = [cmd EXCEPT !.step = @ + 1] /\ cmd.step < Len(SchemaSteps)
      <3>1. cmd.pc = "schema" /\ cmd.step \in 1..Len(SchemaSteps) /\ Len(SchemaSteps) = 6
        BY <1>1, <1>8 DEF SchemaStep, Steps, SchemaSteps
      <3>2. PICK next \in 1..6 : next = cmd.step + 1
        BY <2>2, <3>1
      <3>3. cmd' = [cmd EXCEPT !.step = next]
        BY <1>1, <2>2, <3>2 DEF Cmds
      <3>4. /\ cmd' \in Cmds /\ cmd'.name = cmd.name /\ cmd'.lane = cmd.lane /\ cmd'.pc = cmd.pc
            /\ cmd'.step = next /\ cmd'.target = cmd.target
        BY <1>1, <3>3 DEF Cmds
      <3>5. QED
        BY <1>1, <3>1, <3>4 DEF CmdTyped, Where, Steps
    <2>3. QED
      BY <1>8, <2>1, <2>2 DEF SchemaStep
  <1>9. QED
    BY <1>4, <1>5, <1>6, <1>7, <1>8

\* The steps of the installer.
LEMMA InstallStepTyped ==
    ASSUME TypeInv, InstallStep
    PROVE  CmdTyped'
  <1>1. cmd \in Cmds /\ Where /\ Steps
    BY DEF TypeInv, CmdTyped
  <1>2. CASE cmd' = Idle
    BY <1>2, EndTyped
  <1>3. CASE PlacePart
    <2>1. CASE Return(0)
      BY <1>2, <2>1 DEF Return
    <2>2. CASE cmd' = [cmd EXCEPT !.step = @ + 1]
      <3>1. PICK next \in Int : next = cmd.step + 1
        BY <1>1 DEF Cmds
      <3>2. cmd' = [cmd EXCEPT !.step = next]
        BY <1>1, <2>2, <3>1 DEF Cmds
      <3>3. cmd' \in Cmds /\ cmd'.name = cmd.name /\ cmd'.lane = cmd.lane /\ cmd'.pc = cmd.pc
        BY <1>1, <3>2 DEF Cmds
      <3>4. QED
        BY <1>3, <3>3 DEF PlacePart, At, CmdTyped, Where, Steps
    <2>3. QED
      BY <1>3, <2>1, <2>2 DEF PlacePart
  <1>4. CASE PlaceShim
    <2>1. RcTargets \in SUBSET RcFiles
      BY FilesAssumption DEF RcTargets
    <2>2. cmd' = [Idle EXCEPT !.name = "install", !.lane = "embedded", !.pc = "path",
                              !.todo = RcTargets]
      BY <1>4 DEF PlaceShim
    <2>3. cmd'.name = "install" /\ cmd'.lane = "embedded" /\ cmd'.pc = "path"
      BY <2>2 DEF Idle
    <2>4. cmd' \in Cmds
      BY <2>1, <2>2, IdleTyped DEF Cmds, Names, Pcs, Lanes
    <2>5. QED
      BY <2>3, <2>4 DEF CmdTyped, Where, Steps
  <1>5. CASE PersistPath
    <2>1. cmd.name = "install" /\ cmd.pc = "path" /\ cmd.lane = "embedded"
      BY <1>1, <1>5 DEF PersistPath, At, Where, EnvSteps
    <2>2. PICK one \in Int : one = 1
      OBVIOUS
    <2>3. \/ cmd' = [cmd EXCEPT !.pc = "config", !.todo = {}, !.step = one]
          \/ \E f \in cmd.todo : cmd' = [cmd EXCEPT !.todo = @ \ {f}]
      BY <1>5, <2>2 DEF PersistPath
    <2>4. CASE cmd' = [cmd EXCEPT !.pc = "config", !.todo = {}, !.step = one]
      <3>1. cmd' \in Cmds
        BY <1>1, <2>4 DEF Cmds, Pcs
      <3>2. /\ cmd'.name = cmd.name /\ cmd'.lane = cmd.lane /\ cmd'.pc = "config"
            /\ cmd'.step = one
        BY <1>1, <2>4 DEF Cmds
      <3>3. one \in 1..Len(Configs)
        BY <2>2, FilesAssumption, LenProperties, EmptySeq
      <3>4. QED
        BY <2>1, <3>1, <3>2, <3>3 DEF CmdTyped, Where, Steps
    <2>5. ASSUME NEW f \in cmd.todo, cmd' = [cmd EXCEPT !.todo = @ \ {f}]
          PROVE  CmdTyped'
      <3>1. cmd' \in Cmds
        BY <1>1, <2>5 DEF Cmds
      <3>2. cmd'.name = cmd.name /\ cmd'.lane = cmd.lane /\ cmd'.pc = cmd.pc
        BY <1>1, <2>5 DEF Cmds
      <3>3. QED
        BY <2>1, <3>1, <3>2 DEF CmdTyped, Where, Steps
    <2>6. QED
      BY <2>3, <2>4, <2>5
  <1>6. CASE EnsurePlugin \/ RemovePlugin
    <2>1. /\ cmd.pc = "config" /\ cmd.step \in 1..Len(Configs) /\ Len(Configs) \in Nat
          /\ \/ cmd.name = "install" /\ cmd.lane = "embedded"
             \/ cmd.name = "uninstall"
      BY <1>1, <1>6, FilesAssumption, LenProperties DEF EnsurePlugin, RemovePlugin, At, Where, Steps
    <2>2. CASE Return(1)
      BY <1>2, <2>2 DEF Return
    <2>3. CASE \E next \in 1..Len(Configs) : cmd' = [cmd EXCEPT !.step = next]
      <3>1. PICK next \in 1..Len(Configs) : cmd' = [cmd EXCEPT !.step = next]
        BY <2>3
      <3>2. /\ cmd' \in Cmds /\ cmd'.name = cmd.name /\ cmd'.lane = cmd.lane /\ cmd'.pc = cmd.pc
            /\ cmd'.step = next
        BY <1>1, <3>1 DEF Cmds
      <3>3. QED
        BY <1>1, <2>1, <3>2 DEF CmdTyped, Where, Steps
    <2>4. CASE EnsurePlugin /\ cmd' = [cmd EXCEPT !.pc = "receipt"]
      <3>1. cmd' \in Cmds /\ cmd'.name = cmd.name /\ cmd'.lane = cmd.lane /\ cmd'.pc = "receipt"
        BY <1>1, <2>4 DEF Cmds, Pcs
      <3>2. QED
        BY <1>1, <2>1, <2>4, <3>1 DEF CmdTyped, Where, Steps, EnsurePlugin, At
    <2>5. CASE RemovePlugin /\ cmd' = [cmd EXCEPT !.pc = "path"]
      <3>1. cmd' \in Cmds /\ cmd'.name = cmd.name /\ cmd'.lane = cmd.lane /\ cmd'.pc = "path"
        BY <1>1, <2>5 DEF Cmds, Pcs
      <3>2. QED
        BY <1>1, <2>1, <2>5, <3>1 DEF CmdTyped, Where, Steps, RemovePlugin, At
    <2>6. CASE cmd.step < Len(Configs) /\ cmd' = [cmd EXCEPT !.step = @ + 1]
      <3>1. PICK next \in 1..Len(Configs) : next = cmd.step + 1
        BY <2>1, <2>6
      <3>2. cmd' = [cmd EXCEPT !.step = next]
        BY <1>1, <2>6, <3>1 DEF Cmds
      <3>3. QED
        BY <2>3, <3>2
    <2>7. CASE cmd.step > 1 /\ cmd' = [cmd EXCEPT !.step = @ - 1]
      <3>1. PICK next \in 1..Len(Configs) : next = cmd.step - 1
        BY <2>1, <2>7
      <3>2. cmd' = [cmd EXCEPT !.step = next]
        BY <1>1, <2>7, <3>1 DEF Cmds
      <3>3. QED
        BY <2>3, <3>2
    <2>8. QED
      BY <1>6, <2>2, <2>4, <2>5, <2>6, <2>7 DEF EnsurePlugin, RemovePlugin
  <1>7. CASE SaveReceipt \/ RemoveHome
    BY <1>2, <1>7 DEF SaveReceipt, RemoveHome, Return
  <1>8. ASSUME NEW pc \in {"config", "files", "rmtree"}, cmd' = [cmd EXCEPT !.pc = pc],
               cmd.name = "uninstall",
               pc = "config" => cmd.step \in 1..Len(Configs)
        PROVE  CmdTyped'
    <2>1. cmd' \in Cmds /\ cmd'.pc = pc /\ cmd'.name = cmd.name /\ cmd'.step = cmd.step
      BY <1>8, GotoTyped DEF Pcs
    <2>2. QED
      BY <1>8, <2>1 DEF CmdTyped, Where, Steps
  <1>9. CASE UninstallStop
    BY <1>1, <1>8, <1>9 DEF UninstallStop, At, Goto, Steps
  <1>10. CASE RemovePath \/ RemoveFiles
    BY <1>8, <1>10 DEF RemovePath, RemoveFiles, At, Goto
  <1>11. QED
    BY <1>3, <1>4, <1>5, <1>6, <1>7, <1>9, <1>10 DEF InstallStep

\* Where a command stands is typed.
LEMMA CmdStepTyped ==
    ASSUME TypeInv, Next
    PROVE  CmdTyped'
  <1>1. CASE cmd' = cmd
    BY <1>1 DEF TypeInv, CmdTyped, Where, Steps
  <1>2. CASE cmd' = Idle
    BY <1>2, EndTyped
  <1>3. CASE DbStep
    BY <1>3, EnvStepTyped, DbStepTyped DEF DbStep
  <1>4. CASE Machine
    BY <1>1, <1>2, <1>4 DEF Machine, Crash, ServerBoots, OrphanEnds, ServerDies, ForeignListens
  <1>5. CASE UserEdits \/ Killed
    BY <1>1, <1>2, <1>5 DEF UserEdits, Killed
  <1>6. QED
    BY <1>3, <1>4, <1>5, BeginTyped, InstallStepTyped DEF Next, DbCommand

-----------------------------------------------------------------------------
(* The files of the user and the installer *)

\* What a step may do to an rc file and to a config file leaves it one.
LEMMA WithEntryTyped ==
    ASSUME NEW c \in ConfigFile \cup {None}
    PROVE  /\ WithEntry(c) \in ConfigFile /\ WithEntry(c) # None
           /\ WithEntry(c).array /\ WithEntry(c).entry
           /\ c = None => WithEntry(c).made = "install"
           /\ c # None => /\ WithEntry(c).plugins = c.plugins /\ WithEntry(c).keys = c.keys
                          /\ WithEntry(c).made = IF c.made = "install" THEN "earlier" ELSE c.made
  <1>1. CASE c = None
    <2>1. WithEntry(c) = NewConfig
      BY <1>1 DEF WithEntry
    <2>2. NewConfig \in ConfigFile
      BY DEF NewConfig, ConfigFile
    <2>3. NewConfig.array /\ NewConfig.entry /\ NewConfig.made = "install"
      BY DEF NewConfig
    <2>4. QED
      BY <1>1, <2>1, <2>2, <2>3, FilesAssumption
  <1>2. CASE c # None
    <2> DEFINE made == IF c.made = "install" THEN "earlier" ELSE c.made
    <2>1. c \in ConfigFile /\ made \in {"user", "install", "earlier"}
      BY <1>2 DEF ConfigFile
    <2>2. WithEntry(c) = [c EXCEPT !.array = TRUE, !.entry = TRUE, !.made = made]
      BY <1>2, <2>1 DEF WithEntry, ConfigFile
    <2> HIDE DEF made
    <2>3. /\ WithEntry(c) \in ConfigFile /\ WithEntry(c).array /\ WithEntry(c).entry
          /\ WithEntry(c).plugins = c.plugins /\ WithEntry(c).keys = c.keys
          /\ WithEntry(c).made = made
      BY <2>1, <2>2 DEF ConfigFile
    <2>4. QED
      BY <1>2, <2>3, FilesAssumption DEF made
  <1>3. QED
    BY <1>1, <1>2

\* Taking a product entry out of a config file leaves a config file.
LEMMA ReversedTyped ==
    ASSUME NEW c \in ConfigFile, NEW created \in BOOLEAN
    PROVE  /\ Reversed(c, created) \in ConfigFile \cup {None}
           /\ Reversed(c, created) = None <=> created /\ c.array /\ ~c.plugins
           /\ Reversed(c, created) # None =>
                  /\ ~Reversed(c, created).entry
                  /\ Reversed(c, created).plugins = c.plugins
                  /\ Reversed(c, created).keys = c.keys
                  /\ Reversed(c, created).array = c.array
                  /\ Reversed(c, created).made = c.made
  <1> DEFINE rest == [c EXCEPT !.entry = FALSE]
  <1>1. /\ rest \in ConfigFile /\ rest # None /\ ~rest.entry /\ rest.plugins = c.plugins
        /\ rest.keys = c.keys /\ rest.array = c.array /\ rest.made = c.made
    BY FilesAssumption DEF ConfigFile
  <1>2. Reversed(c, created) = IF created /\ rest.array /\ ~rest.plugins THEN None ELSE rest
    BY DEF Reversed
  <1> HIDE DEF rest
  <1>3. QED
    BY <1>1, <1>2

\* The user only adds to a config file, or mistypes.
LEMMA EditOfConfig ==
    ASSUME FilesTyped, UserEdits, cfgs' # cfgs
    PROVE  \E f \in ConfigSet, new \in ConfigFile :
               /\ cfgs[f] \in ConfigFile /\ cfgs[f] # None /\ new # None
               /\ cfgs' = [cfgs EXCEPT ![f] = new]
               /\ new.entry = cfgs[f].entry /\ new.made = cfgs[f].made
               /\ cfgs[f].array => new.array
               /\ cfgs[f].plugins => new.plugins
               /\ cfgs[f].keys => new.keys
               /\ \/ wrote' = wrote
                  \/ wrote' = wrote \cup {<<f, "plugins">>} /\ new.plugins
                  \/ /\ wrote' = wrote \cup {<<f, IF new.made = "user" THEN "keys" ELSE "settings">>}
                     /\ new.keys
  <1>1. PICK f \in ConfigSet :
            /\ cfgs[f] # None
            /\ \/ /\ cfgs' = [cfgs EXCEPT ![f].array = TRUE, ![f].plugins = TRUE]
                  /\ wrote' = wrote \cup {<<f, "plugins">>}
               \/ /\ cfgs' = [cfgs EXCEPT ![f].keys = TRUE]
                  /\ wrote' = wrote \cup
                       {<<f, IF cfgs[f].made = "user" THEN "keys" ELSE "settings">>}
               \/ /\ cfgs' = [cfgs EXCEPT ![f].valid = ~@]
                  /\ UNCHANGED wrote
    BY DEF UserEdits
  <1>2. cfgs[f] \in ConfigFile
    BY <1>1 DEF FilesTyped
  <1>3. CASE /\ cfgs' = [cfgs EXCEPT ![f].array = TRUE, ![f].plugins = TRUE]
             /\ wrote' = wrote \cup {<<f, "plugins">>}
    <2>1. PICK new : new = [cfgs[f] EXCEPT !.array = TRUE, !.plugins = TRUE]
      OBVIOUS
    <2>2. /\ new \in ConfigFile /\ new.entry = cfgs[f].entry /\ new.made = cfgs[f].made
          /\ new.array /\ new.plugins /\ new.keys = cfgs[f].keys
      BY <1>2, <2>1 DEF ConfigFile
    <2>3. cfgs' = [cfgs EXCEPT ![f] = new]
      BY <1>3, <2>1 DEF FilesTyped
    <2>4. QED
      BY <1>1, <1>2, <1>3, <2>2, <2>3, FilesAssumption
  <1>4. CASE /\ cfgs' = [cfgs EXCEPT ![f].keys = TRUE]
             /\ wrote' = wrote \cup
                  {<<f, IF cfgs[f].made = "user" THEN "keys" ELSE "settings">>}
    <2>1. PICK new : new = [cfgs[f] EXCEPT !.keys = TRUE]
      OBVIOUS
    <2>2. /\ new \in ConfigFile /\ new.entry = cfgs[f].entry /\ new.made = cfgs[f].made
          /\ new.array = cfgs[f].array /\ new.plugins = cfgs[f].plugins /\ new.keys
      BY <1>2, <2>1 DEF ConfigFile
    <2>3. cfgs' = [cfgs EXCEPT ![f] = new]
      BY <1>4, <2>1 DEF FilesTyped
    <2>4. wrote' = wrote \cup {<<f, IF new.made = "user" THEN "keys" ELSE "settings">>}
      BY <1>4, <2>2
    <2>5. QED
      BY <1>1, <1>2, <2>2, <2>3, <2>4, FilesAssumption
  <1>5. CASE cfgs' = [cfgs EXCEPT ![f].valid = ~@] /\ UNCHANGED wrote
    <2>1. PICK new : new = [cfgs[f] EXCEPT !.valid = ~@]
      OBVIOUS
    <2>2. /\ new \in ConfigFile /\ new.entry = cfgs[f].entry /\ new.made = cfgs[f].made
          /\ new.array = cfgs[f].array /\ new.plugins = cfgs[f].plugins /\ new.keys = cfgs[f].keys
      BY <1>2, <2>1 DEF ConfigFile
    <2>3. cfgs' = [cfgs EXCEPT ![f] = new]
      BY <1>5, <2>1 DEF FilesTyped
    <2>4. QED
      BY <1>1, <1>2, <1>5, <2>2, <2>3, FilesAssumption
  <1>6. QED
    BY <1>1, <1>3, <1>4, <1>5

\* Each step leaves files files.
LEMMA FilesStepTyped ==
    ASSUME TypeInv, Next
    PROVE  FilesTyped'
  <1>1. FilesTyped /\ CmdTyped
    BY DEF TypeInv
  <1>2. CASE UNCHANGED <<rcs, cfgs, fresh, receipt>>
    BY <1>1, <1>2 DEF FilesTyped
  <1>3. CASE \/ (DbCommand \/ DbStep \/ Machine) /\ UNCHANGED installVars
             \/ \E reinstall \in BOOLEAN : Place(reinstall)
             \/ Uninstall
             \/ PlacePart \/ PlaceShim \/ UninstallStop \/ RemoveFiles
    BY <1>2, <1>3 DEF installVars, Place, Uninstall, PlacePart, PlaceShim, UninstallStop, RemoveFiles,
                      userFiles
  <1>4. CASE \E p \in Ports \cup {None} : InstallPost(p)
    BY <1>1, <1>4 DEF InstallPost, FilesTyped, userFiles
  <1>5. CASE PersistPath
    <2>1. PICK f \in cmd.todo :
              rcs' = [rcs EXCEPT ![f] = IF @ = None THEN [text |-> FALSE, block |-> TRUE]
                                        ELSE [@ EXCEPT !.block = TRUE]]
      BY <1>5 DEF PersistPath
    <2>2. f \in RcFiles
      BY <1>1 DEF CmdTyped, Cmds
    <2> DEFINE new == IF rcs[f] = None THEN [text |-> FALSE, block |-> TRUE]
                      ELSE [rcs[f] EXCEPT !.block = TRUE]
    <2>3. new \in RcFile
      BY <1>1, <2>2 DEF FilesTyped, RcFile
    <2>4. rcs' = [rcs EXCEPT ![f] = new]
      BY <1>1, <2>1, <2>2 DEF FilesTyped
    <2> HIDE DEF new
    <2>5. QED
      BY <1>1, <1>5, <2>2, <2>3, <2>4 DEF FilesTyped, PersistPath
  <1>6. CASE EnsurePlugin
    <2> DEFINE f == Configs[cmd.step]
    <2>1. f \in ConfigSet
      BY <1>1, <1>6 DEF EnsurePlugin, At, CmdTyped, Steps, ConfigSet
    <2>2. \/ UNCHANGED <<cfgs, fresh>>
          \/ /\ cfgs' = [cfgs EXCEPT ![f] = WithEntry(cfgs[f])]
             /\ fresh' = IF cfgs[f] = None THEN fresh \cup {f} ELSE fresh
      BY <1>1, <1>6, <2>1 DEF EnsurePlugin, FilesTyped
    <2> HIDE DEF f
    <2>3. WithEntry(cfgs[f]) \in ConfigFile
      BY <1>1, <2>1, WithEntryTyped DEF FilesTyped
    <2>4. QED
      BY <1>1, <1>6, <2>1, <2>2, <2>3 DEF FilesTyped, EnsurePlugin
  <1>7. CASE SaveReceipt
    BY <1>1, <1>7 DEF SaveReceipt, FilesTyped, userFiles
  <1>8. CASE RemovePlugin
    <2> DEFINE f == Configs[cmd.step]
               new == IF cfgs[f] = None THEN None ELSE Reversed(cfgs[f], f \in receipt)
    <2>1. f \in ConfigSet
      BY <1>1, <1>8 DEF RemovePlugin, At, CmdTyped, Steps, ConfigSet
    <2>2. cfgs' = cfgs \/ cfgs' = [cfgs EXCEPT ![f] = new]
      BY <1>1, <1>8, <2>1 DEF RemovePlugin, FilesTyped
    <2>3. new \in ConfigFile \cup {None}
      <3>1. (f \in receipt) \in BOOLEAN
        OBVIOUS
      <3>2. cfgs[f] \in ConfigFile \cup {None}
        BY <1>1, <2>1 DEF FilesTyped
      <3>3. QED
        BY <3>1, <3>2, ReversedTyped
    <2> HIDE DEF f, new
    <2>4. QED
      BY <1>1, <1>8, <2>1, <2>2, <2>3 DEF FilesTyped, RemovePlugin
  <1>9. CASE RemovePath
    <2>1. \A f \in RcFiles : Unblocked(rcs[f]) \in RcFile \cup {None}
      BY <1>1 DEF FilesTyped, Unblocked, RcFile
    <2>2. rcs' \in [RcFiles -> RcFile \cup {None}]
      BY <1>9, <2>1 DEF RemovePath
    <2>3. QED
      BY <1>1, <1>9, <2>2 DEF FilesTyped, RemovePath
  <1>10. CASE RemoveHome
    BY <1>1, <1>10 DEF RemoveHome, FilesTyped, userFiles
  <1>11. CASE UserEdits
    <2>1. rcs' \in [RcFiles -> RcFile \cup {None}]
      <3>1. CASE rcs' = rcs
        BY <1>1, <3>1 DEF FilesTyped
      <3>2. ASSUME NEW f \in RcFiles,
                   rcs' = [rcs EXCEPT ![f] = IF @ = None THEN [text |-> TRUE, block |-> FALSE]
                                             ELSE [@ EXCEPT !.text = TRUE]]
            PROVE  rcs' \in [RcFiles -> RcFile \cup {None}]
        <4> DEFINE new == IF rcs[f] = None THEN [text |-> TRUE, block |-> FALSE]
                          ELSE [rcs[f] EXCEPT !.text = TRUE]
        <4>1. new \in RcFile
          BY <1>1 DEF FilesTyped, RcFile
        <4>2. rcs' = [rcs EXCEPT ![f] = new]
          BY <1>1, <3>2 DEF FilesTyped
        <4> HIDE DEF new
        <4>3. QED
          BY <1>1, <4>1, <4>2 DEF FilesTyped
      <3>3. QED
        BY <1>11, <3>1, <3>2 DEF UserEdits
    <2>2. cfgs' \in [ConfigSet -> ConfigFile \cup {None}]
      <3>1. CASE cfgs' = cfgs
        BY <1>1, <3>1 DEF FilesTyped
      <3>2. CASE cfgs' # cfgs
        BY <1>1, <1>11, <3>2, EditOfConfig DEF FilesTyped
      <3>3. QED
        BY <3>1, <3>2
    <2>3. QED
      BY <1>1, <1>11, <2>1, <2>2 DEF FilesTyped, UserEdits
  <1>12. CASE Killed
    <2>1. receipt' \in {receipt, Torn, None}
      BY <1>12 DEF Killed
    <2>2. QED
      BY <1>1, <1>12, <2>1 DEF FilesTyped, Killed, userFiles
  <1>13. QED
    BY <1>3, <1>4, <1>5, <1>6, <1>7, <1>8, <1>9, <1>10, <1>11, <1>12 DEF Next, InstallStep

-----------------------------------------------------------------------------
(* What the user wrote is kept *)

\* What a machine comes with is noted as its user's.
LEMMA KindsRight ==
    ASSUME NEW f, NEW k,
           NEW c \in RcFile \cup ConfigFile \cup {None}
    PROVE  <<f, k>> \in Kinds(f, c) <=>
               /\ c # None
               /\ \/ c \in RcFile /\ k = "text" /\ c.text
                  \/ c \in ConfigFile /\ k = "plugins" /\ c.plugins
                  \/ c \in ConfigFile /\ k = "keys" /\ c.keys
  <1>1. CASE c = None
    BY <1>1 DEF Kinds
  <1>2. CASE c # None /\ c \in RcFile
    <2>1. DOMAIN c = {"text", "block"}
      BY <1>2 DEF RcFile
    <2>2. c \notin ConfigFile
      <3>1. \A d \in ConfigFile : DOMAIN d = {"array", "entry", "plugins", "keys", "valid", "made"}
        BY DEF ConfigFile
      <3>2. QED
        BY <2>1, <3>1
    <2>3. c["text"] = c.text
      OBVIOUS
    <2>4. Kinds(f, c) = {<<f, j>> : j \in {j \in {"text"} : c[j]}}
      BY <1>2, <2>1 DEF Kinds
    <2>5. QED
      BY <1>2, <2>2, <2>3, <2>4
  <1>3. CASE c # None /\ c \in ConfigFile
    <2>1. DOMAIN c = {"array", "entry", "plugins", "keys", "valid", "made"}
      BY <1>3 DEF ConfigFile
    <2>2. c \notin RcFile
      <3>1. \A d \in RcFile : DOMAIN d = {"text", "block"}
        BY DEF RcFile
      <3>2. QED
        BY <2>1, <3>1
    <2>4. Kinds(f, c) = {<<f, j>> : j \in {j \in {"plugins", "keys"} : c[j]}}
      BY <1>3, <2>1 DEF Kinds
    <2>5. QED
      BY <1>3, <2>2, <2>4
  <1>4. QED
    BY <1>1, <1>2, <1>3

\* What the user wrote stands before the first command.
LEMMA UserInit == Init => UserInv
  <1> SUFFICES ASSUME Init PROVE UserInv
    OBVIOUS
  <1>1. PICK m \in Machines :
            /\ rcs = m.rcs /\ cfgs = m.cfgs /\ receipt = None /\ fresh = {}
            /\ wrote = UNION ({Kinds(f, rcs[f]) : f \in RcFiles}
                              \cup {Kinds(f, cfgs[f]) : f \in ConfigSet})
    BY DEF Init
  <1>2. /\ rcs \in [RcFiles -> RcFile \cup {None}]
        /\ cfgs \in [ConfigSet -> ConfigFile \cup {None}]
        /\ \A f \in ConfigSet : cfgs[f] # None => cfgs[f].made = "user"
    BY <1>1, FilesAssumption
  <1>3. ASSUME NEW w \in wrote
        PROVE  \/ \E f \in RcFiles : w \in Kinds(f, rcs[f])
               \/ \E f \in ConfigSet : w \in Kinds(f, cfgs[f])
    BY <1>1
  <1>4. ASSUME NEW f, NEW c, NEW w \in Kinds(f, c)
        PROVE  \E k \in {"text", "plugins", "keys"} : w = <<f, k>>
    BY DEF Kinds
  <1>5. ASSUME NEW w \in wrote
        PROVE  \/ \E f \in RcFiles : w = <<f, "text">> /\ rcs[f] # None /\ rcs[f].text
               \/ \E f \in ConfigSet : w = <<f, "plugins">> /\ cfgs[f] # None /\ cfgs[f].plugins
               \/ \E f \in ConfigSet : w = <<f, "keys">> /\ cfgs[f] # None /\ cfgs[f].keys
    <2>1. CASE \E f \in RcFiles : w \in Kinds(f, rcs[f])
      <3>1. PICK f \in RcFiles, k \in {"text", "plugins", "keys"} :
                w \in Kinds(f, rcs[f]) /\ w = <<f, k>>
        BY <1>4, <2>1
      <3>2. rcs[f] \in RcFile \cup {None} /\ RcFile \cap ConfigFile = {}
        <4>1. \A d \in RcFile : DOMAIN d = {"text", "block"}
          BY DEF RcFile
        <4>2. \A d \in ConfigFile : DOMAIN d = {"array", "entry", "plugins", "keys", "valid", "made"}
          BY DEF ConfigFile
        <4>3. QED
          BY <1>2, <4>1, <4>2
      <3>3. QED
        BY <3>1, <3>2, KindsRight
    <2>2. CASE \E f \in ConfigSet : w \in Kinds(f, cfgs[f])
      <3>1. PICK f \in ConfigSet, k \in {"text", "plugins", "keys"} :
                w \in Kinds(f, cfgs[f]) /\ w = <<f, k>>
        BY <1>4, <2>2
      <3>2. cfgs[f] \in ConfigFile \cup {None} /\ RcFile \cap ConfigFile = {}
        <4>1. \A d \in RcFile : DOMAIN d = {"text", "block"}
          BY DEF RcFile
        <4>2. \A d \in ConfigFile : DOMAIN d = {"array", "entry", "plugins", "keys", "valid", "made"}
          BY DEF ConfigFile
        <4>3. QED
          BY <1>2, <4>1, <4>2
      <3>3. QED
        BY <3>1, <3>2, KindsRight
    <2>3. QED
      BY <1>3, <2>1, <2>2
  <1>6. WroteTyped
    BY <1>5 DEF WroteTyped
  <1>7. Spared
    BY <1>1 DEF Spared, Received
  <1>8. TextStays /\ PluginsStay /\ KeysStay
    BY <1>2, <1>5 DEF TextStays, PluginsStay, KeysStay
  <1>9. Licensed
    BY DEF Init, DbInit, Idle, Licensed
  <1>10. QED
    BY <1>6, <1>7, <1>8, <1>9 DEF UserInv

\* A command stays the command it is until it ends.
LEMMA NameStep ==
    ASSUME TypeInv, DbStep \/ InstallStep
    PROVE  cmd'.name \in {cmd.name, "none"}
  <1>1. cmd \in Cmds /\ Where
    BY DEF TypeInv, CmdTyped
  <1>2. CASE \E rc : Return(rc)
    BY <1>2 DEF Return, Idle
  <1>3. CASE \E pc : Goto(pc)
    BY <1>1, <1>3 DEF Goto, Cmds
  <1>4. CASE EnsureEnv \/ EnvUnlink \/ EnvCreate \/ EnvFill
    BY <1>4, EnvStepTyped
  <1>5. CASE \/ EmbeddedPort \/ Initdb \/ Start \/ Ready \/ EnsureDatabase
             \/ ComposeGuards \/ ComposeUp \/ ComposeReadiness
             \/ StopEmbedded \/ PurgeData \/ StopCompose
    BY <1>2, <1>3, <1>5 DEF EmbeddedPort, Initdb, Start, Ready, EnsureDatabase, ComposeGuards,
         ComposeUp, ComposeReadiness, StopEmbedded, PurgeData, StopCompose
  <1>6. CASE Connect
    BY <1>2, <1>6 DEF Connect, Idle
  <1>7. CASE SchemaStep
    BY <1>1, <1>2, <1>7 DEF SchemaStep, Cmds
  <1>8. CASE PlacePart \/ PersistPath
    BY <1>1, <1>2, <1>8 DEF PlacePart, PersistPath, Cmds
  <1>9. CASE PlaceShim
    BY <1>9 DEF PlaceShim, Idle, At
  <1>10. CASE EnsurePlugin
    BY <1>1, <1>2, <1>10 DEF EnsurePlugin, Cmds
  <1>11. CASE RemovePlugin
    BY <1>1, <1>2, <1>11 DEF RemovePlugin, Cmds
  <1>12. CASE SaveReceipt \/ RemoveHome \/ UninstallStop \/ RemovePath \/ RemoveFiles
    BY <1>2, <1>3, <1>12 DEF SaveReceipt, RemoveHome, UninstallStop, RemovePath, RemoveFiles
  <1>13. QED
    BY <1>4, <1>5, <1>6, <1>7, <1>8, <1>9, <1>10, <1>11, <1>12 DEF DbStep, InstallStep

\* An uninstallation starts with a receipt and keeps it to its end.
LEMMA LicensedStep ==
    ASSUME TypeInv, Licensed, Next
    PROVE  Licensed'
  <1>1. CASE cmd'.name = "none"
    BY <1>1 DEF Licensed
  <1>2. CASE cmd' = Idle
    BY <1>1, <1>2 DEF Idle
  <1>3. CASE cmd'.name = cmd.name /\ receipt' = receipt
    BY <1>3 DEF Licensed, Received
  <1>4. CASE (DbCommand \/ DbStep \/ Machine) /\ UNCHANGED installVars
    <2>1. receipt' = receipt
      BY <1>4 DEF installVars
    <2>2. CASE DbCommand
      BY <1>3, <2>1, <2>2, ZenonT(30) DEF DbCommand, Up, Down, Idle, Licensed
    <2>3. CASE DbStep
      BY <1>1, <1>3, <2>1, <2>3, NameStep
    <2>4. CASE Machine
      BY <1>2, <1>3, <2>1, <2>4 DEF Machine, Crash, ServerBoots, OrphanEnds, ServerDies, ForeignListens
    <2>5. QED
      BY <1>4, <2>2, <2>3, <2>4
  <1>5. CASE \/ \E reinstall \in BOOLEAN : Place(reinstall)
             \/ \E p \in Ports \cup {None} : InstallPost(p)
    <2>1. cmd' = cmd \/ cmd'.name \in {"place", "install"}
      BY <1>5 DEF Place, InstallPost, Idle
    <2>2. receipt' = receipt
      BY <1>5 DEF Place, InstallPost, installVars
    <2>3. QED
      BY <1>3, <2>1, <2>2 DEF Licensed
  <1>6. CASE Uninstall
    BY <1>6 DEF Uninstall, installVars, Licensed, Received
  <1>7. CASE InstallStep
    <2>1. receipt' = receipt \/ SaveReceipt \/ RemoveHome
      BY <1>7 DEF InstallStep, PlacePart, PlaceShim, PersistPath, EnsurePlugin, UninstallStop,
                  RemovePlugin, RemovePath, RemoveFiles, installVars
    <2>2. CASE SaveReceipt \/ RemoveHome
      BY <1>2, <2>2 DEF SaveReceipt, RemoveHome, Return
    <2>3. QED
      BY <1>1, <1>3, <1>7, <2>1, <2>2, NameStep
  <1>8. CASE UserEdits \/ Killed
    BY <1>2, <1>3, <1>8 DEF UserEdits, Killed
  <1>9. QED
    BY <1>4, <1>5, <1>6, <1>7, <1>8 DEF Next

\* Each step keeps what the user wrote, and notes what the user wrote.
LEMMA UserStep ==
    ASSUME TypeInv, UserInv, Next
    PROVE  UserInv'
  <1>1. /\ FilesTyped /\ CmdTyped /\ FilesTyped'
        /\ WroteTyped /\ Licensed /\ Spared /\ TextStays /\ PluginsStay /\ KeysStay
        /\ Licensed'
    BY FilesStepTyped, LicensedStep DEF TypeInv, UserInv
  <1>2. CASE /\ UNCHANGED <<rcs, cfgs, wrote>> /\ fresh' \in {fresh, {}}
             /\ receipt' \in {receipt, Torn, None, fresh}
    BY <1>1, <1>2 DEF UserInv, WroteTyped, Spared, Received, TextStays, PluginsStay, KeysStay
  <1>3. CASE \/ (DbCommand \/ DbStep \/ Machine) /\ UNCHANGED installVars
             \/ \E reinstall \in BOOLEAN : Place(reinstall)
             \/ \E p \in Ports \cup {None} : InstallPost(p)
             \/ Uninstall
             \/ PlacePart \/ PlaceShim \/ UninstallStop \/ RemoveFiles
             \/ SaveReceipt \/ RemoveHome \/ Killed
    BY <1>2, <1>3 DEF installVars, Place, InstallPost, Uninstall, PlacePart, PlaceShim, UninstallStop,
                      RemoveFiles, SaveReceipt, RemoveHome, Killed, userFiles
  <1>4. CASE PersistPath
    <2>1. PICK f \in RcFiles :
              rcs' = [rcs EXCEPT ![f] = IF @ = None THEN [text |-> FALSE, block |-> TRUE]
                                        ELSE [@ EXCEPT !.block = TRUE]]
      BY <1>1, <1>4 DEF PersistPath, CmdTyped, Cmds
    <2>2. TextStays'
      <3>1. ASSUME NEW g \in RcFiles, rcs[g] # None, rcs[g].text
            PROVE  rcs'[g] # None /\ rcs'[g].text
        <4>1. CASE g # f
          BY <1>1, <2>1, <3>1, <4>1 DEF FilesTyped
        <4>2. CASE g = f
          <5>1. rcs[g] \in RcFile
            BY <1>1, <3>1 DEF FilesTyped
          <5>2. PICK new : new = [rcs[g] EXCEPT !.block = TRUE]
            OBVIOUS
          <5>3. new \in RcFile /\ new.text
            BY <3>1, <5>1, <5>2 DEF RcFile
          <5>4. rcs'[g] = new
            BY <1>1, <2>1, <3>1, <4>2, <5>2 DEF FilesTyped
          <5>5. QED
            BY <5>3, <5>4, FilesAssumption
        <4>3. QED
          BY <4>1, <4>2
      <3>2. QED
        BY <1>1, <1>4, <3>1 DEF TextStays, PersistPath
    <2>3. QED
      BY <1>1, <1>4, <2>2 DEF UserInv, PersistPath, WroteTyped, Spared, Received, PluginsStay, KeysStay
  <1>5. CASE EnsurePlugin
    <2> DEFINE f == Configs[cmd.step]
    <2>1. f \in ConfigSet
      BY <1>1, <1>5 DEF EnsurePlugin, At, CmdTyped, Steps, ConfigSet
    <2>2. /\ UNCHANGED <<rcs, receipt, wrote>>
          /\ \/ UNCHANGED <<cfgs, fresh>>
             \/ /\ cfgs' = [cfgs EXCEPT ![f] = WithEntry(cfgs[f])]
                /\ fresh' = IF cfgs[f] = None THEN fresh \cup {f} ELSE fresh
      BY <1>1, <1>5, <2>1 DEF EnsurePlugin, FilesTyped
    <2> HIDE DEF f
    <2>3. cfgs[f] \in ConfigFile \cup {None}
      BY <1>1, <2>1 DEF FilesTyped
    <2>4. CASE UNCHANGED <<cfgs, fresh>>
      BY <1>2, <2>2, <2>4
    <2>5. CASE /\ cfgs' = [cfgs EXCEPT ![f] = WithEntry(cfgs[f])]
               /\ fresh' = IF cfgs[f] = None THEN fresh \cup {f} ELSE fresh
      <3>1. /\ cfgs'[f] # None
            /\ cfgs[f] = None => cfgs'[f].made = "install"
            /\ cfgs[f] # None => /\ cfgs'[f].plugins = cfgs[f].plugins
                                 /\ cfgs'[f].keys = cfgs[f].keys
                                 /\ cfgs'[f].made = "user" <=> cfgs[f].made = "user"
            /\ \A g \in ConfigSet : g # f => cfgs'[g] = cfgs[g]
        BY <1>1, <2>1, <2>3, <2>5, WithEntryTyped DEF FilesTyped
      <3>2. Spared'
        BY <1>1, <2>2, <2>5, <3>1 DEF Spared, Received
      <3>3. PluginsStay' /\ KeysStay'
        BY <1>1, <2>2, <3>1 DEF PluginsStay, KeysStay
      <3>4. QED
        BY <1>1, <2>2, <3>2, <3>3 DEF UserInv, WroteTyped, TextStays
    <2>6. QED
      BY <2>2, <2>4, <2>5
  <1>6. CASE RemovePlugin
    <2> DEFINE f == Configs[cmd.step]
    <2>1. f \in ConfigSet
      BY <1>1, <1>6 DEF RemovePlugin, At, CmdTyped, Steps, ConfigSet
    <2>2. /\ UNCHANGED <<rcs, receipt, fresh, wrote>>
          /\ \/ cfgs' = cfgs
             \/ cfgs' = [cfgs EXCEPT ![f] = IF cfgs[f] = None THEN None
                                            ELSE Reversed(cfgs[f], f \in receipt)]
      BY <1>1, <1>6, <2>1 DEF RemovePlugin, FilesTyped
    <2> HIDE DEF f
    <2>3. CASE cfgs' = cfgs
      BY <1>2, <2>2, <2>3
    <2>4. CASE cfgs' # cfgs
      <3>1. cfgs[f] # None /\ cfgs[f] \in ConfigFile
        <4>1. cfgs[f] \in ConfigFile \cup {None}
          BY <1>1, <2>1 DEF FilesTyped
        <4>2. ASSUME cfgs[f] = None
              PROVE  FALSE
          <5>1. cfgs' = [cfgs EXCEPT ![f] = None]
            BY <2>2, <2>4, <4>2
          <5>2. QED
            BY <1>1, <2>1, <2>4, <4>2, <5>1 DEF FilesTyped
        <4>3. QED
          BY <4>1, <4>2
      <3>2. cfgs' = [cfgs EXCEPT ![f] = Reversed(cfgs[f], f \in receipt)]
        BY <2>2, <2>4, <3>1
      <3>3. PICK created \in BOOLEAN : /\ created <=> f \in receipt
                                       /\ created = IF f \in receipt THEN TRUE ELSE FALSE
        OBVIOUS
      <3>3a. Reversed(cfgs[f], f \in receipt) = Reversed(cfgs[f], created)
        BY <3>3 DEF Reversed
      <3>4. /\ cfgs'[f] = Reversed(cfgs[f], created)
            /\ \A g \in ConfigSet : g # f => cfgs'[g] = cfgs[g]
        BY <1>1, <2>1, <3>2, <3>3a DEF FilesTyped
      <3>5. /\ cfgs'[f] = None <=> f \in receipt /\ cfgs[f].array /\ ~cfgs[f].plugins
            /\ cfgs'[f] # None => /\ cfgs'[f].plugins = cfgs[f].plugins
                                  /\ cfgs'[f].keys = cfgs[f].keys
                                  /\ cfgs'[f].made = cfgs[f].made
        <4>1. PICK c \in ConfigFile : c = cfgs[f]
          BY <3>1
        <4>2. /\ Reversed(c, created) = None <=> created /\ c.array /\ ~c.plugins
              /\ Reversed(c, created) # None => /\ Reversed(c, created).plugins = c.plugins
                                                /\ Reversed(c, created).keys = c.keys
                                                /\ Reversed(c, created).made = c.made
          BY ReversedTyped
        <4>3. cfgs'[f] = Reversed(c, created)
          BY <3>4, <4>1
        <4>4. QED
          BY <3>3, <4>1, <4>2, <4>3, Zenon
      <3>6. Received
        BY <1>1, <1>6 DEF RemovePlugin, At, Licensed
      <3>7. Spared'
        BY <1>1, <2>2, <3>1, <3>4, <3>5 DEF Spared, Received
      <3>8. PluginsStay' /\ KeysStay'
        BY <1>1, <2>1, <2>2, <3>1, <3>4, <3>5, <3>6 DEF PluginsStay, KeysStay, Spared
      <3>9. QED
        BY <1>1, <2>2, <3>7, <3>8 DEF UserInv, WroteTyped, TextStays
    <2>5. QED
      BY <2>3, <2>4
  <1>7. CASE RemovePath
    <2>1. TextStays'
      <3>1. ASSUME NEW g \in RcFiles, rcs[g] # None, rcs[g].text
            PROVE  rcs'[g] # None /\ rcs'[g].text
        <4>1. rcs[g] \in RcFile
          BY <1>1, <3>1 DEF FilesTyped
        <4>2. /\ Unblocked(rcs[g]) \in RcFile /\ Unblocked(rcs[g]).text
          BY <3>1, <4>1 DEF Unblocked, RcFile
        <4>3. rcs'[g] = Unblocked(rcs[g])
          BY <1>7, <4>2 DEF RemovePath
        <4>4. QED
          BY <4>2, <4>3, FilesAssumption
      <3>2. QED
        BY <1>1, <1>7, <3>1 DEF TextStays, RemovePath
    <2>2. QED
      BY <1>1, <1>7, <2>1 DEF UserInv, RemovePath, WroteTyped, Spared, Received, PluginsStay, KeysStay
  <1>8. CASE UserEdits
    <2>1. UNCHANGED <<receipt, fresh>>
      BY <1>8 DEF UserEdits
    <2>2. CASE cfgs' # cfgs
      <3>1. UNCHANGED rcs
        BY <1>8, <2>2 DEF UserEdits
      <3>2. PICK f \in ConfigSet, new \in ConfigFile :
               /\ cfgs[f] \in ConfigFile /\ cfgs[f] # None /\ new # None
               /\ cfgs' = [cfgs EXCEPT ![f] = new]
               /\ new.entry = cfgs[f].entry /\ new.made = cfgs[f].made
               /\ cfgs[f].array => new.array
               /\ cfgs[f].plugins => new.plugins
               /\ cfgs[f].keys => new.keys
               /\ \/ wrote' = wrote
                  \/ wrote' = wrote \cup {<<f, "plugins">>} /\ new.plugins
                  \/ /\ wrote' = wrote \cup {<<f, IF new.made = "user" THEN "keys" ELSE "settings">>}
                     /\ new.keys
        BY <1>1, <1>8, <2>2, EditOfConfig
      <3>3. cfgs'[f] = new /\ \A g \in ConfigSet : g # f => cfgs'[g] = cfgs[g]
        BY <1>1, <3>2 DEF FilesTyped
      <3>4. WroteTyped'
        BY <1>1, <3>2 DEF WroteTyped
      <3>5. Spared'
        BY <1>1, <2>1, <3>2, <3>3 DEF Spared, Received
      <3>6. PluginsStay'
        BY <1>1, <3>2, <3>3 DEF PluginsStay
      <3>7. KeysStay'
        BY <1>1, <3>2, <3>3 DEF KeysStay
      <3>8. TextStays'
        BY <1>1, <3>1, <3>2 DEF TextStays
      <3>9. QED
        BY <1>1, <3>4, <3>5, <3>6, <3>7, <3>8 DEF UserInv
    <2>3. CASE cfgs' = cfgs
      <3>1. \/ \E f \in RcFiles :
                  /\ rcs' = [rcs EXCEPT ![f] = IF @ = None THEN [text |-> TRUE, block |-> FALSE]
                                               ELSE [@ EXCEPT !.text = TRUE]]
                  /\ wrote' = wrote \cup {<<f, "text">>}
            \/ \E f \in ConfigSet :
                  /\ rcs' = rcs /\ cfgs[f] # None
                  /\ \/ /\ cfgs' = [cfgs EXCEPT ![f].array = TRUE, ![f].plugins = TRUE]
                        /\ wrote' = wrote \cup {<<f, "plugins">>}
                     \/ /\ cfgs' = [cfgs EXCEPT ![f].keys = TRUE]
                        /\ wrote' = wrote \cup
                             {<<f, IF cfgs[f].made = "user" THEN "keys" ELSE "settings">>}
                     \/ UNCHANGED wrote
        BY <1>8 DEF UserEdits
      <3>2. CASE \E f \in RcFiles :
                  /\ rcs' = [rcs EXCEPT ![f] = IF @ = None THEN [text |-> TRUE, block |-> FALSE]
                                               ELSE [@ EXCEPT !.text = TRUE]]
                  /\ wrote' = wrote \cup {<<f, "text">>}
        <4>1. PICK f \in RcFiles :
                  /\ rcs' = [rcs EXCEPT ![f] = IF @ = None THEN [text |-> TRUE, block |-> FALSE]
                                               ELSE [@ EXCEPT !.text = TRUE]]
                  /\ wrote' = wrote \cup {<<f, "text">>}
          BY <3>2
        <4>2. PICK new : new = IF rcs[f] = None THEN [text |-> TRUE, block |-> FALSE]
                               ELSE [rcs[f] EXCEPT !.text = TRUE]
          OBVIOUS
        <4>3. new \in RcFile /\ new.text
          BY <1>1, <4>2 DEF FilesTyped, RcFile
        <4>4. rcs'[f] = new /\ \A g \in RcFiles : g # f => rcs'[g] = rcs[g]
          BY <1>1, <4>1, <4>2 DEF FilesTyped
        <4>5. WroteTyped'
          BY <1>1, <4>1 DEF WroteTyped
        <4>5a. TextStays'
          <5>1. ASSUME NEW g \in RcFiles, <<g, "text">> \in wrote'
                PROVE  rcs'[g] # None /\ rcs'[g].text
            <6>1. CASE g = f
              BY <4>3, <4>4, <6>1, FilesAssumption
            <6>2. CASE g # f
              BY <1>1, <4>1, <4>4, <5>1, <6>2 DEF TextStays
            <6>3. QED
              BY <6>1, <6>2
          <5>2. QED
            BY <5>1 DEF TextStays
        <4>6. QED
          BY <1>1, <2>1, <2>3, <4>1, <4>5, <4>5a DEF UserInv, Spared, Received, PluginsStay, KeysStay
      <3>3. CASE \E f \in ConfigSet :
                  /\ rcs' = rcs /\ cfgs[f] # None
                  /\ \/ /\ cfgs' = [cfgs EXCEPT ![f].array = TRUE, ![f].plugins = TRUE]
                        /\ wrote' = wrote \cup {<<f, "plugins">>}
                     \/ /\ cfgs' = [cfgs EXCEPT ![f].keys = TRUE]
                        /\ wrote' = wrote \cup
                             {<<f, IF cfgs[f].made = "user" THEN "keys" ELSE "settings">>}
                     \/ UNCHANGED wrote
        <4>1. PICK f \in ConfigSet :
                  /\ rcs' = rcs /\ cfgs[f] # None
                  /\ \/ cfgs[f].plugins /\ wrote' = wrote \cup {<<f, "plugins">>}
                     \/ /\ cfgs[f].keys
                        /\ wrote' = wrote \cup
                             {<<f, IF cfgs[f].made = "user" THEN "keys" ELSE "settings">>}
                     \/ wrote' = wrote
          BY <1>1, <2>3, <3>3 DEF FilesTyped, ConfigFile
        <4>2. WroteTyped'
          BY <1>1, <4>1 DEF WroteTyped
        <4>3. PluginsStay' /\ KeysStay' /\ TextStays'
          BY <1>1, <2>3, <4>1 DEF PluginsStay, KeysStay, TextStays
        <4>4. QED
          BY <1>1, <2>1, <2>3, <4>2, <4>3 DEF UserInv, Spared, Received
      <3>4. QED
        BY <3>1, <3>2, <3>3
    <2>4. QED
      BY <2>2, <2>3
  <1>9. QED
    BY <1>3, <1>4, <1>5, <1>6, <1>7, <1>8 DEF Next, InstallStep

-----------------------------------------------------------------------------
(* The password stands *)

\* Each step leaves env files env files.
LEMMA EnvsStepTyped ==
    ASSUME TypeInv, Next
    PROVE  EnvsTyped'
  <1>1. EnvsTyped /\ cmd \in Cmds
    BY DEF TypeInv, CmdTyped
  <1>2. CASE envs' = envs
    BY <1>1, <1>2 DEF EnvsTyped
  <1>3. CASE EnvUnlink \/ EnvCreate \/ EnvFill
    <2>1. PICK value \in EnvFiles \cup {None} : envs' = [envs EXCEPT ![cmd.file] = value]
      <3>1. /\ EmptyFile \in EnvFiles
            /\ [pw |-> cmd.pw, port |-> cmd.port] \in EnvFiles
        BY <1>1 DEF EmptyFile, EnvFiles, Cmds
      <3>2. QED
        BY <1>3, <3>1 DEF EnvUnlink, EnvCreate, EnvFill, WriteEnv
    <2>2. QED
      BY <1>1, <2>1 DEF EnvsTyped
  <1>4. CASE RemoveFiles
    BY <1>1, <1>4 DEF EnvsTyped, RemoveFiles
  <1>5. CASE DbStep
    BY <1>2, <1>3, <1>5 DEF DbStep, EnsureEnv, EmbeddedPort, Initdb, Start, Ready, EnsureDatabase,
         ComposeGuards, ComposeUp, ComposeReadiness, Connect, SchemaStep, StopEmbedded, PurgeData,
         StopCompose, disk
  <1>6. CASE DbCommand \/ Machine
    BY <1>2, <1>6 DEF DbCommand, Up, Down, Machine, Crash, ServerBoots, OrphanEnds, ServerDies,
         ForeignListens, disk
  <1>7. CASE InstallStep
    BY <1>2, <1>4, <1>7 DEF InstallStep, PlacePart, PlaceShim, PersistPath, EnsurePlugin, SaveReceipt,
         UninstallStop, RemovePlugin, RemovePath, RemoveHome, dbFiles, disk
  <1>8. CASE \/ \E reinstall \in BOOLEAN : Place(reinstall)
             \/ \E p \in Ports \cup {None} : InstallPost(p)
             \/ Uninstall \/ UserEdits \/ Killed
    BY <1>2, <1>8 DEF Place, InstallPost, Uninstall, UserEdits, Killed, dbFiles
  <1>9. QED
    BY <1>5, <1>6, <1>7, <1>8 DEF Next

\* Setting up the schema leaves a schema.
LEMMA SchemaTyped ==
    ASSUME NEW s \in Schemas
    PROVE  /\ Renamed(s) \in Schemas
           /\ \A i \in 1..Len(SchemaSteps) : SchemaAfter(s, SchemaSteps[i]) \in Schemas
  <1>1. Renamed(s) \in Schemas
    BY DEF Renamed, Schemas, Namespaces
  <1>2. WithTables(s) \in Schemas
    BY DEF WithTables, NoSchema, Schemas, Namespaces, FreshColumns, Columns
  <1>3. [s EXCEPT !.indexed = TRUE] \in Schemas
    BY DEF Schemas
  <1>4. \A column \in Columns : [s EXCEPT !.cols = @ \cup {column}] \in Schemas
    BY DEF Schemas
  <1>5. ASSUME NEW i \in 1..Len(SchemaSteps)
        PROVE  SchemaSteps[i] \in Columns \cup {"tables", "indexes"}
    BY <1>5 DEF SchemaSteps, Columns
  <1>6. ASSUME NEW step \in Columns \cup {"tables", "indexes"}
        PROVE  SchemaAfter(s, step) \in Schemas
    BY <1>2, <1>3, <1>4, <1>6 DEF SchemaAfter, Columns
  <1>7. QED
    BY <1>1, <1>5, <1>6

\* A database with another schema is the same database.
LEMMA SchemaOnly ==
    ASSUME NEW db \in Databases, NEW s \in Schemas
    PROVE  [db EXCEPT !.schema = s] \in Databases /\ [db EXCEPT !.schema = s].pw = db.pw
BY DEF Databases

\* Setting up the schema leaves databases databases, with the passwords they have.
LEMMA SchemaKeeps ==
    ASSUME TypeInv, Based, Connect \/ SchemaStep
    PROVE  /\ cluster' \in Databases \cup {None} /\ volume' \in Databases \cup {None}
           /\ cluster' = None <=> cluster = None
           /\ cluster # None => cluster'.pw = cluster.pw
           /\ volume' = None <=> volume = None
           /\ volume # None => volume'.pw = volume.pw
           /\ UNCHANGED <<envs, container, cut>>
  <1>1. DataTyped /\ CmdTyped /\ EnvsTyped
    BY DEF TypeInv
  <1>2. UNCHANGED <<envs, container, cut>>
    BY DEF Connect, SchemaStep, outside
  <1>3. CASE UNCHANGED <<cluster, volume>>
    BY <1>1, <1>2, <1>3 DEF DataTyped
  <1>4. ASSUME NEW t \in {"cluster", "volume"}, NEW s \in Schemas, Database(t) # None,
               OnTarget(t, [Database(t) EXCEPT !.schema = s])
        PROVE  /\ cluster' \in Databases \cup {None} /\ volume' \in Databases \cup {None}
               /\ cluster' = None <=> cluster = None
               /\ cluster # None => cluster'.pw = cluster.pw
               /\ volume' = None <=> volume = None
               /\ volume # None => volume'.pw = volume.pw
    <2>1. Database(t) \in Databases
      BY <1>1, <1>4 DEF DataTyped, Database
    <2>2. PICK db \in Databases : db = [Database(t) EXCEPT !.schema = s] /\ db.pw = Database(t).pw
      BY <2>1, SchemaOnly
    <2>3. db # None
      BY NoneAssumption
    <2>4. QED
      BY <1>1, <1>4, <2>2, <2>3 DEF OnTarget, DataTyped, Database
  <1>5. CASE Connect /\ ~UNCHANGED <<cluster, volume>>
    <2>1. PICK t \in {"cluster", "volume"} :
              t = Dialled /\ OnTarget(t, [Database(t) EXCEPT !.schema = Renamed(@)])
      BY <1>5 DEF Connect, Dialled
    <2>2. Database(t) # None
      <3>1. CASE t = "cluster"
        BY <2>1, <3>1 DEF Dialled, Database, Running
      <3>2. CASE t = "volume"
        <4>1. /\ DbEnvFile # None
              /\ ContainerPort = PortOr(Values(DbEnvFile).port, DefaultPort)
          BY <2>1, <3>2 DEF Dialled
        <4>2. PortOr(Values(DbEnvFile).port, DefaultPort) # None
          BY PortsAssumption DEF PortOr
        <4>3. container.st = "running"
          BY <4>1, <4>2 DEF ContainerPort
        <4>4. QED
          BY <3>2, <4>3 DEF Based, Database
      <3>3. QED
        BY <3>1, <3>2
    <2>3. Database(t) \in Databases
      BY <1>1, <2>2 DEF DataTyped, Database
    <2>4. Database(t).schema \in Schemas
      BY <2>3 DEF Databases
    <2>5. PICK s \in Schemas : s = Renamed(Database(t).schema)
      BY <2>4, SchemaTyped
    <2>6. OnTarget(t, [Database(t) EXCEPT !.schema = s])
      BY <2>1, <2>3, <2>5 DEF Databases
    <2>7. QED
      BY <1>2, <1>4, <2>2, <2>6
  <1>6. CASE SchemaStep /\ ~UNCHANGED <<cluster, volume>>
    <2>1. /\ cmd.step \in 1..Len(SchemaSteps) /\ cmd.target \in {"cluster", "volume"}
          /\ Connected
      BY <1>1, <1>6 DEF SchemaStep, CmdTyped, Steps
    <2>2. Database(cmd.target) # None
      BY <2>1 DEF Connected, Running, Based, Database
    <2>3. Database(cmd.target) \in Databases
      BY <1>1, <2>2 DEF DataTyped, Database
    <2>4. Database(cmd.target).schema \in Schemas
      BY <2>3 DEF Databases
    <2>5. PICK s \in Schemas : s = SchemaAfter(Database(cmd.target).schema, SchemaSteps[cmd.step])
      BY <2>1, <2>4, SchemaTyped
    <2>6. OnTarget(cmd.target, [Database(cmd.target) EXCEPT !.schema = s])
      BY <1>6, <2>3, <2>5 DEF Databases, SchemaStep
    <2>7. QED
      BY <1>2, <1>4, <2>1, <2>2, <2>6
  <1>7. QED
    BY <1>2, <1>3, <1>5, <1>6

\* A new database is a database.
LEMMA NewDatabaseTyped ==
    ASSUME NEW pw \in Passwords, NEW db \in BOOLEAN
    PROVE  /\ NewDatabase(pw, db) \in Databases /\ NewDatabase(pw, db).pw = pw
           /\ [NewDatabase(pw, db) EXCEPT !.usable = FALSE] \in Databases
           /\ [NewDatabase(pw, db) EXCEPT !.usable = FALSE].pw = pw
BY DEF NewDatabase, Databases, NoSchema, Schemas, Namespaces, Columns

\* What each step does to the databases.
LEMMA DataStepTyped ==
    ASSUME TypeInv, Filled, Based, Next
    PROVE  DataTyped'
  <1>1. DataTyped /\ CmdTyped /\ EnvsTyped /\ cmd \in Cmds
    BY DEF TypeInv, CmdTyped
  <1>2. CASE UNCHANGED <<cluster, volume, container>>
    BY <1>1, <1>2 DEF DataTyped
  <1>3. CASE UNCHANGED <<volume, container>> /\ cluster' = None
    BY <1>1, <1>3 DEF DataTyped
  <1>4. CASE Initdb
    <2>1. CASE cluster' = NewDatabase(envs["bundled"].pw, FALSE) /\ cluster = None
      <3>1. envs["bundled"].pw \in Passwords
        BY <1>4 DEF Initdb, InLane, At, Filled
      <3>2. QED
        BY <1>1, <1>4, <2>1, <3>1, NewDatabaseTyped DEF DataTyped, Initdb
    <2>2. QED
      BY <1>2, <1>4, <2>1 DEF Initdb
  <1>5. CASE EnsureDatabase
    <2>1. CASE cluster' = [cluster EXCEPT !.db = TRUE] /\ Running
      <3>1. cluster \in Databases
        BY <1>1, <2>1 DEF DataTyped, Running
      <3>2. cluster' \in Databases
        BY <2>1, <3>1 DEF Databases
      <3>3. QED
        BY <1>1, <1>5, <3>2 DEF DataTyped, EnsureDatabase
    <2>2. QED
      BY <1>2, <1>5, <2>1 DEF EnsureDatabase
  <1>6. CASE Connect \/ SchemaStep
    BY <1>1, <1>6, SchemaKeeps DEF DataTyped
  <1>7. CASE PurgeData \/ RemoveHome
    BY <1>3, <1>7 DEF PurgeData, RemoveHome
  <1>8. CASE ComposeUp
    <2>1. CASE UNCHANGED <<container, volume>>
      BY <1>2, <1>8, <2>1 DEF ComposeUp
    <2>2. CASE /\ container' = [st |-> "running", port |-> cmd.port, owner |-> "ours"]
               /\ volume' = IF volume = None THEN NewDatabase(envs[cmd.file].pw, TRUE) ELSE volume
      <3>1. envs[cmd.file].pw \in Passwords
        BY <1>8 DEF ComposeUp, InLane, At, Filled
      <3>2. volume' \in Databases \cup {None}
        BY <1>1, <2>2, <3>1, NewDatabaseTyped DEF DataTyped
      <3>3. container' \in Containers
        BY <1>1, <2>2 DEF Containers, Cmds
      <3>4. QED
        BY <1>1, <1>8, <3>2, <3>3 DEF DataTyped, ComposeUp
    <2>3. QED
      BY <1>8, <2>1, <2>2 DEF ComposeUp
  <1>9. CASE StopCompose \/ ServerDies
    <2>1. container' = container \/ \E st \in {"absent", "exited"} : container' = [container EXCEPT !.st = st]
      BY <1>9 DEF StopCompose, ServerDies
    <2>2. container' \in Containers
      BY <1>1, <2>1 DEF DataTyped, Containers
    <2>3. cluster' = cluster /\ volume' \in {volume, None}
      BY <1>9 DEF StopCompose, ServerDies, disk
    <2>4. QED
      BY <1>1, <2>2, <2>3 DEF DataTyped
  <1>10. CASE Crash
    <2>1. CASE UNCHANGED cluster
      BY <1>2, <1>10, <2>1 DEF Crash
    <2>2. CASE /\ InLane("embedded", "initdb") /\ cluster = None
               /\ cluster' = [NewDatabase(envs["bundled"].pw, FALSE) EXCEPT !.usable = FALSE]
      <3>1. envs["bundled"].pw \in Passwords
        BY <2>2 DEF InLane, At, Filled
      <3>2. QED
        BY <1>1, <1>10, <2>2, <3>1, NewDatabaseTyped DEF DataTyped, Crash
    <2>3. CASE At("purge", "purge") /\ cluster' \in {None, [cluster EXCEPT !.usable = FALSE]}
      <3>1. cluster \in Databases
        BY <1>1, <2>3 DEF Based, At, DataTyped
      <3>2. [cluster EXCEPT !.usable = FALSE] \in Databases
        BY <3>1 DEF Databases
      <3>3. QED
        BY <1>1, <1>10, <2>3, <3>2 DEF DataTyped, Crash
    <2>4. QED
      BY <1>10, <2>1, <2>2, <2>3 DEF Crash
  <1>11. CASE Killed
    <2>1. cluster' \in {cluster, None} \/ (cluster # None /\ cluster' = [cluster EXCEPT !.usable = FALSE])
      BY <1>11 DEF Killed
    <2>2. cluster # None => [cluster EXCEPT !.usable = FALSE] \in Databases
      BY <1>1 DEF DataTyped, Databases
    <2>3. QED
      BY <1>1, <1>11, <2>1, <2>2 DEF DataTyped, Killed
  <1>12. CASE \/ EnsureEnv \/ EnvUnlink \/ EnvCreate \/ EnvFill \/ EmbeddedPort \/ Start \/ Ready
              \/ ComposeGuards \/ ComposeReadiness \/ StopEmbedded \/ DbCommand
              \/ ServerBoots \/ OrphanEnds \/ ForeignListens
    BY <1>2, <1>12 DEF EnsureEnv, EnvUnlink, EnvCreate, EnvFill, WriteEnv, EmbeddedPort, Start, Ready,
         ComposeGuards, ComposeReadiness, StopEmbedded, DbCommand, Up, Down,
         ServerBoots, OrphanEnds, ForeignListens, disk
  <1>13. CASE \/ PlacePart \/ PlaceShim \/ PersistPath \/ EnsurePlugin \/ SaveReceipt
              \/ UninstallStop \/ RemovePlugin \/ RemovePath \/ RemoveFiles
              \/ \E reinstall \in BOOLEAN : Place(reinstall)
              \/ \E p \in Ports \cup {None} : InstallPost(p)
              \/ Uninstall \/ UserEdits
    BY <1>2, <1>13 DEF PlacePart, PlaceShim, PersistPath, EnsurePlugin, SaveReceipt,
         UninstallStop, RemovePlugin, RemovePath, RemoveFiles, Place, InstallPost, Uninstall,
         UserEdits, dbFiles, disk
  <1>14. QED
    BY <1>4, <1>5, <1>6, <1>7, <1>8, <1>9, <1>10, <1>11, <1>12, <1>13
       DEF Next, DbStep, InstallStep, Machine

\* The places where a command holds a password, is about to make a database with one, or
\* to take one away: each is entered by one kind of step only.
Entering == {"unlink", "create", "fill", "port", "initdb", "compose", "purge", "rmtree"}

\* The steps that make, change or remove a database, or end the command that was at it.
Making ==
    \/ Initdb \/ EnsureDatabase \/ Connect \/ SchemaStep \/ PurgeData
    \/ ComposeUp \/ StopCompose \/ Crash \/ RemoveHome \/ Killed

\* The steps that leave passwords and databases alone.
Passing ==
    \/ Start \/ Ready \/ ComposeReadiness \/ DbCommand
    \/ ServerBoots \/ OrphanEnds \/ ServerDies \/ ForeignListens
    \/ PlacePart \/ PlaceShim \/ PersistPath \/ EnsurePlugin \/ SaveReceipt
    \/ UninstallStop \/ RemovePlugin \/ RemovePath
    \/ \E reinstall \in BOOLEAN : Place(reinstall)
    \/ \E p \in Ports \cup {None} : InstallPost(p)
    \/ Uninstall \/ UserEdits

\* No step leads past the stage that writes the env file without having written it.
LEMMA PcStep ==
    ASSUME TypeInv, Making \/ (Passing /\ cmd' # cmd)
    PROVE  cmd'.pc \notin Entering
  <1>1. cmd \in Cmds /\ Where
    BY DEF TypeInv, CmdTyped
  <1>2. CASE cmd' = Idle
    BY <1>2 DEF Idle, Entering
  <1>3. CASE \E rc : Return(rc)
    BY <1>2, <1>3 DEF Return
  <1>4. CASE \E pc \in {"start", "ready", "createdb", "connect", "config", "files"} : Goto(pc)
    BY <1>1, <1>4 DEF Goto, Cmds, Entering
  <1>5. CASE Initdb \/ Start \/ Ready \/ EnsureDatabase
    BY <1>3, <1>4, <1>5 DEF Initdb, Start, Ready, EnsureDatabase
  <1>6. CASE ComposeUp \/ ComposeReadiness \/ PurgeData \/ StopCompose
    BY <1>3, <1>4, <1>6 DEF ComposeUp, ComposeReadiness, PurgeData, StopCompose
  <1>7. CASE Connect
    BY <1>3, <1>7 DEF Connect, Idle, Entering
  <1>8. CASE SchemaStep
    BY <1>1, <1>3, <1>8 DEF SchemaStep, Cmds, Entering
  <1>9. CASE PlacePart \/ PersistPath
    BY <1>1, <1>3, <1>9 DEF PlacePart, PersistPath, Cmds, Entering, At
  <1>10. CASE PlaceShim
    BY <1>10 DEF PlaceShim, Idle, Entering
  <1>11. CASE EnsurePlugin
    BY <1>1, <1>3, <1>11 DEF EnsurePlugin, Cmds, Entering, At
  <1>12. CASE RemovePlugin
    BY <1>1, <1>3, <1>12 DEF RemovePlugin, Cmds, Entering, At
  <1>13. CASE SaveReceipt \/ RemoveHome \/ UninstallStop \/ RemovePath
    BY <1>3, <1>4, <1>13 DEF SaveReceipt, RemoveHome, UninstallStop, RemovePath
  <1>14. CASE Crash \/ Killed
    BY <1>2, <1>14 DEF Crash, Killed
  <1>14a. CASE /\ ServerBoots \/ OrphanEnds \/ ServerDies \/ ForeignListens \/ UserEdits
               /\ cmd' # cmd
    BY <1>14a DEF ServerBoots, OrphanEnds, ServerDies, ForeignListens, UserEdits
  <1>15. CASE DbCommand /\ cmd' # cmd
    <2>1. CASE \E p \in Ports \cup {None}, force \in BOOLEAN : Up(p, force)
      <3>1. PICK p \in Ports \cup {None}, force \in BOOLEAN : Up(p, force)
        BY <2>1
      <3> DEFINE forced == force /\ UpLane(p) = "compose"
      <3>2. cmd' = [Idle EXCEPT !.name = "up", !.pc = "env", !.lane = UpLane(p), !.arg = p,
                                !.force = forced]
        BY <1>15, <3>1 DEF Up
      <3> HIDE DEF forced
      <3>3. QED
        BY <3>2 DEF Idle, Entering
    <2>2. CASE \E purge \in BOOLEAN : Down(purge)
      <3>1. PICK purge \in BOOLEAN : Down(purge)
        BY <2>2
      <3> DEFINE name == IF purge THEN "purge" ELSE "down"
      <3>2. cmd' = [Idle EXCEPT !.name = name, !.pc = "stop", !.lane = DownLane]
        BY <1>15, <3>1 DEF Down
      <3> HIDE DEF name
      <3>3. QED
        BY <3>2 DEF Idle, Entering
    <2>3. QED
      BY <1>15, <2>1, <2>2 DEF DbCommand
  <1>16. CASE (\E reinstall \in BOOLEAN : Place(reinstall)) /\ cmd' # cmd
    BY <1>16 DEF Place, Idle, Entering
  <1>17. CASE (\E p \in Ports \cup {None} : InstallPost(p)) /\ cmd' # cmd
    <2>1. PICK p \in Ports \cup {None} :
             cmd' = [Idle EXCEPT !.name = "install", !.pc = "env", !.lane = "embedded", !.arg = p]
      BY <1>17 DEF InstallPost
    <2>2. cmd'.pc = "env"
      BY <2>1 DEF Idle
    <2>3. QED
      BY <2>2 DEF Entering
  <1>18. CASE (Uninstall) /\ cmd' # cmd
    BY <1>18 DEF Uninstall, Idle, Entering
  <1>19. QED
    BY <1>5, <1>6, <1>7, <1>8, <1>9, <1>10, <1>11, <1>12, <1>13, <1>14, <1>14a, <1>15, <1>16, <1>17,
       <1>18
       DEF Making, Passing

\* The passwords that count are kept when the files and the databases keep theirs.
LEMMA StandsStep ==
    ASSUME PasswordStands, ~cut' => ~cut,
           ~cut' => \A f \in Candidates : Password(f) \in Passwords => Password(f)' = Password(f),
           cluster \in Databases \cup {None}, volume \in Databases \cup {None},
           ~cut' => cluster' = None \/ (cluster # None /\ cluster'.pw = cluster.pw),
           ~cut' => volume' = None \/ (volume # None /\ volume'.pw = volume.pw),
           At("uninstall", "rmtree") => cluster' = None \/ At("uninstall", "rmtree")' \/ cut'
    PROVE  PasswordStands'
  <1> SUFFICES ASSUME ~cut'
               PROVE  /\ (cluster # None /\ ~At("uninstall", "rmtree") => cluster.pw = Password("bundled"))'
                      /\ (volume # None => \E f \in Candidates : volume.pw = Password(f))'
    BY DEF PasswordStands
  <1>1. /\ cluster # None /\ ~At("uninstall", "rmtree") => cluster.pw = Password("bundled")
        /\ volume # None => \E f \in Candidates : volume.pw = Password(f)
    BY DEF PasswordStands
  <1>2. /\ cluster # None => cluster.pw \in Passwords
        /\ volume # None => volume.pw \in Passwords
    BY DEF Databases
  <1>3. (cluster # None /\ ~At("uninstall", "rmtree") => cluster.pw = Password("bundled"))'
    BY <1>1, <1>2 DEF Candidates
  <1>4. (volume # None => \E f \in Candidates : volume.pw = Password(f))'
    <2>1. CASE volume' = None
      BY <2>1
    <2>2. CASE volume' # None
      <3>1. PICK f \in Candidates : volume.pw = Password(f)
        BY <1>1, <2>2
      <3>2. Password(f)' = Password(f)
        BY <1>2, <2>2, <3>1
      <3>3. volume'.pw = Password(f)'
        BY <2>2, <3>1, <3>2
      <3>4. QED
        BY <3>3
    <2>3. QED
      BY <2>1, <2>2
  <1>5. QED
    BY <1>3, <1>4

\* No command holds a password when its step leaves the files alone.
LEMMA PasswordSame ==
    ASSUME envs' = envs, ~Dropping, ~Dropping', NEW f
    PROVE  Password(f)' = Password(f)
BY DEF Password, Values

\* Each step keeps the password each database was made with where the next command finds it.
LEMMA HeldStep ==
    ASSUME TypeInv, TypeInv', HeldInv, Next
    PROVE  HeldInv'
  <1>1. /\ DataTyped /\ CmdTyped /\ EnvsTyped /\ cmd \in Cmds /\ Where
        /\ Held /\ Filled /\ Based /\ Swept /\ PasswordStands
        /\ cluster \in Databases \cup {None} /\ volume \in Databases \cup {None}
    BY DEF TypeInv, CmdTyped, HeldInv, DataTyped
  \* Steps that leave the command where it is, or take it where nothing is held.
  <1>2. ASSUME cmd' = cmd \/ cmd'.pc \notin Entering, UNCHANGED <<envs, cut, volume, cluster>>,
               container'.st \in {container.st, "exited", "absent"},
               ~Dropping \/ cmd' = cmd, ~At("uninstall", "rmtree") \/ cmd' = cmd
        PROVE  HeldInv'
    <2>1. Held' /\ Filled' /\ Based' /\ Swept'
      BY <1>1, <1>2 DEF Held, Filled, Based, Swept, Values, Entering
    <2>2. \A f \in Candidates : Password(f)' = Password(f)
      BY <1>2 DEF Password, Values, Dropping, Entering
    <2>3. At("uninstall", "rmtree") => At("uninstall", "rmtree")'
      BY <1>2 DEF At
    <2>4. PasswordStands'
      BY <1>1, <1>2, <2>2, <2>3, StandsStep
    <2>5. QED
      BY <2>1, <2>4 DEF HeldInv
  <1>3. CASE EnsureEnv
    <2> DEFINE f == EnvFileOf(cmd.lane)
               old == Values(f)
               p == PortOr(cmd.arg, PortOr(old.port, DefaultPort))
    <2>1. f \in Candidates /\ (cmd.lane = "embedded" => f = "bundled") /\ old \in EnvFiles
      BY <1>1, EnvFileTyped DEF EnvsTyped, Values, EmptyFile, EnvFiles, EnvFileOf
    <2>2. /\ UNCHANGED <<envs, cut, volume, cluster, container>> /\ cmd.pc = "env"
          /\ cmd.name \in {"install", "up"}
      BY <1>1, <1>3 DEF EnsureEnv, disk, outside, Where, EnvSteps
    <2>3. \/ /\ old.pw # None
             /\ cmd' = [cmd EXCEPT !.pc = AfterEnv, !.file = f, !.port = p, !.arg = None]
          \/ \E pw \in Passwords :
                 /\ old.pw # None => pw = old.pw
                 /\ cmd' = [cmd EXCEPT !.pc = IF envs[f] = None THEN "create" ELSE "unlink",
                                    !.file = f, !.port = p, !.arg = None, !.pw = pw]
      BY <1>3, <2>1 DEF EnsureEnv, EnvFiles
    <2>4. AfterEnv \in {"port", "shim"}
      BY DEF AfterEnv
    <2> HIDE DEF p
    <2>5. CASE /\ old.pw # None
               /\ cmd' = [cmd EXCEPT !.pc = AfterEnv, !.file = f, !.port = p, !.arg = None]
      <3>1. /\ cmd'.pc = AfterEnv /\ cmd'.file = f /\ cmd'.name = cmd.name /\ cmd'.lane = cmd.lane
        BY <1>1, <2>5 DEF Cmds
      <3>2. envs[f] # None /\ envs[f].pw \in Passwords
        BY <2>1, <2>5 DEF Values, EmptyFile, EnvFiles
      <3>3. Held' /\ Filled' /\ Based' /\ Swept'
        BY <1>1, <2>1, <2>2, <2>4, <3>1, <3>2 DEF Held, Filled, Based, Swept
      <3>4. ~Dropping /\ ~Dropping' /\ ~At("uninstall", "rmtree")
        BY <2>2, <2>4, <3>1 DEF Dropping, At
      <3>5. PasswordStands'
        BY <1>1, <2>2, <3>4, PasswordSame, StandsStep
      <3>6. QED
        BY <3>3, <3>5 DEF HeldInv
    <2>6. ASSUME NEW pw \in Passwords,
                 old.pw # None => pw = old.pw,
                 cmd' = [cmd EXCEPT !.pc = IF envs[f] = None THEN "create" ELSE "unlink",
                                    !.file = f, !.port = p, !.arg = None, !.pw = pw]
          PROVE  HeldInv'
      <3>1. /\ cmd'.pc = IF envs[f] = None THEN "create" ELSE "unlink"
            /\ cmd'.file = f /\ cmd'.name = cmd.name /\ cmd'.lane = cmd.lane /\ cmd'.pw = pw
        BY <1>1, <2>6 DEF Cmds
      <3>2. Held'
        BY <2>1, <2>2, <2>6, <3>1, PortsAssumption DEF Held, Values, EmptyFile
      <3>3. Filled' /\ Based' /\ Swept'
        BY <1>1, <2>2, <3>1 DEF Filled, Based, Swept
      <3>4. \A g \in Candidates : Password(g) \in Passwords => Password(g)' = Password(g)
        <4>1. ASSUME NEW g \in Candidates, Password(g) \in Passwords
              PROVE  Password(g)' = Password(g)
          <5>1. Password(g) = Values(g).pw /\ Values(g)' = Values(g)
            BY <2>2 DEF Password, Dropping, Values
          <5>2. CASE g = f
            <6>1. Values(g).pw = pw
              BY <2>6, <4>1, <5>1, <5>2, PortsAssumption
            <6>2. QED
              BY <3>1, <5>1, <5>2, <6>1 DEF Password
          <5>3. CASE g # f
            BY <3>1, <5>1, <5>3 DEF Password
          <5>4. QED
            BY <5>2, <5>3
        <4>2. QED
          BY <4>1
      <3>5. ~At("uninstall", "rmtree")
        BY <2>2 DEF At
      <3>6. PasswordStands'
        BY <1>1, <2>2, <3>4, <3>5, StandsStep
      <3>7. QED
        BY <3>2, <3>3, <3>6 DEF HeldInv
    <2>7. QED
      BY <2>3, <2>5, <2>6
  <1>4. CASE EnvUnlink \/ EnvCreate \/ EnvFill
    <2>1. /\ UNCHANGED <<cut, volume, cluster, container>>
          /\ cmd.pc \in {"unlink", "create", "fill"} /\ cmd.name \in {"install", "up"}
          /\ cmd.file \in Candidates /\ cmd.pw \in Passwords /\ cmd.pw # None
          /\ cmd.lane = "embedded" => cmd.file = "bundled"
      BY <1>1, <1>4, PortsAssumption
         DEF EnvUnlink, EnvCreate, EnvFill, WriteEnv, outside, Where, EnvSteps, Held, Cmds
    <2>2. AfterEnv \in {"port", "shim"}
      BY DEF AfterEnv
    <2>3. ~At("uninstall", "rmtree")
      BY <2>1 DEF At
    <2>4. CASE EnvUnlink \/ EnvCreate
      <3>1. PICK value \in {None, EmptyFile}, pc \in {"create", "fill"} :
                envs' = [envs EXCEPT ![cmd.file] = value] /\ cmd' = [cmd EXCEPT !.pc = pc]
        BY <1>1, <2>4, ZenonT(30) DEF EnvUnlink, EnvCreate, WriteEnv, Cmds
      <3>2. /\ cmd'.pc = pc /\ cmd'.file = cmd.file /\ cmd'.name = cmd.name /\ cmd'.lane = cmd.lane
            /\ cmd'.pw = cmd.pw
        BY <1>1, <3>1 DEF Cmds
      <3>3. Held' /\ Filled' /\ Based' /\ Swept'
        BY <1>1, <2>1, <3>2 DEF Held, Filled, Based, Swept
      <3>4. \A g \in Candidates : Password(g) \in Passwords => Password(g)' = Password(g)
        <4>1. ASSUME NEW g \in Candidates, Password(g) \in Passwords
              PROVE  Password(g)' = Password(g)
          <5>1. CASE g = cmd.file
            <6>1. Password(g) = cmd.pw
              BY <1>1, <2>1, <4>1, <5>1, PortsAssumption DEF Password, Dropping, Held
            <6>2. Password(g)' = cmd.pw
              BY <2>1, <3>2, <5>1 DEF Password, Dropping
            <6>3. QED
              BY <6>1, <6>2
          <5>2. CASE g # cmd.file
            BY <1>1, <3>1, <3>2, <5>2 DEF Password, Values, EnvsTyped
          <5>3. QED
            BY <5>1, <5>2
        <4>2. QED
          BY <4>1
      <3>5. PasswordStands'
        BY <1>1, <2>1, <2>3, <3>4, StandsStep
      <3>6. QED
        BY <3>3, <3>5 DEF HeldInv
    <2>5. CASE EnvFill
      <3>1. PICK new : new = [pw |-> cmd.pw, port |-> cmd.port]
        OBVIOUS
      <3>2. /\ envs' = [envs EXCEPT ![cmd.file] = new] /\ new \in EnvFiles /\ new # None
            /\ new.pw = cmd.pw
            /\ cmd' = [cmd EXCEPT !.pc = AfterEnv, !.pw = None]
        <4>1. new \in EnvFiles
          BY <1>1, <3>1 DEF EnvFiles, Cmds
        <4>2. QED
          BY <2>5, <3>1, <4>1, NoneAssumption DEF EnvFill, WriteEnv
      <3>3. /\ cmd'.pc = AfterEnv /\ cmd'.file = cmd.file /\ cmd'.name = cmd.name
            /\ cmd'.lane = cmd.lane
        BY <1>1, <3>2 DEF Cmds
      <3>4. /\ envs'[cmd.file] = new
            /\ \A g \in Candidates : g # cmd.file => envs'[g] = envs[g]
        BY <1>1, <2>1, <3>2 DEF EnvsTyped
      <3>5. Held' /\ Filled' /\ Based' /\ Swept'
        BY <1>1, <2>1, <2>2, <3>2, <3>3, <3>4 DEF Held, Filled, Based, Swept
      <3>6. \A g \in Candidates : Password(g) \in Passwords => Password(g)' = Password(g)
        <4>1. ASSUME NEW g \in Candidates
              PROVE  Password(g)' = Password(g)
          <5>1. ~Dropping' /\ Dropping
            BY <2>1, <2>2, <2>5, <3>3 DEF Dropping, EnvFill, WriteEnv
          <5>2. CASE g = cmd.file
            <6>1. Password(g) = cmd.pw
              BY <5>1, <5>2 DEF Password
            <6>2. Password(g)' = new.pw
              BY <3>2, <3>4, <5>1, <5>2 DEF Password, Values
            <6>3. QED
              BY <3>2, <6>1, <6>2
          <5>3. CASE g # cmd.file
            BY <3>3, <3>4, <5>1, <5>3 DEF Password, Values
          <5>4. QED
            BY <5>2, <5>3
        <4>2. QED
          BY <4>1
      <3>7. PasswordStands'
        BY <1>1, <2>1, <2>3, <3>6, StandsStep
      <3>8. QED
        BY <3>5, <3>7 DEF HeldInv
    <2>6. QED
      BY <1>4, <2>4, <2>5
  <1>5. CASE EmbeddedPort \/ ComposeGuards \/ StopEmbedded
    <2>1. /\ UNCHANGED <<envs, cut, volume, cluster, container>>
          /\ cmd.pc \in {"port", "stop"} /\ cmd.name \in {"up", "down", "purge"}
      BY <1>5 DEF EmbeddedPort, ComposeGuards, StopEmbedded, disk, outside, InLane, At
    <2>2. \/ cmd'.pc \notin Entering
          \/ /\ cmd' = [cmd EXCEPT !.pc = IF cmd.lane = "embedded" THEN "initdb" ELSE "compose"]
             /\ cmd.pc = "port"
          \/ cmd' = [cmd EXCEPT !.pc = "purge"] /\ cluster # None
      <3>1. CASE cmd' = Idle
        BY <3>1 DEF Idle, Entering
      <3>2. CASE Goto("connect")
        BY <1>1, <3>2 DEF Goto, Cmds, Entering
      <3>3. CASE EmbeddedPort
        BY <3>1, <3>2, <3>3 DEF EmbeddedPort, Return, Goto, InLane, At
      <3>4. CASE ComposeGuards
        BY <3>1, <3>4 DEF ComposeGuards, Return, Goto, InLane, At
      <3>5. CASE StopEmbedded
        BY <3>1, <3>5 DEF StopEmbedded, PgStop, Running, Return, Goto
      <3>6. QED
        BY <1>5, <3>3, <3>4, <3>5
    <2>3. ~Dropping /\ ~At("uninstall", "rmtree")
      BY <2>1 DEF Dropping, At
    <2>4. CASE cmd'.pc \notin Entering
      BY <1>2, <2>1, <2>3, <2>4
    <2>5. CASE /\ cmd' = [cmd EXCEPT !.pc = IF cmd.lane = "embedded" THEN "initdb" ELSE "compose"]
               /\ cmd.pc = "port"
      <3>1. /\ cmd'.pc = IF cmd.lane = "embedded" THEN "initdb" ELSE "compose"
            /\ cmd'.file = cmd.file /\ cmd'.name = cmd.name /\ cmd'.lane = cmd.lane
        BY <1>1, <2>5 DEF Cmds
      <3>2. Held' /\ Filled' /\ Based' /\ Swept'
        BY <1>1, <2>1, <2>5, <3>1 DEF Held, Filled, Based, Swept
      <3>3. ~Dropping'
        BY <3>1 DEF Dropping
      <3>4. PasswordStands'
        BY <1>1, <2>1, <2>3, <3>3, PasswordSame, StandsStep
      <3>5. QED
        BY <3>2, <3>4 DEF HeldInv
    <2>6. CASE cmd' = [cmd EXCEPT !.pc = "purge"] /\ cluster # None
      <3>1. cmd'.pc = "purge"
        BY <1>1, <2>6 DEF Cmds
      <3>2. Held' /\ Filled' /\ Based' /\ Swept'
        BY <1>1, <2>1, <2>6, <3>1 DEF Held, Filled, Based, Swept
      <3>3. ~Dropping'
        BY <3>1 DEF Dropping
      <3>4. PasswordStands'
        BY <1>1, <2>1, <2>3, <3>3, PasswordSame, StandsStep
      <3>5. QED
        BY <3>2, <3>4 DEF HeldInv
    <2>7. QED
      BY <2>2, <2>4, <2>5, <2>6
  \* Steps that make, change or remove a database, or end the command that was at it.
  <1>6. ASSUME cmd'.pc \notin Entering, envs' = envs,
               ~cut' => ~cut /\ ~Dropping,
               At("uninstall", "rmtree") => cut' \/ cluster' = None,
               ~cut' => \/ cluster' = None
                        \/ cluster # None /\ cluster'.pw = cluster.pw
                        \/ cluster'.pw = Values("bundled").pw,
               ~cut' => \/ volume' = None
                        \/ volume # None /\ volume'.pw = volume.pw
                        \/ volume'.pw = Values(cmd.file).pw,
               container'.st = "running" => volume' # None
        PROVE  HeldInv'
    <2>1. Held' /\ Filled' /\ Based' /\ Swept'
      BY <1>6 DEF Held, Filled, Based, Swept, Entering
    <2>2. ~Dropping'
      BY <1>6 DEF Dropping, Entering
    <2>3. ASSUME ~cut'
          PROVE  ~cut /\ ~Dropping /\ \A f \in Candidates : Password(f)' = Values(f).pw
                                                       /\ Password(f) = Values(f).pw
      BY <1>6, <2>2, <2>3 DEF Password, Values
    <2>4. PasswordStands'
      <3> SUFFICES ASSUME ~cut'
                   PROVE  /\ (cluster # None /\ ~At("uninstall", "rmtree")
                                 => cluster.pw = Password("bundled"))'
                          /\ (volume # None => \E f \in Candidates : volume.pw = Password(f))'
        BY DEF PasswordStands
      <3>1. /\ cluster # None /\ ~At("uninstall", "rmtree") => cluster.pw = Password("bundled")
            /\ volume # None => \E f \in Candidates : volume.pw = Password(f)
        BY <1>1, <2>3 DEF PasswordStands
      <3>2. (cluster # None /\ ~At("uninstall", "rmtree") => cluster.pw = Password("bundled"))'
        BY <1>6, <2>3, <3>1 DEF Candidates
      <3>3. (volume # None => \E f \in Candidates : volume.pw = Password(f))'
        <4>1. cmd.file \in Candidates
          BY <1>1 DEF Cmds
        <4>2. volume' # None => \E f \in Candidates : volume'.pw = Values(f).pw
          BY <1>6, <2>3, <3>1, <4>1
        <4>3. volume' # None => \E f \in Candidates : volume'.pw = Password(f)'
          BY <2>3, <4>2
        <4>4. QED
          BY <4>3
      <3>4. QED
        BY <3>2, <3>3
    <2>5. QED
      BY <2>1, <2>4 DEF HeldInv
  <1>7. Making => cmd'.pc \notin Entering
    BY PcStep
  <1>8. CASE Initdb \/ EnsureDatabase
    <2>1. /\ UNCHANGED <<envs, cut, volume, container>>
          /\ cmd.name = "up" /\ cmd.pc \in {"initdb", "createdb"}
      BY <1>8 DEF Initdb, EnsureDatabase, InLane, At
    <2>2. \/ cluster' = cluster
          \/ cluster' = NewDatabase(envs["bundled"].pw, FALSE) /\ cmd.pc = "initdb" /\ cmd.lane = "embedded"
          \/ cluster # None /\ cluster' = [cluster EXCEPT !.db = TRUE]
      BY <1>8 DEF Initdb, EnsureDatabase, Running, InLane, At
    <2>3. \/ cluster' = None
          \/ cluster # None /\ cluster'.pw = cluster.pw
          \/ cluster'.pw = Values("bundled").pw
      <3>1. cluster # None => [cluster EXCEPT !.db = TRUE].pw = cluster.pw
        BY <1>1 DEF Databases
      <3>2. cmd.pc = "initdb" /\ cmd.lane = "embedded" => /\ envs["bundled"] # None
                                                          /\ envs["bundled"].pw \in Passwords
        BY <1>1, <2>1 DEF Filled
      <3>3. QED
        BY <2>2, <3>1, <3>2, NewDatabaseTyped DEF Values
    <2>4. ~Dropping /\ ~At("uninstall", "rmtree")
      BY <2>1 DEF Dropping, At
    <2>5. container'.st = "running" => volume' # None
      BY <1>1, <2>1 DEF Based
    <2>6. QED
      BY <1>6, <1>7, <1>8, <2>1, <2>3, <2>4, <2>5 DEF Making
  <1>9. CASE Connect \/ SchemaStep
    <2>1. ~Dropping /\ ~At("uninstall", "rmtree")
      BY <1>9 DEF Connect, SchemaStep, Dropping, At
    <2>2. container'.st = "running" => volume' # None
      BY <1>1, <1>9, SchemaKeeps DEF Based, TypeInv
    <2>3. QED
      BY <1>1, <1>6, <1>7, <1>9, <2>1, <2>2, SchemaKeeps DEF Making
  <1>10. CASE PurgeData \/ RemoveHome
    <2>1. UNCHANGED <<envs, cut, volume, container>> /\ cluster' = None /\ ~Dropping
      BY <1>10 DEF PurgeData, RemoveHome, outside, Dropping, At
    <2>2. container'.st = "running" => volume' # None
      BY <1>1, <2>1 DEF Based
    <2>3. QED
      BY <1>6, <1>7, <1>10, <2>1, <2>2 DEF Making
  <1>11. CASE ComposeUp \/ StopCompose
    <2>1. UNCHANGED <<envs, cut, cluster>> /\ ~Dropping /\ ~At("uninstall", "rmtree")
      BY <1>11 DEF ComposeUp, StopCompose, outside, InLane, Dropping, At
    <2>2. CASE UNCHANGED <<container, volume>>
      <3>1. container'.st = "running" => volume' # None
        BY <1>1, <2>2 DEF Based
      <3>2. QED
        BY <1>6, <1>7, <1>11, <2>1, <2>2, <3>1 DEF Making
    <2>3. CASE ComposeUp /\ ~UNCHANGED <<container, volume>>
      <3>1. volume' = IF volume = None THEN NewDatabase(envs[cmd.file].pw, TRUE) ELSE volume
        BY <2>3 DEF ComposeUp
      <3>2. envs[cmd.file] # None /\ envs[cmd.file].pw \in Passwords
        BY <1>1, <2>3 DEF ComposeUp, InLane, At, Filled
      <3>3. PICK new \in Databases : /\ new = NewDatabase(envs[cmd.file].pw, TRUE)
                                     /\ new.pw = envs[cmd.file].pw /\ new # None
        BY <3>2, NewDatabaseTyped, NoneAssumption
      <3>4. volume' # None /\ (volume # None => volume' = volume)
            /\ (volume = None => volume'.pw = Values(cmd.file).pw)
        BY <3>1, <3>2, <3>3 DEF Values
      <3>5. QED
        BY <1>6, <1>7, <1>11, <2>1, <3>4 DEF Making
    <2>4. CASE StopCompose
      <3>1. \/ container'.st \in {"exited", "absent"}
            \/ container' = container
        BY <1>1, <2>4 DEF StopCompose, DataTyped, Containers
      <3>2. volume' = volume \/ (volume' = None /\ container'.st = "absent")
        BY <1>1, <2>4 DEF StopCompose, DataTyped, Containers
      <3>3. container'.st = "running" => volume' # None
        BY <1>1, <3>1, <3>2 DEF Based
      <3>4. QED
        BY <1>6, <1>7, <1>11, <2>1, <3>2, <3>3 DEF Making
    <2>5. QED
      BY <1>11, <2>2, <2>3, <2>4
  <1>12. CASE Crash
    <2>1. /\ UNCHANGED <<envs, volume, container>> /\ cut' = (cut \/ Dropping)
          /\ ~At("uninstall", "rmtree")
      BY <1>12 DEF Crash, At
    <2>2. \/ cluster' = None
          \/ cluster # None /\ cluster'.pw = cluster.pw
          \/ cluster'.pw = Values("bundled").pw
      <3>1. CASE UNCHANGED cluster
        BY <3>1
      <3>2. CASE /\ InLane("embedded", "initdb") /\ cluster = None
                 /\ cluster' = [NewDatabase(envs["bundled"].pw, FALSE) EXCEPT !.usable = FALSE]
        <4>1. envs["bundled"] # None /\ envs["bundled"].pw \in Passwords
          BY <1>1, <3>2 DEF InLane, At, Filled
        <4>2. QED
          BY <3>2, <4>1, NewDatabaseTyped DEF Values
      <3>3. CASE At("purge", "purge") /\ cluster' \in {None, [cluster EXCEPT !.usable = FALSE]}
        BY <1>1, <3>3 DEF Based, At, Databases
      <3>4. QED
        BY <1>12, <3>1, <3>2, <3>3 DEF Crash
    <2>3. container'.st = "running" => volume' # None
      BY <1>1, <2>1 DEF Based
    <2>4. QED
      BY <1>6, <1>7, <1>12, <2>1, <2>2, <2>3 DEF Making
  <1>13. CASE Killed
    <2>1. /\ UNCHANGED <<envs, volume, container>>
          /\ cut' = (cut \/ Dropping \/ At("uninstall", "rmtree"))
          /\ ~At("uninstall", "rmtree") => cluster' = cluster
      BY <1>13 DEF Killed
    <2>2. container'.st = "running" => volume' # None
      BY <1>1, <2>1 DEF Based
    <2>3. ~cut' => ~cut /\ ~Dropping /\ ~At("uninstall", "rmtree")
      BY <2>1
    <2>4. At("uninstall", "rmtree") => cut'
      BY <2>1
    <2>5. ~cut' => cluster' = cluster
      BY <2>1, <2>3
    <2>6. QED
      BY <1>6, <1>7, <1>13, <2>1, <2>2, <2>3, <2>4, <2>5 DEF Making
  <1>14. CASE RemoveFiles
    <2>1. /\ UNCHANGED <<cluster, volume, container>> /\ cut' = (cut \/ volume # None)
          /\ cmd.name = "uninstall" /\ cmd.pc = "files"
          /\ cmd' = [cmd EXCEPT !.pc = "rmtree"]
      BY <1>14 DEF RemoveFiles, At, Goto
    <2>2. cmd'.pc = "rmtree" /\ cmd'.name = "uninstall"
      BY <1>1, <2>1 DEF Cmds
    <2>3. Held' /\ Filled' /\ Based' /\ Swept'
      BY <1>1, <2>1, <2>2 DEF Held, Filled, Based, Swept
    <2>4. PasswordStands'
      BY <2>1, <2>2 DEF PasswordStands, At
    <2>5. QED
      BY <2>3, <2>4 DEF HeldInv
  <1>15. CASE Passing
    <2>1. cmd' = cmd \/ cmd'.pc \notin Entering
      BY <1>15, PcStep
    <2>2. UNCHANGED <<envs, cut, volume, cluster>> 
      BY <1>15 DEF Passing, Start, Ready, ComposeReadiness, DbCommand, Up, Down, ServerBoots, OrphanEnds,
           ServerDies, ForeignListens, PlacePart, PlaceShim, PersistPath, EnsurePlugin, SaveReceipt,
           UninstallStop, RemovePlugin, RemovePath, Place, InstallPost, Uninstall, UserEdits, disk,
           dbFiles, outside
    <2>3. container'.st \in {container.st, "exited", "absent"}
      <3>1. CASE ServerDies
        BY <1>1, <3>1 DEF ServerDies, DataTyped, Containers
      <3>2. CASE ~ServerDies
        BY <1>15, <3>2 DEF Passing, Start, Ready, ComposeReadiness, DbCommand, Up, Down, ServerBoots,
             OrphanEnds, ForeignListens, PlacePart, PlaceShim, PersistPath, EnsurePlugin,
             SaveReceipt, UninstallStop, RemovePlugin, RemovePath, Place, InstallPost, Uninstall,
             UserEdits, disk, dbFiles
      <3>3. QED
        BY <3>1, <3>2
    <2>4. cmd' = cmd \/ cmd = Idle \/ cmd.pc \in {"start", "ready", "place", "shim", "path", "config",
                                                  "receipt", "stop"}
      BY <1>15 DEF Passing, Start, Ready, ComposeReadiness, DbCommand, Up, Down, ServerBoots, OrphanEnds,
           ServerDies, ForeignListens, PlacePart, PlaceShim, PersistPath, EnsurePlugin, SaveReceipt,
           UninstallStop, RemovePlugin, RemovePath, Place, InstallPost, Uninstall, UserEdits, InLane, At
    <2>5. /\ ~Dropping \/ cmd' = cmd
          /\ ~At("uninstall", "rmtree") \/ cmd' = cmd
      BY <2>4 DEF Dropping, At, Idle
    <2>6. QED
      BY <1>2, <2>1, <2>2, <2>3, <2>5
  <1>16. QED
    BY <1>3, <1>4, <1>5, <1>8, <1>9, <1>10, <1>11, <1>12, <1>13, <1>14, <1>15
       DEF Next, DbStep, InstallStep, Machine, Passing

\* The types hold before the first command.
LEMMA TypeInit == Init => TypeInv
  <1> SUFFICES ASSUME Init PROVE TypeInv
    OBVIOUS
  <1>1. PICK m \in Machines :
            /\ DbInit(m) /\ rcs = m.rcs /\ cfgs = m.cfgs /\ receipt = None /\ fresh = {}
    BY DEF Init
  <1>2. FilesTyped
    BY <1>1, FilesAssumption DEF FilesTyped
  <1>3. EnvsTyped /\ DataTyped
    BY <1>1, MachinesAssumption DEF DbInit, EnvsTyped, DataTyped
  <1>4. CmdTyped
    BY <1>1, IdleTyped DEF DbInit, CmdTyped, Where, Steps, Idle
  <1>5. QED
    BY <1>2, <1>3, <1>4 DEF TypeInv

\* The passwords are held before the first command.
LEMMA HeldInit == Init => HeldInv
  <1> SUFFICES ASSUME Init PROVE HeldInv
    OBVIOUS
  <1>1. PICK m \in Machines : DbInit(m)
    BY DEF Init
  <1>2. cmd = Idle /\ cluster = None /\ envs = m.envs /\ volume = m.volume /\ container = m.container
    BY <1>1 DEF DbInit
  <1>3. Held /\ Filled /\ Based /\ Swept
    BY <1>2, MachinesAssumption DEF Held, Filled, Based, Swept, Idle
  <1>4. volume # None => \E f \in Candidates : volume.pw = Password(f)
    <2>1. ASSUME volume # None
          PROVE  \E f \in Candidates : volume.pw = Password(f)
      <3>1. PICK f \in Candidates : envs[f] # None /\ envs[f].pw = volume.pw
        BY <1>2, <2>1, MachinesAssumption
      <3>2. Password(f) = envs[f].pw
        BY <1>2, <3>1 DEF Password, Dropping, Values, Idle
      <3>3. QED
        BY <3>1, <3>2
    <2>2. QED
      BY <2>1
  <1>5. QED
    BY <1>2, <1>3, <1>4 DEF HeldInv, PasswordStands

-----------------------------------------------------------------------------
(* An uninstallation leaves nothing *)

\* Which steps lead into the stages of an installation and of an uninstallation.
LEMMA StageStep ==
    ASSUME TypeInv, Next, cmd' # cmd
    PROVE  /\ cmd'.name = "install" /\ cmd'.pc \in {"config", "receipt"} => PersistPath \/ EnsurePlugin
           /\ cmd'.name = "install" /\ cmd'.pc = "path" => PlaceShim \/ PersistPath
           /\ cmd'.name = "uninstall" =>
                  \/ Uninstall \/ UninstallStop \/ RemovePlugin \/ RemovePath \/ RemoveFiles
  <1>1. cmd \in Cmds /\ Where
    BY DEF TypeInv, CmdTyped
  <1>2. CASE cmd' = Idle
    BY <1>2 DEF Idle
  <1>3. CASE EnsureEnv \/ EnvUnlink \/ EnvCreate \/ EnvFill
    <2>1. cmd.name \in {"up", "install"}
      BY <1>1, <1>3 DEF EnsureEnv, EnvUnlink, EnvCreate, EnvFill, WriteEnv, Where, EnvSteps
    <2>2. QED
      BY <1>3, <2>1, EnvStepTyped
  <1>4. CASE DbStep /\ ~(EnsureEnv \/ EnvUnlink \/ EnvCreate \/ EnvFill)
    <2>1. cmd.name \in {"up", "down", "purge"}
      BY <1>4 DEF DbStep, EmbeddedPort, Initdb, Start, Ready, EnsureDatabase, ComposeGuards, ComposeUp,
           ComposeReadiness, Connect, SchemaStep, StopEmbedded, PurgeData, StopCompose, InLane, At
    <2>2. QED
      BY <1>4, <2>1, NameStep
  <1>5. CASE Machine \/ UserEdits \/ Killed
    BY <1>2, <1>5 DEF Machine, Crash, ServerBoots, OrphanEnds, ServerDies, ForeignListens, UserEdits,
                      Killed
  <1>6. CASE DbCommand
    <2>1. cmd'.name \in {"up", "down", "purge"}
      BY <1>6, ZenonT(30) DEF DbCommand, Up, Down, Idle
    <2>2. QED
      BY <2>1
  <1>7. CASE \E reinstall \in BOOLEAN : Place(reinstall)
    BY <1>7 DEF Place, Idle
  <1>8. CASE \E p \in Ports \cup {None} : InstallPost(p)
    BY <1>8, ZenonT(30) DEF InstallPost, Idle
  <1>9. CASE PlacePart
    BY <1>1, <1>2, <1>9, NameStep DEF PlacePart, At, InstallStep
  <1>10. CASE PlaceShim
    BY <1>10 DEF PlaceShim, Idle
  <1>11. CASE PersistPath \/ EnsurePlugin
    <2>1. cmd.name = "install"
      BY <1>11 DEF PersistPath, EnsurePlugin, At
    <2>2. cmd'.name # "uninstall"
      BY <1>11, <2>1, NameStep DEF InstallStep
    <2>3. EnsurePlugin => cmd'.pc # "path"
      BY <1>1 DEF EnsurePlugin, Return, Idle, Cmds, At
    <2>4. QED
      BY <1>11, <2>2, <2>3
  <1>12. CASE SaveReceipt \/ RemoveHome
    BY <1>2, <1>12 DEF SaveReceipt, RemoveHome, Return
  <1>13. CASE UninstallStop \/ RemovePlugin \/ RemovePath \/ RemoveFiles
    <2>1. cmd.name = "uninstall"
      BY <1>13 DEF UninstallStop, RemovePlugin, RemovePath, RemoveFiles, At
    <2>2. cmd'.name # "install"
      BY <1>13, <2>1, NameStep DEF InstallStep
    <2>3. QED
      BY <1>13, <2>2
  <1>14. CASE Uninstall
    BY <1>14 DEF Uninstall, Idle
  <1>15. QED
    BY <1>3, <1>4, <1>5, <1>6, <1>7, <1>8, <1>9, <1>10, <1>11, <1>12, <1>13, <1>14
       DEF Next, InstallStep

\* A finished uninstallation stays the last command until another one begins.
LEMMA ResultStep ==
    ASSUME TypeInv, Removed, Next, Succeeded("uninstall", "none")'
    PROVE  \/ RemoveHome
           \/ /\ Succeeded("uninstall", "none") /\ cmd = Idle /\ cmd' = cmd
              /\ UNCHANGED <<parts, cluster, envs, shim, receipt, fresh>>
              /\ UNCHANGED <<rcs, cfgs>> \/ UserEdits
  <1>1. result' = [name |-> "uninstall", lane |-> "none", rc |-> 0]
    BY DEF Succeeded
  <1>2. result' # NoResult
    BY <1>1 DEF NoResult
  <1>3. result'.name = "uninstall" /\ result'.rc = 0
    BY <1>1
  <1>3a. ASSUME (\E p \in Ports \cup {None} : InstallPost(p)) \/ Uninstall
         PROVE  FALSE
    <2>1. \/ result' = NoResult
          \/ result' = [name |-> "install", lane |-> "embedded", rc |-> 1]
          \/ result' = [name |-> "uninstall", lane |-> "none", rc |-> 1]
      BY <1>3a DEF InstallPost, Uninstall
    <2>2. QED
      BY <1>2, <1>3, <2>1
  <1>4. ASSUME result' = [name |-> cmd.name, lane |-> cmd.lane, rc |-> 0] \/ Return(0)
        PROVE  cmd.name = "uninstall"
    BY <1>1, <1>4 DEF Return
  <1>5. \A rc \in {1, 2} : ~Return(rc) /\ result' # [name |-> cmd.name, lane |-> cmd.lane, rc |-> rc]
    BY <1>1 DEF Return
  <1>6. CASE result' = result
    <2>1. Succeeded("uninstall", "none") /\ cmd = Idle
      BY <1>1, <1>6 DEF Succeeded, Removed
    <2>2. cmd.name = "none" /\ cmd.pc = "idle"
      BY <2>1 DEF Idle
    <2>3. ~DbStep /\ ~InstallStep
      BY <2>2 DEF DbStep, EnsureEnv, EnvUnlink, EnvCreate, EnvFill, WriteEnv, EmbeddedPort, Initdb,
           Start, Ready, EnsureDatabase, ComposeGuards, ComposeUp, ComposeReadiness, Connect,
           SchemaStep, StopEmbedded, PurgeData, StopCompose, InLane, At, InstallStep, PlacePart,
           PlaceShim, PersistPath, EnsurePlugin, SaveReceipt, UninstallStop, RemovePlugin,
           RemovePath, RemoveFiles, RemoveHome
    <2>4. ~Killed /\ ~Crash
      BY <2>2 DEF Killed, Crash
    <2>5. ~DbCommand
      BY <1>1, <1>2 DEF DbCommand, Up, Down
    <2>6. ~\E reinstall \in BOOLEAN : Place(reinstall)
      BY <1>2 DEF Place
    <2>7. ~(\E p \in Ports \cup {None} : InstallPost(p)) /\ ~Uninstall
      BY <1>3a
    <2>8. CASE (ServerBoots \/ OrphanEnds \/ ServerDies \/ ForeignListens) /\ UNCHANGED installVars
      BY <2>1, <2>8 DEF ServerBoots, OrphanEnds, ServerDies, ForeignListens, installVars, disk
    <2>9. CASE UserEdits
      BY <2>1, <2>9 DEF UserEdits, dbFiles
    <2>10. QED
      BY <2>3, <2>4, <2>5, <2>6, <2>7, <2>8, <2>9 DEF Next, Machine
  <1>7. CASE DbStep
    <2>1. cmd.name # "uninstall"
      <3>1. CASE EnsureEnv \/ EnvUnlink \/ EnvCreate \/ EnvFill
        BY <3>1, EnvStepTyped DEF TypeInv, CmdTyped, Where, EnvSteps
      <3>2. CASE ~(EnsureEnv \/ EnvUnlink \/ EnvCreate \/ EnvFill)
        BY <1>7, <3>2 DEF DbStep, EmbeddedPort, Initdb, Start, Ready, EnsureDatabase, ComposeGuards,
             ComposeUp, ComposeReadiness, Connect, SchemaStep, StopEmbedded, PurgeData, StopCompose,
             InLane, At
      <3>3. QED
        BY <3>1, <3>2
    <2>2. result' = result \/ \E rc : Return(rc)
      BY <1>7 DEF DbStep, EnsureEnv, EnvUnlink, EnvCreate, EnvFill, WriteEnv, EmbeddedPort, Initdb,
           Start, Ready, EnsureDatabase, ComposeGuards, ComposeUp, ComposeReadiness, Connect,
           SchemaStep, StopEmbedded, PurgeData, StopCompose
    <2>3. QED
      BY <1>1, <1>6, <2>1, <2>2 DEF Return
  <1>8. CASE DbCommand \/ (\E reinstall \in BOOLEAN : Place(reinstall)) \/ Uninstall
             \/ (\E p \in Ports \cup {None} : InstallPost(p))
    <2>1. CASE DbCommand
      <3>1. \/ result' = NoResult
            \/ result' = [name |-> "up", lane |-> "none", rc |-> 1]
            \/ result' = [name |-> "down", lane |-> "none", rc |-> 1]
        BY <2>1 DEF DbCommand, Up, Down
      <3>2. QED
        BY <1>2, <1>3, <3>1
    <2>2. CASE \E reinstall \in BOOLEAN : Place(reinstall)
      BY <1>2, <2>2 DEF Place
    <2>3. QED
      BY <1>3a, <1>8, <2>1, <2>2
  <1>9. CASE InstallStep /\ ~RemoveHome
    <2>1. result' = result \/ Return(1) \/ (Return(0) /\ cmd.name # "uninstall")
      BY <1>9 DEF InstallStep, PlacePart, PlaceShim, PersistPath, EnsurePlugin, SaveReceipt,
           UninstallStop, RemovePlugin, RemovePath, RemoveFiles, At
    <2>2. QED
      BY <1>4, <1>5, <1>6, <2>1
  <1>10. CASE Killed \/ Machine \/ UserEdits
    BY <1>5, <1>6, <1>10 DEF Killed, Machine, Crash, ServerBoots, OrphanEnds, ServerDies, ForeignListens,
                        UserEdits
  <1>11. QED
    BY <1>7, <1>8, <1>9, <1>10 DEF Next, InstallStep

\* What a step does to the config files.
LEMMA ConfigStep ==
    ASSUME TypeInv, Next, cfgs' # cfgs
    PROVE  \E f \in ConfigSet :
               /\ f = Configs[cmd.step] \/ UserEdits
               /\ \A g \in ConfigSet : g # f => cfgs'[g] = cfgs[g]
               /\ \/ /\ EnsurePlugin /\ UNCHANGED receipt
                     /\ cfgs'[f] # None /\ cfgs'[f].array
                     /\ cfgs[f] = None => cfgs'[f].made = "install"
                     /\ cfgs[f] # None => cfgs'[f].made # "install"
                     /\ fresh' = IF cfgs[f] = None THEN fresh \cup {f} ELSE fresh
                  \/ /\ RemovePlugin /\ UNCHANGED <<receipt, fresh>> /\ cfgs[f] # None
                     /\ cfgs'[f] = None <=> f \in receipt /\ cfgs[f].array /\ ~cfgs[f].plugins
                     /\ cfgs'[f] # None =>
                            /\ ~cfgs'[f].entry
                            /\ cfgs'[f].made = cfgs[f].made
                            /\ cfgs'[f].array = cfgs[f].array
                            /\ cfgs'[f].plugins = cfgs[f].plugins
                  \/ /\ UserEdits /\ UNCHANGED <<receipt, fresh>>
                     /\ cfgs[f] # None /\ cfgs'[f] # None
                     /\ cfgs'[f].entry = cfgs[f].entry /\ cfgs'[f].made = cfgs[f].made
                     /\ cfgs[f].array => cfgs'[f].array
                     /\ cfgs[f].plugins => cfgs'[f].plugins
  <1>1. FilesTyped /\ CmdTyped
    BY DEF TypeInv
  <1>2. CASE EnsurePlugin
    <2> DEFINE f == Configs[cmd.step]
    <2>1. f \in ConfigSet
      BY <1>1, <1>2 DEF EnsurePlugin, At, CmdTyped, Steps, ConfigSet
    <2>2. /\ UNCHANGED receipt
          /\ cfgs' = [cfgs EXCEPT ![f] = WithEntry(cfgs[f])]
          /\ fresh' = IF cfgs[f] = None THEN fresh \cup {f} ELSE fresh
      BY <1>1, <1>2, <2>1 DEF EnsurePlugin, FilesTyped
    <2> HIDE DEF f
    <2>3. cfgs[f] \in ConfigFile \cup {None}
      BY <1>1, <2>1 DEF FilesTyped
    <2>4. /\ cfgs'[f] = WithEntry(cfgs[f])
          /\ \A g \in ConfigSet : g # f => cfgs'[g] = cfgs[g]
      BY <1>1, <2>1, <2>2 DEF FilesTyped
    <2>5. /\ cfgs'[f] # None /\ cfgs'[f].array
          /\ cfgs[f] = None => cfgs'[f].made = "install"
          /\ cfgs[f] # None => cfgs'[f].made # "install"
      BY <2>3, <2>4, WithEntryTyped
    <2>6. f = Configs[cmd.step]
      BY DEF f
    <2>7. QED
      BY <1>2, <2>1, <2>2, <2>4, <2>5, <2>6
  <1>3. CASE RemovePlugin
    <2> DEFINE f == Configs[cmd.step]
    <2>1. f \in ConfigSet
      BY <1>1, <1>3 DEF RemovePlugin, At, CmdTyped, Steps, ConfigSet
    <2>2. /\ UNCHANGED <<receipt, fresh>>
          /\ cfgs' = [cfgs EXCEPT ![f] = IF cfgs[f] = None THEN None
                                         ELSE Reversed(cfgs[f], f \in receipt)]
      BY <1>1, <1>3, <2>1 DEF RemovePlugin, FilesTyped
    <2>2a. f = Configs[cmd.step]
      OBVIOUS
    <2> HIDE DEF f
    <2>3. cfgs[f] # None /\ cfgs[f] \in ConfigFile
      <3>1. cfgs[f] \in ConfigFile \cup {None}
        BY <1>1, <2>1 DEF FilesTyped
      <3>2. ASSUME cfgs[f] = None
            PROVE  FALSE
        <4>1. cfgs' = [cfgs EXCEPT ![f] = None]
          BY <2>2, <3>2
        <4>2. QED
          BY <1>1, <2>1, <3>2, <4>1 DEF FilesTyped
      <3>3. QED
        BY <3>1, <3>2
    <2>4. PICK created \in BOOLEAN : /\ created <=> f \in receipt
                                     /\ created = IF f \in receipt THEN TRUE ELSE FALSE
      OBVIOUS
    <2>5. Reversed(cfgs[f], f \in receipt) = Reversed(cfgs[f], created)
      BY <2>4 DEF Reversed
    <2>6. PICK c \in ConfigFile : c = cfgs[f]
      BY <2>3
    <2>7. /\ cfgs'[f] = Reversed(c, created)
          /\ \A g \in ConfigSet : g # f => cfgs'[g] = cfgs[g]
      BY <1>1, <2>1, <2>2, <2>3, <2>5, <2>6 DEF FilesTyped
    <2>8. /\ Reversed(c, created) = None <=> created /\ c.array /\ ~c.plugins
          /\ Reversed(c, created) # None => /\ ~Reversed(c, created).entry
                                            /\ Reversed(c, created).made = c.made
                                            /\ Reversed(c, created).array = c.array
                                            /\ Reversed(c, created).plugins = c.plugins
      BY ReversedTyped
    <2>9. /\ cfgs'[f] = None <=> f \in receipt /\ cfgs[f].array /\ ~cfgs[f].plugins
          /\ cfgs'[f] # None => /\ ~cfgs'[f].entry
                                /\ cfgs'[f].made = cfgs[f].made
                                /\ cfgs'[f].array = cfgs[f].array
                                /\ cfgs'[f].plugins = cfgs[f].plugins
      BY <2>4, <2>6, <2>7, <2>8, Zenon
    <2>10. QED
      BY <1>3, <2>1, <2>2, <2>2a, <2>3, <2>7, <2>9, Zenon
  <1>4. CASE UserEdits
    <2>1. PICK f \in ConfigSet, new \in ConfigFile :
               /\ cfgs[f] \in ConfigFile /\ cfgs[f] # None /\ new # None
               /\ cfgs' = [cfgs EXCEPT ![f] = new]
               /\ new.entry = cfgs[f].entry /\ new.made = cfgs[f].made
               /\ cfgs[f].array => new.array
               /\ cfgs[f].plugins => new.plugins
      BY <1>1, <1>4, EditOfConfig
    <2>2. cfgs'[f] = new /\ \A g \in ConfigSet : g # f => cfgs'[g] = cfgs[g]
      BY <1>1, <2>1 DEF FilesTyped
    <2>3. UNCHANGED <<receipt, fresh>>
      BY <1>4 DEF UserEdits
    <2>4. QED
      BY <1>4, <2>1, <2>2, <2>3
  <1>5. QED
    BY <1>2, <1>3, <1>4
       DEF Next, InstallStep, installVars, Place, InstallPost, Uninstall, PlacePart, PlaceShim,
           PersistPath, SaveReceipt, UninstallStop, RemovePath, RemoveFiles, RemoveHome, Killed,
           userFiles

\* What a step does to the rc files.
LEMMA RcStep ==
    ASSUME TypeInv, Next, rcs' # rcs
    PROVE  \/ RemovePath
           \/ \E f \in RcFiles :
                  /\ \A g \in RcFiles : g # f => rcs'[g] = rcs[g]
                  /\ rcs'[f] # None
                  /\ \/ /\ PersistPath /\ f \in cmd.todo
                        /\ rcs'[f].block
                        /\ rcs[f] # None => rcs'[f].text = rcs[f].text
                     \/ /\ UserEdits /\ rcs'[f].text
                        /\ IF rcs[f] = None THEN ~rcs'[f].block ELSE rcs'[f].block = rcs[f].block
  <1>1. FilesTyped /\ cmd \in Cmds
    BY DEF TypeInv, CmdTyped
  <1>2. CASE PersistPath
    <2>1. PICK f \in cmd.todo :
              rcs' = [rcs EXCEPT ![f] = IF @ = None THEN [text |-> FALSE, block |-> TRUE]
                                        ELSE [@ EXCEPT !.block = TRUE]]
      BY <1>2 DEF PersistPath
    <2>2. f \in RcFiles
      BY <1>1 DEF Cmds
    <2>3. PICK new : new = IF rcs[f] = None THEN [text |-> FALSE, block |-> TRUE]
                           ELSE [rcs[f] EXCEPT !.block = TRUE]
      OBVIOUS
    <2>4. new \in RcFile /\ new.block /\ (rcs[f] # None => new.text = rcs[f].text)
      BY <1>1, <2>2, <2>3 DEF FilesTyped, RcFile
    <2>5. rcs'[f] = new /\ \A g \in RcFiles : g # f => rcs'[g] = rcs[g]
      BY <1>1, <2>1, <2>2, <2>3 DEF FilesTyped
    <2>6. QED
      BY <1>2, <2>2, <2>4, <2>5, FilesAssumption
  <1>3. CASE UserEdits
    <2>1. PICK f \in RcFiles :
              rcs' = [rcs EXCEPT ![f] = IF @ = None THEN [text |-> TRUE, block |-> FALSE]
                                        ELSE [@ EXCEPT !.text = TRUE]]
      BY <1>3 DEF UserEdits
    <2>2. PICK new : new = IF rcs[f] = None THEN [text |-> TRUE, block |-> FALSE]
                           ELSE [rcs[f] EXCEPT !.text = TRUE]
      OBVIOUS
    <2>3. /\ new \in RcFile /\ new.text
          /\ IF rcs[f] = None THEN ~new.block ELSE new.block = rcs[f].block
      BY <1>1, <2>2 DEF FilesTyped, RcFile
    <2>4. rcs'[f] = new /\ \A g \in RcFiles : g # f => rcs'[g] = rcs[g]
      BY <1>1, <2>1, <2>2 DEF FilesTyped
    <2>5. QED
      BY <1>3, <2>3, <2>4, FilesAssumption
  <1>4. QED
    BY <1>2, <1>3
       DEF Next, InstallStep, installVars, Place, InstallPost, Uninstall, PlacePart, PlaceShim,
           EnsurePlugin, SaveReceipt, UninstallStop, RemovePlugin, RemoveFiles, RemoveHome, Killed,
           userFiles

\* Each step accounts for the config files that are missing or made.
LEMMA AccountedStep ==
    ASSUME TypeInv, Licensed, Accounted, ArrayMade, Wired, Next
    PROVE  Accounted' /\ ArrayMade'
  <1>1. ArrayMade'
    <2>1. CASE cfgs' = cfgs
      BY <2>1 DEF ArrayMade
    <2>2. CASE cfgs' # cfgs
      BY <2>2, ConfigStep DEF ArrayMade
    <2>3. QED
      BY <2>1, <2>2
  <1>2. ASSUME NEW g \in ConfigSet, receipt' \notin {None, Torn},
               IF cfgs'[g] = None THEN TRUE ELSE cfgs'[g].made = "install"
        PROVE  g \in receipt'
    <2>1. receipt' = receipt /\ Ours(g) => g \in receipt'
      BY <1>2 DEF Accounted, Received
    <2>2. CASE cfgs' # cfgs
      <3>1. PICK f \in ConfigSet :
                 /\ \A h \in ConfigSet : h # f => cfgs'[h] = cfgs[h]
                 /\ UNCHANGED receipt
                 /\ \/ cfgs[f] = None
                    \/ cfgs'[f] # None /\ cfgs'[f].made # "install"
                    \/ RemovePlugin /\ cfgs'[f] = None /\ f \in receipt
                    \/ cfgs'[f] # None /\ cfgs[f] # None /\ cfgs'[f].made = cfgs[f].made
        BY <2>2, ConfigStep
      <3>2. QED
        BY <1>2, <2>1, <3>1 DEF Ours
    <2>3. CASE cfgs' = cfgs
      <3>1. CASE receipt' \in {receipt, None, Torn}
        BY <1>2, <2>1, <2>3, <3>1 DEF Ours
      <3>2. CASE SaveReceipt
        <4>1. \A i \in 1..Len(Configs) : /\ cfgs[Configs[i]] # None
                                         /\ cfgs[Configs[i]].made = "install" => Configs[i] \in fresh
          BY <3>2 DEF SaveReceipt, At, Wired
        <4>2. PICK i \in 1..Len(Configs) : g = Configs[i]
          BY DEF ConfigSet
        <4>3. receipt' = fresh
          BY <3>2 DEF SaveReceipt
        <4>4. QED
          BY <1>2, <2>3, <4>1, <4>2, <4>3
      <3>3. receipt' \in {receipt, None, Torn} \/ SaveReceipt
        BY DEF Next, InstallStep, installVars, Place, InstallPost, Uninstall, PlacePart, PlaceShim,
             PersistPath, EnsurePlugin, UninstallStop, RemovePlugin, RemovePath, RemoveFiles, RemoveHome,
             Killed, UserEdits, userFiles
      <3>4. QED
        BY <3>1, <3>2, <3>3
    <2>4. QED
      BY <2>2, <2>3
  <1>3. Accounted'
    BY <1>2 DEF Accounted, Received, Ours
  <1>4. QED
    BY <1>1, <1>3

\* A missing config file is not missing any more once it is wired, and so on to the end.
LEMMA WiredStep ==
    ASSUME TypeInv, Wired, Next
    PROVE  Wired'
  <1>1. cmd \in Cmds /\ Steps /\ Len(Configs) \in Nat
    BY FilesAssumption, LenProperties DEF TypeInv, CmdTyped
  <1> SUFFICES ASSUME NEW i \in 1..Len(Configs), cmd'.name = "install",
                      \/ cmd'.pc = "config" /\ i < cmd'.step
                      \/ cmd'.pc = "receipt"
               PROVE  /\ cfgs'[Configs[i]] # None
                      /\ cfgs'[Configs[i]].made = "install" => Configs[i] \in fresh'
    BY DEF Wired
  <1>2. Configs[i] \in ConfigSet
    BY DEF ConfigSet
  <1>3. CASE cmd' = cmd
    <2>1. cmd.name = "install" /\ cmd.pc \in {"config", "receipt"}
      BY <1>3
    <2>2. /\ cfgs[Configs[i]] # None
          /\ cfgs[Configs[i]].made = "install" => Configs[i] \in fresh
      BY <1>3 DEF Wired
    <2>3. CASE cfgs' = cfgs /\ fresh' = fresh
      BY <2>2, <2>3
    <2>4. CASE cfgs' # cfgs
      <3>1. ~RemovePlugin /\ ~EnsurePlugin
        BY <1>1, <1>3, <2>1 DEF RemovePlugin, EnsurePlugin, At, Return, Idle, Cmds, Steps
      <3>2. PICK f \in ConfigSet :
                 /\ \A g \in ConfigSet : g # f => cfgs'[g] = cfgs[g]
                 /\ UNCHANGED fresh /\ cfgs'[f] # None /\ cfgs'[f].made = cfgs[f].made
        BY <2>4, <3>1, ConfigStep
      <3>3. QED
        BY <1>2, <2>2, <3>2
    <2>5. CASE cfgs' = cfgs /\ fresh' # fresh
      <3>1. EnsurePlugin \/ cmd = Idle \/ cmd' = Idle
        BY <2>5 DEF Next, InstallStep, installVars, Place, InstallPost, Uninstall, PlacePart, PlaceShim,
             PersistPath, SaveReceipt, UninstallStop, RemovePlugin, RemovePath, RemoveFiles,
             RemoveHome, Killed, UserEdits, userFiles, Return
      <3>2. ~EnsurePlugin
        BY <1>1, <1>3, <2>1 DEF EnsurePlugin, At, Return, Idle, Cmds, Steps
      <3>3. QED
        BY <1>3, <2>1, <3>1, <3>2 DEF Idle
    <2>6. QED
      BY <2>3, <2>4, <2>5
  <1>4. CASE PersistPath
    <2>1. cmd'.pc # "receipt" /\ (cmd'.pc = "config" => cmd'.step = 1)
      BY <1>1, <1>4 DEF PersistPath, At, Cmds
    <2>2. QED
      BY <2>1
  <1>5. CASE EnsurePlugin /\ cmd' # cmd
    <2>1. cmd.name = "install" /\ cmd.pc = "config" /\ cmd.step \in 1..Len(Configs)
      BY <1>1, <1>5 DEF EnsurePlugin, At, Steps
    <2> DEFINE f == Configs[cmd.step]
    <2>2. \/ Return(1)
          \/ /\ cfgs' = [cfgs EXCEPT ![f] = WithEntry(cfgs[f])]
             /\ fresh' = IF cfgs[f] = None THEN fresh \cup {f} ELSE fresh
             /\ \/ cmd.step < Len(Configs) /\ cmd' = [cmd EXCEPT !.step = @ + 1]
                \/ cmd.step = Len(Configs)
      BY <1>1, <1>5, <2>1 DEF EnsurePlugin, TypeInv, FilesTyped, ConfigSet
    <2>3. ~Return(1)
      BY DEF Return, Idle
    <2>4. i <= cmd.step
      BY <1>1, <2>1, <2>2, <2>3 DEF Cmds
    <2>5. f \in ConfigSet /\ cfgs[f] \in ConfigFile \cup {None}
      BY <2>1 DEF ConfigSet, TypeInv, FilesTyped
    <2>6. /\ cfgs'[f] = WithEntry(cfgs[f])
          /\ \A g \in ConfigSet : g # f => cfgs'[g] = cfgs[g]
      BY <2>2, <2>3, <2>5 DEF TypeInv, FilesTyped
    <2>7. CASE Configs[i] = f
      <3>1. cfgs'[f] # None /\ (cfgs'[f].made = "install" => cfgs[f] = None)
        BY <2>5, <2>6, WithEntryTyped
      <3>2. QED
        BY <2>2, <2>3, <2>7, <3>1
    <2>8. CASE Configs[i] # f
      <3>1. i < cmd.step
        BY <1>1, <2>1, <2>4, <2>8
      <3>2. /\ cfgs[Configs[i]] # None
            /\ cfgs[Configs[i]].made = "install" => Configs[i] \in fresh
        BY <2>1, <3>1 DEF Wired
      <3>3. QED
        BY <1>2, <2>2, <2>3, <2>6, <2>8, <3>2
    <2>9. QED
      BY <2>7, <2>8
  <1>6. QED
    BY <1>3, <1>4, <1>5, StageStep

\* Only an installation puts anything into a config file that has been cleared.
LEMMA ClearedStep ==
    ASSUME TypeInv, Next, ~EnsurePlugin, NEW g \in ConfigSet, Cleared(g)
    PROVE  Cleared(g)'
  <1>1. CASE cfgs' = cfgs
    BY <1>1 DEF Cleared
  <1>2. CASE cfgs' # cfgs
    <2>1. PICK f \in ConfigSet :
               /\ \A h \in ConfigSet : h # f => cfgs'[h] = cfgs[h]
               /\ cfgs[f] # None
               /\ cfgs'[f] # None =>
                      /\ cfgs'[f].made = cfgs[f].made
                      /\ ~cfgs'[f].entry \/ cfgs'[f].entry = cfgs[f].entry
                      /\ cfgs[f].plugins => cfgs'[f].plugins
      BY <1>2, ConfigStep
    <2>2. QED
      BY <2>1 DEF Cleared
  <1>3. QED
    BY <1>1, <1>2

\* Each step of an uninstallation leaves the config files behind it without the product.
LEMMA UnwiredStep ==
    ASSUME TypeInv, Licensed, Accounted, ArrayMade, Unwired, Removed, Next
    PROVE  Unwired'
  <1>1. cmd \in Cmds /\ Steps /\ Len(Configs) \in Nat
    BY FilesAssumption, LenProperties DEF TypeInv, CmdTyped
  <1> SUFFICES ASSUME NEW i \in 1..Len(Configs),
                      \/ /\ cmd'.name = "uninstall" /\ cmd'.pc \in {"stop", "config"}
                         /\ i > cmd'.step
                      \/ cmd'.name = "uninstall" /\ cmd'.pc \in {"path", "files", "rmtree"}
                      \/ Succeeded("uninstall", "none")'
               PROVE  Cleared(Configs[i])'
    BY DEF Unwired
  <1>2. Configs[i] \in ConfigSet
    BY DEF ConfigSet
  <1>3. ASSUME Cleared(Configs[i]), ~EnsurePlugin
        PROVE  Cleared(Configs[i])'
    BY <1>2, <1>3, ClearedStep
  <1>4. CASE Succeeded("uninstall", "none")'
    <2>1. CASE RemoveHome
      <3>1. Cleared(Configs[i])
        BY <2>1 DEF RemoveHome, At, Unwired
      <3>2. cfgs' = cfgs
        BY <2>1 DEF RemoveHome, userFiles
      <3>3. QED
        BY <3>1, <3>2 DEF Cleared
    <2>2. CASE Succeeded("uninstall", "none") /\ cmd = Idle
      BY <1>3, <2>2 DEF Unwired, EnsurePlugin, At, Idle
    <2>3. QED
      BY <1>4, <2>1, <2>2, ResultStep
  <1>5. CASE cmd' = cmd /\ ~Succeeded("uninstall", "none")'
    BY <1>3, <1>5 DEF Unwired, EnsurePlugin, At
  <1>6. CASE cmd' # cmd /\ ~Succeeded("uninstall", "none")'
    <2>1. Uninstall \/ UninstallStop \/ RemovePlugin \/ RemovePath \/ RemoveFiles
      BY <1>6, StageStep
    <2>2. CASE Uninstall
      <3>1. cmd'.step = Len(Configs) /\ cmd'.pc \in {"stop", "config"}
        BY <1>6, <2>2 DEF Uninstall, Idle
      <3>2. QED
        BY <1>1, <1>6, <3>1
    <2>3. CASE UninstallStop
      <3>1. cmd'.step = cmd.step /\ cmd'.pc = "config" /\ cmd.name = "uninstall" /\ cmd.pc = "stop"
        BY <1>1, <2>3 DEF UninstallStop, At, Goto, Cmds
      <3>2. QED
        BY <1>3, <1>6, <3>1 DEF Unwired, EnsurePlugin, At
    <2>4. CASE RemovePath \/ RemoveFiles
      <3>1. cmd.name = "uninstall" /\ cmd.pc \in {"path", "files"}
        BY <2>4 DEF RemovePath, RemoveFiles, At
      <3>2. QED
        BY <1>3, <3>1 DEF Unwired, EnsurePlugin, At
    <2>5. CASE RemovePlugin
      <3>1. cmd.name = "uninstall" /\ cmd.pc = "config" /\ cmd.step \in 1..Len(Configs) /\ Received
        BY <1>1, <2>5 DEF RemovePlugin, At, Steps, Licensed
      <3> DEFINE f == Configs[cmd.step]
      <3>2. ~Return(1)
        BY <1>6, <2>5 DEF Return, Idle
      <3>3. /\ cfgs' = [cfgs EXCEPT ![f] = IF @ = None THEN None ELSE Reversed(@, f \in receipt)]
            /\ cmd' = IF cmd.step > 1 THEN [cmd EXCEPT !.step = @ - 1]
                      ELSE [cmd EXCEPT !.pc = "path"]
        BY <2>5, <3>2 DEF RemovePlugin
      <3>4. i >= cmd.step
        BY <1>1, <1>6, <3>1, <3>3 DEF Cmds
      <3>5. f \in ConfigSet
        BY <3>1 DEF ConfigSet
      <3>6. CASE Configs[i] # f
        <4>1. i > cmd.step
          BY <1>1, <3>1, <3>4, <3>6
        <4>2. QED
          BY <1>3, <3>1, <4>1 DEF Unwired, EnsurePlugin, At
      <3>7. CASE Configs[i] = f
        <4>1. CASE cfgs[f] = None
          BY <3>3, <3>5, <3>7, <4>1 DEF Cleared, TypeInv, FilesTyped
        <4>2. CASE cfgs[f] # None
          <5>1. cfgs[f] \in ConfigFile
            BY <3>5, <4>2 DEF TypeInv, FilesTyped
          <5>2. cfgs'[f] = Reversed(cfgs[f], f \in receipt)
            BY <3>3, <3>5, <4>2 DEF TypeInv, FilesTyped
          <5>3. PICK rest : rest = [cfgs[f] EXCEPT !.entry = FALSE]
            OBVIOUS
          <5>4. ~rest.entry /\ rest.made = cfgs[f].made /\ rest.plugins = cfgs[f].plugins
                /\ rest.array = cfgs[f].array
            BY <5>1, <5>3 DEF ConfigFile
          <5>5. cfgs'[f] = IF f \in receipt /\ rest.array /\ ~rest.plugins THEN None ELSE rest
            BY <5>2, <5>3 DEF Reversed
          <5>6. cfgs[f].made = "install" => f \in receipt /\ cfgs[f].array
            BY <3>1, <3>5, <4>2 DEF Accounted, Ours, ArrayMade
          <5>7. QED
            BY <3>7, <5>4, <5>5, <5>6 DEF Cleared
        <4>3. QED
          BY <4>1, <4>2
      <3>8. QED
        BY <3>6, <3>7
    <2>6. QED
      BY <2>1, <2>2, <2>3, <2>4, <2>5
  <1>7. QED
    BY <1>4, <1>5, <1>6

\* Each step leaves the rc files with the marks of the installation alone.
LEMMA RcOursStep ==
    ASSUME TypeInv, RcOurs, TargetsOk, Next
    PROVE  RcOurs' /\ TargetsOk'
  <1>1. CmdTyped /\ FilesTyped /\ cmd \in Cmds
    BY DEF TypeInv, CmdTyped
  <1>2. RcOurs'
    <2>1. CASE rcs' = rcs
      BY <2>1 DEF RcOurs
    <2>2. CASE RemovePath
      <3> SUFFICES ASSUME NEW f \in RcFiles, rcs'[f] # None
                   PROVE  rcs'[f].text
        BY DEF RcOurs
      <3>1. rcs'[f] = Unblocked(rcs[f])
            /\ ~(f = "profile" /\ rcs[f] # None /\ ~Unblocked(rcs[f]).text
                 /\ \E g \in RcFiles : HasBlock(g))
        BY <2>2 DEF RemovePath
      <3>2. rcs[f] # None /\ rcs[f] \in RcFile
        BY <1>1, <3>1 DEF Unblocked, FilesTyped
      <3>3. Unblocked(rcs[f]).text = rcs[f].text
        BY <3>2 DEF Unblocked, RcFile
      <3>4. ~rcs[f].text => f = "profile" /\ HasBlock(f)
        BY <3>2 DEF RcOurs, HasBlock
      <3>5. QED
        BY <3>1, <3>2, <3>3, <3>4
    <2>3. CASE rcs' # rcs /\ ~RemovePath
      <3>1. PICK f \in RcFiles :
                  /\ \A g \in RcFiles : g # f => rcs'[g] = rcs[g]
                  /\ rcs'[f] # None
                  /\ \/ /\ PersistPath /\ f \in cmd.todo
                        /\ rcs'[f].block
                        /\ rcs[f] # None => rcs'[f].text = rcs[f].text
                     \/ UserEdits /\ rcs'[f].text
        BY <2>3, RcStep
      <3>2. PersistPath /\ f \in cmd.todo /\ rcs[f] = None => f = "profile"
        BY DEF PersistPath, At, TargetsOk
      <3>3. QED
        BY <3>1, <3>2 DEF RcOurs
    <2>4. QED
      BY <2>1, <2>2, <2>3
  <1>3. ASSUME NEW f \in RcFiles, rcs[f] # None, ~RemovePath
        PROVE  rcs'[f] # None
    <2>1. CASE rcs' = rcs
      BY <1>3, <2>1
    <2>2. CASE rcs' # rcs
      BY <1>3, <2>2, RcStep
    <2>3. QED
      BY <2>1, <2>2
  <1>4. TargetsOk'
    <2> SUFFICES ASSUME cmd'.name = "install", cmd'.pc = "path", NEW f \in cmd'.todo
                 PROVE  f = "profile" \/ rcs'[f] # None
      BY DEF TargetsOk
    <2>1. CASE cmd' = cmd
      <3>1. f \in RcFiles /\ (f = "profile" \/ rcs[f] # None) /\ ~RemovePath
        BY <1>1, <2>1 DEF TargetsOk, Cmds, RemovePath, At
      <3>2. QED
        BY <1>3, <3>1
    <2>2. CASE PlaceShim
      <3>1. cmd'.todo = RcTargets /\ UNCHANGED rcs
        BY <2>2 DEF PlaceShim, Idle
      <3>2. QED
        BY <3>1 DEF RcTargets
    <2>3. CASE PersistPath
      <3>0. PICK h \in cmd.todo :
                IF cmd.todo = {h} THEN cmd' = [cmd EXCEPT !.pc = "config", !.todo = {}, !.step = 1]
                ELSE cmd' = [cmd EXCEPT !.todo = @ \ {h}]
        BY <2>3 DEF PersistPath
      <3>0a. cmd.todo # {h}
        BY <1>1, <3>0 DEF Cmds
      <3>1. f \in cmd.todo /\ cmd.name = "install" /\ cmd.pc = "path"
        BY <1>1, <2>3, <3>0, <3>0a DEF PersistPath, At, Cmds
      <3>2. f \in RcFiles /\ ~RemovePath
        BY <1>1, <3>1 DEF Cmds, RemovePath, At
      <3>3. QED
        BY <1>3, <3>1, <3>2 DEF TargetsOk
    <2>4. QED
      BY <2>1, <2>2, <2>3, StageStep
  <1>5. QED
    BY <1>2, <1>4

\* Cleared rc files stay cleared until the next installation.
LEMMA RemovedStep ==
    ASSUME TypeInv, RcOurs, RcOurs', Removed, Next
    PROVE  Removed'
  <1>1. CmdTyped /\ FilesTyped /\ cmd \in Cmds
    BY DEF TypeInv, CmdTyped
  <1> DEFINE Bare(g) == IF rcs[g] = None THEN TRUE ELSE rcs[g].text /\ ~rcs[g].block
  <1>2. ASSUME \A g \in RcFiles : Bare(g), ~PersistPath, ~RemovePath
        PROVE  (\A g \in RcFiles : Bare(g))'
    <2>1. CASE rcs' = rcs
      BY <1>2, <2>1
    <2>2. CASE rcs' # rcs
      <3>1. PICK f \in RcFiles :
                  /\ \A g \in RcFiles : g # f => rcs'[g] = rcs[g]
                  /\ rcs'[f] # None /\ rcs'[f].text
                  /\ IF rcs[f] = None THEN ~rcs'[f].block ELSE rcs'[f].block = rcs[f].block
        BY <1>2, <2>2, RcStep
      <3>2. QED
        BY <1>2, <3>1
    <2>3. QED
      BY <2>1, <2>2
  <1>3. RemovePath => (\A g \in RcFiles : Bare(g))'
    <2> SUFFICES ASSUME RemovePath, NEW g \in RcFiles, rcs'[g] # None
                 PROVE  rcs'[g].text /\ ~rcs'[g].block
      OBVIOUS
    <2>1. rcs'[g] = Unblocked(rcs[g]) /\ rcs[g] # None
      BY DEF RemovePath, Unblocked
    <2>2. rcs[g] \in RcFile
      BY <1>1, <2>1 DEF FilesTyped
    <2>3. ~rcs'[g].block
      BY <2>1, <2>2 DEF Unblocked, RcFile
    <2>4. rcs'[g].text
      BY <2>3 DEF RcOurs
    <2>5. QED
      BY <2>3, <2>4
  <1>4. ASSUME cmd'.name = "uninstall", cmd'.pc \in {"files", "rmtree"}, cmd' # cmd
        PROVE  \/ RemovePath /\ cmd'.pc = "files"
               \/ RemoveFiles /\ cmd.name = "uninstall" /\ cmd.pc = "files"
    <2>1. Uninstall => cmd'.pc \in {"stop", "config"}
      BY <1>4 DEF Uninstall, Idle
    <2>2. UninstallStop => cmd'.pc = "config"
      BY <1>1 DEF UninstallStop, Goto, Cmds
    <2>3. RemovePlugin => cmd'.pc \in {"config", "path", "idle"}
      BY <1>1 DEF RemovePlugin, At, Return, Idle, Cmds
    <2>4. RemovePath => cmd'.pc = "files"
      BY <1>1 DEF RemovePath, Goto, Cmds
    <2>5. RemoveFiles => cmd.name = "uninstall" /\ cmd.pc = "files"
      BY DEF RemoveFiles, At
    <2>6. QED
      BY <1>4, <2>1, <2>2, <2>3, <2>4, <2>5, StageStep
  <1>5. ASSUME Succeeded("uninstall", "none")'
        PROVE  /\ (\A g \in RcFiles : Bare(g))'
               /\ ~shim' /\ envs'["bundled"] = None
               /\ parts' = {} /\ cluster' = None /\ cmd' = Idle
    <2>1. CASE RemoveHome
      <3>1. UNCHANGED <<rcs, shim, envs>> /\ parts' = {} /\ cluster' = None /\ cmd' = Idle
        BY <2>1 DEF RemoveHome, userFiles, Return
      <3>2. /\ \A g \in RcFiles : Bare(g)
            /\ ~shim /\ envs["bundled"] = None
        BY <2>1 DEF RemoveHome, At, Removed
      <3>3. QED
        BY <3>1, <3>2
    <2>2. CASE /\ Succeeded("uninstall", "none") /\ cmd = Idle /\ cmd' = cmd
               /\ UNCHANGED <<parts, cluster, envs, shim>>
      <3>1. ~PersistPath /\ ~RemovePath
        BY <2>2 DEF PersistPath, RemovePath, At, Idle
      <3>2. \A g \in RcFiles : Bare(g)
        BY <2>2 DEF Removed
      <3>3. (\A g \in RcFiles : Bare(g))'
        BY <1>2, <3>1, <3>2
      <3>4. QED
        BY <2>2, <3>3 DEF Removed
    <2>3. QED
      BY <1>5, <2>1, <2>2, ResultStep
  <1>6. ASSUME cmd'.name = "uninstall", cmd'.pc \in {"files", "rmtree"}
        PROVE  (\A g \in RcFiles : Bare(g))'
    <2>1. CASE RemovePath
      BY <1>3, <2>1
    <2>2. CASE ~RemovePath
      <3>1. cmd.name = "uninstall" /\ cmd.pc \in {"files", "rmtree"}
        BY <1>4, <1>6, <2>2
      <3>2. \A g \in RcFiles : Bare(g)
        BY <3>1 DEF Removed
      <3>3. ~PersistPath
        BY <3>1 DEF PersistPath, At
      <3>4. QED
        BY <1>2, <2>2, <3>2, <3>3
    <2>3. QED
      BY <2>1, <2>2
  <1>7. ASSUME cmd'.name = "uninstall", cmd'.pc = "rmtree"
        PROVE  ~shim' /\ envs'["bundled"] = None
    <2>1. CASE RemoveFiles
      BY <1>1, <2>1 DEF RemoveFiles, TypeInv, EnvsTyped, Candidates
    <2>2. CASE ~RemoveFiles
      <3>1. cmd' = cmd
        BY <1>4, <1>7, <2>2
      <3>2. ~shim /\ envs["bundled"] = None
        BY <1>7, <3>1 DEF Removed
      <3>3. ~PlaceShim /\ ~(EnvUnlink \/ EnvCreate \/ EnvFill)
        BY <1>7, <3>1 DEF PlaceShim, At, EnvUnlink, EnvCreate, EnvFill, WriteEnv
      <3>4. UNCHANGED shim
        BY <2>2, <3>3 DEF Next, InstallStep, installVars, Place, InstallPost, Uninstall, PlacePart,
             PersistPath, EnsurePlugin, SaveReceipt, UninstallStop, RemovePlugin, RemovePath,
             RemoveHome, Killed, UserEdits, userFiles
      <3>5. UNCHANGED envs
        <4>1. CASE DbCommand \/ DbStep \/ Machine
          BY <3>3, <4>1 DEF DbCommand, Up, Down, DbStep, EnsureEnv, EmbeddedPort, Initdb, Start, Ready,
               EnsureDatabase, ComposeGuards, ComposeUp, ComposeReadiness, Connect, SchemaStep,
               StopEmbedded, PurgeData, StopCompose, Machine, Crash, ServerBoots, OrphanEnds,
               ServerDies, ForeignListens, disk
        <4>2. CASE InstallStep
          BY <2>2, <4>2 DEF InstallStep, PlacePart, PlaceShim, PersistPath, EnsurePlugin, SaveReceipt,
               UninstallStop, RemovePlugin, RemovePath, RemoveHome, dbFiles, disk
        <4>3. QED
          BY <4>1, <4>2 DEF Next, Place, InstallPost, Uninstall, UserEdits, Killed, dbFiles
      <3>6. QED
        BY <3>2, <3>4, <3>5
    <2>3. QED
      BY <2>1, <2>2
  <1>8. QED
    BY <1>5, <1>6, <1>7 DEF Removed

\* Nothing is left to undo before the first command.
LEMMA UndoInit == Init => UndoInv
  <1> SUFFICES ASSUME Init PROVE UndoInv
    OBVIOUS
  <1>1. PICK m \in Machines : DbInit(m) /\ rcs = m.rcs /\ cfgs = m.cfgs /\ receipt = None
    BY DEF Init
  <1>2. cmd.name = "none" /\ cmd.pc = "idle" /\ ~Succeeded("uninstall", "none")
    BY <1>1 DEF DbInit, Idle, Succeeded, NoResult
  <1>3. /\ \A f \in RcFiles : rcs[f] # None => rcs[f].text
        /\ \A f \in ConfigSet : cfgs[f] # None => cfgs[f].made = "user"
    BY <1>1, FilesAssumption
  <1>4. Accounted /\ ArrayMade /\ RcOurs
    BY <1>1, <1>3 DEF Accounted, Received, ArrayMade, RcOurs
  <1>5. Wired /\ Unwired /\ TargetsOk /\ Removed
    BY <1>2 DEF Wired, Unwired, TargetsOk, Removed
  <1>6. QED
    BY <1>4, <1>5 DEF UndoInv

\* Each step keeps what an uninstallation needs to undo the installation.
LEMMA UndoStep ==
    ASSUME TypeInv, UserInv, UndoInv, Next
    PROVE  UndoInv'
BY AccountedStep, WiredStep, UnwiredStep, RcOursStep, RemovedStep DEF UndoInv, UserInv

\* A step that changes nothing keeps all of it.
LEMMA Stutter ==
    ASSUME TypeInv, HeldInv, UserInv, UNCHANGED vars
    PROVE  TypeInv' /\ HeldInv' /\ UserInv'
  <1>1. UNCHANGED <<cmd, envs, cluster, volume, container, cut, rcs, cfgs, receipt, fresh, wrote>>
    BY DEF vars, dbVars, installVars
  <1>2. TypeInv'
    BY <1>1 DEF TypeInv, FilesTyped, EnvsTyped, DataTyped, CmdTyped, Where, Steps
  <1>3. HeldInv'
    BY <1>1 DEF HeldInv, Held, Filled, Based, Swept, PasswordStands, Password, Dropping, Values, At
  <1>4. UserInv'
    BY <1>1 DEF UserInv, WroteTyped, Licensed, Spared, TextStays, PluginsStay, KeysStay, Received
  <1>5. QED
    BY <1>2, <1>3, <1>4

\* What the installer and the database commands keep true: every variable has its shape and
\* every command stands where it can, passwords are in files or in hand, and what the user
\* put into his files is in them.
THEOREM Inductive == Spec => [](TypeInv /\ HeldInv /\ UserInv)
  <1>1. Init => TypeInv /\ HeldInv /\ UserInv
    BY TypeInit, HeldInit, UserInit
  <1>2. ASSUME TypeInv, HeldInv, UserInv, Next
        PROVE  TypeInv' /\ HeldInv' /\ UserInv'
    <2>1. TypeInv'
      BY <1>2, CmdStepTyped, FilesStepTyped, EnvsStepTyped, DataStepTyped DEF TypeInv, HeldInv
    <2>2. HeldInv' /\ UserInv'
      BY <1>2, <2>1, HeldStep, UserStep
    <2>3. QED
      BY <2>1, <2>2
  <1>3. TypeInv /\ HeldInv /\ UserInv /\ [Next]_vars => (TypeInv /\ HeldInv /\ UserInv)'
    BY <1>2, Stutter
  <1>4. QED
    BY <1>1, <1>3, PTL DEF Spec

\* The password a database was created with stays in its env file or with the command that
\* writes it again (hr/config_resources.py, write_db_env_file; hr/db_embedded.py, ensure_env),
\* but for a kill inside that write and a self-uninstall beside a compose volume.
THEOREM PasswordKept == Spec => []PasswordStands
  <1>1. HeldInv => PasswordStands
    BY DEF HeldInv
  <1>2. QED
    BY <1>1, Inductive, PTL

\* No command takes away what the user has in his shell and opencode files
\* (hr/lifecycle_uninstall.py, _reverse; hr/setup_env.py, remove_posix).
THEOREM UserKept == Spec => []UserContentKept
  <1>1. UserInv => UserContentKept
    <2> SUFFICES ASSUME UserInv, NEW w \in wrote
                 PROVE  CASE w[2] = "text"    -> rcs[w[1]] # None /\ rcs[w[1]].text
                          [] w[2] = "plugins" -> cfgs[w[1]] # None /\ cfgs[w[1]].plugins
                          [] w[2] = "keys"    -> cfgs[w[1]] # None /\ cfgs[w[1]].keys
                          [] OTHER            -> TRUE
      BY DEF UserContentKept
    <2>1. \/ \E f \in RcFiles : w = <<f, "text">>
          \/ \E f \in ConfigSet, k \in {"plugins", "keys", "settings"} : w = <<f, k>>
      BY DEF UserInv, WroteTyped
    <2>2. QED
      BY <2>1 DEF UserInv, TextStays, PluginsStay, KeysStay
  <1>2. QED
    BY <1>1, Inductive, PTL

\* The same for what an uninstallation needs: the receipt knows the files that were missing.
THEOREM UndoInductive == Spec => []UndoInv
  <1>1. UNCHANGED vars /\ UndoInv => UndoInv'
    <2> SUFFICES ASSUME UNCHANGED vars, UndoInv
                 PROVE  UndoInv'
      OBVIOUS
    <2>1. UNCHANGED <<cmd, result, parts, envs, cluster, shim, rcs, cfgs, receipt, fresh>>
      BY DEF vars, dbVars, installVars
    <2>2. Accounted' /\ ArrayMade' /\ Wired'
      BY <2>1 DEF UndoInv, Accounted, Received, Ours, ArrayMade, Wired
    <2>3. Unwired' /\ RcOurs' /\ TargetsOk' /\ Removed'
      BY <2>1 DEF UndoInv, Unwired, Succeeded, Cleared, RcOurs, TargetsOk, Removed
    <2>4. QED
      BY <2>2, <2>3 DEF UndoInv
  <1>2. TypeInv /\ UserInv /\ UndoInv /\ [Next]_vars => UndoInv'
    BY <1>1, UndoStep
  <1>3. QED
    BY <1>2, UndoInit, Inductive, PTL DEF Spec

\* A self-uninstall that reports success has taken away everything an installation put on
\* the machine (hr/lifecycle_uninstall.py, self_uninstall), config files it made among them.
THEOREM UninstallComplete == Spec => []UninstallUndoes
  <1>1. UndoInv => UninstallUndoes
    <2> SUFFICES ASSUME UndoInv, Succeeded("uninstall", "none")
                 PROVE  /\ parts = {} /\ cluster = None /\ ~shim /\ envs["bundled"] = None
                        /\ \A f \in RcFiles : rcs[f] # None => rcs[f].text /\ ~rcs[f].block
                        /\ \A f \in ConfigSet : cfgs[f] # None =>
                               ~cfgs[f].entry /\ (cfgs[f].made = "install" => cfgs[f].plugins)
      BY DEF UninstallUndoes
    <2>1. /\ parts = {} /\ cluster = None /\ ~shim /\ envs["bundled"] = None
          /\ \A f \in RcFiles : rcs[f] # None => rcs[f].text /\ ~rcs[f].block
      BY DEF UndoInv, Removed
    <2>2. \A i \in 1..Len(Configs) : Cleared(Configs[i])
      BY DEF UndoInv, Unwired
    <2>3. \A f \in ConfigSet : Cleared(f)
      BY <2>2 DEF ConfigSet
    <2>4. QED
      BY <2>1, <2>3 DEF Cleared
  <1>2. QED
    BY <1>1, UndoInductive, PTL

-----------------------------------------------------------------------------
(* A db-up that succeeds has set up its own database *)

\* The machine beside a command.
Beside ==
    /\ cmd' = cmd /\ UNCHANGED disk
    /\ container' = container \/ (container.st = "running" /\ container' = [container EXCEPT !.st = "exited"])
    /\ \/ server' \in {server, None}
       \/ server # None /\ server' = [server EXCEPT !.up = TRUE]

\* What takes place while db-up runs.
LEMMA UpStep ==
    ASSUME TypeInv, Next, cmd'.name = "up"
    PROVE  \/ \E p \in Ports \cup {None}, force \in BOOLEAN : Up(p, force) /\ cmd' # cmd
           \/ cmd.name = "up" /\ cmd'.lane = cmd.lane /\ DbStep
           \/ Beside
  <1>1. cmd \in Cmds /\ Where
    BY DEF TypeInv, CmdTyped
  <1>2. cmd' # Idle
    BY DEF Idle
  <1>3. CASE DbStep
    <2>1. cmd.name = "up"
      BY <1>3, NameStep
    <2>2. CASE EnsureEnv \/ EnvUnlink \/ EnvCreate \/ EnvFill
      BY <1>3, <2>1, <2>2, EnvStepTyped
    <2>3. CASE Connect
      BY <1>2, <1>3, <2>1, <2>3 DEF Connect, Return, Idle
    <2>4. CASE SchemaStep
      BY <1>1, <1>2, <1>3, <2>1, <2>4 DEF SchemaStep, Return, Cmds
    <2>5. CASE \E pc : Goto(pc)
      BY <1>1, <1>3, <2>1, <2>5 DEF Goto, Cmds
    <2>6. QED
      BY <1>2, <1>3, <2>2, <2>3, <2>4, <2>5
         DEF DbStep, EmbeddedPort, Initdb, Start, Ready, EnsureDatabase, ComposeGuards, ComposeUp,
             ComposeReadiness, StopEmbedded, PurgeData, StopCompose, Return
  <1>4. CASE InstallStep
    <2>1. cmd.name \in {"place", "install", "uninstall"}
      BY <1>4 DEF InstallStep, PlacePart, PlaceShim, PersistPath, EnsurePlugin, SaveReceipt,
           UninstallStop, RemovePlugin, RemovePath, RemoveFiles, RemoveHome, At
    <2>2. QED
      BY <1>4, <2>1, NameStep
  <1>5. CASE ServerBoots \/ OrphanEnds \/ ServerDies \/ ForeignListens
    BY <1>5 DEF ServerBoots, OrphanEnds, ServerDies, ForeignListens, Beside
  <1>6. CASE Crash \/ Killed
    BY <1>2, <1>6 DEF Crash, Killed
  <1>7. CASE UserEdits
    BY <1>7 DEF UserEdits, Beside, dbFiles, disk
  <1>8. CASE DbCommand
    <2>1. CASE \E p \in Ports \cup {None}, force \in BOOLEAN : Up(p, force)
      <3>1. PICK p \in Ports \cup {None}, force \in BOOLEAN : Up(p, force)
        BY <2>1
      <3>2. cmd' # cmd
        BY <3>1 DEF Up, Idle
      <3>3. QED
        BY <3>1, <3>2
    <2>2. CASE \E purge \in BOOLEAN : Down(purge)
      <3>1. PICK purge \in BOOLEAN : Down(purge)
        BY <2>2
      <3> DEFINE name == IF purge THEN "purge" ELSE "down"
      <3>2. cmd' = cmd \/ cmd' = [Idle EXCEPT !.name = name, !.pc = "stop", !.lane = DownLane]
        BY <3>1 DEF Down
      <3>3. name # "up" /\ cmd.name = "none"
        BY <3>1 DEF Down, Idle
      <3> HIDE DEF name
      <3>4. cmd'.name \in {"none", name}
        BY <3>2, <3>3 DEF Idle
      <3>5. QED
        BY <3>3, <3>4
    <2>3. QED
      BY <1>8, <2>1, <2>2 DEF DbCommand
  <1>9. CASE \E reinstall \in BOOLEAN : Place(reinstall)
    BY <1>9 DEF Place, Idle
  <1>10. CASE \E p \in Ports \cup {None} : InstallPost(p)
    <2>1. cmd = Idle /\ (cmd' = cmd \/ cmd'.name = "install")
      BY <1>10 DEF InstallPost, Idle
    <2>2. QED
      BY <1>2, <2>1
  <1>11. CASE Uninstall
    <2>1. cmd = Idle /\ (cmd' = cmd \/ cmd'.name = "uninstall")
      BY <1>11 DEF Uninstall, Idle
    <2>2. QED
      BY <1>2, <2>1
  <1>12. QED
    BY <1>3, <1>4, <1>5, <1>6, <1>7, <1>8, <1>9, <1>10, <1>11 DEF Next, Machine

\* No step changes what the machine is.
LEMMA HostStays ==
    ASSUME Next
    PROVE  host' = host
  <1>1. CASE DbCommand \/ DbStep \/ Machine
    BY <1>1 DEF DbCommand, Up, Down, DbStep, EnsureEnv, EnvUnlink, EnvCreate, EnvFill, WriteEnv,
         EmbeddedPort, Initdb, Start, Ready, EnsureDatabase, ComposeGuards, ComposeUp, ComposeReadiness,
         Connect, SchemaStep, StopEmbedded, PurgeData, StopCompose, Machine, Crash, ServerBoots,
         OrphanEnds, ServerDies, ForeignListens, disk
  <1>2. CASE InstallStep
    BY <1>2 DEF InstallStep, PlacePart, PlaceShim, PersistPath, EnsurePlugin, SaveReceipt,
         UninstallStop, RemovePlugin, RemovePath, RemoveFiles, RemoveHome, dbFiles, disk
  <1>3. QED
    BY <1>1, <1>2 DEF Next, Place, InstallPost, Uninstall, UserEdits, Killed, dbFiles

\* Each step leaves containers and commands where they belong.
LEMMA PlacementStep ==
    ASSUME TypeInv, Placement, Next
    PROVE  Placement'
  <1>1. DataTyped /\ cmd \in Cmds
    BY DEF TypeInv, CmdTyped
  <1>2. ComposeReady' = ComposeReady
    BY HostStays DEF ComposeReady
  <1>3. CASE UNCHANGED <<server, container>> /\ cmd'.name # "up"
    BY <1>2, <1>3 DEF Placement
  <1>4. server' \in [port : Ports \cup {None}, up : BOOLEAN] \cup {None}
    <2> DEFINE Servers == [port : Ports \cup {None}, up : BOOLEAN]
    <2>1. CASE server' \in {server, None}
      BY <2>1 DEF Placement
    <2>2. CASE Start
      <3>1. PICK up \in BOOLEAN : server' = server \/ server' = [port |-> cmd.port, up |-> up]
        BY <2>2 DEF Start
      <3>2. cmd.port \in Ports \cup {None}
        BY <1>1 DEF Cmds
      <3>3. QED
        BY <2>1, <3>1, <3>2
    <2>3. CASE ServerBoots
      BY <2>3 DEF ServerBoots, Placement
    <2>4. CASE DbCommand \/ (DbStep /\ ~Start) \/ (Machine /\ ~ServerBoots)
      <3>1. server' \in {server, None}
        BY <2>4 DEF DbCommand, Up, Down, DbStep, EnsureEnv, EnvUnlink, EnvCreate, EnvFill, WriteEnv,
           EmbeddedPort, Initdb, Ready, EnsureDatabase, ComposeGuards, ComposeUp, ComposeReadiness,
           Connect, SchemaStep, StopEmbedded, PgStop, PurgeData, StopCompose, Machine, Crash,
           OrphanEnds, ServerDies, ForeignListens
      <3>2. QED
        BY <2>1, <3>1
    <2>5. CASE InstallStep
      <3>1. server' \in {server, None}
        BY <2>5 DEF InstallStep, PlacePart, PlaceShim, PersistPath, EnsurePlugin, SaveReceipt,
           UninstallStop, PgStop, RemovePlugin, RemovePath, RemoveFiles, RemoveHome, dbFiles
      <3>2. QED
        BY <2>1, <3>1
    <2>6. CASE UNCHANGED dbFiles \/ Killed
      BY <2>1, <2>6 DEF dbFiles, Killed
    <2>7. QED
      BY <2>2, <2>3, <2>4, <2>5, <2>6 DEF Next, Place, InstallPost, Uninstall, UserEdits
  <1>5. container'.st = "absent" \/ (container.st # "absent" /\ container'.st = "exited")
        \/ container' = container \/ ComposeUp
    <2>1. CASE StopCompose
      BY <1>1, <2>1 DEF StopCompose, DataTyped, Containers
    <2>2. CASE ServerDies
      BY <1>1, <2>2 DEF ServerDies, DataTyped, Containers
    <2>3. CASE DbCommand \/ (DbStep /\ ~StopCompose /\ ~ComposeUp) \/ (Machine /\ ~ServerDies)
      BY <2>3 DEF DbCommand, Up, Down, DbStep, EnsureEnv, EnvUnlink, EnvCreate, EnvFill, WriteEnv,
         EmbeddedPort, Initdb, Start, Ready, EnsureDatabase, ComposeGuards, ComposeReadiness,
         Connect, SchemaStep, StopEmbedded, PurgeData, Machine, Crash, ServerBoots,
         OrphanEnds, ForeignListens
    <2>4. CASE InstallStep
      BY <2>4 DEF InstallStep, PlacePart, PlaceShim, PersistPath, EnsurePlugin, SaveReceipt,
         UninstallStop, RemovePlugin, RemovePath, RemoveFiles, RemoveHome, dbFiles
    <2>5. QED
      BY <2>1, <2>2, <2>3, <2>4 DEF Next, Place, InstallPost, Uninstall, UserEdits, Killed, dbFiles
  <1>6. (container.st # "absent" => ComposeReady)'
    <2>1. ComposeUp => ComposeReady
      BY DEF ComposeUp, InLane, At, Placement
    <2>2. QED
      BY <1>2, <1>5, <2>1 DEF Placement
  <1>7. ASSUME cmd'.name = "up"
        PROVE  /\ cmd'.lane = "compose" => ComposeReady
               /\ cmd'.lane = "embedded" => container'.st = "absent"
    <2>1. CASE \E p \in Ports \cup {None}, force \in BOOLEAN : Up(p, force) /\ cmd' # cmd
      <3>1. PICK p \in Ports \cup {None}, force \in BOOLEAN : Up(p, force) /\ cmd' # cmd
        BY <2>1
      <3> DEFINE forced == force /\ UpLane(p) = "compose"
      <3>2. /\ cmd' = [Idle EXCEPT !.name = "up", !.pc = "env", !.lane = UpLane(p), !.arg = p,
                                   !.force = forced]
            /\ container' = container
        BY <3>1 DEF Up
      <3> HIDE DEF forced
      <3>3. cmd'.lane = UpLane(p)
        BY <3>2 DEF Idle
      <3>4. QED
        BY <3>2, <3>3 DEF UpLane, Placement
    <2>2. CASE cmd.name = "up" /\ cmd'.lane = cmd.lane /\ DbStep
      <3>1. ComposeUp => cmd.lane = "compose"
        BY DEF ComposeUp, InLane
      <3>2. QED
        BY <1>5, <2>2, <3>1 DEF Placement
    <2>3. CASE Beside
      <3>1. container.st = "absent" => container'.st = "absent"
        BY <2>3 DEF Beside
      <3>2. QED
        BY <1>7, <2>3, <3>1 DEF Beside, Placement
    <2>4. QED
      BY <1>7, <2>1, <2>2, <2>3, UpStep
  <1>8. QED
    BY <1>2, <1>4, <1>6, <1>7 DEF Placement

\* A db-up of the compose backend has the env file db_dsn finds, to its end.
LEMMA DiscoveredStep ==
    ASSUME TypeInv, Placement, Discovered, Next
    PROVE  Discovered'
  <1>1. cmd \in Cmds /\ EnvsTyped /\ Where
    BY DEF TypeInv, CmdTyped
  <1> SUFFICES ASSUME cmd'.name = "up", cmd'.lane = "compose"
               PROVE  /\ cmd'.pc \in {"unlink", "create", "fill", "port", "compose", "ready", "connect"}
                             => Found(cmd.file)' /\ cmd'.port \in Ports
                      /\ cmd'.pc \in {"port", "compose", "ready", "connect"}
                             => /\ envs'[cmd'.file] # None
                                /\ cmd'.port = PortOr(envs'[cmd'.file].port, DefaultPort)
                      /\ cmd'.pc \in {"ready", "connect"} => ServerPort' # cmd'.port
    BY DEF Discovered
  <1>2. CASE \E p \in Ports \cup {None}, force \in BOOLEAN : Up(p, force) /\ cmd' # cmd
    <2>1. PICK p \in Ports \cup {None}, force \in BOOLEAN : Up(p, force) /\ cmd' # cmd
      BY <1>2
    <2> DEFINE forced == force /\ UpLane(p) = "compose"
    <2>2. cmd' = [Idle EXCEPT !.name = "up", !.pc = "env", !.lane = UpLane(p), !.arg = p,
                              !.force = forced]
      BY <2>1 DEF Up
    <2> HIDE DEF forced
    <2>3. cmd'.pc = "env"
      BY <2>2 DEF Idle
    <2>4. QED
      BY <2>3
  <1>3. CASE Beside
    <2>1. /\ cmd' = cmd /\ envs' = envs
      BY <1>3 DEF Beside, disk
    <2>2. ServerPort' \in {ServerPort, None}
      BY <1>3 DEF Beside, ServerPort, Placement
    <2>3. QED
      BY <2>1, <2>2, PortsAssumption DEF Discovered, Found
  <1>4. CASE cmd.name = "up" /\ cmd'.lane = cmd.lane /\ DbStep
    <2>1. CASE EnsureEnv
      <3> DEFINE f == EnvFileOf(cmd.lane)
                 old == Values(f)
                 p == PortOr(cmd.arg, PortOr(old.port, DefaultPort))
      <3>1. f \in Candidates /\ old \in EnvFiles /\ Found(f)
        BY <1>1, <1>4, EnvFileTyped, NoneAssumption
           DEF EnvsTyped, Values, EmptyFile, EnvFiles, EnvFileOf, DbEnvFileForWrite, DbEnvFile, Found,
               Candidates
      <3>2. p \in Ports
        BY <1>1, <3>1, PortsAssumption DEF PortOr, Cmds, EnvFiles
      <3>3. cmd.arg \in {None, old.port} => p = PortOr(old.port, DefaultPort)
        BY DEF PortOr
      <3>4. envs' = envs /\ AfterEnv = "port"
        BY <1>4, <2>1 DEF EnsureEnv, disk, AfterEnv
      <3>5. \/ /\ old.pw # None /\ cmd.arg \in {None, old.port}
               /\ cmd' = [cmd EXCEPT !.pc = "port", !.file = f, !.port = p, !.arg = None]
            \/ \E pw \in Passwords, pc \in {"create", "unlink"} :
                   cmd' = [cmd EXCEPT !.pc = pc, !.file = f, !.port = p, !.arg = None, !.pw = pw]
        BY <2>1, <3>1, <3>4 DEF EnsureEnv, EnvFiles
      <3> HIDE DEF p, f
      <3>6. cmd'.file = f /\ cmd'.port = p /\ (cmd'.pc \in {"create", "unlink"} \/
                 (cmd'.pc = "port" /\ old.pw # None /\ p = PortOr(old.port, DefaultPort)))
        BY <1>1, <3>3, <3>5 DEF Cmds
      <3>7. old.pw # None => envs[f] # None /\ envs[f] = old
        BY DEF Values, EmptyFile
      <3>8. QED
        BY <3>1, <3>2, <3>4, <3>6, <3>7 DEF Found
    <2>2. CASE EnvUnlink \/ EnvCreate
      <3>1. PICK value \in {None, EmptyFile}, pc \in {"create", "fill"} :
                envs' = [envs EXCEPT ![cmd.file] = value] /\ cmd' = [cmd EXCEPT !.pc = pc]
        <4>1. CASE EnvUnlink
          <5>1. /\ envs' = [envs EXCEPT ![cmd.file] = None]
                /\ cmd' = [cmd EXCEPT !.pc = "create", !.pw = cmd.pw]
            BY <4>1 DEF EnvUnlink, WriteEnv
          <5>2. QED
            BY <1>1, <5>1 DEF Cmds
        <4>2. CASE EnvCreate
          <5>1. /\ envs' = [envs EXCEPT ![cmd.file] = EmptyFile]
                /\ cmd' = [cmd EXCEPT !.pc = "fill", !.pw = cmd.pw]
            BY <4>2 DEF EnvCreate, WriteEnv
          <5>2. QED
            BY <1>1, <5>1 DEF Cmds
        <4>3. QED
          BY <2>2, <4>1, <4>2
      <3>2. /\ cmd'.pc = pc /\ cmd'.file = cmd.file /\ cmd'.port = cmd.port
        BY <1>1, <3>1 DEF Cmds
      <3>3. Found(cmd.file) /\ cmd.port \in Ports
        BY <1>4, <2>2 DEF Discovered, EnvUnlink, EnvCreate, WriteEnv
      <3>4. \A g \in Candidates : g # cmd.file => envs'[g] = envs[g]
        BY <1>1, <3>1 DEF EnvsTyped
      <3>5. QED
        BY <3>2, <3>3, <3>4 DEF Found, Candidates
    <2>3. CASE EnvFill
      <3>1. /\ envs' = [envs EXCEPT ![cmd.file] = [pw |-> cmd.pw, port |-> cmd.port]]
            /\ cmd' = [cmd EXCEPT !.pc = "port", !.pw = None] /\ cmd.pc = "fill"
        BY <1>4, <2>3 DEF EnvFill, WriteEnv, AfterEnv
      <3>2. /\ cmd'.pc = "port" /\ cmd'.file = cmd.file /\ cmd'.port = cmd.port
        BY <1>1, <3>1 DEF Cmds
      <3>3. Found(cmd.file) /\ cmd.port \in Ports /\ cmd.file \in Candidates
        BY <1>1, <1>4, <3>1 DEF Discovered, Cmds
      <3>4. \A g \in Candidates : g # cmd.file => envs'[g] = envs[g]
        BY <1>1, <3>1 DEF EnvsTyped
      <3>5. PICK new : new = [pw |-> cmd.pw, port |-> cmd.port]
        OBVIOUS
      <3>6. new \in EnvFiles /\ new # None /\ new.port = cmd.port /\ envs'[cmd.file] = new
        BY <1>1, <3>1, <3>3, <3>5, NoneAssumption DEF EnvFiles, Cmds, EnvsTyped
      <3>7. QED
        BY <3>2, <3>3, <3>4, <3>6, PortsAssumption DEF Found, Candidates, PortOr
    <2>4. CASE ComposeGuards \/ ComposeUp \/ ComposeReadiness
      <3>1. \/ ComposeGuards /\ cmd' = [cmd EXCEPT !.pc = "compose"] /\ cmd.pc = "port"
            \/ /\ ComposeUp /\ cmd' = [cmd EXCEPT !.pc = "ready"] /\ cmd.pc = "compose"
               /\ cmd.port # ServerPort
            \/ ComposeReadiness /\ cmd' = [cmd EXCEPT !.pc = "connect"] /\ cmd.pc = "ready"
        <4>1. ~Return(1)
          BY DEF Return, Idle
        <4>2. CASE ComposeGuards
          BY <4>1, <4>2 DEF ComposeGuards, Goto, InLane, At
        <4>3. CASE ComposeUp
          BY <4>1, <4>3 DEF ComposeUp, Goto, InLane, At
        <4>4. CASE ComposeReadiness
          BY <4>1, <4>4 DEF ComposeReadiness, Goto, InLane, At
        <4>5. QED
          BY <2>4, <4>2, <4>3, <4>4
      <3>2. UNCHANGED <<envs, server>>
        BY <2>4 DEF ComposeGuards, ComposeUp, ComposeReadiness, disk
      <3>3. /\ cmd'.file = cmd.file /\ cmd'.port = cmd.port
            /\ \/ cmd.pc = "port" /\ cmd'.pc = "compose"
               \/ cmd.pc = "compose" /\ cmd'.pc = "ready" /\ cmd.port # ServerPort
               \/ cmd.pc = "ready" /\ cmd'.pc = "connect"
        BY <1>1, <3>1 DEF Cmds
      <3>4. /\ Found(cmd.file) /\ cmd.port \in Ports
            /\ envs[cmd.file] # None
            /\ cmd.port = PortOr(envs[cmd.file].port, DefaultPort)
            /\ cmd.pc \in {"ready", "connect"} => ServerPort # cmd.port
        BY <1>4, <3>3 DEF Discovered
      <3>5. QED
        BY <3>2, <3>3, <3>4 DEF Found, ServerPort
    <2>5. CASE Connect
      <3>1. ~Return(1)
        BY DEF Return, Idle
      <3>2. cmd' = [Idle EXCEPT !.name = "up", !.lane = cmd.lane, !.pc = "schema", !.step = 1,
                                !.target = Dialled]
        BY <2>5, <3>1 DEF Connect
      <3>3. cmd'.pc = "schema"
        BY <3>2 DEF Idle
      <3>4. QED
        BY <3>3
    <2>6. CASE SchemaStep
      <3>1. cmd'.pc = "schema"
        BY <1>1, <2>6 DEF SchemaStep, Return, Idle, Cmds
      <3>2. QED
        BY <3>1
    <2>7. QED
      BY <1>4, <2>1, <2>2, <2>3, <2>4, <2>5, <2>6
         DEF DbStep, EmbeddedPort, Initdb, Start, Ready, EnsureDatabase, StopEmbedded, PurgeData,
             StopCompose, InLane, At
  <1>5. QED
    BY <1>2, <1>3, <1>4, UpStep

\* A step of the schema set-up does what it is in the list for; after the last one the
\* schema is complete.
LEMMA DoneStep ==
    ASSUME NEW s \in Schemas, NEW k \in 1..Len(SchemaSteps), Done(s, k)
    PROVE  /\ k < Len(SchemaSteps) => Done(SchemaAfter(s, SchemaSteps[k]), k + 1)
           /\ k = Len(SchemaSteps) => Complete(SchemaAfter(s, SchemaSteps[k]))
  <1>1. Len(SchemaSteps) = 6 /\ k \in 1..6
    BY DEF SchemaSteps
  <1>2. CASE k = 1
    <2>1. SchemaAfter(s, SchemaSteps[k]) = WithTables(s)
      BY <1>2 DEF SchemaAfter, SchemaSteps
    <2>2. WithTables(s).ns = "hr"
      BY <1>2 DEF WithTables, NoSchema, Done
    <2>3. QED
      BY <1>1, <1>2, <2>1, <2>2 DEF Done
  <1>3. CASE k \in 2..5
    <2>1. SchemaSteps[k] \in Columns
      BY <1>3 DEF SchemaSteps, Columns
    <2>2. SchemaAfter(s, SchemaSteps[k]) = [s EXCEPT !.cols = @ \cup {SchemaSteps[k]}]
      BY <2>1 DEF SchemaAfter, Columns
    <2>3. PICK t : t = SchemaAfter(s, SchemaSteps[k])
      OBVIOUS
    <2>4. t.ns = s.ns /\ t.cols = s.cols \cup {SchemaSteps[k]}
      BY <2>2, <2>3 DEF Schemas
    <2>5. Done(t, k + 1)
      BY <1>3, <2>4 DEF Done
    <2>6. QED
      BY <1>1, <1>3, <2>3, <2>5
  <1>4. CASE k = 6
    <2>1. SchemaAfter(s, SchemaSteps[k]) = [s EXCEPT !.indexed = TRUE]
      BY <1>4 DEF SchemaAfter, SchemaSteps
    <2>2. PICK t : t = SchemaAfter(s, SchemaSteps[k])
      OBVIOUS
    <2>3. t.ns = s.ns /\ t.cols = s.cols /\ t.indexed = TRUE
      BY <2>1, <2>2 DEF Schemas
    <2>4. \A i \in 2..5 : SchemaSteps[i] \in s.cols
      BY <1>4 DEF Done
    <2>5. {"response", "calibration", "status", "contract"} \subseteq s.cols
      BY <2>4, SMT DEF SchemaSteps
    <2>6. s.cols = Columns
      BY <2>5 DEF Schemas, Columns
    <2>7. Complete(t)
      BY <1>4, <2>3, <2>6 DEF Complete, Done
    <2>8. QED
      BY <1>1, <1>4, <2>2, <2>7
  <1>5. QED
    BY <1>1, <1>2, <1>3, <1>4

\* The address db_dsn resolves is that of the backend db-up has chosen.
LEMMA DialsOwn ==
    ASSUME TypeInv, Placement, Discovered, Connect, Dialled # "nothing"
    PROVE  Dialled = IF cmd.lane = "embedded" THEN "cluster" ELSE "volume"
  <1> DEFINE f == DbEnvFile
             p == PortOr(Values(f).port, DefaultPort)
  <1>1. cmd.name = "up" /\ cmd.pc = "connect" /\ cmd.lane \in {"embedded", "compose"}
    BY DEF Connect, TypeInv, CmdTyped, Where
  <1>2. f # None /\ p # None
    BY PortsAssumption DEF Dialled, PortOr
  <1>3. \/ Dialled = "cluster" /\ ServerPort = p
        \/ Dialled = "volume" /\ ContainerPort = p
    BY DEF Dialled
  <1>4. CASE cmd.lane = "embedded"
    <2>1. ContainerPort = None
      BY <1>1, <1>4 DEF Placement, ContainerPort
    <2>2. QED
      BY <1>2, <1>3, <1>4, <2>1
  <1>5. CASE cmd.lane = "compose"
    <2>1. /\ Found(cmd.file) /\ envs[cmd.file] # None
          /\ cmd.port = PortOr(envs[cmd.file].port, DefaultPort) /\ ServerPort # cmd.port
      BY <1>1, <1>5 DEF Discovered
    <2>2. cmd.file \in Candidates
      BY DEF TypeInv, CmdTyped, Cmds
    <2>3. f = cmd.file
      BY <2>1, <2>2 DEF Found, Candidates, DbEnvFile
    <2>4. p = cmd.port
      BY <2>1, <2>3 DEF Values
    <2>5. QED
      BY <1>3, <1>5, <2>1, <2>4
  <1>6. QED
    BY <1>1, <1>4, <1>5

\* What one step of db-up's last stage does to the database it has connected to.
LEMMA TargetStep ==
    ASSUME TypeInv, Based, Connect \/ SchemaStep, NEW t \in {"cluster", "volume"},
           NEW s \in Schemas, OnTarget(t, [Database(t) EXCEPT !.schema = s]), Database(t) # None
    PROVE  Database(t)' # None /\ Database(t)'.schema = s
  <1>1. Database(t) \in Databases
    BY DEF TypeInv, DataTyped, Database
  <1>2. PICK db \in Databases : db = [Database(t) EXCEPT !.schema = s] /\ db.schema = s
    BY <1>1 DEF Databases
  <1>3. Database(t)' = db
    BY <1>2 DEF OnTarget, Database
  <1>4. QED
    BY <1>2, <1>3, NoneAssumption

\* The schema set-up goes on in the database of the backend, a step at a time.
LEMMA ProgressStep ==
    ASSUME TypeInv, Based, Placement, Discovered, Progress, Next
    PROVE  Progress'
  <1>1. cmd \in Cmds /\ Where /\ Steps
    BY DEF TypeInv, CmdTyped
  <1> SUFFICES ASSUME cmd'.name = "up", cmd'.pc = "schema"
               PROVE  /\ cmd'.target = IF cmd'.lane = "embedded" THEN "cluster" ELSE "volume"
                      /\ Database(cmd.target)' # None
                      /\ Done(Database(cmd.target)'.schema, cmd'.step)
    BY DEF Progress, Done
  <1>2. ~Return(1) /\ ~Return(0)
    BY DEF Return, Idle
  <1>3. CASE \E p \in Ports \cup {None}, force \in BOOLEAN : Up(p, force) /\ cmd' # cmd
    <2>1. PICK p \in Ports \cup {None}, force \in BOOLEAN : Up(p, force) /\ cmd' # cmd
      BY <1>3
    <2> DEFINE forced == force /\ UpLane(p) = "compose"
    <2>2. cmd' = [Idle EXCEPT !.name = "up", !.pc = "env", !.lane = UpLane(p), !.arg = p,
                              !.force = forced]
      BY <2>1 DEF Up
    <2> HIDE DEF forced
    <2>3. cmd'.pc = "env"
      BY <2>2 DEF Idle
    <2>4. QED
      BY <2>3
  <1>4. CASE Beside
    <2>1. cmd' = cmd /\ cluster' = cluster /\ volume' = volume
      BY <1>4 DEF Beside, disk
    <2>2. Database(cmd.target)' = Database(cmd.target)
      BY <2>1 DEF Database
    <2>3. QED
      BY <2>1, <2>2 DEF Progress
  <1>5. CASE cmd.name = "up" /\ cmd'.lane = cmd.lane /\ DbStep
    <2>1. CASE EnsureEnv \/ EnvUnlink \/ EnvCreate \/ EnvFill
      <3>1. cmd'.pc # "schema"
        BY <2>1, EnvStepTyped
      <3>2. QED
        BY <3>1
    <2>2. CASE EmbeddedPort \/ Initdb \/ Start \/ Ready \/ EnsureDatabase
               \/ ComposeGuards \/ ComposeUp \/ ComposeReadiness
      <3>1. PICK pc \in {"connect", "initdb", "start", "ready", "createdb", "compose"} : Goto(pc)
        BY <1>2, <2>2 DEF EmbeddedPort, Initdb, Start, Ready, EnsureDatabase, ComposeGuards,
             ComposeUp, ComposeReadiness
      <3>2. cmd'.pc = pc
        BY <1>1, <3>1 DEF Goto, Cmds
      <3>3. QED
        BY <3>2
    <2>3. CASE Connect
      <3> PICK one \in Int : one = 1
        OBVIOUS
      <3> PICK t : t = Dialled
        OBVIOUS
      <3>1. /\ t # "nothing" /\ Database(t).schema.ns # "both"
            /\ OnTarget(t, [Database(t) EXCEPT !.schema = Renamed(@)])
            /\ cmd' = [Idle EXCEPT !.name = "up", !.lane = cmd.lane, !.pc = "schema",
                                   !.step = one, !.target = t]
        BY <1>2, <2>3 DEF Connect
      <3>2. cmd'.target = t /\ cmd'.step = 1
        BY <3>1 DEF Idle
      <3>3. t = IF cmd.lane = "embedded" THEN "cluster" ELSE "volume"
        BY <2>3, <3>1, DialsOwn
      <3>4. t \in {"cluster", "volume"}
        BY <3>3
      <3>5. Database(t) # None
        <4>1. CASE t = "cluster"
          BY <4>1 DEF Dialled, Database, Running
        <4>2. CASE t = "volume"
          <5>1. /\ DbEnvFile # None
                /\ ContainerPort = PortOr(Values(DbEnvFile).port, DefaultPort)
            BY <4>2 DEF Dialled
          <5>2. PortOr(Values(DbEnvFile).port, DefaultPort) # None
            BY PortsAssumption DEF PortOr
          <5>3. container.st = "running"
            BY <5>1, <5>2 DEF ContainerPort
          <5>4. QED
            BY <4>2, <5>3 DEF Based, Database
        <4>3. QED
          BY <3>4, <4>1, <4>2
      <3>6. Database(t) \in Databases /\ Database(t).schema \in Schemas
        <4>1. Database(t) \in Databases
          BY <3>5 DEF TypeInv, DataTyped, Database
        <4>2. QED
          BY <4>1 DEF Databases
      <3>7. PICK s \in Schemas : s = Renamed(Database(t).schema)
        BY <3>6, SchemaTyped
      <3>8. OnTarget(t, [Database(t) EXCEPT !.schema = s])
        BY <3>1, <3>6, <3>7 DEF Databases
      <3>9. Database(t)' # None /\ Database(t)'.schema = s
        BY <2>3, <3>4, <3>5, <3>8, TargetStep
      <3>10. s.ns \in {"none", "hr"}
        BY <3>1, <3>6, <3>7 DEF Renamed, Schemas, Namespaces
      <3>11. Done(s, 1)
        BY <3>10 DEF Done
      <3>12. Database(cmd.target)' = Database(t)'
        BY <3>2 DEF Database
      <3>13. QED
        BY <1>5, <3>2, <3>3, <3>9, <3>11, <3>12
    <2>4. CASE SchemaStep
      <3> PICK t, k : t = cmd.target /\ k = cmd.step
        OBVIOUS
      <3>1. /\ Connected /\ k < Len(SchemaSteps) /\ cmd.pc = "schema"
            /\ OnTarget(t, [Database(t) EXCEPT !.schema = SchemaAfter(@, SchemaSteps[k])])
            /\ cmd' = [cmd EXCEPT !.step = k + 1]
        BY <1>2, <2>4 DEF SchemaStep
      <3>2. k \in 1..Len(SchemaSteps) /\ t \in {"cluster", "volume"}
        BY <1>1, <3>1 DEF Steps
      <3>3. cmd'.target = t /\ cmd'.step = k + 1
        BY <1>1, <3>1 DEF Cmds
      <3>4. /\ t = IF cmd.lane = "embedded" THEN "cluster" ELSE "volume"
            /\ Database(t) # None /\ Done(Database(t).schema, k)
        BY <1>5, <3>1 DEF Progress
      <3>5. Database(t) \in Databases /\ Database(t).schema \in Schemas
        <4>1. Database(t) \in Databases
          BY <3>2, <3>4 DEF TypeInv, DataTyped, Database
        <4>2. QED
          BY <4>1 DEF Databases
      <3>6. PICK s \in Schemas : s = SchemaAfter(Database(t).schema, SchemaSteps[k])
        BY <3>2, <3>5, SchemaTyped
      <3>7. OnTarget(t, [Database(t) EXCEPT !.schema = s])
        BY <3>1, <3>5, <3>6 DEF Databases
      <3>8. Database(t)' # None /\ Database(t)'.schema = s
        BY <2>4, <3>2, <3>4, <3>7, TargetStep
      <3>9. Done(s, k + 1)
        BY <3>1, <3>2, <3>4, <3>5, <3>6, DoneStep
      <3>10. QED
        BY <1>5, <3>3, <3>4, <3>8, <3>9
    <2>5. QED
      BY <1>5, <2>1, <2>2, <2>3, <2>4
         DEF DbStep, StopEmbedded, PurgeData, StopCompose, At
  <1>6. QED
    BY <1>3, <1>4, <1>5, UpStep

\* A finished db-up stays the last command until another one begins.
LEMMA UpResultStep ==
    ASSUME TypeInv, Served, Next, NEW lane \in {"embedded", "compose"}, Succeeded("up", lane)'
    PROVE  \/ SchemaStep /\ Return(0) /\ cmd.lane = lane
           \/ Succeeded("up", lane) /\ cmd = Idle /\ cmd' = cmd /\ UNCHANGED <<cluster, volume>>
  <1>1. result' = [name |-> "up", lane |-> lane, rc |-> 0]
    BY DEF Succeeded
  <1>2. result'.name = "up" /\ result'.lane = lane /\ result'.rc = 0
    BY <1>1
  <1>3. result' # NoResult
    BY <1>2 DEF NoResult
  <1>4. \A rc \in {1, 2} : ~Return(rc) /\ result' # [name |-> cmd.name, lane |-> cmd.lane, rc |-> rc]
    BY <1>2 DEF Return
  <1>5. ASSUME Return(0) \/ result' = [name |-> cmd.name, lane |-> cmd.lane, rc |-> 0]
        PROVE  cmd.name = "up" /\ cmd.lane = lane
    <2>1. result' = [name |-> cmd.name, lane |-> cmd.lane, rc |-> 0]
      BY <1>5 DEF Return
    <2>2. QED
      BY <1>2, <2>1
  <1>6. CASE DbCommand \/ (\E reinstall \in BOOLEAN : Place(reinstall)) \/ Uninstall
             \/ (\E p \in Ports \cup {None} : InstallPost(p))
    <2>1. \/ result' = NoResult
          \/ \E name \in {"up", "down", "uninstall", "install", "place"}, other \in Lanes :
                 result' = [name |-> name, lane |-> other, rc |-> 1]
      BY <1>6 DEF DbCommand, Up, Down, Place, InstallPost, Uninstall, Lanes
    <2>2. QED
      BY <1>2, <1>3, <2>1
  <1>7. CASE result' = result
    <2>1. Succeeded("up", lane) /\ cmd = Idle
      BY <1>1, <1>7 DEF Succeeded, Served
    <2>2. cmd.name = "none" /\ cmd.pc = "idle"
      BY <2>1 DEF Idle
    <2>3. ~DbStep /\ ~InstallStep
      BY <2>2 DEF DbStep, EnsureEnv, EnvUnlink, EnvCreate, EnvFill, WriteEnv, EmbeddedPort, Initdb,
           Start, Ready, EnsureDatabase, ComposeGuards, ComposeUp, ComposeReadiness, Connect,
           SchemaStep, StopEmbedded, PurgeData, StopCompose, InLane, At, InstallStep, PlacePart,
           PlaceShim, PersistPath, EnsurePlugin, SaveReceipt, UninstallStop, RemovePlugin,
           RemovePath, RemoveFiles, RemoveHome
    <2>4. ~Killed /\ ~Crash
      BY <2>2 DEF Killed, Crash
    <2>5. CASE ServerBoots \/ OrphanEnds \/ ServerDies \/ ForeignListens
      BY <2>1, <2>5 DEF ServerBoots, OrphanEnds, ServerDies, ForeignListens, disk
    <2>6. CASE UserEdits
      BY <2>1, <2>6 DEF UserEdits, dbFiles
    <2>7. QED
      BY <1>6, <2>3, <2>4, <2>5, <2>6 DEF Next, Machine
  <1>8. CASE DbStep
    <2>1. result' = result \/ Return(0)
      BY <1>4, <1>8 DEF DbStep, EnsureEnv, EnvUnlink, EnvCreate, EnvFill, WriteEnv, EmbeddedPort,
           Initdb, Start, Ready, EnsureDatabase, ComposeGuards, ComposeUp, ComposeReadiness, Connect,
           SchemaStep, StopEmbedded, PurgeData, StopCompose
    <2>2. CASE Return(0)
      <3>1. cmd.name = "up" /\ cmd.lane = lane
        BY <1>5, <2>2
      <3>2. CASE SchemaStep
        BY <2>2, <3>1, <3>2
      <3>3. CASE StopEmbedded \/ PurgeData \/ StopCompose
        BY <3>1, <3>3 DEF StopEmbedded, PurgeData, StopCompose, At
      <3>4. CASE EnsureEnv \/ EnvUnlink \/ EnvCreate \/ EnvFill \/ Connect
        <4>1. cmd'.name = "none"
          BY <2>2 DEF Return, Idle
        <4>2. ~(EnsureEnv \/ EnvUnlink \/ EnvCreate \/ EnvFill)
          BY <3>1, <4>1, EnvStepTyped
        <4>3. CASE Connect
          <5>1. ~Return(1)
            BY <1>4
          <5>2. cmd' = [Idle EXCEPT !.name = "up", !.lane = cmd.lane, !.pc = "schema", !.step = 1,
                                    !.target = Dialled]
            BY <4>3, <5>1 DEF Connect
          <5>3. cmd'.name = "up"
            BY <5>2 DEF Idle
          <5>4. QED
            BY <4>1, <5>3
        <4>4. QED
          BY <3>4, <4>2, <4>3
      <3>5. CASE \E pc : Goto(pc)
        <4>1. cmd'.name = "none" /\ cmd \in Cmds
          BY <2>2 DEF Return, Idle, TypeInv, CmdTyped
        <4>2. QED
          BY <3>1, <3>5, <4>1 DEF Goto, Cmds
      <3>6. QED
        BY <1>4, <1>8, <3>2, <3>3, <3>4, <3>5
           DEF DbStep, EmbeddedPort, Initdb, Start, Ready, EnsureDatabase, ComposeGuards, ComposeUp,
               ComposeReadiness
    <2>3. QED
      BY <1>7, <2>1, <2>2
  <1>9. CASE InstallStep
    <2>1. cmd.name \in {"place", "install", "uninstall"}
      BY <1>9 DEF InstallStep, PlacePart, PlaceShim, PersistPath, EnsurePlugin, SaveReceipt,
           UninstallStop, RemovePlugin, RemovePath, RemoveFiles, RemoveHome, At
    <2>2. result' = result \/ Return(0)
      BY <1>4, <1>9 DEF InstallStep, PlacePart, PlaceShim, PersistPath, EnsurePlugin, SaveReceipt,
           UninstallStop, RemovePlugin, RemovePath, RemoveFiles, RemoveHome
    <2>3. QED
      BY <1>5, <1>7, <2>1, <2>2
  <1>10. CASE Killed \/ Machine \/ UserEdits
    BY <1>4, <1>7, <1>10 DEF Killed, Machine, Crash, ServerBoots, OrphanEnds, ServerDies,
                             ForeignListens, UserEdits
  <1>11. QED
    BY <1>6, <1>8, <1>9, <1>10 DEF Next

\* A db-up ends with success only after the last step of the schema set-up.
LEMMA ServedStep ==
    ASSUME TypeInv, Based, Progress, Served, Next
    PROVE  Served'
  <1>1. ASSUME NEW lane \in {"embedded", "compose"}, Succeeded("up", lane)'
        PROVE  /\ cmd' = Idle
               /\ lane = "embedded" => cluster' # None /\ Complete(cluster'.schema)
               /\ lane = "compose" => volume' # None /\ Complete(volume'.schema)
    <2>1. CASE SchemaStep /\ Return(0) /\ cmd.lane = lane
      <3> PICK t, k : t = cmd.target /\ k = cmd.step
        OBVIOUS
      <3>1. cmd' = Idle
        BY <2>1 DEF Return
      <3>2. cmd.name = "up" /\ cmd.pc = "schema"
        BY <2>1 DEF SchemaStep
      <3>3. k \in 1..Len(SchemaSteps) /\ t \in {"cluster", "volume"}
        BY <3>2 DEF TypeInv, CmdTyped, Steps
      <3>4. ~Return(1)
        BY <2>1 DEF Return
      <3>5. ~(cmd' = [cmd EXCEPT !.step = @ + 1])
        BY <3>1, <3>2 DEF Idle, TypeInv, CmdTyped, Cmds
      <3>6. /\ OnTarget(t, [Database(t) EXCEPT !.schema = SchemaAfter(@, SchemaSteps[k])])
            /\ k = Len(SchemaSteps)
        BY <2>1, <3>4, <3>5 DEF SchemaStep
      <3>7. /\ t = IF lane = "embedded" THEN "cluster" ELSE "volume"
            /\ Database(t) # None /\ Done(Database(t).schema, k)
        BY <2>1, <3>2 DEF Progress
      <3>8. Database(t) \in Databases /\ Database(t).schema \in Schemas
        <4>1. Database(t) \in Databases
          BY <3>3, <3>7 DEF TypeInv, DataTyped, Database
        <4>2. QED
          BY <4>1 DEF Databases
      <3>9. PICK s \in Schemas : s = SchemaAfter(Database(t).schema, SchemaSteps[k])
        BY <3>3, <3>8, SchemaTyped
      <3>10. OnTarget(t, [Database(t) EXCEPT !.schema = s])
        BY <3>6, <3>8, <3>9 DEF Databases
      <3>11. Database(t)' # None /\ Database(t)'.schema = s
        BY <2>1, <3>3, <3>7, <3>10, TargetStep
      <3>12. Complete(s)
        BY <3>3, <3>6, <3>7, <3>8, <3>9, DoneStep
      <3>13. QED
        BY <3>1, <3>7, <3>11, <3>12 DEF Database
    <2>2. CASE Succeeded("up", lane) /\ cmd = Idle /\ cmd' = cmd /\ UNCHANGED <<cluster, volume>>
      BY <2>2 DEF Served, UpMeansServed
    <2>3. QED
      BY <1>1, <2>1, <2>2, UpResultStep
  <1>2. QED
    BY <1>1 DEF Served, UpMeansServed

\* Nothing is served before the first command.
LEMMA ServedInit ==
    ASSUME Init, ContainersHaveHosts
    PROVE  ServedInv
  <1>1. PICK m \in Machines : DbInit(m)
    BY DEF Init
  <1>2. /\ host = m.host /\ server = None /\ container = m.container /\ cmd = Idle
        /\ result = NoResult
    BY <1>1 DEF DbInit
  <1>3. cmd.name = "none" /\ result.name = "none"
    BY <1>2 DEF Idle, NoResult
  <1>4. Placement
    BY <1>2, <1>3 DEF Placement, ContainersHaveHosts, ComposeReady
  <1>5. Discovered /\ Progress
    BY <1>3 DEF Discovered, Progress
  <1>6. \A lane : ~Succeeded("up", lane)
    BY <1>3 DEF Succeeded
  <1>7. QED
    BY <1>4, <1>5, <1>6 DEF ServedInv, Served, UpMeansServed

\* A db-up that reports success has set up the whole schema in the database of the backend
\* it chose (hr/db_admin.py, db_up), on every machine whose aihr-db container comes with
\* docker and the manifest it was made from: without the manifest a docker/.env that stands
\* all the same sends the embedded db-up to the container's database.
THEOREM ServesTheSchema == Spec /\ ContainersHaveHosts => []UpMeansServed
  <1>1. ASSUME TypeInv, HeldInv, ServedInv, [Next]_vars
        PROVE  ServedInv'
    <2>1. CASE Next
      BY <1>1, <2>1, PlacementStep, DiscoveredStep, ProgressStep, ServedStep DEF ServedInv, HeldInv
    <2>2. CASE UNCHANGED vars
      BY <1>1, <2>2 DEF vars, dbVars, installVars, ServedInv, Placement, Discovered, Progress, Served,
           UpMeansServed, Succeeded, ComposeReady, Found, ServerPort, Database
    <2>3. QED
      BY <1>1, <2>1, <2>2
  <1>2. ServedInv => UpMeansServed
    BY DEF ServedInv, Served
  <1>3. TypeInv /\ HeldInv /\ ServedInv /\ [Next]_vars => ServedInv'
    BY <1>1
  <1>4. Init /\ ContainersHaveHosts => ServedInv
    BY ServedInit
  <1>5. QED
    BY <1>2, <1>3, <1>4, Inductive, PTL DEF Spec

=============================================================================
